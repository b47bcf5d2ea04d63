---------------------------- MODULE MCScheduler ----------------------------
(***************************************************************************)
(* Instances of Scheduler for TLC.  Nine blocks of memory in two segments: *)
(*                                                                         *)
(*   0 BIOS   1 low copy | 2 barrier page and hole | 3 1 MB   4 high copy  *)
(*   5 .. 8 the rest, with the end of the first window at 6                *)
(***************************************************************************)
EXTENDS Scheduler

TwoSegments == <<[start |-> 0, end |-> 2], [start |-> 3, end |-> 9]>>

(* One test of each kind: on every CPU in turn, on all of them together,    *)
(* and bit fade, on one CPU.                                                *)
InTurn   == [cpu_sel |-> -1, fade |-> FALSE, whole |-> TRUE]
Parallel == [cpu_sel |-> 32, fade |-> FALSE, whole |-> FALSE]
BitFade  == [cpu_sel |-> 1,  fade |-> TRUE,  whole |-> TRUE]

ThreeTests == <<InTurn, Parallel, BitFade>>
TwoTests   == <<InTurn, Parallel>>
ParallelOnly == <<Parallel>>
FadeOnly   == <<BitFade>>

(* What the user may choose from the menu, at any tick. *)
AnyInput == {<<"skip">>, <<"select", 1>>, <<"lower", 2>>, <<"lower", 5>>,
             <<"upper", 5>>, <<"all">>, <<"restart">>}
Interruptions == {<<"restart">>, <<"lower", 3>>}
Modes         == {<<"mode", "ALL">>, <<"mode", "SEQ">>}
ParallelSkip  == {<<"mode", "ALL">>, <<"skip">>}
DefaultTests  == {<<"default">>}
SkipTest      == {<<"skip">>}

=============================================================================
