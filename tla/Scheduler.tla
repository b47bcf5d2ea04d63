----------------------------- MODULE Scheduler -----------------------------
(***************************************************************************)
(* The test loop that every CPU runs (main.c, test_start from the first    *)
(* barrier on): which test, which window of memory, which CPUs, where the  *)
(* program itself lives meanwhile, and what the user's menu may change in  *)
(* the middle of it.                                                       *)
(*                                                                         *)
(* One action per access to variables other CPUs use at the same time.     *)
(* barrier() is the meeting point of module Rendezvous, which Barrier      *)
(* implements; s_barrier() is the same for the run_cpus selected CPUs.     *)
(*                                                                         *)
(* CPUs are named by their ordinals.  Memory is a row of blocks: the       *)
(* block, not the page, is the unit of pmap, windows and limits.  Block 0  *)
(* is what the BIOS uses below 0x500 and block 1 the rest of low memory.   *)
(***************************************************************************)
EXTENDS Integers, FiniteSets, SequencesExt

CONSTANTS
    N,              \* act_cpus = num_cpus
    Tests,          \* tseq without its terminator: <<[cpu_sel, fade, whole], ...>>
    Pmap,           \* v->pmap: <<[start, end], ...>>, ascending
    WIN_SZ,         \* blocks in a window (2 GB in the code)
    win0_start,     \* first block above 1 MB
    win1_end,       \* end of the window tested from the high copy
    LowBlock,       \* where LOW_TEST_ADR is
    HighBlock,      \* where high_test_adr is
    BarrierBlock,   \* the block taken from pmap[0] for barrier_s (main.c:428)
    TicksPerTest,   \* do_tick calls of one do_test
    Inputs          \* menu entries the user may choose: <<entry, argument...>>

ASSUME SchedulerAssumption ==
    /\ N \in Nat \ {0} /\ WIN_SZ \in Nat \ {0} /\ win0_start \in Nat \ {0}
    /\ Pmap # <<>> /\ Pmap \in Seq([start : Nat, end : Nat])
    /\ Tests \in Seq([cpu_sel : {-1} \cup Nat, fade : BOOLEAN, whole : BOOLEAN])

(* The entries of the menu; a number that is typed is not negative. *)
ASSUME InputsAssumption ==
    \A entry \in Inputs :
        /\ entry[1] \in {"default", "skip", "select", "list", "lower", "upper", "all",
                        "mode", "restart"}
        /\ entry[1] \in {"select", "lower", "upper"} => entry[2] \in Nat
        /\ entry[1] = "list" => entry[3] \in Nat

CPUs == 0 .. N - 1
LOW  == "low"
HIGH == "high"

VARIABLES
    g,              \* the program's globals
    pc,             \* where each CPU is in test_start
    cpu,            \* each CPU's stack and registers
    at,             \* the main barrier, see Rendezvous
    sub,            \* the sub barrier: its size, who waits, who may leave
    mutex,          \* barr->mutex: the CPUs that hold it
    hist            \* what has happened so far; read by properties only

vars == <<g, pc, cpu, at, sub, mutex, hist>>
bars == <<at, sub, mutex>>

Meet == INSTANCE Rendezvous

----------------------------------------------------------------------------
(* Tests and memory.                                                        *)

End == Len(Tests)
Terminator == [cpu_sel |-> 0, fade |-> FALSE, whole |-> TRUE]
T(t) == IF t < End THEN Tests[t + 1] ELSE Terminator           \* tseq[t]

(* There is a test, and a test that is selected is one (config.c:91).       *)
ASSUME TestsAssumption ==
    /\ Tests # <<>>
    /\ \A entry \in Inputs : entry[1] = "select" => entry[2] < End

SmallerOf(a, b) == IF a < b THEN a ELSE b
LargerOf(a, b)  == IF a > b THEN a ELSE b

MemEnd == Pmap[Len(Pmap)].end
Ram == UNION {Pmap[i].start .. Pmap[i].end - 1 : i \in 1 .. Len(Pmap)}

(* The low copy lies below 1 MB and the high copy where the window tested   *)
(* from it ends (main.c:447-479); pmap ascends, and tseq asks for one CPU   *)
(* or for at least as many as there can be.                                 *)
ASSUME PlacesAssumption ==
    /\ LowBlock \in Nat /\ LowBlock < win0_start /\ win0_start <= WIN_SZ
    /\ HighBlock \in Nat /\ win1_end \in Nat
    /\ win1_end <= HighBlock /\ win1_end <= WIN_SZ
    /\ \A i \in DOMAIN Pmap : Pmap[i].end <= MemEnd
    /\ \A i \in DOMAIN Tests : Tests[i].cpu_sel \in {-1, 1} \/ Tests[i].cpu_sel >= N

(* The copies leave no gap, and every test calls do_tick.                   *)
ASSUME CoverAssumption == win0_start <= win1_end /\ TicksPerTest \in Nat \ {0}

(* mapping(): blocks above the first window are seen through an alias. *)
Mapping(b) == IF b < WIN_SZ THEN b ELSE (b % WIN_SZ) + WIN_SZ

(* What an address reaches, with window w mapped in (0: no paging). *)
Reaches(a, w) == IF a < WIN_SZ \/ w = 0 THEN a ELSE w * WIN_SZ + a - WIN_SZ

(* compute_segments(): the parts of pmap in a window and in the limits, as  *)
(* the entries it writes to v->map.                                         *)
Segments(win, plim) ==
    LET lo == LargerOf(win.start, plim.lower)
        hi == SmallerOf(win.end, plim.upper)
        part(i) == [start |-> LargerOf(Pmap[i].start, lo),
                    end   |-> SmallerOf(Pmap[i].end, hi)]
        kept == {i \in DOMAIN Pmap : part(i).start < part(i).end}
        Kept(k) == part(CHOOSE i \in kept : Cardinality({j \in kept : j <= i}) = k)
    IN  [k \in 1 .. Cardinality(kept) |->
            [base  |-> Kept(k).start,
             start |-> IF Kept(k).start = 0 THEN 1 ELSE Mapping(Kept(k).start),
             end   |-> Mapping(Kept(k).end - 1) + 1]]

(* v->map keeps what it held beyond the entries written. *)
Overwrite(map, entries) ==
    [i \in DOMAIN map \cup DOMAIN entries |->
        IF i \in DOMAIN entries THEN entries[i] ELSE map[i]]

(* The windows find_chunks() goes through, in its order. *)
WindowOf(j) == CASE j = 0 -> [start |-> 0, end |-> win1_end]
                 [] j = 1 -> [start |-> win0_start, end |-> WIN_SZ]
                 [] OTHER -> [start |-> (j - 1) * WIN_SZ, end |-> j * WIN_SZ]
LastWindow == MemEnd \div WIN_SZ + 2

(* find_chunks() uses v->map as its scratch pad: it leaves there what the   *)
(* last windows wrote.  ("<<>> @@" makes TLC compute the table only once.)  *)
Limits == [lower : 0 .. MemEnd, upper : 0 .. MemEnd]
Scratch == <<>> @@
    [plim \in Limits |->
        FoldLeft(LAMBDA map, j : Overwrite(map, Segments(WindowOf(j - 1), plim)),
                 <<>>, [j \in 1 .. LastWindow + 1 |-> j])]

FindChunks(map, plim) == Overwrite(map, Scratch[plim])

----------------------------------------------------------------------------
AllOf == [lower |-> 0, upper |-> MemEnd]

(* set_defaults() without its last assignment, restart_flag = 0. *)
SetDefaults(h) ==
    [h EXCEPT !.sel = [t \in 0 .. End - 1 |-> TRUE], !.test = 0, !.ltest = -1,
              !.win_next = 0, !.window = 0, !.bail = FALSE,
              !.cpu_mode = "RROBIN", !.cpu_sel = 0, !.plim = AllOf, !.pass = 0]

(* The state in which start-up leaves the globals, at the 1st barrier. *)
InitGlobals ==
    SetDefaults([test |-> 0, ltest |-> -1, c_iter |-> <<-1, TRUE>>, sel |-> <<>>,
      pass |-> 0, pass_flag |-> FALSE, cpu_mode |-> "RROBIN", cpu_sel |-> 0,
      mstr_cpu |-> 0, run_cpus |-> 0, bitf_seq |-> 0, bitf_sleep |-> FALSE,
      window |-> 0, win_next |-> 0, winx |-> WindowOf(0), segs |-> 0,
      map |-> FindChunks([i \in 1 .. Len(Pmap) |->
                             [base |-> 0, start |-> 0, end |-> 0]], AllOf),
      plim |-> AllOf, bail |-> FALSE, restart_flag |-> FALSE,
      restart_single |-> FALSE])

Init == /\ g = InitGlobals
        /\ pc = [c \in CPUs |-> "first"]
        /\ cpu = [c \in CPUs |-> [loc |-> LOW, run |-> FALSE, k |-> 0, win |-> 0,
                                  iter |-> <<-1, TRUE>>, area |-> {}]]
        /\ at = [c \in CPUs |-> "arrived"]
        /\ sub = [max |-> 0, in |-> {}, out |-> {}]
        /\ mutex = {}
        /\ hist = [covered |-> {}, bailed |-> FALSE, faded |-> {}]

Goto(c, from, to) == pc[c] = from /\ pc' = [pc EXCEPT ![c] = to]

(* barrier(): arrive going to a waiting place; the caller's next step is    *)
(* also its departure.                                                      *)
MeetOpens == Meet!Open /\ UNCHANGED <<g, pc, cpu, sub, mutex, hist>>

(* s_barrier(): a lone CPU passes; otherwise the last of the sub.max CPUs   *)
(* lets all of them go, and nobody enters before all of them have left.     *)
SubArrive(c) ==
    IF g.run_cpus = 1
    THEN sub' = [sub EXCEPT !.out = @ \cup {c}]
    ELSE /\ sub.out = {}
         /\ IF Cardinality(sub.in) + 1 = sub.max
            THEN sub' = [sub EXCEPT !.in = {}, !.out = sub.in \cup {c}]
            ELSE sub' = [sub EXCEPT !.in = @ \cup {c}]
SubDepart(c) == c \in sub.out /\ sub' = [sub EXCEPT !.out = @ \ {c}]

Master(c) == c = g.mstr_cpu

----------------------------------------------------------------------------
(* The top of the loop.                                                     *)

(* if (restart_flag) set_defaults(); by whichever CPU comes by first. *)
Top(c) == /\ Goto(c, "top", IF g.restart_flag THEN "defaults" ELSE "setup")
          /\ UNCHANGED <<g, cpu, bars, hist>>

Defaults(c) == /\ Goto(c, "defaults", "restarted")
               /\ g' = SetDefaults(g)
               /\ UNCHANGED <<cpu, bars, hist>>

Restarted(c) == /\ Goto(c, "restarted", "top")
                /\ g' = [g EXCEPT !.restart_flag = FALSE, !.restart_single = FALSE]
                /\ UNCHANGED <<cpu, bars, hist>>

(* test_setup(): c_iter is a third of the test's iterations on the first    *)
(* pass; it is kept as the test and the kind of pass it was computed for.   *)
NewTest(c) == /\ Goto(c, "setup", IF g.test = g.ltest THEN "while" ELSE "iters")
              /\ g' = [g EXCEPT !.ltest = g.test]
              /\ UNCHANGED <<cpu, bars, hist>>

LoadIters(c) == /\ Goto(c, "iters", "set_iters")
                /\ cpu' = [cpu EXCEPT ![c].iter = <<g.test, g.pass = 0>>]
                /\ UNCHANGED <<g, bars, hist>>

(* ... and find_ticks_for_test() *)
SetIters(c) == /\ Goto(c, "set_iters", "while")
               /\ g' = [g EXCEPT !.c_iter = cpu[c].iter,
                                 !.map = FindChunks(@, g.plim)]
               /\ UNCHANGED <<cpu, bars, hist>>

(* The window loop is left when all windows are done (no model memory       *)
(* reaches MAX_MEM, main.c:596, or a page map_page() refuses, main.c:723).  *)
WindowLoop(c) ==
    \/ /\ g.win_next <= MemEnd + WIN_SZ
       /\ Goto(c, "while", "sched")
       /\ Meet!Arrive(c)
       /\ UNCHANGED <<g, cpu, sub, mutex, hist>>
    \/ /\ g.win_next > MemEnd + WIN_SZ
       /\ Goto(c, "while", "end_win")
       /\ UNCHANGED <<g, cpu, bars, hist>>

----------------------------------------------------------------------------
(* Between the scheduling barrier and the next: window 0 is tested by a     *)
(* copy of the program above it, all others by the copy below them.         *)

(* The bit fade test does not relocate: it starts at window 1. *)
FadeWindow(c) ==
    /\ Goto(c, "sched", "reloc_low")
    /\ Meet!Depart(c)
    /\ g' = [g EXCEPT !.window = IF T(g.test).fade /\ @ = 0 THEN 1 ELSE @]
    /\ UNCHANGED <<cpu, sub, mutex, hist>>

(* Mutants, here and below, are what a bug would make of the definition     *)
(* that follows.  In this one the program stays in the high copy.           *)
RelocLowMutant(c) == Goto(c, "reloc_low", "skip_low") /\ UNCHANGED <<g, cpu, bars, hist>>

RelocLow(c) ==
    /\ Goto(c, "reloc_low", IF g.window # 0 /\ cpu[c].loc # LOW
                            THEN "copy" ELSE "skip_low")
    /\ UNCHANGED <<g, cpu, bars, hist>>

(* Nothing to test in window 0: the check and the increment. *)
SkipLow(c) ==
    /\ Goto(c, "skip_low", IF g.window = 0 /\ g.plim.lower >= win0_start
                           THEN "next_window" ELSE "reloc_high")
    /\ UNCHANGED <<g, cpu, bars, hist>>

NextWindow(c) == /\ Goto(c, "next_window", "reloc_high")
                 /\ g' = [g EXCEPT !.window = @ + 1]
                 /\ UNCHANGED <<cpu, bars, hist>>

RelocHigh(c) ==
    /\ Goto(c, "reloc_high", IF g.window = 0 /\ cpu[c].loc = LOW
                             THEN "copy" ELSE "pick")
    /\ UNCHANGED <<g, cpu, bars, hist>>

(* run_at(): CPU 0 copies the program and its globals; all meet; one CPU at *)
(* a time takes barr->mutex, jumps and goes through the start of            *)
(* test_start, which gives the mutex back; all meet again.                  *)
Target(c) == IF cpu[c].loc = LOW THEN HIGH ELSE LOW

Copy(c) == /\ Goto(c, "copy", "copied")
           /\ Meet!Arrive(c)
           /\ UNCHANGED <<g, cpu, sub, mutex, hist>>

(* Mutant: nobody waits for barr->mutex. *)
TakeMutexMutant(c) == /\ Goto(c, "copied", "jump")
                      /\ Meet!Depart(c)
                      /\ UNCHANGED <<g, cpu, sub, mutex, hist>>

TakeMutex(c) == /\ Goto(c, "copied", "jump")
                /\ Meet!Depart(c)
                /\ N > 1 => mutex = {}
                /\ mutex' = IF N > 1 THEN {c} ELSE mutex
                /\ UNCHANGED <<g, cpu, sub, hist>>

(* Mutant: only the CPU that copied the program goes to the copy. *)
JumpMutant(c) == /\ Goto(c, "jump", "startup")
                 /\ cpu' = [cpu EXCEPT ![c].loc = IF c = 0 THEN Target(c) ELSE @]
                 /\ UNCHANGED <<g, bars, hist>>

Jump(c) == /\ Goto(c, "jump", "startup")
           /\ cpu' = [cpu EXCEPT ![c].loc = Target(c)]
           /\ UNCHANGED <<g, bars, hist>>

Startup(c) == /\ Goto(c, "startup", "first")
              /\ Meet!Arrive(c)
              /\ mutex' = IF N > 1 THEN {} ELSE mutex
              /\ UNCHANGED <<g, cpu, sub, hist>>

FirstBarrier(c) == /\ Goto(c, "first", "top")
                   /\ Meet!Depart(c)
                   /\ UNCHANGED <<g, cpu, sub, mutex, hist>>

(* Mutant: with CPM_ALL every CPU runs, also a test for one CPU at a time. *)
PickCpuMutant(c) ==
    LET sel   == T(g.test).cpu_sel
        few   == SmallerOf(N, sel)
        lone  == g.cpu_mode # "ALL" \/ sel = -1
        mine  == c = g.cpu_sel
    IN  /\ Goto(c, "pick", "picked")
        /\ Meet!Arrive(c)
        /\ cpu' = [cpu EXCEPT ![c].run = mine \/ g.cpu_mode = "ALL"]
        /\ g' = IF ~lone THEN [g EXCEPT !.mstr_cpu = few - 1, !.run_cpus = few]
                ELSE IF mine THEN [g EXCEPT !.mstr_cpu = c, !.run_cpus = 1]
                ELSE g
        /\ UNCHANGED <<sub, mutex, hist>>

(* Decide which CPUs run the test in this window, and who their master is. *)
PickCpu(c) ==
    LET sel   == T(g.test).cpu_sel
        few   == SmallerOf(N, sel)
        lone  == g.cpu_mode # "ALL" \/ sel = -1
        mine  == c = g.cpu_sel
    IN  /\ Goto(c, "pick", "picked")
        /\ Meet!Arrive(c)
        /\ cpu' = [cpu EXCEPT ![c].run = IF lone THEN mine ELSE c < sel]
        /\ g' = IF ~lone THEN [g EXCEPT !.mstr_cpu = few - 1, !.run_cpus = few]
                ELSE IF mine THEN [g EXCEPT !.mstr_cpu = c, !.run_cpus = 1]
                ELSE g
        /\ UNCHANGED <<sub, mutex, hist>>

(* Mutant: CPUs that are not selected leave before the second barrier. *)
SubInitMutant(c) ==
    /\ Goto(c, "picked", IF cpu[c].run THEN "sub_ready" ELSE "while")
    /\ Meet!Depart(c)
    /\ sub' = IF Master(c) THEN [max |-> g.run_cpus, in |-> {}, out |-> {}] ELSE sub
    /\ UNCHANGED <<g, cpu, mutex, hist>>

(* s_barrier_init() by the master, then a barrier before anyone uses it. *)
SubInit(c) == /\ Goto(c, "picked", "sub_ready")
              /\ Meet!Depart(c)
              /\ sub' = IF Master(c) THEN [max |-> g.run_cpus, in |-> {}, out |-> {}]
                                     ELSE sub
              /\ UNCHANGED <<g, cpu, mutex, hist>>

SubReady(c) == /\ Goto(c, "sub_ready", "ready")
               /\ Meet!Arrive(c)
               /\ UNCHANGED <<g, cpu, sub, mutex, hist>>

(* The CPUs that are not selected go back to the scheduling barrier. *)
Selected(c) == /\ Goto(c, "ready", IF ~cpu[c].run THEN "while"
                                   ELSE IF Master(c) THEN "window" ELSE "segments")
               /\ Meet!Depart(c)
               /\ UNCHANGED <<g, cpu, sub, mutex, hist>>

----------------------------------------------------------------------------
(* One window.                                                              *)

(* The master takes the next window ... *)
TakeWindow(c) ==
    /\ Goto(c, "window", "compute")
    /\ g' = CASE g.window = 0 ->
                    [g EXCEPT !.winx = [start |-> 0, end |-> win1_end], !.window = 1]
              [] g.window = 1 ->
                    [g EXCEPT !.winx = [start |-> win0_start, end |-> WIN_SZ],
                              !.win_next = WIN_SZ, !.window = 2]
              [] OTHER ->
                    [g EXCEPT !.winx = [start |-> g.win_next,
                                        end   |-> g.win_next + WIN_SZ],
                              !.win_next = @ + WIN_SZ]
    /\ UNCHANGED <<cpu, bars, hist>>

(* ... and lists the memory in it.  Mutant: the last segment gets lost. *)
ComputeMutant(c) ==
    LET entries == Segments(g.winx, g.plim)
    IN  /\ Goto(c, "compute", "segments")
        /\ g' = [g EXCEPT !.segs = LargerOf(Len(entries) - 1, 0),
                          !.map = Overwrite(@, entries)]
        /\ UNCHANGED <<cpu, bars, hist>>

Compute(c) ==
    LET entries == Segments(g.winx, g.plim)
    IN  /\ Goto(c, "compute", "segments")
        /\ g' = [g EXCEPT !.segs = Len(entries), !.map = Overwrite(@, entries)]
        /\ UNCHANGED <<cpu, bars, hist>>

WaitSegments(c) == /\ Goto(c, "segments", "segments_bar")
                   /\ SubArrive(c)
                   /\ UNCHANGED <<g, cpu, at, mutex, hist>>

(* A test that divides the memory among its CPUs begins with s_barrier();   *)
(* one in which every CPU tests the whole does not wait.                    *)
Begin == IF T(g.test).whole THEN "load" ELSE "sync"

(* No memory in this window: skip it.  Otherwise map_page() it in. *)
MapWindow(c) ==
    /\ Goto(c, "segments_bar", IF g.segs = 0 THEN "while"
                               ELSE IF Master(c) THEN "prepare" ELSE Begin)
    /\ SubDepart(c)
    /\ cpu' = [cpu EXCEPT ![c].win = IF g.segs = 0 THEN 0
                                     ELSE g.map[1].base \div WIN_SZ,
                          ![c].k = 0]
    /\ UNCHANGED <<g, at, mutex, hist>>

(* do_test(): from the high copy the master extends the first segment down  *)
(* to the lower limit, then out of the BIOS's block again (USB_WAR).        *)
Prepare(c) ==
    /\ Goto(c, "prepare", IF cpu[c].loc = HIGH THEN "prepared" ELSE Begin)
    /\ g' = [g EXCEPT !.map[1].start =
                IF cpu[c].loc = HIGH THEN Mapping(g.plim.lower) ELSE @]
    /\ UNCHANGED <<cpu, bars, hist>>

Prepared(c) == /\ Goto(c, "prepared", Begin)
               /\ g' = [g EXCEPT !.map[1].start = IF @ < 1 THEN 1 ELSE @]
               /\ UNCHANGED <<cpu, bars, hist>>

Sync(c) == /\ Goto(c, "sync", "synced")
           /\ SubArrive(c)
           /\ UNCHANGED <<g, cpu, at, mutex, hist>>

Synced(c) == /\ Goto(c, "synced", "load")
             /\ SubDepart(c)
             /\ UNCHANGED <<g, cpu, at, mutex, hist>>

(* The stages of bit fade: fill, sleep, check, twice, and one that does     *)
(* nothing.  It sleeps once for all the windows of a stage.                 *)
Fade == T(g.test).fade
Filling  == Fade /\ g.bitf_seq \in {0, 3}
Sleeping == Fade /\ g.bitf_seq \in {1, 4}
Checking == Fade /\ g.bitf_seq \in {2, 5}

Ticks == IF Fade /\ (g.bitf_seq = 6 \/ (Sleeping /\ ~g.bitf_sleep))
         THEN 0 ELSE TicksPerTest

(* calculate_chunk(): the part of a segment that falls to this CPU.  It is  *)
(* all of it for a lone CPU and in the tests that do not call it; what is   *)
(* left over by the division goes to the master, the last of its CPUs.      *)
Whole == g.run_cpus = 1 \/ T(g.test).whole

(* Mutant: nobody tests what is left over.                                  *)
ChunkMutant(seg, c) ==
    LET size  == (seg.end - seg.start) \div g.run_cpus
        first == seg.start + size * c
    IN  IF Whole THEN seg.start .. seg.end - 1 ELSE first .. first + size - 1

Chunk(seg, c) ==
    LET size  == (seg.end - seg.start) \div g.run_cpus
        first == seg.start + size * c
    IN  IF Whole THEN seg.start .. seg.end - 1
        ELSE first .. (IF Master(c) THEN seg.end ELSE first + size) - 1

(* The blocks this CPU tests of v->map[0 .. segs-1], as it sees them.       *)
Area(c) == UNION {{Reaches(a, cpu[c].win) : a \in Chunk(g.map[i], c)} :
                      i \in 1 .. g.segs}

(* A test reads v->map for the next stretch of memory, calls do_tick, and   *)
(* then works on that stretch.                                              *)
Load(c) ==
    /\ \/ /\ cpu[c].k < Ticks
          /\ Goto(c, "load", "tick")
          /\ cpu' = [cpu EXCEPT ![c].area = IF Sleeping THEN {}
                                            ELSE Area(c)]
       \/ /\ cpu[c].k >= Ticks
          /\ Goto(c, "load", "done")
          /\ UNCHANGED cpu
    /\ UNCHANGED <<g, bars, hist>>

----------------------------------------------------------------------------
(* get_config(): one menu entry.  Entries that change nothing a test can    *)
(* see (print mode, refresh, reports) are left out.                         *)

SelectAll == [t \in 0 .. End - 1 |-> TRUE]

(* New limits restart the test that is running.  Mutant: it goes on.        *)
LimitMutant(lower, upper) ==
    LET plim == [lower |-> lower, upper |-> upper]
    IN  [g EXCEPT !.plim = plim, !.restart_single = TRUE, !.map = FindChunks(@, plim)]

Limit(lower, upper) ==
    LET plim == [lower |-> lower, upper |-> upper]
    IN  [g EXCEPT !.plim = plim, !.restart_single = TRUE, !.bail = TRUE,
                  !.map = FindChunks(@, plim)]

Menu(entry) ==
    CASE entry[1] = "default" ->
           [g EXCEPT !.sel = SelectAll, !.map = FindChunks(@, g.plim)]
      [] entry[1] = "skip" ->
           [g EXCEPT !.bail = TRUE]
      [] entry[1] = "select" ->
           [g EXCEPT !.sel = [t \in 0 .. End - 1 |-> t = entry[2]], !.pass = -1,
                     !.test = entry[2], !.restart_single = TRUE,
                     !.map = FindChunks(@, g.plim), !.bail = TRUE]
      [] entry[1] = "list" ->
           [g EXCEPT !.sel = [t \in 0 .. End - 1 |-> entry[2] = {} \/ t \in entry[2]],
                     !.pass = -1, !.test = entry[3], !.map = FindChunks(@, g.plim),
                     !.bail = TRUE]
      [] entry[1] = "lower" ->
           IF entry[2] + 1 <= g.plim.upper THEN Limit(entry[2], g.plim.upper) ELSE g
      [] entry[1] = "upper" ->
           IF entry[2] = 0 \/ entry[2] - 1 >= g.plim.lower    \* page - 1 wraps
           THEN Limit(g.plim.lower, entry[2]) ELSE g
      [] entry[1] = "all" ->
           Limit(0, MemEnd)
      [] entry[1] = "mode" ->
           [g EXCEPT !.bail = @ \/ g.cpu_mode # entry[2], !.cpu_mode = entry[2]]
      [] entry[1] = "restart" ->
           [g EXCEPT !.restart_flag = TRUE, !.bail = TRUE]

(* check_input(): usually there is no key. *)
CheckInput == /\ g' \in {g} \cup {Menu(entry) : entry \in Inputs}
              /\ hist' = [hist EXCEPT !.bailed = @ \/ g'.bail]

----------------------------------------------------------------------------
(* do_tick() and the memory accesses.                                       *)

Tick(c) == /\ Goto(c, "tick", "tick_bar")
           /\ IF Master(c) THEN CheckInput ELSE UNCHANGED <<g, hist>>
           /\ UNCHANGED <<cpu, bars>>

WaitTick(c) == /\ Goto(c, "tick_bar", "ticked")
               /\ SubArrive(c)
               /\ UNCHANGED <<g, cpu, at, mutex, hist>>

TickDone(c) == /\ Goto(c, "ticked", "bailr")
               /\ SubDepart(c)
               /\ UNCHANGED <<g, cpu, at, mutex, hist>>

(* BAILR *)
Bail(c) == /\ Goto(c, "bailr", IF g.bail THEN "done" ELSE "access")
           /\ UNCHANGED <<g, cpu, bars, hist>>

(* The blocks are written, or (in the check stages of bit fade) read.       *)
Access(c) ==
    /\ Goto(c, "access", "load")
    /\ cpu' = [cpu EXCEPT ![c].k = @ + 1]
    /\ hist' = [hist EXCEPT !.covered = @ \cup cpu[c].area,
                            !.faded = IF Filling THEN @ \cup cpu[c].area
                                      ELSE IF Fade THEN @ ELSE {}]
    /\ UNCHANGED <<g, bars>>

(* The test function returns; paging_off(). *)
Done(c) == /\ Goto(c, "done", "while")
           /\ cpu' = [cpu EXCEPT ![c].win = 0, ![c].area = {}]
           /\ g' = [g EXCEPT !.bitf_sleep = IF Filling THEN TRUE
                                            ELSE IF Sleeping THEN FALSE ELSE @]
           /\ UNCHANGED <<bars, hist>>

----------------------------------------------------------------------------
(* The end of a test.                                                       *)

(* Mutant: only the master waits for the others. *)
EndWindowsMutant(c) == /\ Goto(c, "end_win", IF Master(c) THEN "end_bar" ELSE "top")
                       /\ IF Master(c) THEN SubArrive(c) ELSE UNCHANGED sub
                       /\ UNCHANGED <<g, cpu, at, mutex, hist>>

EndWindows(c) == /\ Goto(c, "end_win", "end_bar")
                 /\ SubArrive(c)
                 /\ UNCHANGED <<g, cpu, at, mutex, hist>>

(* Mutant: the next test goes on with the last window. *)
ResetWindowsMutant(c) == /\ Goto(c, "end_bar", IF Master(c) THEN "house" ELSE "top")
                         /\ SubDepart(c)
                         /\ g' = [g EXCEPT !.win_next = 0, !.bail = FALSE]
                         /\ UNCHANGED <<cpu, at, mutex, hist>>

ResetWindows(c) == /\ Goto(c, "end_bar", IF Master(c) THEN "house" ELSE "top")
                   /\ SubDepart(c)
                   /\ g' = [g EXCEPT !.win_next = 0, !.window = 0, !.bail = FALSE]
                   /\ UNCHANGED <<cpu, at, mutex, hist>>

(* The rest is the master's housekeeping. *)
HouseInput(c) == /\ Goto(c, "house", "advance")
                 /\ CheckInput
                 /\ UNCHANGED <<cpu, bars>>

(* What the properties remember of a test ends with it. *)
TestOver(faded) == hist' = [hist EXCEPT !.covered = {}, !.bailed = FALSE,
                                        !.faded = faded]

RestartTest(c) ==
    /\ g.restart_single
    /\ Goto(c, "advance", "end_pass")
    /\ g' = [g EXCEPT !.bitf_seq = 0, !.cpu_sel = 0, !.restart_single = FALSE,
                      !.ltest = -1]
    /\ TestOver({})
    /\ UNCHANGED <<cpu, bars>>

(* The next stage of bit fade, over all windows again; bail stays as it is. *)
NextStage(c) ==
    /\ ~g.restart_single /\ Fade /\ g.bitf_seq < 6
    /\ Goto(c, "advance", "top")
    /\ g' = [g EXCEPT !.bitf_seq = @ + 1]
    /\ TestOver(IF g.bitf_seq = 2 THEN {} ELSE hist.faded)
    /\ UNCHANGED <<cpu, bars>>

(* The next CPU, the next test, or both. *)
Advance(c) ==
    LET each == g.cpu_mode = "ALL" /\ T(g.test).cpu_sel = -1
        next == IF g.cpu_mode = "ALL" /\ ~each THEN g.cpu_sel
                ELSE IF g.cpu_sel + 1 >= N THEN 0 ELSE g.cpu_sel + 1
        same == (g.cpu_mode = "SEQ" \/ each) /\ next # 0
    IN  /\ ~g.restart_single /\ ~(Fade /\ g.bitf_seq < 6)
        /\ Goto(c, "advance", IF ~same THEN "next_test"
                              ELSE IF each THEN "top" ELSE "end_pass")
        /\ g' = [g EXCEPT !.bitf_seq = 0, !.cpu_sel = next]
        /\ TestOver({})
        /\ UNCHANGED <<cpu, bars>>

(* next_test(): the next selected test, through values other CPUs can see. *)
Unselected == g.test < End /\ ~g.sel[g.test]

NextTest(c) == /\ Goto(c, "next_test", "scan")
               /\ g' = [g EXCEPT !.test = @ + 1]
               /\ UNCHANGED <<cpu, bars, hist>>

(* Mutant: the search does not start again from the first test. *)
ScanMutant(c) == /\ Goto(c, "scan", IF Unselected THEN "scan" ELSE "end_pass")
                 /\ g' = IF Unselected THEN [g EXCEPT !.test = @ + 1]
                         ELSE IF g.test < End THEN g
                         ELSE [g EXCEPT !.pass_flag = TRUE]
                 /\ UNCHANGED <<cpu, bars, hist>>

Scan(c) == /\ Goto(c, "scan", IF Unselected THEN "scan"
                              ELSE IF g.test < End THEN "end_pass" ELSE "rescan")
           /\ g' = IF Unselected THEN [g EXCEPT !.test = @ + 1]
                   ELSE IF g.test < End THEN g
                   ELSE [g EXCEPT !.pass_flag = TRUE, !.test = 0]
           /\ UNCHANGED <<cpu, bars, hist>>

Rescan(c) == /\ Goto(c, "rescan", IF Unselected THEN "rescan" ELSE "end_pass")
             /\ g' = IF Unselected THEN [g EXCEPT !.test = @ + 1] ELSE g
             /\ UNCHANGED <<cpu, bars, hist>>

(* v->pass matters as -1 (a new selection), 0 (the first pass) or more.     *)
EndPass(c) ==
    /\ Goto(c, "end_pass", IF g.pass # -1 /\ g.pass_flag THEN "new_pass" ELSE "unbail")
    /\ g' = IF g.pass = -1 THEN [g EXCEPT !.pass = 0]
            ELSE IF g.pass_flag
                 THEN [g EXCEPT !.pass_flag = FALSE, !.pass = 1,
                                !.map = FindChunks(@, g.plim)]
                 ELSE g
    /\ UNCHANGED <<cpu, bars, hist>>

(* Mutant: the iterations of the first pass are kept. *)
NewPassMutant(c) == Goto(c, "new_pass", "unbail") /\ UNCHANGED <<g, cpu, bars, hist>>

NewPass(c) == /\ Goto(c, "new_pass", "unbail")
              /\ g' = [g EXCEPT !.ltest = -1]
              /\ UNCHANGED <<cpu, bars, hist>>

Unbail(c) == /\ Goto(c, "unbail", "top")
             /\ g' = [g EXCEPT !.bail = FALSE]
             /\ UNCHANGED <<cpu, bars, hist>>

----------------------------------------------------------------------------
Step(c) ==
    \/ Top(c) \/ Defaults(c) \/ Restarted(c)
    \/ NewTest(c) \/ LoadIters(c) \/ SetIters(c) \/ WindowLoop(c)
    \/ FadeWindow(c) \/ RelocLow(c) \/ SkipLow(c) \/ NextWindow(c) \/ RelocHigh(c)
    \/ Copy(c) \/ TakeMutex(c) \/ Jump(c) \/ Startup(c) \/ FirstBarrier(c)
    \/ PickCpu(c) \/ SubInit(c) \/ SubReady(c) \/ Selected(c)
    \/ TakeWindow(c) \/ Compute(c) \/ WaitSegments(c) \/ MapWindow(c)
    \/ Prepare(c) \/ Prepared(c) \/ Sync(c) \/ Synced(c) \/ Load(c)
    \/ Tick(c) \/ WaitTick(c) \/ TickDone(c) \/ Bail(c) \/ Access(c) \/ Done(c)
    \/ EndWindows(c) \/ ResetWindows(c)
    \/ HouseInput(c) \/ RestartTest(c) \/ NextStage(c) \/ Advance(c)
    \/ NextTest(c) \/ Scan(c) \/ Rescan(c)
    \/ EndPass(c) \/ NewPass(c) \/ Unbail(c)

Next == MeetOpens \/ \E c \in CPUs : Step(c)

(* The machine does not stop while any CPU can take a step.  No CPU is ever *)
(* suspended, so fairness to each of them would be justified too; this      *)
(* weaker assumption is enough.                                             *)
Spec == Init /\ [][Next]_vars /\ WF_vars(Next)

----------------------------------------------------------------------------
Labels ==
    {"top", "defaults", "restarted", "setup", "iters", "set_iters", "while",
     "sched", "reloc_low", "skip_low", "next_window", "reloc_high", "copy",
     "copied", "jump", "startup", "first", "pick", "picked", "sub_ready",
     "ready", "window", "compute", "segments", "segments_bar", "prepare",
     "prepared", "sync", "synced", "load", "tick", "tick_bar", "ticked", "bailr",
     "access", "done", "end_win", "end_bar", "house", "advance", "next_test", "scan",
     "rescan", "end_pass", "new_pass", "unbail"}

Iters == (-1 .. End) \X BOOLEAN
Entry == [base : 0 .. MemEnd, start : 0 .. 2 * WIN_SZ, end : 0 .. 2 * WIN_SZ]

TypeOK ==
    /\ g.test \in 0 .. End /\ g.ltest \in -1 .. End /\ g.c_iter \in Iters
    /\ g.sel \in [0 .. End - 1 -> BOOLEAN]
    /\ g.pass \in -1 .. 1 /\ g.pass_flag \in BOOLEAN
    /\ g.cpu_mode \in {"RROBIN", "SEQ", "ALL"} /\ g.cpu_sel \in CPUs
    /\ g.mstr_cpu \in CPUs /\ g.run_cpus \in 0 .. N
    /\ g.bitf_seq \in 0 .. 6 /\ g.bitf_sleep \in BOOLEAN
    /\ g.window \in 0 .. 1 + N /\ g.win_next \in 0 .. MemEnd + 2 * WIN_SZ
    /\ g.segs \in 0 .. Len(Pmap) /\ g.map \in [1 .. Len(Pmap) -> Entry]
    /\ g.plim \in Limits
    /\ \A f \in {"bail", "restart_flag", "restart_single"} : g[f] \in BOOLEAN
    /\ pc \in [CPUs -> Labels]
    /\ at \in [CPUs -> Meet!Places]
    /\ sub \in [max : 0 .. N, in : SUBSET CPUs, out : SUBSET CPUs]
    /\ mutex \in SUBSET CPUs

(* The block the program occupies, for each CPU that executes it. *)
CodeBlock(c) == IF cpu[c].loc = LOW THEN LowBlock ELSE HighBlock

Testing == {c \in CPUs : pc[c] = "access"}

(* A lone CPU never touches memory beyond the limits, though they change in *)
(* the middle of a test and the high copy reaches down to the lower one     *)
(* (main.c:874), nor the BIOS's block (main.c:710, main.c:877).             *)
KeepsToLimits ==
    \A c \in Testing : /\ cpu[c].area \subseteq g.plim.lower .. g.plim.upper - 1
                       /\ 0 \notin cpu[c].area

(* A test never touches the copy of the program that any CPU is executing,  *)
(* though CPUs enter and leave windows and copies at their own pace         *)
(* (README.background; main.c:607-616).                                     *)
NeverTestsItself ==
    \A c \in Testing, d \in CPUs : CodeBlock(d) \notin cpu[c].area

(* The copy made by run_at never lands on code a CPU is still executing     *)
(* (main.c:210 "Be careful to not overlap!").                               *)
CopiesToFreePlace ==
    pc[0] = "copy" => \A c \in CPUs : cpu[c].loc = cpu[0].loc

(* Barriers meet in pairs of calls: CPUs that wait for each other wait at   *)
(* the same call of barrier(), in every window, test and relocation.        *)
SameBarrier ==
    \A c, d \in CPUs : at[c] = "arrived" /\ at[d] = "arrived" => pc[c] = pc[d]

(* The start-up code, which is not thread safe, is run by one CPU at a time *)
(* (main.c:225-228).                                                        *)
StartupExclusive ==
    N > 1 => Cardinality({c \in CPUs : pc[c] \in {"jump", "startup"}}) <= 1

(* Exactly the CPUs that will come are counted: while anybody tests, those  *)
(* who test or are about to number run_cpus, by which calculate_chunk       *)
(* divides (test.c:54) and for which s_barrier waits, the master is one of  *)
(* them, and their ordinals are the shares 0, 1, ... (test.c:61-66).        *)
InTestOf == {c \in CPUs : pc[c] \in {"prepare", "prepared", "sync", "synced", "load",
                                     "tick", "tick_bar", "ticked", "bailr", "access"}}
TestersCounted ==
    LET team == {c \in CPUs : cpu[c].run}
    IN  InTestOf # {} =>
            /\ InTestOf \subseteq team
            /\ Cardinality(team) = g.run_cpus
            /\ g.mstr_cpu \in team
            /\ g.run_cpus > 1 => team = 0 .. g.mstr_cpu

(* Everything between the limits has been tested when a test that nobody    *)
(* interrupted ends, the code's own place included: that is what the        *)
(* relocation is for.  Bit fade starts at window 1 and sleeps in between.   *)
ToCover == {b \in Ram \ {0} : /\ g.plim.lower <= b /\ b < g.plim.upper
                              /\ Fade => b >= win0_start}
FullCoverage ==
    \A c \in CPUs : pc[c] = "advance" /\ ~hist.bailed /\ ~Sleeping /\ g.bitf_seq < 6
                       => ToCover \subseteq hist.covered

(* A check of bit fade looks at memory that the fill before it wrote        *)
(* (main.c:1017-1046).                                                      *)
FadeChecksFilled ==
    \A c \in Testing : Checking => cpu[c].area \subseteq hist.faded

(* A test runs with the iterations of this test in this pass. *)
ItersRight ==
    \A c \in Testing : g.c_iter = <<g.test, g.pass = 0>>

(* Nobody waits for ever: every CPU keeps coming back to the scheduling     *)
(* barrier, whatever is selected, relocated or restarted (main.c:590-593).  *)
KeepsScheduling == \A c \in CPUs : []<>(pc[c] = "sched")

(* The master has taken a key that ends the test while another CPU has not  *)
(* yet looked at bail after the tick before (error.c:446-457).              *)
KeyOvertakes ==
    /\ g.bail /\ pc[g.mstr_cpu] = "tick_bar"
    /\ \E c \in CPUs \ {g.mstr_cpu} :
           pc[c] = "bailr" \/ (pc[c] = "ticked" /\ c \in sub.out)

(* ... and in a test that several CPUs run, that is the only way in which   *)
(* they can come to wait for ever.                                          *)
StopsOnlyOvertaken == KeepsScheduling \/ <>KeyOvertakes

=============================================================================
