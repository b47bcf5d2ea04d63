-------------------------- MODULE Scheduler_proofs --------------------------
(***************************************************************************)
(* Proofs about the test loop, for every number of CPUs, every list of     *)
(* tests, every memory map and every input: the start-up code of a         *)
(* relocated copy is run by one CPU at a time; a stretch of memory that    *)
(* lies within one window is seen through that window as itself; between   *)
(* two barriers all CPUs are in the same stage, and each stage knows which *)
(* copy of the program is executed and which barrier comes next.           *)
(***************************************************************************)
EXTENDS Scheduler, FiniteSetTheorems, TLAPS

SafeSpec == Init /\ [][Next]_vars

(* Where each CPU is, and who may be between taking barr->mutex (main.c:226) *)
(* and giving it back (main.c:499): nobody but its holder.                  *)
Located == pc \in [CPUs -> Labels]

Entering == {c \in CPUs : pc[c] \in {"jump", "startup"}}

HeldByEntering == N > 1 => \A c \in Entering : mutex = {c}

IInv == Located /\ HeldByEntering

LEMMA InitInv == Init => IInv
  BY DEF Init, IInv, Located, HeldByEntering, Entering, Labels

(* A step that neither comes from the start-up code nor goes there, and     *)
(* leaves barr->mutex alone.                                                *)
LEMMA Elsewhere ==
    ASSUME IInv, NEW c \in CPUs, NEW from, NEW to,
           Goto(c, from, to), to \in Labels \ {"jump", "startup"},
           UNCHANGED mutex
    PROVE  IInv'
  <1>1. Located'
    BY DEF IInv, Located, Goto
  <1>2. Entering' \subseteq Entering
    BY DEF IInv, Located, Goto, Entering
  <1> QED BY <1>1, <1>2 DEF IInv, HeldByEntering

(* The CPU that takes the mutex finds it free, so nobody is inside. *)
LEMMA TakeMutexInv == ASSUME IInv, NEW c \in CPUs, TakeMutex(c) PROVE IInv'
  <1>1. Located'
    BY DEF IInv, Located, TakeMutex, Goto, Labels
  <1>2. ASSUME N > 1 PROVE \A d \in Entering' : mutex' = {d}
    <2>1. Entering = {}
      BY <1>2 DEF IInv, HeldByEntering, TakeMutex
    <2>2. Entering' \subseteq {c}
      BY <2>1 DEF IInv, Located, TakeMutex, Goto, Entering
    <2>3. mutex' = {c}
      BY <1>2 DEF TakeMutex
    <2> QED BY <2>2, <2>3
  <1> QED BY <1>1, <1>2 DEF IInv, HeldByEntering

(* It keeps the mutex on its way through the copy ... *)
LEMMA JumpInv == ASSUME IInv, NEW c \in CPUs, Jump(c) PROVE IInv'
  <1>1. Located'
    BY DEF IInv, Located, Jump, Goto, Labels
  <1>2. Entering' = Entering /\ mutex' = mutex
    BY DEF IInv, Located, Jump, Goto, Entering, bars
  <1> QED BY <1>1, <1>2 DEF IInv, HeldByEntering

(* ... and is the only one there when it gives it back. *)
LEMMA StartupInv == ASSUME IInv, NEW c \in CPUs, Startup(c) PROVE IInv'
  <1>1. Located'
    BY DEF IInv, Located, Startup, Goto, Labels
  <1>2. ASSUME N > 1 PROVE Entering' = {}
    <2>1. c \in Entering
      BY DEF Startup, Goto, Entering
    <2>2. \A d \in Entering : d = c
      BY <1>2, <2>1 DEF IInv, HeldByEntering
    <2> QED BY <2>2 DEF IInv, Located, Startup, Goto, Entering
  <1> QED BY <1>1, <1>2 DEF IInv, HeldByEntering

LEMMA StepInv == ASSUME IInv, NEW c \in CPUs, Step(c) PROVE IInv'
  <1> USE DEF Labels, bars
  (* The top of the loop. *)
  <1>1. CASE Top(c)           BY <1>1, Elsewhere DEF Top
  <1>2. CASE Defaults(c)      BY <1>2, Elsewhere DEF Defaults
  <1>3. CASE Restarted(c)     BY <1>3, Elsewhere DEF Restarted
  <1>4. CASE NewTest(c)       BY <1>4, Elsewhere DEF NewTest
  <1>5. CASE LoadIters(c)     BY <1>5, Elsewhere DEF LoadIters
  <1>6. CASE SetIters(c)      BY <1>6, Elsewhere DEF SetIters
  <1>7. CASE WindowLoop(c)    BY <1>7, Elsewhere DEF WindowLoop
  (* Relocation. *)
  <1>8. CASE FadeWindow(c)    BY <1>8, Elsewhere DEF FadeWindow
  <1>9. CASE RelocLow(c)      BY <1>9, Elsewhere DEF RelocLow
  <1>10. CASE SkipLow(c)      BY <1>10, Elsewhere DEF SkipLow
  <1>11. CASE NextWindow(c)   BY <1>11, Elsewhere DEF NextWindow
  <1>12. CASE RelocHigh(c)    BY <1>12, Elsewhere DEF RelocHigh
  <1>13. CASE Copy(c)         BY <1>13, Elsewhere DEF Copy
  <1>14. CASE TakeMutex(c)    BY <1>14, TakeMutexInv
  <1>15. CASE Jump(c)         BY <1>15, JumpInv
  <1>16. CASE Startup(c)      BY <1>16, StartupInv
  <1>17. CASE FirstBarrier(c) BY <1>17, Elsewhere DEF FirstBarrier
  (* The CPUs of this window. *)
  <1>18. CASE PickCpu(c)      BY <1>18, Elsewhere DEF PickCpu
  <1>19. CASE SubInit(c)      BY <1>19, Elsewhere DEF SubInit
  <1>20. CASE SubReady(c)     BY <1>20, Elsewhere DEF SubReady
  <1>21. CASE Selected(c)     BY <1>21, Elsewhere DEF Selected
  (* The window. *)
  <1>22. CASE TakeWindow(c)   BY <1>22, Elsewhere DEF TakeWindow
  <1>23. CASE Compute(c)      BY <1>23, Elsewhere DEF Compute
  <1>24. CASE WaitSegments(c) BY <1>24, Elsewhere DEF WaitSegments
  <1>25. CASE MapWindow(c)    BY <1>25, Elsewhere DEF MapWindow, Begin
  <1>26. CASE Prepare(c)      BY <1>26, Elsewhere DEF Prepare, Begin
  <1>27. CASE Prepared(c)     BY <1>27, Elsewhere DEF Prepared, Begin
  <1>28. CASE Load(c)         BY <1>28, Elsewhere DEF Load
  <1>29. CASE Tick(c)         BY <1>29, Elsewhere DEF Tick
  <1>30. CASE WaitTick(c)     BY <1>30, Elsewhere DEF WaitTick
  <1>31. CASE TickDone(c)     BY <1>31, Elsewhere DEF TickDone
  <1>47. CASE Sync(c)         BY <1>47, Elsewhere DEF Sync
  <1>48. CASE Synced(c)       BY <1>48, Elsewhere DEF Synced
  <1>32. CASE Bail(c)         BY <1>32, Elsewhere DEF Bail
  <1>33. CASE Access(c)       BY <1>33, Elsewhere DEF Access
  <1>34. CASE Done(c)         BY <1>34, Elsewhere DEF Done
  (* The end of the test. *)
  <1>35. CASE EndWindows(c)   BY <1>35, Elsewhere DEF EndWindows
  <1>36. CASE ResetWindows(c) BY <1>36, Elsewhere DEF ResetWindows
  <1>37. CASE HouseInput(c)   BY <1>37, Elsewhere DEF HouseInput
  <1>38. CASE RestartTest(c)  BY <1>38, Elsewhere DEF RestartTest
  <1>39. CASE NextStage(c)    BY <1>39, Elsewhere DEF NextStage
  <1>40. CASE Advance(c)      BY <1>40, Elsewhere DEF Advance
  <1>41. CASE NextTest(c)     BY <1>41, Elsewhere DEF NextTest
  <1>42. CASE Scan(c)         BY <1>42, Elsewhere DEF Scan
  <1>43. CASE Rescan(c)       BY <1>43, Elsewhere DEF Rescan
  <1>44. CASE EndPass(c)      BY <1>44, Elsewhere DEF EndPass
  <1>45. CASE NewPass(c)      BY <1>45, Elsewhere DEF NewPass
  <1>46. CASE Unbail(c)       BY <1>46, Elsewhere DEF Unbail
  <1> QED
    BY <1>1, <1>2, <1>3, <1>4, <1>5, <1>6, <1>7, <1>8, <1>9, <1>10, <1>11, <1>12,
       <1>13, <1>14, <1>15, <1>16, <1>17, <1>18, <1>19, <1>20, <1>21, <1>22, <1>23,
       <1>24, <1>25, <1>26, <1>27, <1>28, <1>29, <1>30, <1>31, <1>32, <1>33, <1>34,
       <1>35, <1>36, <1>37, <1>38, <1>39, <1>40, <1>41, <1>42, <1>43, <1>44, <1>45,
       <1>46, <1>47, <1>48
    DEF Step

LEMMA NextInv == IInv /\ [Next]_vars => IInv'
  <1> SUFFICES ASSUME IInv, [Next]_vars PROVE IInv'
    OBVIOUS
  <1>1. CASE MeetOpens
    BY <1>1 DEF MeetOpens, IInv, Located, HeldByEntering, Entering
  <1>2. CASE \E c \in CPUs : Step(c)
    BY <1>2, StepInv
  <1>3. CASE UNCHANGED vars
    BY <1>3 DEF vars, IInv, Located, HeldByEntering, Entering
  <1> QED BY <1>1, <1>2, <1>3 DEF Next

LEMMA Invariance == SafeSpec => []IInv
  BY InitInv, NextInv, PTL DEF SafeSpec

(* The start-up code of a copy is run by at most one CPU at a time: the     *)
(* mutex that run_at takes (main.c:223-230) is the one test_start gives     *)
(* back (main.c:496-500), and no CPU gets between the two without it.       *)
THEOREM OneInStartup == SafeSpec => []StartupExclusive
  <1>1. IInv => StartupExclusive
    <2> SUFFICES ASSUME IInv, N > 1 PROVE Cardinality(Entering) <= 1
      BY DEF StartupExclusive, Entering
    <2>1. CASE Entering = {}
      BY <2>1, FS_EmptySet
    <2>2. CASE Entering # {}
      <3>1. PICK c \in Entering : TRUE
        BY <2>2
      <3>2. Entering = {c}
        BY <3>1 DEF IInv, HeldByEntering
      <3> QED BY <3>2, FS_Singleton
    <2> QED BY <2>1, <2>2
  <1> QED BY <1>1, Invariance, PTL

----------------------------------------------------------------------------
(* Windows.                                                                 *)

LEMMA WindowSize == WIN_SZ \in Nat \ {0}
  BY SchedulerAssumption

LEMMA Euclid ==
    ASSUME NEW b \in Nat
    PROVE  /\ b \div WIN_SZ \in Nat /\ b % WIN_SZ \in Nat /\ b % WIN_SZ < WIN_SZ
           /\ b = WIN_SZ * (b \div WIN_SZ) + (b % WIN_SZ)
  BY WindowSize

(* Window 0 is the memory below the end of the first window. *)
LEMMA FirstWindow ==
    ASSUME NEW b \in Nat
    PROVE  b < WIN_SZ <=> b \div WIN_SZ = 0
  BY WindowSize

(* The blocks lo .. hi - 1 of one window, as compute_segments writes them   *)
(* to v->map (main.c:1311-1320, block 0 apart) and as a CPU that has mapped *)
(* that window in reaches them (vmem.c:115-129): none is lost at either end *)
(* and none of another window is touched.                                   *)
THEOREM WindowShowsSegment ==
    ASSUME NEW lo \in Nat, NEW hi \in Nat, lo < hi,
           lo \div WIN_SZ = (hi - 1) \div WIN_SZ
    PROVE  {Reaches(a, lo \div WIN_SZ) : a \in Mapping(lo) .. Mapping(hi - 1)}
               = lo .. hi - 1
  <1> DEFINE w == lo \div WIN_SZ
             last == hi - 1
  <1>1. w \in Nat /\ last \in Nat /\ WIN_SZ \in Nat /\ WIN_SZ > 0
    BY Euclid, WindowSize
  <1>2. CASE w = 0
    <2>1. lo < WIN_SZ /\ last < WIN_SZ
      BY <1>1, <1>2, FirstWindow
    <2>2. Mapping(lo) = lo /\ Mapping(last) = last
      BY <2>1 DEF Mapping
    <2>3. \A a \in lo .. last : Reaches(a, w) = a
      BY <1>1, <2>1 DEF Reaches
    <2> QED BY <2>2, <2>3
  <1>3. CASE w # 0
    <2> DEFINE base == w * WIN_SZ
    <2>1. ~(lo < WIN_SZ) /\ ~(last < WIN_SZ)
      BY <1>1, <1>3, FirstWindow
    <2>2. base \in Nat
      BY <1>1
    <2>3. /\ lo % WIN_SZ \in Nat /\ last % WIN_SZ \in Nat
          /\ lo = base + (lo % WIN_SZ) /\ last = base + (last % WIN_SZ)
      <3>1. WIN_SZ * w = base
        BY <1>1
      <3> QED BY <1>1, <3>1, Euclid
    <2>4. Mapping(lo) = lo - base + WIN_SZ /\ Mapping(last) = last - base + WIN_SZ
      <3> HIDE DEF base, w, last
      <3>1. lo % WIN_SZ = lo - base /\ last % WIN_SZ = last - base
        BY <1>1, <2>2, <2>3
      <3> QED BY <2>1, <3>1 DEF Mapping
    <2>5. ASSUME NEW a \in Int, a >= WIN_SZ PROVE Reaches(a, w) = base + a - WIN_SZ
      BY <1>1, <1>3, <2>5 DEF Reaches
    <2> HIDE DEF base, w, last
    <2>6. lo >= base /\ last >= lo
      BY <1>1, <2>2, <2>3 DEF last
    <2>7. ASSUME NEW a \in Mapping(lo) .. Mapping(last)
          PROVE  Reaches(a, w) \in lo .. last
      <3>1. a \in Int /\ a >= WIN_SZ
        BY <1>1, <2>2, <2>4, <2>6
      <3> QED BY <1>1, <2>2, <2>4, <2>5, <3>1
    <2>8. ASSUME NEW b \in lo .. last
          PROVE  \E a \in Mapping(lo) .. Mapping(last) : Reaches(a, w) = b
      <3> DEFINE a == b - base + WIN_SZ
      <3>1. a \in Mapping(lo) .. Mapping(last) /\ a \in Int /\ a >= WIN_SZ
        BY <1>1, <2>2, <2>4, <2>6
      <3>2. Reaches(a, w) = b
        <4>1. Reaches(a, w) = base + a - WIN_SZ
          BY <2>5, <3>1
        <4> QED BY <1>1, <2>2, <4>1
      <3> QED BY <3>1, <3>2
    <2>9. {Reaches(a, w) : a \in Mapping(lo) .. Mapping(last)} = lo .. last
      BY <2>7, <2>8
    <2> QED BY <2>9 DEF w, last
  <1> QED BY <1>2, <1>3

----------------------------------------------------------------------------
(* The stages of the test loop. *)

(* Every action starts at a place of its own (three of them at "advance").  *)
LEMMA Origins ==
    ASSUME NEW c \in CPUs
    PROVE  /\ Top(c) => pc[c] = "top"
           /\ Defaults(c) => pc[c] = "defaults"
           /\ Restarted(c) => pc[c] = "restarted"
           /\ NewTest(c) => pc[c] = "setup"
           /\ LoadIters(c) => pc[c] = "iters"
           /\ SetIters(c) => pc[c] = "set_iters"
           /\ WindowLoop(c) => pc[c] = "while"
           /\ FadeWindow(c) => pc[c] = "sched"
           /\ RelocLow(c) => pc[c] = "reloc_low"
           /\ SkipLow(c) => pc[c] = "skip_low"
           /\ NextWindow(c) => pc[c] = "next_window"
           /\ RelocHigh(c) => pc[c] = "reloc_high"
           /\ Copy(c) => pc[c] = "copy"
           /\ TakeMutex(c) => pc[c] = "copied"
           /\ Jump(c) => pc[c] = "jump"
           /\ Startup(c) => pc[c] = "startup"
           /\ FirstBarrier(c) => pc[c] = "first"
           /\ PickCpu(c) => pc[c] = "pick"
           /\ SubInit(c) => pc[c] = "picked"
           /\ SubReady(c) => pc[c] = "sub_ready"
           /\ Selected(c) => pc[c] = "ready"
           /\ TakeWindow(c) => pc[c] = "window"
           /\ Compute(c) => pc[c] = "compute"
           /\ WaitSegments(c) => pc[c] = "segments"
           /\ MapWindow(c) => pc[c] = "segments_bar"
           /\ Prepare(c) => pc[c] = "prepare"
           /\ Prepared(c) => pc[c] = "prepared"
           /\ Load(c) => pc[c] = "load"
           /\ Tick(c) => pc[c] = "tick"
           /\ Sync(c) => pc[c] = "sync"
           /\ Synced(c) => pc[c] = "synced"
           /\ WaitTick(c) => pc[c] = "tick_bar"
           /\ TickDone(c) => pc[c] = "ticked"
           /\ Bail(c) => pc[c] = "bailr"
           /\ Access(c) => pc[c] = "access"
           /\ Done(c) => pc[c] = "done"
           /\ EndWindows(c) => pc[c] = "end_win"
           /\ ResetWindows(c) => pc[c] = "end_bar"
           /\ HouseInput(c) => pc[c] = "house"
           /\ (RestartTest(c) \/ NextStage(c) \/ Advance(c)) => pc[c] = "advance"
           /\ NextTest(c) => pc[c] = "next_test"
           /\ Scan(c) => pc[c] = "scan"
           /\ Rescan(c) => pc[c] = "rescan"
           /\ EndPass(c) => pc[c] = "end_pass"
           /\ NewPass(c) => pc[c] = "new_pass"
           /\ Unbail(c) => pc[c] = "unbail"
  <1> USE DEF Goto
  <1> QED
   BY DEF Top, Defaults, Restarted, NewTest, LoadIters, SetIters, WindowLoop,
          FadeWindow, RelocLow, SkipLow, NextWindow, RelocHigh, Copy, TakeMutex,
          Jump, Startup, FirstBarrier, PickCpu, SubInit, SubReady, Selected,
          TakeWindow, Compute, WaitSegments, MapWindow, Prepare, Prepared, Load,
          Tick, Sync, Synced, WaitTick, TickDone, Bail, Access, Done, EndWindows, ResetWindows,
          HouseInput, RestartTest, NextStage, Advance, NextTest, Scan, Rescan,
          EndPass, NewPass, Unbail

(* The fields that the stages speak of are there.  (The others may be what  *)
(* they like.)                                                              *)
Shape == /\ {"test", "cpu_mode", "cpu_sel", "mstr_cpu", "run_cpus",
             "window", "win_next", "plim"} \subseteq DOMAIN g
         /\ DOMAIN cpu = CPUs
         /\ \A c \in CPUs : {"loc", "run"} \subseteq DOMAIN cpu[c]

(* The numbers among them.                                                  *)
Globals == /\ g.window \in Nat /\ g.win_next \in Nat /\ (g.window = 0 => g.win_next = 0)
           /\ g.plim.lower \in Nat /\ g.test \in Nat /\ g.cpu_sel \in CPUs
           /\ g.run_cpus \in Nat

(* What the menu leaves alone.                                              *)
Kept(h) == /\ DOMAIN h = DOMAIN g
           /\ h.window = g.window /\ h.win_next = g.win_next
           /\ h.mstr_cpu = g.mstr_cpu /\ h.run_cpus = g.run_cpus
           /\ h.cpu_sel = g.cpu_sel

(* No entry of the menu touches the windows, the selected CPUs or the next  *)
(* CPU.                                                                     *)
LEMMA MenuFrame ==
    ASSUME Shape, Globals, NEW entry \in Inputs
    PROVE  /\ Kept(Menu(entry))
           /\ Menu(entry).plim.lower \in Nat /\ Menu(entry).test \in Nat
  <1> DEFINE e == entry[1]
  <1>0. /\ e \in {"default", "skip", "select", "list", "lower", "upper", "all",
                 "mode", "restart"}
        /\ e \in {"select", "lower", "upper"} => entry[2] \in Nat
        /\ e = "list" => entry[3] \in Nat
    BY InputsAssumption
  <1>a. ASSUME NEW lower \in Nat, NEW upper
        PROVE  /\ Kept(Limit(lower, upper)) /\ Limit(lower, upper).plim.lower \in Nat
               /\ Limit(lower, upper).test \in Nat
    BY <1>a DEF Limit, Kept, Shape, Globals
  <1>1. CASE e = "default" BY <1>1 DEF Menu, Shape, Globals, Kept
  <1>2. CASE e = "skip" BY <1>2 DEF Menu, Shape, Globals, Kept
  <1>3. CASE e = "select" BY <1>3, <1>0 DEF Menu, Shape, Globals, Kept
  <1>4. CASE e = "list" BY <1>4, <1>0 DEF Menu, Shape, Globals, Kept
  <1>5. CASE e = "lower" BY <1>5, <1>0, <1>a DEF Menu, Shape, Globals, Kept
  <1>6. CASE e = "upper" BY <1>6, <1>0, <1>a DEF Menu, Shape, Globals, Kept
  <1>7. CASE e = "all"
    <2>1. Menu(entry) = Limit(0, MemEnd)
      BY <1>7 DEF Menu
    <2> QED BY <2>1, <1>a
  <1>8. CASE e = "mode" BY <1>8 DEF Menu, Shape, Globals, Kept
  <1>9. CASE e = "restart" BY <1>9 DEF Menu, Shape, Globals, Kept
  <1> QED BY <1>0, <1>1, <1>2, <1>3, <1>4, <1>5, <1>6, <1>7, <1>8, <1>9

LEMMA InputFrame ==
    ASSUME Shape, Globals, CheckInput
    PROVE  Kept(g') /\ g'.plim.lower \in Nat /\ g'.test \in Nat
  BY MenuFrame DEF CheckInput, Kept, Globals

(* Only the jump of run_at() takes a CPU from one copy to another.          *)
LEMMA LocFrame ==
    ASSUME Shape, NEW c \in CPUs, Step(c), ~Jump(c)
    PROVE  \A d \in CPUs : cpu'[d].loc = cpu[d].loc
  <1>1. CASE LoadIters(c) BY <1>1 DEF LoadIters, Shape
  <1>2. CASE PickCpu(c) BY <1>2 DEF PickCpu, Shape
  <1>3. CASE MapWindow(c) BY <1>3 DEF MapWindow, Shape
  <1>4. CASE Load(c) BY <1>4 DEF Load, Shape
  <1>5. CASE Access(c) BY <1>5 DEF Access, Shape
  <1>6. CASE Done(c) BY <1>6 DEF Done, Shape
  <1>7. CASE UNCHANGED cpu BY <1>7
  <1> QED BY <1>1, <1>2, <1>3, <1>4, <1>5, <1>6, <1>7
   DEF Step, Top, Defaults, Restarted, NewTest, SetIters, WindowLoop, FadeWindow,
          RelocLow, SkipLow, NextWindow, RelocHigh, Copy, TakeMutex, Startup,
          FirstBarrier, SubInit, SubReady, Selected, TakeWindow, Compute,
          WaitSegments, Prepare, Prepared, Tick, Sync, Synced, WaitTick, TickDone, Bail,
          EndWindows, ResetWindows, HouseInput, RestartTest, NextStage, Advance,
          NextTest, Scan, Rescan, EndPass, NewPass, Unbail

(* Only the choice after the relocation selects CPUs and their master.      *)
LEMMA RunFrame ==
    ASSUME Shape, Globals, NEW c \in CPUs, Step(c), ~PickCpu(c)
    PROVE  /\ \A d \in CPUs : cpu'[d].run = cpu[d].run
           /\ g'.run_cpus = g.run_cpus /\ g'.mstr_cpu = g.mstr_cpu
  <1>1. \A d \in CPUs : cpu'[d].run = cpu[d].run
    <2>1. CASE LoadIters(c) BY <2>1 DEF LoadIters, Shape
    <2>2. CASE Jump(c) BY <2>2 DEF Jump, Shape
    <2>3. CASE MapWindow(c) BY <2>3 DEF MapWindow, Shape
    <2>4. CASE Load(c) BY <2>4 DEF Load, Shape
    <2>5. CASE Access(c) BY <2>5 DEF Access, Shape
    <2>6. CASE Done(c) BY <2>6 DEF Done, Shape
    <2>7. CASE UNCHANGED cpu BY <2>7
    <2> QED BY <2>1, <2>2, <2>3, <2>4, <2>5, <2>6, <2>7
     DEF Step, Top, Defaults, Restarted, NewTest, SetIters, WindowLoop, FadeWindow,
            RelocLow, SkipLow, NextWindow, RelocHigh, Copy, TakeMutex, Startup,
            FirstBarrier, SubInit, SubReady, Selected, TakeWindow, Compute,
            WaitSegments, Prepare, Prepared, Tick, Sync, Synced, WaitTick, TickDone, Bail,
            EndWindows, ResetWindows, HouseInput, RestartTest, NextStage, Advance,
            NextTest, Scan, Rescan, EndPass, NewPass, Unbail
  <1>2. g'.run_cpus = g.run_cpus /\ g'.mstr_cpu = g.mstr_cpu
    <2>1. CASE Tick(c) \/ HouseInput(c) BY <2>1, InputFrame DEF Tick, HouseInput, Kept
    <2>2. CASE UNCHANGED g BY <2>2
    <2>3. CASE Defaults(c) \/ Restarted(c) \/ NewTest(c) \/ SetIters(c)
                  \/ FadeWindow(c) \/ NextWindow(c)
      BY <2>3 DEF Shape, Defaults, Restarted, NewTest, SetIters, FadeWindow,
             NextWindow, SetDefaults
    <2>4. CASE TakeWindow(c) BY <2>4 DEF Shape, TakeWindow
    <2>5. CASE Compute(c) \/ Prepare(c) \/ Prepared(c) \/ Done(c) \/ ResetWindows(c)
      BY <2>5 DEF Shape, Compute, Prepare, Prepared, Done, ResetWindows
    <2>6. CASE RestartTest(c) \/ NextStage(c) \/ Advance(c)
      BY <2>6 DEF Shape, RestartTest, NextStage, Advance
    <2>7. CASE NextTest(c) \/ Scan(c) \/ Rescan(c)
      BY <2>7 DEF Shape, NextTest, Scan, Rescan
    <2>8. CASE EndPass(c) \/ NewPass(c) \/ Unbail(c)
      BY <2>8 DEF Shape, EndPass, NewPass, Unbail
    <2> QED BY <2>1, <2>2, <2>3, <2>4, <2>5, <2>6, <2>7, <2>8
     DEF Step, Top, LoadIters, WindowLoop, RelocLow, SkipLow, RelocHigh, Copy,
            TakeMutex, Jump, Startup, FirstBarrier, SubInit, SubReady, Selected,
            WaitSegments, MapWindow, Load, Sync, Synced, WaitTick, TickDone, Bail, Access,
            EndWindows
  <1> QED BY <1>1, <1>2

LEMMA ShapeStep ==
    ASSUME Shape, Globals, NEW c \in CPUs, Step(c)
    PROVE  /\ Shape'
           /\ DOMAIN g' = DOMAIN g
           /\ \A d \in CPUs : DOMAIN cpu'[d] = DOMAIN cpu[d]
  <1>1. DOMAIN cpu' = CPUs /\ \A d \in CPUs : DOMAIN cpu'[d] = DOMAIN cpu[d]
    <2>1. CASE LoadIters(c) BY <2>1 DEF LoadIters, Shape
    <2>2. CASE Jump(c) BY <2>2 DEF Jump, Shape
    <2>3. CASE MapWindow(c) BY <2>3 DEF MapWindow, Shape
    <2>4. CASE Load(c) BY <2>4 DEF Load, Shape
    <2>5. CASE Access(c) BY <2>5 DEF Access, Shape
    <2>6. CASE Done(c) BY <2>6 DEF Done, Shape
    <2>8. CASE PickCpu(c) BY <2>8 DEF PickCpu, Shape
    <2>7. CASE UNCHANGED cpu BY <2>7 DEF Shape
    <2> QED BY <2>1, <2>2, <2>3, <2>4, <2>5, <2>6, <2>7, <2>8
     DEF Step, Top, Defaults, Restarted, NewTest, SetIters, WindowLoop, FadeWindow,
            RelocLow, SkipLow, NextWindow, RelocHigh, Copy, TakeMutex, Startup,
            FirstBarrier, SubInit, SubReady, Selected, TakeWindow, Compute,
            WaitSegments, Prepare, Prepared, Tick, Sync, Synced, WaitTick, TickDone, Bail,
            EndWindows, ResetWindows, HouseInput, RestartTest, NextStage, Advance,
            NextTest, Scan, Rescan, EndPass, NewPass, Unbail
  <1>2. DOMAIN g' = DOMAIN g
    <2>1. CASE Tick(c) \/ HouseInput(c) BY <2>1, InputFrame DEF Tick, HouseInput, Kept
    <2>2. CASE UNCHANGED g BY <2>2
    <2>3. CASE Defaults(c) \/ Restarted(c) \/ NewTest(c) \/ SetIters(c)
                  \/ FadeWindow(c) \/ NextWindow(c)
      BY <2>3 DEF Defaults, Restarted, NewTest, SetIters, FadeWindow, NextWindow,
             SetDefaults
    <2>4. CASE TakeWindow(c) BY <2>4 DEF TakeWindow
    <2>5. CASE Compute(c) \/ Prepare(c) \/ Prepared(c) \/ Done(c)
                  \/ ResetWindows(c) \/ PickCpu(c)
      BY <2>5 DEF Compute, Prepare, Prepared, Done, ResetWindows, PickCpu
    <2>6. CASE RestartTest(c) \/ NextStage(c) \/ Advance(c)
      BY <2>6 DEF RestartTest, NextStage, Advance
    <2>7. CASE NextTest(c) \/ Scan(c) \/ Rescan(c)
      BY <2>7 DEF NextTest, Scan, Rescan
    <2>8. CASE EndPass(c) \/ NewPass(c) \/ Unbail(c)
      BY <2>8 DEF EndPass, NewPass, Unbail
    <2> QED BY <2>1, <2>2, <2>3, <2>4, <2>5, <2>6, <2>7, <2>8
     DEF Step, Top, LoadIters, WindowLoop, RelocLow, SkipLow, RelocHigh, Copy,
            TakeMutex, Jump, Startup, FirstBarrier, SubInit, SubReady, Selected,
            WaitSegments, MapWindow, Load, Sync, Synced, WaitTick, TickDone, Bail, Access,
            EndWindows
  <1>3. CPUs' = CPUs
    BY DEF CPUs
  <1> QED BY <1>1, <1>2, <1>3 DEF Shape

(* An element of a sequence is of the kind the sequence is made of.         *)
LEMMA Element ==
    ASSUME NEW S, NEW s \in Seq(S), NEW i \in 1 .. Len(s)
    PROVE  s[i] \in S
  OBVIOUS

LEMMA ZeroCpu == 0 \in CPUs /\ CPUs \subseteq Nat /\ MemEnd \in Nat
  <1>1. Len(Pmap) \in 1 .. Len(Pmap)
    <2> DEFINE S == [start : Nat, end : Nat]
    <2>1. Pmap \in Seq(S) /\ Pmap # <<>>
      BY SchedulerAssumption
    <2> HIDE DEF S
    <2> QED BY <2>1
  <1>2. Pmap[Len(Pmap)] \in [start : Nat, end : Nat]
    BY <1>1, Element, SchedulerAssumption
  <1> QED BY <1>2, SchedulerAssumption DEF CPUs, MemEnd

(* set_defaults() goes back to window 0, test 0 and all of memory.          *)
LEMMA DefaultsFrame ==
    ASSUME Shape
    PROVE  LET h == SetDefaults(g)
           IN  /\ h.window = 0 /\ h.win_next = 0 /\ h.plim.lower = 0 /\ h.test = 0
               /\ h.cpu_sel = 0
               /\ h.run_cpus = g.run_cpus
  BY DEF Shape, SetDefaults, AllOf

(* The choice that window and CPUs depend on, and the actions that change   *)
(* it.                                                                      *)
Settled == /\ g'.window = g.window /\ g'.win_next = g.win_next /\ g'.plim = g.plim
           /\ g'.test = g.test /\ g'.cpu_mode = g.cpu_mode /\ g'.cpu_sel = g.cpu_sel

Changes(c) == \/ Defaults(c) \/ FadeWindow(c) \/ NextWindow(c) \/ TakeWindow(c)
              \/ ResetWindows(c) \/ Tick(c) \/ HouseInput(c) \/ RestartTest(c)
              \/ Advance(c)
              \/ NextTest(c) \/ Scan(c) \/ Rescan(c)

LEMMA SettledStep ==
    ASSUME Shape, NEW c \in CPUs, Step(c), ~Changes(c)
    PROVE  Settled
  <1>1. CASE UNCHANGED g BY <1>1 DEF Settled
  <1>2. CASE Restarted(c) \/ NewTest(c) \/ SetIters(c)
    BY <1>2 DEF Shape, Restarted, NewTest, SetIters, Settled
  <1>3. CASE Compute(c) \/ Prepare(c) \/ Prepared(c) \/ Done(c)
    BY <1>3 DEF Shape, Compute, Prepare, Prepared, Done, Settled
  <1>4. CASE NextStage(c)
    <2>1. g' = [g EXCEPT !.bitf_seq = @ + 1]
      BY <1>4 DEF NextStage
    <2> QED BY <2>1 DEF Shape, Settled
  <1>5. CASE EndPass(c) \/ NewPass(c) \/ Unbail(c)
    BY <1>5 DEF Shape, EndPass, NewPass, Unbail, Settled
  <1>6. CASE PickCpu(c)
    BY <1>6 DEF Shape, PickCpu, Settled
  <1> QED BY <1>1, <1>2, <1>3, <1>4, <1>5, <1>6
     DEF Step, Changes, Top, LoadIters, WindowLoop, RelocLow, SkipLow, RelocHigh,
            Copy, TakeMutex, Jump, Startup, FirstBarrier, SubInit, SubReady,
            Selected, WaitSegments, MapWindow, Load, Sync, Synced, WaitTick, TickDone, Bail,
            Access, EndWindows

(* tseq[t].cpu_sel is -1 or a number of CPUs.                               *)
LEMMA TestType == ASSUME NEW t \in Nat PROVE T(t).cpu_sel \in {-1} \cup Nat
  <1>1. CASE t < End
    <2>1. t + 1 \in 1 .. Len(Tests)
      BY <1>1, SchedulerAssumption DEF End
    <2>2. Tests[t + 1] \in [cpu_sel : {-1} \cup Nat, fade : BOOLEAN, whole : BOOLEAN]
      BY <2>1, Element, SchedulerAssumption
    <2> QED BY <1>1, <2>2 DEF T
  <1>2. CASE ~(t < End)
    BY <1>2 DEF T, Terminator
  <1> QED BY <1>1, <1>2

(* A test asks for one CPU at a time or for at least one.                   *)
LEMMA TestAsks ==
    ASSUME NEW t \in Nat, t < End
    PROVE  T(t).cpu_sel \in {-1, 1} \/ (T(t).cpu_sel \in Nat /\ T(t).cpu_sel >= N)
  <1>1. t + 1 \in 1 .. Len(Tests) /\ t + 1 \in DOMAIN Tests
    <2> DEFINE S == [cpu_sel : {-1} \cup Nat, fade : BOOLEAN, whole : BOOLEAN]
    <2>1. Tests \in Seq(S)
      BY SchedulerAssumption
    <2> HIDE DEF S
    <2> QED BY <2>1 DEF End
  <1>2. T(t).cpu_sel \in {-1, 1} \/ T(t).cpu_sel >= N
    BY <1>1, PlacesAssumption DEF T
  <1>3. T(t).cpu_sel \in {-1} \cup Nat /\ N \in Nat
    BY TestType, SchedulerAssumption
  <1> QED BY <1>2, <1>3

(* The master never goes back to window 0, and leaves win_next alone in it. *)
LEMMA TakeFrame ==
    ASSUME Shape, Globals, NEW c \in CPUs, TakeWindow(c)
    PROVE  /\ g'.window \in Nat \ {0} /\ g'.win_next \in Nat
           /\ g.window = 0 => g'.win_next = g.win_next
           /\ g'.plim = g.plim /\ g'.test = g.test /\ g'.cpu_sel = g.cpu_sel
  <1>1. CASE g.window = 0
    <2>1. g' = [g EXCEPT !.winx = [start |-> 0, end |-> win1_end], !.window = 1]
      BY <1>1 DEF TakeWindow
    <2> QED BY <1>1, <2>1 DEF Shape, Globals
  <1>2. CASE g.window = 1
    <2>1. g' = [g EXCEPT !.winx = [start |-> win0_start, end |-> WIN_SZ],
                              !.win_next = WIN_SZ, !.window = 2]
      BY <1>2 DEF TakeWindow
    <2> QED BY <1>2, <2>1, SchedulerAssumption DEF Shape, Globals
  <1>3. CASE g.window # 0 /\ g.window # 1
    <2>1. g' = [g EXCEPT !.winx = [start |-> g.win_next,
                                        end   |-> g.win_next + WIN_SZ],
                              !.win_next = @ + WIN_SZ]
      BY <1>3 DEF TakeWindow
    <2> QED BY <1>3, <2>1, SchedulerAssumption DEF Shape, Globals
  <1> QED BY <1>1, <1>2, <1>3

LEMMA GlobalsStep ==
    ASSUME Shape, Globals, NEW c \in CPUs, Step(c)
    PROVE  Globals'
  <1>1. CASE PickCpu(c)
    <2>1. T(g.test).cpu_sel \in {-1} \cup Nat
      BY TestType DEF Globals
    <2>2. g'.run_cpus \in Nat
      BY <1>1, <2>1, SchedulerAssumption DEF PickCpu, Shape, Globals, SmallerOf
    <2>3. ~Changes(c)
      BY <1>1, Origins DEF Changes
    <2> QED BY <2>2, <2>3, SettledStep DEF Settled, Globals
  <1>2. CASE ~Changes(c) /\ ~PickCpu(c)
    BY <1>2, SettledStep, RunFrame DEF Settled, Globals
  <1>3. CASE Changes(c) /\ ~PickCpu(c)
    <2>0. g'.run_cpus \in Nat
      BY <1>3, RunFrame DEF Globals
    <2>1. CASE Tick(c) \/ HouseInput(c)
      BY <2>1, InputFrame DEF Tick, HouseInput, Kept, Globals
    <2>2. CASE Defaults(c)
      BY <2>0, <2>2, DefaultsFrame, ZeroCpu DEF Globals, Defaults
    <2>3. CASE FadeWindow(c) \/ NextWindow(c)
      BY <2>0, <2>3 DEF Shape, Globals, FadeWindow, NextWindow
    <2>4. CASE TakeWindow(c)
      BY <2>0, <2>4, TakeFrame DEF Globals
    <2>5. CASE ResetWindows(c)
      BY <2>0, <2>5 DEF Shape, Globals, ResetWindows
    <2>6. CASE RestartTest(c)
      BY <2>0, <2>6, ZeroCpu DEF RestartTest, Shape, Globals
    <2>7. CASE Advance(c)
      <3>1. g'.cpu_sel \in CPUs
        <4> DEFINE to == IF g.cpu_sel + 1 >= N THEN 0 ELSE g.cpu_sel + 1
        <4>1. g.cpu_sel \in CPUs /\ to \in CPUs
          <5>1. N \in Nat \ {0}
            BY SchedulerAssumption
          <5>2. g.cpu_sel \in CPUs
            BY DEF Globals
          <5> QED BY <5>1, <5>2 DEF CPUs
        <4>2. g'.cpu_sel \in {g.cpu_sel, to}
          <5> HIDE DEF to
          <5> QED BY <2>7 DEF Advance, Shape, to
        <4> QED BY <4>1, <4>2
      <3>2. g'.window = g.window /\ g'.win_next = g.win_next /\ g'.plim = g.plim
               /\ g'.test = g.test
        BY <2>7 DEF Advance, Shape
      <3> QED BY <2>0, <3>1, <3>2 DEF Globals
    <2>8. CASE NextTest(c) \/ Scan(c) \/ Rescan(c)
      <3>1. g'.test \in Nat
        <4>1. g.test \in Nat
          BY DEF Globals
        <4>2. g'.test \in {g.test, g.test + 1, 0}
          BY <2>8 DEF NextTest, Scan, Rescan, Shape
        <4> QED BY <4>1, <4>2
      <3>2. /\ g'.window = g.window /\ g'.win_next = g.win_next /\ g'.plim = g.plim
            /\ g'.cpu_sel = g.cpu_sel
        BY <2>8 DEF NextTest, Scan, Rescan, Shape
      <3> QED BY <2>0, <3>1, <3>2 DEF Globals
    <2> QED BY <1>3, <2>1, <2>2, <2>3, <2>4, <2>5, <2>6, <2>7, <2>8 DEF Changes
  <1> QED BY <1>1, <1>2, <1>3

(* The places of test_start between two calls of barrier().                 *)
Choosing  == {"reloc_low", "skip_low", "next_window", "reloc_high", "copy", "pick"}
Returning == {"top", "defaults", "restarted", "setup", "iters", "set_iters", "while"}
InWindow  == {"window", "compute", "segments", "segments_bar", "prepare", "prepared",
              "sync", "synced", "load", "tick", "tick_bar", "ticked", "bailr", "access",
              "done"}
Ending    == {"end_win", "end_bar", "house", "advance", "next_test", "scan", "rescan",
              "end_pass", "new_pass", "unbail"}

(* All CPUs are between the same two barriers: some have not left the first *)
(* yet, some work, and some wait at the second.                             *)
Between(left, inside, ahead) ==
    \A c \in CPUs : \/ pc[c] \in left /\ at[c] = "released"
                    \/ pc[c] \in inside /\ at[c] = "work"
                    \/ pc[c] \in ahead /\ at[c] = "arrived"

(* All CPUs execute the same copy of the program.                           *)
Here(l) == \A c \in CPUs : cpu[c].loc = l

(* The condition under which window 0 is skipped (main.c:611).              *)
Skips == g.window = 0 /\ g.plim.lower >= win0_start

(* The way of a CPU from the scheduling barrier to the next, low copy ...   *)
LowPath(c) ==
    /\ pc[c] \in {"reloc_low", "skip_low"} => (Fade => g.window # 0)
    /\ pc[c] = "next_window" => g.plim.lower >= win0_start
    /\ pc[c] \in {"reloc_high", "copy", "copied"} => ~Skips /\ (Fade => g.window # 0)
    /\ pc[c] \in {"copy", "copied"} => g.window = 0
    /\ pc[c] \in {"pick", "picked"} => g.window # 0

(* ... and high copy: whoever gets as far as the copy or the choice of CPUs *)
(* knows which it will be for all of them.                                  *)
HighPath(c) ==
    /\ pc[c] = "reloc_low" => (Fade => g.window # 0)
    /\ pc[c] \in {"skip_low", "reloc_high", "pick", "picked"} => g.window = 0 /\ ~Fade
    /\ pc[c] \in {"copy", "copied"} => g.window # 0

(* The eight stages of the loop.  From the low copy to the next barrier ... *)
ChooseLow ==
    /\ Here(LOW)
    /\ Between({"sched"}, Choosing, {"copied", "picked"})
    /\ \A c \in CPUs : LowPath(c)

(* ... from the high copy, which is only ever there for window 0 ...        *)
ChooseHigh ==
    /\ Here(HIGH) /\ g.win_next = 0 /\ ~Skips
    /\ Between({"sched"}, Choosing \ {"next_window"}, {"copied", "picked"})
    /\ \A c \in CPUs : HighPath(c)

(* ... one CPU after the other into the other copy ...                      *)
Moving(old, new) ==
    /\ Between({"copied"}, {"jump", "startup"}, {"first"})
    /\ \A c \in CPUs : cpu[c].loc = IF pc[c] \in {"copied", "jump"} THEN old ELSE new
    /\ new = HIGH => g.window = 0 /\ ~Skips

(* ... up to the scheduling barrier again in the high copy, where the       *)
(* window loop cannot be left ...                                           *)
ReturnHigh ==
    /\ Here(HIGH) /\ g.window = 0 /\ g.win_next = 0 /\ ~Skips
    /\ Between({"first"}, Returning, {"sched"})

(* ... setting up the sub barrier ...                                       *)
Picking ==
    /\ Here(LOW) \/ (Here(HIGH) /\ g.window = 0 /\ ~Skips)
    /\ Between({"picked"}, {"sub_ready"}, {"ready"})

(* ... testing window 0, of which there is only this one ...                *)
TestHigh ==
    /\ Here(HIGH) /\ g.win_next = 0 /\ ~Skips
    /\ Between({"ready"}, InWindow \cup {"while"}, {"sched"})
    /\ \A c \in CPUs :
          /\ pc[c] = "window" => Master(c)
          /\ Master(c) /\ pc[c] \in {"ready", "window"} => g.window = 0
          /\ Master(c) /\ pc[c] \in InWindow \ {"window"} => g.window # 0

(* ... and all that the low copy does: every other window, the end of a     *)
(* test and its housekeeping.                                               *)
WorkLow ==
    /\ Here(LOW)
    /\ Between({"first", "ready"}, Returning \cup InWindow \cup Ending, {"sched"})

Stages == \/ ChooseLow \/ ChooseHigh \/ Moving(LOW, HIGH) \/ Moving(HIGH, LOW)
          \/ ReturnHigh
          \/ Picking \/ TestHigh \/ WorkLow

Typed == /\ Located /\ at \in [CPUs -> Meet!Places]
         /\ Shape /\ Globals

(* A CPU that moves within a stage, out of its first barrier or into its    *)
(* second leaves the stage what it is.                                      *)
LEMMA Moves ==
    ASSUME NEW L, NEW I, NEW A, Between(L, I, A), Typed, NEW c \in CPUs, NEW to,
           pc' = [pc EXCEPT ![c] = to],
           \/ at' = at /\ pc[c] \notin L \cup A /\ to \in I
           \/ Meet!Depart(c) /\ to \in I
           \/ Meet!Arrive(c) /\ to \in A
    PROVE  Between(L, I, A)'
  BY DEF Between, Typed, Located, Meet!Depart, Meet!Arrive, Meet!Places

(* What a CPU can do between the scheduling barrier and the next.           *)
LEMMA ChoosingActions ==
    ASSUME NEW c \in CPUs, Step(c), Between({"sched"}, Choosing, {"copied", "picked"})
    PROVE  \/ FadeWindow(c) \/ RelocLow(c) \/ SkipLow(c) \/ NextWindow(c)
           \/ RelocHigh(c)
           \/ Copy(c) \/ PickCpu(c)
  <1>1. ~TakeMutex(c) /\ ~SubInit(c)
    BY DEF Between, TakeMutex, SubInit, Meet!Depart, Goto, Choosing
  <1>2. pc[c] \in {"sched", "copied", "picked"} \cup Choosing
    BY DEF Between
  <1> QED BY <1>1, <1>2, Origins DEF Step, Choosing

(* Each stage is left by nobody but all CPUs at once.                       *)
LEMMA LowStep ==
    ASSUME Typed, ChooseLow, NEW c \in CPUs, Step(c)
    PROVE  ChooseLow'
  <1> DEFINE B == Between({"sched"}, Choosing, {"copied", "picked"})
  <1>0. \/ FadeWindow(c) \/ RelocLow(c) \/ SkipLow(c) \/ NextWindow(c) \/ RelocHigh(c)
        \/ Copy(c) \/ PickCpu(c)
    BY ChoosingActions DEF ChooseLow
  <1>1. Here(LOW)'
    <2>1. ~Jump(c)
      BY <1>0, Origins
    <2> QED BY <2>1, LocFrame DEF Here, ChooseLow, Typed
  <1>2. B'
    <2>1. B
      BY DEF ChooseLow
    <2>2. CASE FadeWindow(c) BY <2>1, <2>2, Moves DEF FadeWindow, Goto, Choosing
    <2>3. CASE RelocLow(c) BY <2>1, <2>3, Moves DEF RelocLow, Goto, Choosing, bars
    <2>4. CASE SkipLow(c) BY <2>1, <2>4, Moves DEF SkipLow, Goto, Choosing, bars
    <2>5. CASE NextWindow(c) BY <2>1, <2>5, Moves DEF NextWindow, Goto, Choosing, bars
    <2>6. CASE RelocHigh(c) BY <2>1, <2>6, Moves DEF RelocHigh, Goto, Choosing, bars
    <2>7. CASE Copy(c) BY <2>1, <2>7, Moves DEF Copy, Goto, Choosing
    <2>8. CASE PickCpu(c) BY <2>1, <2>8, Moves DEF PickCpu, Goto, Choosing
    <2> QED BY <1>0, <2>2, <2>3, <2>4, <2>5, <2>6, <2>7, <2>8
  <1>3. ASSUME NEW d \in CPUs PROVE LowPath(d)'
    <2>0. LowPath(c) /\ LowPath(d) /\ g.window \in Nat /\ cpu[c].loc = LOW
      BY DEF ChooseLow, Typed, Globals, Here
    <2>a. pc[c] \in Labels /\ (d # c => pc'[d] = pc[d])
      BY <1>0 DEF Typed, Located, FadeWindow, RelocLow, SkipLow, NextWindow,
             RelocHigh, Copy, PickCpu, Goto
    <2>2. CASE FadeWindow(c)
      <3>1. /\ pc'[c] = "reloc_low" /\ g'.plim = g.plim /\ g'.test = g.test
            /\ g'.window = IF Fade /\ g.window = 0 THEN 1 ELSE g.window
        BY <2>2 DEF FadeWindow, Goto, Typed, Located, Shape, Fade
      <3>2. Fade' = Fade
        BY <3>1 DEF Fade
      <3> QED BY <2>0, <2>a, <3>1, <3>2 DEF LowPath, Skips
    <2>5. CASE NextWindow(c)
      <3>1. /\ pc[c] = "next_window" /\ pc'[c] = "reloc_high"
            /\ g'.plim = g.plim /\ g'.test = g.test /\ g'.window = g.window + 1
        BY <2>5 DEF NextWindow, Goto, Typed, Located, Shape
      <3>2. Fade' = Fade
        BY <3>1 DEF Fade
      <3> QED BY <2>0, <2>a, <3>1, <3>2 DEF LowPath, Skips
    <2>3. CASE RelocLow(c) \/ SkipLow(c) \/ RelocHigh(c) \/ Copy(c) \/ PickCpu(c)
      <3>1. ~Changes(c)
        BY <2>3, Origins DEF Changes
      <3>2. g'.plim = g.plim /\ g'.window = g.window /\ Fade' = Fade
        BY <3>1, SettledStep DEF Settled, Fade, Typed
      <3>3. d # c => LowPath(d)'
        BY <2>0, <2>a, <3>2 DEF LowPath, Skips
      <3>4. CASE RelocLow(c) 
        BY <2>0, <3>4, <3>2, <3>3 DEF LowPath, Skips, RelocLow, Goto, Typed, Located
      <3>5. CASE SkipLow(c) 
        BY <2>0, <3>5, <3>2, <3>3 DEF LowPath, Skips, SkipLow, Goto, Typed, Located
      <3>6. CASE RelocHigh(c) 
        BY <2>0, <3>6, <3>2, <3>3 DEF LowPath, Skips, RelocHigh, Goto, Typed, Located
      <3>7. CASE Copy(c) \/ PickCpu(c)
        BY <2>0, <3>7, <3>2, <3>3 DEF LowPath, Skips, Copy, PickCpu, Goto, Typed,
               Located
      <3> QED BY <2>3, <3>4, <3>5, <3>6, <3>7
    <2> QED BY <1>0, <2>2, <2>5, <2>3
  <1> QED BY <1>1, <1>2, <1>3 DEF ChooseLow

LEMMA HighStep ==
    ASSUME Typed, ChooseHigh, NEW c \in CPUs, Step(c)
    PROVE  ChooseHigh'
  <1> DEFINE B == Between({"sched"}, Choosing \ {"next_window"}, {"copied", "picked"})
  <1>a. Between({"sched"}, Choosing, {"copied", "picked"}) /\ pc[c] # "next_window"
    BY DEF ChooseHigh, Between, Choosing
  <1>0. \/ FadeWindow(c) \/ RelocLow(c) \/ SkipLow(c) \/ RelocHigh(c)
        \/ Copy(c) \/ PickCpu(c)
    BY <1>a, ChoosingActions, Origins
  <1>1. Here(HIGH)'
    <2>1. ~Jump(c)
      BY <1>0, Origins
    <2> QED BY <2>1, LocFrame DEF Here, ChooseHigh, Typed
  <1>b. /\ HighPath(c) /\ ~Skips /\ cpu[c].loc = HIGH /\ g.window \in Nat
        /\ \A d \in CPUs : HighPath(d)
    BY DEF ChooseHigh, Typed, Globals, Here
  <1>c. \A d \in CPUs \ {c} : pc'[d] = pc[d]
    BY <1>0 DEF Typed, Located, FadeWindow, RelocLow, SkipLow, RelocHigh, Copy,
           PickCpu, Goto
  <1>d. /\ g'.win_next = g.win_next /\ g'.plim = g.plim /\ g'.test = g.test
        /\ \/ ~FadeWindow(c) /\ g'.window = g.window
           \/ FadeWindow(c) /\ g'.window = IF Fade /\ g.window = 0 THEN 1 ELSE g.window
    <2>1. CASE FadeWindow(c)
      BY <2>1 DEF FadeWindow, Typed, Shape, Fade
    <2>2. CASE ~FadeWindow(c)
      <3>1. ~Changes(c)
        BY <1>0, <2>2, Origins DEF Changes
      <3> QED BY <2>2, <3>1, SettledStep DEF Settled, Typed
    <2> QED BY <2>1, <2>2
  <1>e. Fade' = Fade
    BY <1>d DEF Fade
  <1>f. (~Skips)' /\ g'.win_next = 0
    BY <1>b, <1>d DEF ChooseHigh, Skips
  <1>2. B'
    <2>1. B
      BY DEF ChooseHigh
    <2>2. CASE FadeWindow(c) BY <2>1, <2>2, Moves DEF FadeWindow, Goto, Choosing
    <2>3. CASE RelocLow(c) BY <2>1, <2>3, Moves DEF RelocLow, Goto, Choosing, bars
    <2>4. CASE SkipLow(c) BY <1>b, <2>1, <2>4, Moves DEF SkipLow, Skips, Goto,
           Choosing, bars
    <2>6. CASE RelocHigh(c) BY <2>1, <2>6, Moves DEF RelocHigh, Goto, Choosing, bars
    <2>7. CASE Copy(c) BY <2>1, <2>7, Moves DEF Copy, Goto, Choosing
    <2>8. CASE PickCpu(c) BY <2>1, <2>8, Moves DEF PickCpu, Goto, Choosing
    <2> QED BY <1>0, <2>2, <2>3, <2>4, <2>6, <2>7, <2>8
  <1>3. ASSUME NEW d \in CPUs PROVE HighPath(d)'
    <2>1. CASE d # c
      BY <1>b, <1>c, <1>d, <1>e, <2>1 DEF HighPath
    <2>2. CASE d = c
      <3> USE <1>b, <1>d, <1>e, <2>2 DEF HighPath, Goto, Typed, Located
      <3>1. CASE FadeWindow(c) BY <3>1 DEF FadeWindow
      <3>2. CASE RelocLow(c) BY <3>2, Origins DEF RelocLow, LOW, HIGH
      <3>3. CASE SkipLow(c) BY <3>3, Origins DEF SkipLow, Skips
      <3>4. CASE RelocHigh(c) BY <3>4, Origins DEF RelocHigh, LOW, HIGH
      <3>5. CASE Copy(c) BY <3>5, Origins DEF Copy
      <3>6. CASE PickCpu(c) BY <3>6, Origins DEF PickCpu
      <3> QED BY <1>0, <3>1, <3>2, <3>3, <3>4, <3>5, <3>6
    <2> QED BY <2>1, <2>2
  <1> QED BY <1>1, <1>2, <1>3, <1>f DEF ChooseHigh

LEMMA MovingStep ==
    ASSUME Typed, NEW old, NEW new, <<old, new>> \in {<<LOW, HIGH>>, <<HIGH, LOW>>},
           Moving(old, new), NEW c \in CPUs, Step(c)
    PROVE  Moving(old, new)'
  <1> DEFINE B == Between({"copied"}, {"jump", "startup"}, {"first"})
  <1>0. TakeMutex(c) \/ Jump(c) \/ Startup(c)
    <2>1. ~FirstBarrier(c)
      BY DEF Moving, Between, FirstBarrier, Meet!Depart, Goto
    <2>2. pc[c] \in {"copied", "jump", "startup", "first"}
      BY DEF Moving, Between
    <2> QED BY <2>1, <2>2, Origins DEF Step
  <1>1. B'
    <2>1. B
      BY DEF Moving
    <2>2. CASE TakeMutex(c) BY <2>1, <2>2, Moves DEF TakeMutex, Goto
    <2>3. CASE Jump(c) BY <2>1, <2>3, Moves DEF Jump, Goto, bars
    <2>4. CASE Startup(c) BY <2>1, <2>4, Moves DEF Startup, Goto
    <2> QED BY <1>0, <2>2, <2>3, <2>4
  <1>2. ASSUME NEW d \in CPUs
        PROVE  cpu'[d].loc = IF pc'[d] \in {"copied", "jump"} THEN old ELSE new
    <2>0. cpu[d].loc = IF pc[d] \in {"copied", "jump"} THEN old ELSE new
      BY DEF Moving
    <2>1. CASE TakeMutex(c)
      BY <2>0, <2>1 DEF TakeMutex, Goto, Typed, Located
    <2>2. CASE Jump(c)
      BY <2>0, <2>2 DEF Jump, Goto, Typed, Located, Shape, Target, LOW, HIGH
    <2>3. CASE Startup(c)
      BY <2>0, <2>3 DEF Startup, Goto, Typed, Located
    <2> QED BY <1>0, <2>1, <2>2, <2>3
  <1>3. UNCHANGED g
    BY <1>0 DEF TakeMutex, Jump, Startup
  <1> QED BY <1>1, <1>2, <1>3 DEF Moving, Skips

LEMMA ReturnStep ==
    ASSUME Typed, ReturnHigh, NEW c \in CPUs, Step(c)
    PROVE  ReturnHigh'
  <1> DEFINE B == Between({"first"}, Returning, {"sched"})
  <1>0. \/ FirstBarrier(c) \/ Top(c) \/ Defaults(c) \/ Restarted(c) \/ NewTest(c)
        \/ LoadIters(c) \/ SetIters(c) \/ WindowLoop(c)
    <2>1. ~FadeWindow(c)
      BY DEF ReturnHigh, Between, FadeWindow, Meet!Depart, Goto, Returning
    <2>2. pc[c] \in {"first", "sched"} \cup Returning
      BY DEF ReturnHigh, Between
    <2> QED BY <2>1, <2>2, Origins DEF Step, Returning
  <1>1. Here(HIGH)'
    <2>1. ~Jump(c)
      BY <1>0, Origins
    <2> QED BY <2>1, LocFrame DEF Here, ReturnHigh, Typed
  <1>2. g'.window = 0 /\ g'.win_next = 0 /\ (~Skips)'
    <2>1. CASE Defaults(c)
      BY <2>1, DefaultsFrame, SchedulerAssumption DEF Defaults, Skips, Typed
    <2>2. CASE ~Defaults(c)
      <3>1. ~Changes(c)
        BY <1>0, <2>2, Origins DEF Changes
      <3> QED BY <3>1, SettledStep DEF Settled, Typed, ReturnHigh, Skips
    <2> QED BY <2>1, <2>2
  <1>3. B'
    <2>1. B
      BY DEF ReturnHigh
    <2>2. CASE FirstBarrier(c) BY <2>1, <2>2, Moves DEF FirstBarrier, Goto, Returning
    <2>3. CASE Top(c) BY <2>1, <2>3, Moves DEF Top, Goto, Returning, bars
    <2>4. CASE Defaults(c) BY <2>1, <2>4, Moves DEF Defaults, Goto, Returning, bars
    <2>5. CASE Restarted(c) BY <2>1, <2>5, Moves DEF Restarted, Goto, Returning, bars
    <2>6. CASE NewTest(c) BY <2>1, <2>6, Moves DEF NewTest, Goto, Returning, bars
    <2>7. CASE LoadIters(c) BY <2>1, <2>7, Moves DEF LoadIters, Goto, Returning, bars
    <2>8. CASE SetIters(c) BY <2>1, <2>8, Moves DEF SetIters, Goto, Returning, bars
    <2>9. CASE WindowLoop(c)
      <3>1. ~(g.win_next > MemEnd + WIN_SZ)
        BY ZeroCpu, SchedulerAssumption DEF ReturnHigh
      <3> QED BY <2>1, <2>9, <3>1, Moves DEF WindowLoop, Goto, Returning
    <2> QED BY <1>0, <2>2, <2>3, <2>4, <2>5, <2>6, <2>7, <2>8, <2>9
  <1> QED BY <1>1, <1>2, <1>3 DEF ReturnHigh

LEMMA PickingStep ==
    ASSUME Typed, Picking, NEW c \in CPUs, Step(c)
    PROVE  Picking'
  <1> DEFINE B == Between({"picked"}, {"sub_ready"}, {"ready"})
  <1>0. SubInit(c) \/ SubReady(c)
    <2>1. ~Selected(c)
      BY DEF Picking, Between, Selected, Meet!Depart, Goto
    <2>2. pc[c] \in {"picked", "sub_ready", "ready"}
      BY DEF Picking, Between
    <2> QED BY <2>1, <2>2, Origins DEF Step
  <1>1. UNCHANGED <<g, cpu>>
    BY <1>0 DEF SubInit, SubReady
  <1>2. B'
    <2>1. B
      BY DEF Picking
    <2>2. CASE SubInit(c) BY <2>1, <2>2, Moves DEF SubInit, Goto
    <2>3. CASE SubReady(c) BY <2>1, <2>3, Moves DEF SubReady, Goto
    <2> QED BY <1>0, <2>2, <2>3
  <1> QED BY <1>1, <1>2 DEF Picking, Here, Skips

(* What a CPU can do in a window.                                           *)
LEMMA InWindowActions ==
    ASSUME NEW c \in CPUs, Step(c), pc[c] \in {"ready", "while"} \cup InWindow
    PROVE  \/ Selected(c) \/ WindowLoop(c) \/ TakeWindow(c) \/ Compute(c)
           \/ WaitSegments(c)
           \/ MapWindow(c) \/ Prepare(c) \/ Prepared(c) \/ Load(c) \/ Tick(c)
           \/ Sync(c) \/ Synced(c) \/ WaitTick(c)
           \/ TickDone(c) \/ Bail(c) \/ Access(c) \/ Done(c)
  BY Origins DEF Step, InWindow

(* In window 0 it is the master who knows whether it is over.               *)
MasterPath(d) ==
    /\ pc[d] = "window" => Master(d)
    /\ Master(d) /\ pc[d] \in {"ready", "window"} => g.window = 0
    /\ Master(d) /\ pc[d] \in InWindow \ {"window"} => g.window # 0

LEMMA TestHighStep ==
    ASSUME Typed, TestHigh, NEW c \in CPUs, Step(c)
    PROVE  TestHigh'
  <1> DEFINE B == Between({"ready"}, InWindow \cup {"while"}, {"sched"})
  <1>0. \/ Selected(c) \/ WindowLoop(c) \/ TakeWindow(c) \/ Compute(c)
        \/ WaitSegments(c)
        \/ MapWindow(c) \/ Prepare(c) \/ Prepared(c) \/ Load(c) \/ Tick(c)
        \/ Sync(c) \/ Synced(c) \/ WaitTick(c)
        \/ TickDone(c) \/ Bail(c) \/ Access(c) \/ Done(c)
    <2>1. ~FadeWindow(c)
      BY DEF TestHigh, Between, FadeWindow, Meet!Depart, Goto, InWindow
    <2>2. pc[c] \in {"ready", "while", "sched"} \cup InWindow
      BY DEF TestHigh, Between
    <2>3. CASE pc[c] = "sched"
      BY <2>1, <2>3, Origins DEF Step
    <2> QED BY <2>2, <2>3, InWindowActions
  <1>a. /\ Master(c)' = Master(c) /\ g'.mstr_cpu = g.mstr_cpu
        /\ \A d \in CPUs : MasterPath(d)
    <2>1. ~PickCpu(c)
      BY <1>0, Origins
    <2> QED BY <2>1, RunFrame DEF Master, Typed, TestHigh, MasterPath
  <1>1. Here(HIGH)'
    <2>1. ~Jump(c)
      BY <1>0, Origins
    <2> QED BY <2>1, LocFrame DEF Here, TestHigh, Typed
  <1>b. \A d \in CPUs \ {c} : pc'[d] = pc[d]
    BY <1>0 DEF Selected, WindowLoop, TakeWindow, Compute, WaitSegments, MapWindow,
           Prepare,
         Prepared, Load, Tick, Sync, Synced, WaitTick, TickDone, Bail, Access, Done, Goto, Typed,
              Located
  <1>c. CASE TakeWindow(c)
    <2>1. pc[c] = "window" /\ pc'[c] = "compute" /\ UNCHANGED at
             /\ pc' = [pc EXCEPT ![c] = "compute"]
      BY <1>c DEF TakeWindow, Goto, bars, Typed, Located
    <2>2. Master(c) /\ g.window = 0
      BY <1>a, <2>1 DEF MasterPath
    <2>3. g'.window \in Nat \ {0} /\ g'.win_next = 0
      BY <1>c, <2>2, TakeFrame DEF Typed, TestHigh
    <2>4. B'
      BY <2>1, Moves DEF TestHigh, InWindow
    <2>5. \A d \in CPUs : MasterPath(d)'
      BY <1>a, <1>b, <2>1, <2>2, <2>3 DEF MasterPath, Master
    <2> QED BY <1>1, <2>3, <2>4, <2>5 DEF TestHigh, MasterPath, Skips
  <1>d. CASE ~TakeWindow(c)
    <2>1. g'.window = g.window /\ g'.win_next = 0 /\ (~Skips)'
      <3>1. CASE Tick(c)
        <4>1. CASE Master(c)
          <5>1. pc[c] = "tick" /\ CheckInput
            BY <3>1, <4>1 DEF Tick, Goto
          <5>2. g.window # 0
            BY <1>a, <4>1, <5>1 DEF MasterPath, InWindow
          <5> QED BY <5>1, <5>2, InputFrame DEF Kept, Typed, TestHigh, Skips
        <4>2. CASE ~Master(c)
          <5>1. UNCHANGED g
            BY <3>1, <4>2 DEF Tick
          <5> QED BY <5>1 DEF TestHigh, Skips
        <4> QED BY <4>1, <4>2
      <3>2. CASE ~Tick(c)
        <4>1. ~Changes(c)
          BY <1>0, <1>d, <3>2, Origins DEF Changes
        <4> QED BY <4>1, SettledStep DEF Settled, Typed, TestHigh, Skips
      <3> QED BY <3>1, <3>2
    <2>2. MasterPath(c)' /\ B'
      <3> USE <1>a, <2>1, Origins, Moves DEF Goto, TestHigh, MasterPath, InWindow,
             Typed, Located
      <3>1. CASE Selected(c) BY <3>1 DEF Selected
      <3>2. CASE WindowLoop(c)
        <4>1. ~(g.win_next > MemEnd + WIN_SZ)
          BY ZeroCpu, SchedulerAssumption DEF TestHigh
        <4> QED BY <3>2, <4>1 DEF WindowLoop
      <3>3. CASE Compute(c) BY <3>3 DEF Compute, bars
      <3>4. CASE WaitSegments(c) BY <3>4 DEF WaitSegments
      <3>5. CASE MapWindow(c) BY <3>5 DEF MapWindow, Begin
      <3>6. CASE Prepare(c) BY <3>6 DEF Prepare, Begin, bars
      <3>7. CASE Prepared(c) BY <3>7 DEF Prepared, Begin, bars
      <3>8. CASE Load(c) BY <3>8 DEF Load, bars
      <3>9. CASE Tick(c) BY <3>9 DEF Tick, bars
      <3>10. CASE WaitTick(c) BY <3>10 DEF WaitTick
      <3>11. CASE TickDone(c) BY <3>11 DEF TickDone
      <3>12. CASE Bail(c) BY <3>12 DEF Bail, bars
      <3>13. CASE Access(c) BY <3>13 DEF Access, bars
      <3>14. CASE Done(c) BY <3>14 DEF Done, bars
      <3>15. CASE Sync(c) BY <3>15 DEF Sync
      <3>16. CASE Synced(c) BY <3>16 DEF Synced
      <3> QED BY <1>0, <1>d, <3>1, <3>2, <3>3, <3>4, <3>5, <3>6, <3>7, <3>8, <3>9,
           <3>10,
                 <3>11, <3>12, <3>13, <3>14, <3>15, <3>16
    <2>3. \A d \in CPUs : MasterPath(d)'
      BY <1>a, <1>b, <2>1, <2>2 DEF MasterPath, Master
    <2> QED BY <1>1, <2>1, <2>2, <2>3 DEF TestHigh, MasterPath
  <1> QED BY <1>c, <1>d

LEMMA WorkStep ==
    ASSUME Typed, WorkLow, NEW c \in CPUs, Step(c)
    PROVE  WorkLow'
  <1> DEFINE I == Returning \cup InWindow \cup Ending
             B == Between({"first", "ready"}, I, {"sched"})
  <1>0. ~FadeWindow(c) /\ pc[c] \in {"first", "ready", "sched"} \cup I
    BY DEF WorkLow, Between, FadeWindow, Meet!Depart, Goto, Returning, InWindow,
           Ending
  <1>1. Here(LOW)'
    <2>1. ~Jump(c)
      BY <1>0, Origins DEF Returning, InWindow, Ending
    <2> QED BY <2>1, LocFrame DEF Here, WorkLow, Typed
  <1>2. B'
    <2>1. B
      BY DEF WorkLow
    <2> USE <2>1, Moves DEF Goto, Returning, InWindow, Ending, bars
    <2>2. CASE FirstBarrier(c) BY <2>2 DEF FirstBarrier
    <2>3. CASE Top(c) BY <2>3 DEF Top
    <2>4. CASE Defaults(c) BY <2>4 DEF Defaults
    <2>5. CASE Restarted(c) BY <2>5 DEF Restarted
    <2>6. CASE NewTest(c) BY <2>6 DEF NewTest
    <2>7. CASE LoadIters(c) BY <2>7 DEF LoadIters
    <2>8. CASE SetIters(c) BY <2>8 DEF SetIters
    <2>9. CASE WindowLoop(c) BY <2>9 DEF WindowLoop
    <2>10. CASE Selected(c) BY <2>10 DEF Selected
    <2>11. CASE TakeWindow(c) BY <2>11 DEF TakeWindow
    <2>12. CASE Compute(c) BY <2>12 DEF Compute
    <2>13. CASE WaitSegments(c) BY <2>13 DEF WaitSegments
    <2>14. CASE MapWindow(c) BY <2>14 DEF MapWindow, Begin
    <2>15. CASE Prepare(c) BY <2>15 DEF Prepare, Begin
    <2>16. CASE Prepared(c) BY <2>16 DEF Prepared, Begin
    <2>17. CASE Load(c) BY <2>17 DEF Load
    <2>18. CASE Tick(c) BY <2>18 DEF Tick
    <2>19. CASE WaitTick(c) BY <2>19 DEF WaitTick
    <2>20. CASE TickDone(c) BY <2>20 DEF TickDone
    <2>21. CASE Bail(c) BY <2>21 DEF Bail
    <2>22. CASE Access(c) BY <2>22 DEF Access
    <2>23. CASE Done(c) BY <2>23 DEF Done
    <2>24. CASE EndWindows(c) BY <2>24 DEF EndWindows
    <2>25. CASE ResetWindows(c) BY <2>25 DEF ResetWindows
    <2>26. CASE HouseInput(c) BY <2>26 DEF HouseInput
    <2>27. CASE RestartTest(c) BY <2>27 DEF RestartTest
    <2>28. CASE NextStage(c) BY <2>28 DEF NextStage
    <2>29. CASE Advance(c) BY <2>29 DEF Advance
    <2>30. CASE NextTest(c) BY <2>30 DEF NextTest
    <2>31. CASE Scan(c) BY <2>31 DEF Scan
    <2>32. CASE Rescan(c) BY <2>32 DEF Rescan
    <2>33. CASE EndPass(c) BY <2>33 DEF EndPass
    <2>34. CASE NewPass(c) BY <2>34 DEF NewPass
    <2>35. CASE Unbail(c) BY <2>35 DEF Unbail
    <2>36. CASE Sync(c) BY <2>36 DEF Sync
    <2>37. CASE Synced(c) BY <2>37 DEF Synced
    <2> QED BY <1>0, <2>2, <2>3, <2>4, <2>5, <2>6, <2>7, <2>8, <2>9, <2>10, <2>11,
         <2>12,
               <2>13, <2>14, <2>15, <2>16, <2>17, <2>18, <2>19, <2>20, <2>21, <2>22,
                    <2>23,
               <2>24, <2>25, <2>26, <2>27, <2>28, <2>29, <2>30, <2>31, <2>32, <2>33,
                    <2>34,
               <2>35, <2>36, <2>37, Origins DEF Step
  <1> QED BY <1>1, <1>2 DEF WorkLow

LEMMA Arrived ==
    ASSUME Typed, Meet!Open, NEW L, NEW I, NEW A, Between(L, I, A), L \cap A = {}
    PROVE  /\ \A c \in CPUs : pc[c] \in A /\ at'[c] = "released"
           /\ at' \in [CPUs -> Meet!Places]
  BY DEF Between, Meet!Open, Meet!Places

(* When the barrier opens, all CPUs are at one and the same call, and one   *)
(* stage becomes another.                                                   *)
LEMMA MeetStep ==
    ASSUME Typed, Stages, MeetOpens
    PROVE  Stages'
  <1>0. Meet!Open /\ UNCHANGED <<g, pc, cpu>> /\ 0 \in CPUs
    BY ZeroCpu DEF MeetOpens
  <1>a. /\ \A c \in CPUs : at[c] = "arrived" /\ at'[c] = "released"
    BY <1>0 DEF Meet!Open
  <1>1. CASE ChooseLow
    <2>1. \A c \in CPUs : pc[c] \in {"copied", "picked"} /\ LowPath(c)
      BY <1>1, <1>a DEF ChooseLow, Between
    <2>2. CASE g.window = 0
      <3>1. \A c \in CPUs : pc[c] = "copied" /\ ~Skips
        BY <2>1, <2>2 DEF LowPath
      <3>2. Moving(LOW, HIGH)'
        BY <1>0, <1>1, <1>a, <2>2, <3>1 DEF Moving, Between, ChooseLow, Here, Skips
      <3> QED BY <3>2 DEF Stages
    <2>3. CASE g.window # 0
      <3>1. \A c \in CPUs : pc[c] = "picked"
        BY <2>1, <2>3 DEF LowPath
      <3>2. Picking'
        BY <1>0, <1>1, <1>a, <3>1 DEF Picking, Between, ChooseLow, Here
      <3> QED BY <3>2 DEF Stages
    <2> QED BY <2>2, <2>3
  <1>2. CASE ChooseHigh
    <2>1. \A c \in CPUs : pc[c] \in {"copied", "picked"} /\ HighPath(c)
      BY <1>2, <1>a DEF ChooseHigh, Between
    <2>2. CASE g.window # 0
      <3>1. \A c \in CPUs : pc[c] = "copied"
        BY <2>1, <2>2 DEF HighPath
      <3>2. Moving(HIGH, LOW)'
        BY <1>0, <1>2, <1>a, <3>1 DEF Moving, Between, ChooseHigh, Here, LOW, HIGH
      <3> QED BY <3>2 DEF Stages
    <2>3. CASE g.window = 0
      <3>1. \A c \in CPUs : pc[c] = "picked"
        BY <2>1, <2>3 DEF HighPath
      <3>2. Picking'
        BY <1>0, <1>2, <1>a, <2>3, <3>1 DEF Picking, Between, ChooseHigh, Here, Skips
      <3> QED BY <3>2 DEF Stages
    <2> QED BY <2>2, <2>3
  <1>3. CASE Moving(LOW, HIGH)
    <2>1. \A c \in CPUs : pc[c] = "first" /\ cpu[c].loc = HIGH
      BY <1>3, <1>a DEF Moving, Between
    <2>2. g.window = 0 /\ g.win_next = 0 /\ ~Skips
      BY <1>3 DEF Moving, Typed, Globals
    <2>3. ReturnHigh'
      BY <1>0, <1>a, <2>1, <2>2 DEF ReturnHigh, Between, Here, Skips
    <2> QED BY <2>3 DEF Stages
  <1>4. CASE Moving(HIGH, LOW)
    <2>1. \A c \in CPUs : pc[c] = "first" /\ cpu[c].loc = LOW
      BY <1>4, <1>a DEF Moving, Between
    <2>2. WorkLow'
      BY <1>0, <1>a, <2>1 DEF WorkLow, Between, Here
    <2> QED BY <2>2 DEF Stages
  <1>5. CASE ReturnHigh
    <2>1. \A c \in CPUs : pc[c] = "sched"
      BY <1>5, <1>a DEF ReturnHigh, Between
    <2>2. ChooseHigh'
      BY <1>0, <1>5, <1>a, <2>1 DEF ReturnHigh, ChooseHigh, Between, Here, Skips,
             HighPath
    <2> QED BY <2>2 DEF Stages
  <1>6. CASE Picking
    <2>1. \A c \in CPUs : pc[c] = "ready"
      BY <1>6, <1>a DEF Picking, Between
    <2>2. CASE Here(LOW)
      <3>1. WorkLow'
        BY <1>0, <1>a, <2>1, <2>2 DEF WorkLow, Between, Here
      <3> QED BY <3>1 DEF Stages
    <2>3. CASE Here(HIGH) /\ g.window = 0 /\ ~Skips
      <3>1. TestHigh'
        BY <1>0, <1>a, <2>1, <2>3 DEF TestHigh, Between, Here, Skips, Typed,
               Globals, InWindow
      <3> QED BY <3>1 DEF Stages
    <2> QED BY <1>6, <2>2, <2>3 DEF Picking
  <1>7. CASE TestHigh
    <2>1. \A c \in CPUs : pc[c] = "sched"
      BY <1>7, <1>a DEF TestHigh, Between
    <2>2. ChooseHigh'
      BY <1>0, <1>7, <1>a, <2>1 DEF TestHigh, ChooseHigh, Between, Here, Skips,
             HighPath
    <2> QED BY <2>2 DEF Stages
  <1>8. CASE WorkLow
    <2>1. \A c \in CPUs : pc[c] = "sched"
      BY <1>8, <1>a DEF WorkLow, Between
    <2>2. ChooseLow'
      BY <1>0, <1>8, <1>a, <2>1 DEF WorkLow, ChooseLow, Between, Here, LowPath
    <2> QED BY <2>2 DEF Stages
  <1> QED BY <1>1, <1>2, <1>3, <1>4, <1>5, <1>6, <1>7, <1>8 DEF Stages

LEMMA TypedStep ==
    ASSUME Typed, IInv, [Next]_vars
    PROVE  Typed'
  <1>1. CASE MeetOpens
    BY <1>1 DEF MeetOpens, Meet!Open, Meet!Places, Typed, Located, Shape, Globals
  <1>2. ASSUME NEW c \in CPUs, Step(c) PROVE Typed'
    <2>1. Located'
      BY <1>2, StepInv DEF IInv
    <2>2. Shape' /\ Globals'
      BY <1>2, ShapeStep, GlobalsStep DEF Typed
    <2>3. at' \in [CPUs -> Meet!Places]
      <3>1. at' = at \/ Meet!Arrive(c) \/ Meet!Depart(c)
        BY <1>2 DEF Step, bars, Top, Defaults, Restarted, NewTest, LoadIters,
               SetIters, WindowLoop, FadeWindow, RelocLow, SkipLow, NextWindow,
               RelocHigh, Copy, TakeMutex, Jump, Startup, FirstBarrier, PickCpu,
               SubInit, SubReady, Selected, TakeWindow, Compute, WaitSegments,
               MapWindow, Prepare, Prepared, Load, Tick, Sync, Synced, WaitTick, TickDone, Bail,
               Access, Done, EndWindows, ResetWindows, HouseInput, RestartTest,
               NextStage, Advance, NextTest, Scan, Rescan, EndPass, NewPass, Unbail
      <3> QED BY <3>1 DEF Typed, Meet!Arrive, Meet!Depart, Meet!Places
    <2>4. CPUs' = CPUs
      BY DEF CPUs
    <2> QED BY <2>1, <2>2, <2>3, <2>4 DEF Typed
  <1>3. CASE UNCHANGED vars
    BY <1>3 DEF vars, Typed, Located, Shape, Globals
  <1> QED BY <1>1, <1>2, <1>3 DEF Next

LEMMA StagesStep ==
    ASSUME Typed, Stages, [Next]_vars
    PROVE  Stages'
  <1>1. CASE MeetOpens
    BY <1>1, MeetStep
  <1>2. ASSUME NEW c \in CPUs, Step(c) PROVE Stages'
    BY <1>2, LowStep, HighStep, MovingStep, ReturnStep, PickingStep, TestHighStep,
         WorkStep DEF
           Stages
  <1>3. CASE UNCHANGED vars
    BY <1>3 DEF vars, Stages, ChooseLow, ChooseHigh, Moving, ReturnHigh, Picking,
           TestHigh, WorkLow,
       Between, Here, Skips, LowPath, HighPath, Fade, Master
  <1> QED BY <1>1, <1>2, <1>3 DEF Next

(* The CPUs selected for a test, and what is known of them before the       *)
(* barrier after the choice, and after it.                                  *)
Lone == g.cpu_mode # "ALL" \/ T(g.test).cpu_sel = -1
Runners == {c \in CPUs : cpu[c].run}

Selection ==
    \A c \in CPUs : pc[c] = "picked" /\ at[c] = "arrived" =>
        IF Lone THEN /\ cpu[c].run <=> c = g.cpu_sel
                     /\ c = g.cpu_sel => g.run_cpus = 1 /\ g.mstr_cpu = c
        ELSE /\ cpu[c].run <=> c < T(g.test).cpu_sel
             /\ g.run_cpus = SmallerOf(N, T(g.test).cpu_sel)
             /\ g.mstr_cpu = g.run_cpus - 1

InTest(c) == \/ pc[c] = "picked" /\ at[c] = "released"
             \/ pc[c] \in {"sub_ready", "ready"} \cup InWindow

TeamCounted == /\ Cardinality(Runners) = g.run_cpus
               /\ Runners # {} => g.mstr_cpu \in Runners
               /\ g.run_cpus > 1 => Runners = 0 .. g.mstr_cpu

RunInv == /\ Selection
          /\ \A c \in CPUs : /\ InTest(c) => TeamCounted
                             /\ pc[c] \in InWindow => cpu[c].run

(* The inductive invariant.                                                 *)
StagesInv == IInv /\ Typed /\ Stages /\ RunInv

(* The only way into a test leads through the choice of CPUs.               *)
LEMMA EntersTest ==
    ASSUME Typed, NEW c \in CPUs, Step(c)
    PROVE  /\ InTest(c)' => InTest(c)
           /\ pc'[c] \in InWindow => pc[c] \in InWindow \/ cpu[c].run
           /\ \A d \in CPUs \ {c} : pc'[d] = pc[d] /\ at'[d] = at[d]
  <1> USE DEF Typed, Located, Goto, bars, Meet!Depart, Meet!Arrive
  <1>1. \A d \in CPUs \ {c} : pc'[d] = pc[d]
    BY DEF Step, Top, Defaults, Restarted, NewTest, LoadIters, SetIters, WindowLoop,
           FadeWindow, RelocLow, SkipLow, NextWindow, RelocHigh, Copy, TakeMutex,
           Jump, Startup, FirstBarrier, PickCpu, SubInit, SubReady, Selected,
           TakeWindow, Compute, WaitSegments, MapWindow, Prepare, Prepared, Load,
           Tick, Sync, Synced, WaitTick, TickDone, Bail, Access, Done, EndWindows, ResetWindows,
           HouseInput, RestartTest, NextStage, Advance, NextTest, Scan, Rescan,
           EndPass, NewPass, Unbail
  <1>2. \A d \in CPUs \ {c} : at'[d] = at[d]
    BY DEF Step, Top, Defaults, Restarted, NewTest, LoadIters, SetIters, WindowLoop,
           FadeWindow, RelocLow, SkipLow, NextWindow, RelocHigh, Copy, TakeMutex,
           Jump, Startup, FirstBarrier, PickCpu, SubInit, SubReady, Selected,
           TakeWindow, Compute, WaitSegments, MapWindow, Prepare, Prepared, Load,
           Tick, Sync, Synced, WaitTick, TickDone, Bail, Access, Done, EndWindows, ResetWindows,
           HouseInput, RestartTest, NextStage, Advance, NextTest, Scan, Rescan,
           EndPass, NewPass, Unbail
  <1>3. ASSUME pc[c] \notin {"sub_ready", "ready"} \cup InWindow, ~SubInit(c)
        PROVE  ~InTest(c)'
    <2> USE <1>3, Origins DEF InTest, InWindow
    <2>1. CASE Top(c) \/ Defaults(c) \/ Restarted(c) \/ NewTest(c) \/ LoadIters(c)
                  \/ SetIters(c)
      BY <2>1 DEF Top, Defaults, Restarted, NewTest, LoadIters, SetIters
    <2>7. CASE WindowLoop(c)
      BY <2>7 DEF WindowLoop
    <2>2. CASE FadeWindow(c) \/ RelocLow(c) \/ SkipLow(c) \/ NextWindow(c)
                  \/ RelocHigh(c)
      BY <2>2 DEF FadeWindow, RelocLow, SkipLow, NextWindow, RelocHigh
    <2>3. CASE Copy(c) \/ TakeMutex(c) \/ Jump(c) \/ Startup(c) \/ FirstBarrier(c)
      BY <2>3 DEF Copy, TakeMutex, Jump, Startup, FirstBarrier
    <2>4. CASE PickCpu(c)
      BY <2>4 DEF PickCpu
    <2>5. CASE EndWindows(c) \/ ResetWindows(c) \/ HouseInput(c) \/ RestartTest(c)
                  \/ NextStage(c) \/ Advance(c)
      BY <2>5 DEF EndWindows, ResetWindows, HouseInput, RestartTest, NextStage,
             Advance
    <2>6. CASE NextTest(c) \/ Scan(c) \/ Rescan(c) \/ EndPass(c) \/ NewPass(c)
                  \/ Unbail(c)
      BY <2>6 DEF NextTest, Scan, Rescan, EndPass, NewPass, Unbail
    <2> QED BY <2>1, <2>2, <2>3, <2>4, <2>5, <2>6, <2>7 DEF Step
  <1>4. SubInit(c) => InTest(c)
    BY DEF SubInit, InTest
  <1>5. pc'[c] \in InWindow => pc[c] \in InWindow \/ cpu[c].run
    <2>1. CASE SubInit(c) \/ SubReady(c)
      BY <2>1 DEF SubInit, SubReady, InWindow
    <2>2. CASE Selected(c)
      BY <2>2 DEF Selected, InWindow
    <2>3. CASE ~SubInit(c) /\ pc[c] \notin {"sub_ready", "ready"}
      BY <1>3, <2>3 DEF InTest
    <2> QED BY <2>1, <2>2, <2>3, Origins DEF Step
  <1> QED BY <1>1, <1>2, <1>3, <1>4, <1>5 DEF InTest

(* What does not choose CPUs does not change how many are chosen.           *)
LEMMA CountedStep ==
    ASSUME Typed, RunInv, NEW c \in CPUs, Step(c), ~PickCpu(c), NEW d \in CPUs
    PROVE  /\ InTest(d)' => TeamCounted'
           /\ pc'[d] \in InWindow => cpu'[d].run
  <1>1. /\ \A e \in CPUs : cpu'[e].run = cpu[e].run
        /\ g'.run_cpus = g.run_cpus /\ g'.mstr_cpu = g.mstr_cpu
    BY RunFrame DEF Typed
  <1>2. Runners' = Runners /\ TeamCounted' = TeamCounted
    BY <1>1 DEF Runners, TeamCounted, CPUs
  <1>3. InTest(d)' => InTest(d)
    BY EntersTest DEF InTest
  <1>4. pc'[d] \in InWindow => cpu[d].run
    BY EntersTest DEF RunInv
  <1> QED BY <1>1, <1>2, <1>3, <1>4 DEF RunInv

LEMMA RunChoose ==
    ASSUME Typed, RunInv, ChooseLow \/ ChooseHigh, NEW c \in CPUs, Step(c)
    PROVE  RunInv'
  <1>a. Between({"sched"}, Choosing, {"copied", "picked"})
    BY DEF ChooseLow, ChooseHigh, Between
  <1>0. \/ FadeWindow(c) \/ RelocLow(c) \/ SkipLow(c) \/ NextWindow(c) \/ RelocHigh(c)
        \/ Copy(c) \/ PickCpu(c)
    BY <1>a, ChoosingActions
  <1>b. Between({"sched"}, Choosing, {"copied", "picked"})'
    <2>1. ChooseLow' \/ ChooseHigh'
      BY LowStep, HighStep
    <2> QED BY <2>1 DEF ChooseLow, ChooseHigh, Between
  <1>1. /\ g'.test = g.test /\ g'.cpu_mode = g.cpu_mode /\ g'.cpu_sel = g.cpu_sel
    <2>1. CASE FadeWindow(c) \/ NextWindow(c)
      BY <2>1 DEF FadeWindow, NextWindow, Typed, Shape
    <2>2. CASE ~FadeWindow(c) /\ ~NextWindow(c)
      <3>1. ~Changes(c)
        BY <1>0, <2>2, Origins DEF Changes
      <3> QED BY <3>1, SettledStep DEF Settled, Typed
    <2> QED BY <2>1, <2>2
  <1>2. Lone' = Lone /\ T(g.test)' = T(g.test)
    BY <1>1 DEF Lone, T
  <1>3. ASSUME NEW d \in CPUs
        PROVE  ~InTest(d)' /\ pc'[d] \notin InWindow
    BY <1>b DEF Between, InTest, InWindow, Choosing
  <1>4. ASSUME NEW d \in CPUs, pc'[d] = "picked", at'[d] = "arrived"
        PROVE  IF Lone THEN /\ cpu'[d].run <=> d = g.cpu_sel
                            /\ d = g.cpu_sel => g'.run_cpus = 1 /\ g'.mstr_cpu = d
               ELSE /\ cpu'[d].run <=> d < T(g.test).cpu_sel
                    /\ g'.run_cpus = SmallerOf(N, T(g.test).cpu_sel)
                    /\ g'.mstr_cpu = g'.run_cpus - 1
    <2>1. CASE PickCpu(c)
      <3>1. d # c => /\ pc[d] = "picked" /\ at[d] = "arrived"
                     /\ cpu'[d].run = cpu[d].run
        BY <1>4, <2>1, EntersTest DEF PickCpu, Typed, Shape
      <3>2. d = c => (cpu'[d].run <=> IF Lone THEN d = g.cpu_sel
                                      ELSE d < T(g.test).cpu_sel)
        BY <2>1 DEF PickCpu, Lone, Typed, Shape
      <3>3. /\ Lone /\ c = g.cpu_sel => g'.run_cpus = 1 /\ g'.mstr_cpu = c
            /\ Lone /\ c # g.cpu_sel => /\ g'.run_cpus = g.run_cpus
                                        /\ g'.mstr_cpu = g.mstr_cpu
            /\ ~Lone => /\ g'.run_cpus = SmallerOf(N, T(g.test).cpu_sel)
                        /\ g'.mstr_cpu = g'.run_cpus - 1
        BY <2>1 DEF PickCpu, Lone, Typed, Shape
      <3>4. CASE d = c
        BY <3>2, <3>3, <3>4
      <3>5. CASE d # c
        BY <3>1, <3>3, <3>5 DEF RunInv, Selection
      <3> QED BY <3>4, <3>5
    <2>2. CASE ~PickCpu(c)
      <3>1. d # c
        BY <1>0, <1>4, <2>2 DEF FadeWindow, RelocLow, SkipLow, NextWindow,
               RelocHigh, Copy, Goto,
                                Typed, Located
      <3>2. pc[d] = "picked" /\ at[d] = "arrived"
        BY <1>4, <3>1, EntersTest
      <3>3. /\ cpu'[d].run = cpu[d].run
            /\ g'.run_cpus = g.run_cpus /\ g'.mstr_cpu = g.mstr_cpu
        BY <2>2, RunFrame DEF Typed
      <3> QED BY <3>2, <3>3 DEF RunInv, Selection
    <2> QED BY <2>1, <2>2
  <1>5. Selection'
    BY <1>1, <1>2, <1>4 DEF Selection
  <1> QED BY <1>3, <1>5 DEF RunInv

LEMMA RunOther ==
    ASSUME Typed, RunInv, NEW c \in CPUs, Step(c),
           \/ Moving(LOW, HIGH) \/ Moving(HIGH, LOW) \/ ReturnHigh \/ Picking
           \/ TestHigh \/ WorkLow
    PROVE  RunInv'
  <1>1. pc[c] # "pick"
    BY DEF Moving, ReturnHigh, Picking, TestHigh, WorkLow, Between, Returning,
           InWindow, Ending
  <1>2. ~PickCpu(c)
    BY <1>1, Origins
  <1>3. ASSUME NEW d \in CPUs PROVE ~(pc'[d] = "picked" /\ at'[d] = "arrived")
    <2>1. \/ Moving(LOW, HIGH)' \/ Moving(HIGH, LOW)' \/ ReturnHigh' \/ Picking'
          \/ TestHigh'
          \/ WorkLow'
      BY MovingStep, ReturnStep, PickingStep, TestHighStep, WorkStep
    <2> QED BY <2>1 DEF Moving, ReturnHigh, Picking, TestHigh, WorkLow, Between,
           Returning,
                        InWindow, Ending
  <1>4. Selection'
    BY <1>3 DEF Selection
  <1> QED BY <1>2, <1>4, CountedStep DEF RunInv

(* When all have chosen, run_cpus is the number of those that test, and     *)
(* their master is one of them.                                             *)
LEMMA SelectionCounts ==
    ASSUME Typed, Selection, \A c \in CPUs : pc[c] = "picked" /\ at[c] = "arrived"
    PROVE  TeamCounted
  <1>1. CASE Lone
    <2>1. g.cpu_sel \in CPUs
      BY DEF Typed, Globals
    <2>2. Runners = {g.cpu_sel} /\ g.run_cpus = 1 /\ g.mstr_cpu = g.cpu_sel
      BY <1>1, <2>1 DEF Selection, Runners
    <2>3. Cardinality({g.cpu_sel}) = 1
      BY FS_Singleton
    <2> QED BY <2>2, <2>3 DEF TeamCounted
  <1>2. CASE ~Lone
    <2> DEFINE sel == T(g.test).cpu_sel
               few == SmallerOf(N, sel)
    <2>1. sel \in Nat
      BY <1>2, TestType DEF Typed, Globals, Lone
    <2>2. few \in Nat /\ N \in Nat
      BY <2>1, SchedulerAssumption DEF SmallerOf
    <2>3. Runners = 0 .. few - 1
      BY <1>2, <2>1, <2>2 DEF Selection, Runners, CPUs, SmallerOf
    <2>4. g.run_cpus = few /\ g.mstr_cpu = few - 1
      BY <1>2, ZeroCpu DEF Selection
    <2> HIDE DEF few
    <2>5. Cardinality(0 .. few - 1) = few
      <3>1. Cardinality(0 .. few - 1) = IF 0 > few - 1 THEN 0 ELSE (few - 1) - 0 + 1
        BY <2>2, FS_Interval
      <3> QED BY <2>2, <3>1
    <2> QED BY <2>2, <2>3, <2>4, <2>5 DEF TeamCounted
  <1> QED BY <1>1, <1>2

LEMMA RunMeet ==
    ASSUME Typed, Stages, RunInv, MeetOpens
    PROVE  RunInv'
  <1>0. /\ UNCHANGED <<g, pc, cpu>>
        /\ \A c \in CPUs : at[c] = "arrived" /\ at'[c] = "released"
    BY DEF MeetOpens, Meet!Open
  <1>1. Selection'
    BY <1>0 DEF Selection
  <1>2. ASSUME NEW c \in CPUs, InTest(c)' PROVE TeamCounted
    <2>1. CASE pc[c] = "picked"
      <3>1. ChooseLow \/ ChooseHigh
        BY <1>0, <2>1 DEF Stages, Moving, ReturnHigh, Picking, TestHigh, WorkLow,
               Between, Returning,
                        InWindow, Ending
      <3>2. \A d \in CPUs : pc[d] = "picked"
        BY <1>0, <2>1, <3>1 DEF ChooseLow, ChooseHigh, Between, LowPath, HighPath
      <3> QED BY <1>0, <3>2, SelectionCounts DEF RunInv
    <2>2. CASE pc[c] # "picked"
      <3>1. InTest(c)
        BY <1>0, <1>2, <2>2 DEF InTest
      <3> QED BY <3>1 DEF RunInv
    <2> QED BY <2>1, <2>2
  <1>3. TeamCounted' = TeamCounted
    BY <1>0 DEF TeamCounted, Runners, CPUs
  <1> QED BY <1>0, <1>1, <1>2, <1>3 DEF RunInv

LEMMA StagesInit == Init => StagesInv
  <1> SUFFICES ASSUME Init PROVE StagesInv
    OBVIOUS
  <1>1. IInv
    BY InitInv
  <1>2. Shape /\ Globals
    <2> DEFINE h == [test |-> 0, ltest |-> -1, c_iter |-> <<-1, TRUE>>, sel |-> <<>>,
      pass |-> 0, pass_flag |-> FALSE, cpu_mode |-> "RROBIN", cpu_sel |-> 0,
      mstr_cpu |-> 0, run_cpus |-> 0, bitf_seq |-> 0, bitf_sleep |-> FALSE,
      window |-> 0, win_next |-> 0, winx |-> WindowOf(0), segs |-> 0,
      map |-> FindChunks([i \in 1 .. Len(Pmap) |->
                             [base |-> 0, start |-> 0, end |-> 0]], AllOf),
      plim |-> AllOf, bail |-> FALSE, restart_flag |-> FALSE,
      restart_single |-> FALSE]
    <2>1. /\ {"test", "cpu_mode", "cpu_sel", "mstr_cpu", "run_cpus",
             "window", "win_next", "plim"} \subseteq DOMAIN h
          /\ h.run_cpus = 0
      OBVIOUS
    <2>2. g = SetDefaults(h)
      BY DEF Init, InitGlobals
    <2> HIDE DEF h
    <2>3. /\ DOMAIN g = DOMAIN h
          /\ g.window = 0 /\ g.win_next = 0 /\ g.plim = AllOf /\ g.test = 0
          /\ g.cpu_sel = 0
          /\ g.run_cpus = 0
      BY <2>1, <2>2 DEF SetDefaults
    <2>4. Globals
      BY <2>3, ZeroCpu DEF Globals, AllOf
    <2>5. Shape
      BY <2>1, <2>3 DEF Init, Shape
    <2> QED BY <2>4, <2>5
  <1>3. Typed
    BY <1>1, <1>2 DEF Init, Typed, IInv, Meet!Places
  <1>5. Moving(HIGH, LOW)
    BY DEF Init, Moving, Between, LOW, HIGH
  <1>6. RunInv
    BY DEF Init, RunInv, Selection, InTest, InWindow
  <1> QED BY <1>1, <1>3, <1>5, <1>6 DEF StagesInv, Stages

LEMMA StagesInvNext == StagesInv /\ [Next]_vars => StagesInv'
  <1> SUFFICES ASSUME StagesInv, [Next]_vars PROVE StagesInv'
    OBVIOUS
  <1>1. IInv' /\ Typed' /\ Stages'
    BY NextInv, TypedStep, StagesStep DEF StagesInv
  <1>2. RunInv'
    <2>1. CASE MeetOpens
      BY <2>1, RunMeet DEF StagesInv
    <2>2. ASSUME NEW c \in CPUs, Step(c) PROVE RunInv'
      BY <2>2, RunChoose, RunOther DEF StagesInv, Stages
    <2>3. CASE UNCHANGED vars
      BY <2>3 DEF StagesInv, RunInv, Selection, InTest, TeamCounted, Runners, Lone, vars
    <2> QED BY <2>1, <2>2, <2>3 DEF Next
  <1> QED BY <1>1, <1>2 DEF StagesInv

LEMMA StagesInvariance == SafeSpec => []StagesInv
  BY StagesInit, StagesInvNext, PTL DEF SafeSpec

(* Barriers meet in pairs of calls (main.c:505, 593, 647, 664 and smp.c):   *)
(* CPUs that wait in barrier() at the same time wait at the same call of    *)
(* it, however many CPUs there are, whatever is tested, skipped, relocated  *)
(* or restarted.                                                            *)
THEOREM MeetAtSameBarrier == SafeSpec => []SameBarrier
  <1>1. StagesInv => SameBarrier
    <2> SUFFICES ASSUME StagesInv, NEW c \in CPUs, NEW d \in CPUs,
         at[c] = "arrived", at[d] = "arrived"
                 PROVE  pc[c] = pc[d]
      BY DEF SameBarrier
    <2>1. CASE ChooseLow
      BY <2>1 DEF ChooseLow, Between, LowPath
    <2>2. CASE ChooseHigh
      BY <2>2 DEF ChooseHigh, Between, HighPath
    <2> QED BY <2>1, <2>2 DEF StagesInv, Stages, Moving, ReturnHigh, Picking,
           TestHigh, WorkLow, Between
  <1> QED BY <1>1, StagesInvariance, PTL

(* The copy of run_at (main.c:210-221) is made while no CPU executes the    *)
(* code that it is copied over.                                             *)
THEOREM CopyIsElsewhere == SafeSpec => []CopiesToFreePlace
  <1>1. StagesInv => CopiesToFreePlace
    <2> SUFFICES ASSUME StagesInv, pc[0] = "copy",
         NEW c \in CPUs PROVE cpu[c].loc = cpu[0].loc
      BY DEF CopiesToFreePlace
    <2>1. ChooseLow \/ ChooseHigh
      BY ZeroCpu DEF StagesInv, Stages, Moving, ReturnHigh, Picking, TestHigh,
             WorkLow, Between, Returning,
                     InWindow, Ending
    <2> QED BY <2>1, ZeroCpu DEF ChooseLow, ChooseHigh, Here
  <1> QED BY <1>1, StagesInvariance, PTL

(* While anybody tests, run_cpus is the number of the CPUs that were        *)
(* selected, the master is one of them and their ordinals are the shares by *)
(* which calculate_chunk divides the memory (test.c:54, 61-66): the choice  *)
(* that each CPU makes for itself (main.c:619-645) agrees with the number   *)
(* and the master that the others wrote.                                    *)
THEOREM RunCpusTest == SafeSpec => []TestersCounted
  <1>1. StagesInv => TestersCounted
    <2> SUFFICES ASSUME StagesInv, NEW c \in InTestOf PROVE TestersCounted
      BY DEF TestersCounted
    <2>1. c \in CPUs /\ InTest(c) /\ c \in Runners
      BY DEF StagesInv, RunInv, InTestOf, InTest, InWindow, Runners
    <2>2. TeamCounted
      BY <2>1 DEF StagesInv, RunInv
    <2>3. InTestOf \subseteq Runners
      BY DEF StagesInv, RunInv, InTestOf, InWindow, Runners
    <2> QED BY <2>1, <2>2, <2>3 DEF TestersCounted, TeamCounted, Runners
  <1> QED BY <1>1, StagesInvariance, PTL

----------------------------------------------------------------------------
(* One CPU. *)

(* What the properties remember keeps its fields.                           *)
LEMMA HistFrame ==
    ASSUME NEW c \in CPUs, Step(c)
    PROVE  DOMAIN hist' = DOMAIN hist
  <1>1. CASE UNCHANGED hist
    BY <1>1
  <1>2. CASE Access(c)
    BY <1>2 DEF Access
  <1>3. CASE Tick(c) \/ HouseInput(c)
    BY <1>3 DEF Tick, HouseInput, CheckInput
  <1>4. CASE RestartTest(c) \/ NextStage(c) \/ Advance(c)
    BY <1>4 DEF RestartTest, NextStage, Advance, TestOver
  <1> QED BY <1>1, <1>2, <1>3, <1>4
   DEF Step, Top, Defaults, Restarted, NewTest, LoadIters, SetIters, WindowLoop,
          FadeWindow, RelocLow, SkipLow, NextWindow, RelocHigh, Copy, TakeMutex, Jump, Startup,
          FirstBarrier, PickCpu, SubInit, SubReady, Selected, TakeWindow, Compute,
          WaitSegments, MapWindow, Prepare, Prepared, Load, Sync, Synced, WaitTick, TickDone,
          Bail, Done, EndWindows, ResetWindows, NextTest, Scan, Rescan, EndPass,
          NewPass, Unbail

(* More fields that are there.                                              *)
OneFields == /\ {"sel", "ltest", "c_iter", "pass", "pass_flag", "restart_single",
                 "restart_flag", "bail"} \subseteq DOMAIN g
             /\ "iter" \in DOMAIN cpu[0]

LEMMA OneFieldsStep ==
    ASSUME Typed, OneFields, NEW c \in CPUs, Step(c)
    PROVE  OneFields'
  <1>1. DOMAIN g' = DOMAIN g /\ \A d \in CPUs : DOMAIN cpu'[d] = DOMAIN cpu[d]
    BY ShapeStep DEF Typed
  <1> QED BY <1>1, ZeroCpu DEF OneFields

LEMMA FieldsInit == Init => OneFields
  <1> SUFFICES ASSUME Init PROVE OneFields
    OBVIOUS
  <1>1. {"sel", "ltest", "c_iter", "pass", "pass_flag", "restart_single",
         "restart_flag", "bail"} \subseteq DOMAIN g
    BY DEF Init, InitGlobals, SetDefaults
  <1>2. DOMAIN cpu[0] = {"loc", "run", "k", "win", "iter", "area"}
    BY ZeroCpu DEF Init
  <1> QED BY <1>1, <1>2 DEF OneFields

(* One CPU, on which no list of tests is entered: that entry of the menu    *)
(* changes the pass without restarting the test (config.c:149).             *)
OneCpu == N = 1 /\ \A entry \in Inputs : entry[1] # "list"

(* There is a test to choose, the search for it finds one, and a lone CPU   *)
(* is its own master.                                                       *)
SomeSelected(sel) ==
    sel \in [0 .. End - 1 -> BOOLEAN] /\ \E t \in 0 .. End - 1 : sel[t]
Findable ==
    /\ SomeSelected(g.sel)
    /\ g.test < End \/ pc[0] = "scan"
    /\ pc[0] = "rescan" => \E t \in 0 .. End - 1 : g.test <= t /\ g.sel[t]
    /\ g.mstr_cpu = 0

(* A test that is to be restarted is on its way out.                        *)
Advancing == {"next_test", "scan", "rescan", "end_pass", "new_pass", "unbail"}
Leaving ==
    /\ g.restart_single => g.bail \/ pc[0] \in {"restarted", "house", "advance"}
    /\ pc[0] \in Advancing => ~g.restart_single
    /\ pc[0] = "access" => ~g.bail

(* ltest is -1 or the test that c_iter was computed for, except where one   *)
(* has changed and the other has not yet; what the menu has changed is put  *)
(* right at the end of the test.                                            *)
Underway ==
    {"while", "sched", "reloc_low", "skip_low", "next_window", "reloc_high", "pick",
     "picked", "sub_ready", "ready", "window", "compute", "segments", "segments_bar",
     "prepare", "prepared", "sync", "synced", "load", "tick", "tick_bar", "ticked",
     "bailr", "access", "done"}
Computed(h) == h.ltest = -1 \/ h.c_iter = <<h.ltest, h.pass = 0>>
Iterated ==
    /\ pc[0] = "restarted" => g.ltest = -1 /\ g.pass = 0
    /\ pc[0] = "set_iters" => cpu[0].iter = <<g.test, g.pass = 0>>
    /\ ~g.restart_single =>
          /\ pc[0] \in {"iters", "set_iters"} \cup Underway => g.test = g.ltest
          /\ pc[0] \in {"iters", "set_iters", "new_pass"} \/ Computed(g)
          /\ g.pass # -1 \/ (pc[0] = "end_pass" /\ g.ltest = -1)

OneInv == OneFields /\ Findable /\ Leaving /\ Iterated

LEMMA EndType == End \in Nat \ {0}
  BY SchedulerAssumption, TestsAssumption DEF End

LEMMA Alone == ASSUME OneCpu PROVE CPUs = {0}
  BY DEF OneCpu, CPUs

(* What the menu may do to a test that goes on, and to one that does not.   *)
GoesOn(h) ==
    /\ SomeSelected(h.sel) /\ h.test < End /\ h.mstr_cpu = g.mstr_cpu
    /\ h.ltest = g.ltest /\ h.c_iter = g.c_iter
    /\ (g.restart_single => g.bail) => (h.restart_single => h.bail)
    /\ ~h.restart_single => ~g.restart_single /\ h.test = g.test /\ h.pass = g.pass

LEMMA OneMenu ==
    ASSUME OneCpu, Shape, Globals, OneFields, SomeSelected(g.sel), g.test < End,
           NEW entry \in Inputs
    PROVE  GoesOn(Menu(entry))
  <1> DEFINE e == entry[1]
  <1>0. /\ e \in {"default", "skip", "select", "lower", "upper", "all", "mode", "restart"}
        /\ e \in {"select", "lower", "upper"} => entry[2] \in Nat
        /\ e = "select" => entry[2] < End
        /\ End \in Nat \ {0}
    BY InputsAssumption, TestsAssumption, EndType DEF OneCpu
  <1> USE DEF GoesOn, SomeSelected, Shape, Globals, OneFields
  <1>a. ASSUME NEW lower, NEW upper
        PROVE  GoesOn(Limit(lower, upper))
    BY <1>a DEF Limit
  <1>1. CASE e = "default"
    <2>1. Menu(entry) = [g EXCEPT !.sel = SelectAll, !.map = FindChunks(@, g.plim)]
      BY <1>1 DEF Menu
    <2>2. SomeSelected(SelectAll)
      BY <1>0 DEF SelectAll
    <2> QED BY <2>1, <2>2
  <1>2. CASE e = "skip" BY <1>2 DEF Menu
  <1>3. CASE e = "select"
    <2> DEFINE only == [t \in 0 .. End - 1 |-> t = entry[2]]
    <2>1. Menu(entry) = [g EXCEPT !.sel = only, !.pass = -1,
                     !.test = entry[2], !.restart_single = TRUE,
                     !.map = FindChunks(@, g.plim), !.bail = TRUE]
      BY <1>3 DEF Menu
    <2>2. SomeSelected(only)
      <3>1. entry[2] \in 0 .. End - 1
        BY <1>0, <1>3
      <3> QED BY <3>1
    <2>3. entry[2] < End
      BY <1>0, <1>3
    <2> HIDE DEF only
    <2> QED BY <2>1, <2>2, <2>3
  <1>5. CASE e = "lower" BY <1>5, <1>a DEF Menu
  <1>6. CASE e = "upper" BY <1>6, <1>a DEF Menu
  <1>7. CASE e = "all"
    <2>1. Menu(entry) = Limit(0, MemEnd)
      BY <1>7 DEF Menu
    <2> QED BY <2>1, <1>a
  <1>8. CASE e = "mode" BY <1>8 DEF Menu
  <1>9. CASE e = "restart" BY <1>9 DEF Menu
  <1> QED BY <1>0, <1>1, <1>2, <1>3, <1>5, <1>6, <1>7, <1>8, <1>9

LEMMA OneInput ==
    ASSUME OneCpu, Shape, Globals, OneFields, SomeSelected(g.sel), g.test < End, CheckInput
    PROVE  GoesOn(g')
  <1>1. GoesOn(g)
    BY DEF GoesOn
  <1>2. GoesOn(g')
    <2>1. g' = g \/ \E entry \in Inputs : g' = Menu(entry)
      BY DEF CheckInput
    <2>2. CASE g' = g
      BY <1>1, <2>2 DEF GoesOn
    <2>3. CASE \E entry \in Inputs : g' = Menu(entry)
      BY <2>3, OneMenu
    <2> QED BY <2>1, <2>2, <2>3
  <1> QED BY <1>2

LEMMA OneInit == ASSUME OneCpu, Init PROVE OneInv
  <1> USE DEF Init, InitGlobals, SetDefaults, SomeSelected, Computed, Underway, Advancing
  <1>1. pc[0] = "first"
    BY ZeroCpu
  <1>2. OneFields
    BY FieldsInit
  <1>a. 0 \in 0 .. End - 1
    BY EndType
  <1>4. Findable
    BY <1>1, <1>a, EndType DEF Findable
  <1>3. Leaving /\ Iterated
    BY <1>1 DEF Leaving, Iterated
  <1> QED BY <1>2, <1>3, <1>4 DEF OneInv

Quiet == (Underway \ {"while", "sched"})
             \cup {"copy", "copied", "jump", "startup", "first", "end_win", "end_bar"}

(* A step on the way through a window.                                      *)
LEMMA OneQuiet ==
    ASSUME OneInv, Located, 0 \in CPUs, NEW from, NEW to, Goto(0, from, to),
           g'.sel = g.sel, g'.test = g.test, g'.ltest = g.ltest, g'.c_iter = g.c_iter,
           g'.pass = g.pass, g'.restart_single = g.restart_single, g'.bail = g.bail,
           g'.mstr_cpu = g.mstr_cpu, DOMAIN g' = DOMAIN g,
           DOMAIN cpu'[0] = DOMAIN cpu[0],
           from \in Quiet, to \in Quiet \cup {"while", "top"},
           to \in Underway => from \in Underway, to = "access" => ~g.bail
    PROVE  OneInv'
  <1>1. pc[0] = from /\ pc'[0] = to
    BY DEF Goto, Located
  <1>2. OneFields' /\ Findable'
    BY <1>1 DEF OneInv, OneFields, Findable, Quiet, Underway, SomeSelected
  <1>3. Leaving'
    BY <1>1 DEF OneInv, Leaving, Quiet, Underway, Advancing
  <1>4. Iterated'
    BY <1>1 DEF OneInv, Iterated, Quiet, Underway, Computed
  <1> QED BY <1>2, <1>3, <1>4 DEF OneInv

(* Steps on the way through a window and the relocation.                     *)
LEMMA OneQuietStep ==
    ASSUME OneCpu, OneInv, Typed, Shape, Globals, 0 \in CPUs,
           \/ RelocLow(0) \/ SkipLow(0) \/ NextWindow(0) \/ RelocHigh(0)
           \/ Copy(0) \/ TakeMutex(0) \/ Jump(0) \/ Startup(0) \/ FirstBarrier(0)
           \/ PickCpu(0) \/ SubInit(0) \/ SubReady(0) \/ Selected(0)
           \/ TakeWindow(0) \/ Compute(0) \/ WaitSegments(0) \/ MapWindow(0)
           \/ Prepare(0) \/ Prepared(0) \/ Load(0)
           \/ Sync(0) \/ Synced(0) \/ WaitTick(0) \/ TickDone(0) \/ Bail(0) \/ Access(0) \/ Done(0)
           \/ EndWindows(0)
    PROVE  OneInv'
  <1>0. /\ Located /\ g.mstr_cpu = 0 /\ N = 1
        /\ DOMAIN cpu = CPUs /\ "iter" \in DOMAIN cpu[0]
    BY DEF Typed, OneInv, Findable, Shape, OneFields, OneCpu
  <1> USE <1>0 DEF Quiet, Underway, bars
  <1>1. CASE RelocLow(0)     BY <1>1, OneQuiet DEF RelocLow
  <1>2. CASE SkipLow(0)      BY <1>2, OneQuiet DEF SkipLow
  <1>3. CASE NextWindow(0)   BY <1>3, OneQuiet DEF NextWindow
  <1>4. CASE RelocHigh(0)    BY <1>4, OneQuiet DEF RelocHigh
  <1>5. CASE Copy(0)         BY <1>5, OneQuiet DEF Copy
  <1>6. CASE TakeMutex(0)    BY <1>6, OneQuiet DEF TakeMutex
  <1>7. CASE Jump(0)         BY <1>7, OneQuiet DEF Jump
  <1>8. CASE Startup(0)      BY <1>8, OneQuiet DEF Startup
  <1>9. CASE FirstBarrier(0) BY <1>9, OneQuiet DEF FirstBarrier
  <1>11. CASE SubInit(0)      BY <1>11, OneQuiet DEF SubInit
  <1>12. CASE SubReady(0)     BY <1>12, OneQuiet DEF SubReady
  <1>13. CASE Selected(0)     BY <1>13, OneQuiet DEF Selected, Master
  <1>14. CASE TakeWindow(0)   BY <1>14, OneQuiet DEF TakeWindow
  <1>15. CASE Compute(0)      BY <1>15, OneQuiet DEF Compute
  <1>16. CASE WaitSegments(0) BY <1>16, OneQuiet DEF WaitSegments
  <1>17. CASE MapWindow(0)    BY <1>17, OneQuiet DEF MapWindow, Begin, Master
  <1>18. CASE Prepare(0)      BY <1>18, OneQuiet DEF Prepare, Begin
  <1>19. CASE Prepared(0)     BY <1>19, OneQuiet DEF Prepared, Begin
  <1>20. CASE Load(0)         BY <1>20, OneQuiet DEF Load
  <1>21. CASE WaitTick(0)     BY <1>21, OneQuiet DEF WaitTick
  <1>22. CASE TickDone(0)     BY <1>22, OneQuiet DEF TickDone
  <1>23. CASE Bail(0)         BY <1>23, OneQuiet DEF Bail
  <1>24. CASE Access(0)       BY <1>24, OneQuiet DEF Access
  <1>25. CASE Done(0)         BY <1>25, OneQuiet DEF Done
  <1>26. CASE EndWindows(0)   BY <1>26, OneQuiet DEF EndWindows
  <1>27. CASE Sync(0)         BY <1>27, OneQuiet DEF Sync
  <1>28. CASE Synced(0)       BY <1>28, OneQuiet DEF Synced
  <1>10. CASE PickCpu(0)
    <2> DEFINE sel == T(g.test).cpu_sel
    <2>1. CASE g.cpu_mode # "ALL" \/ sel = -1
      BY <1>10, <2>1, OneQuiet DEF PickCpu
    <2>2. CASE ~(g.cpu_mode # "ALL" \/ sel = -1)
      <3>1. pc[0] = "pick" /\ g.test \in Nat
        BY <1>10 DEF PickCpu, Goto, Typed, Globals
      <3>2. sel \in {1} \/ (sel \in Nat /\ sel >= 1)
        BY <2>2, <3>1, TestAsks DEF OneInv, Findable
      <3>3. SmallerOf(N, sel) - 1 = 0
        BY <3>2 DEF SmallerOf
      <3> QED BY <1>10, <2>2, <3>3, OneQuiet DEF PickCpu
    <2> QED BY <2>1, <2>2
  <1> QED
    BY <1>1, <1>2, <1>3, <1>4, <1>5, <1>6, <1>7, <1>8, <1>9, <1>10, <1>11, <1>12,
       <1>13, <1>14, <1>15, <1>16, <1>17, <1>18, <1>19, <1>20, <1>21, <1>22, <1>23,
       <1>24, <1>25, <1>26, <1>27, <1>28

(* From the top of the loop to the first window.                            *)
LEMMA OneBegins ==
    ASSUME OneCpu, OneInv, Typed, Shape, Globals, 0 \in CPUs,
           Top(0) \/ Defaults(0) \/ Restarted(0) \/ NewTest(0) \/ LoadIters(0) \/ SetIters(0) \/ WindowLoop(0) \/ FadeWindow(0)
    PROVE  OneInv'
  <1>0. /\ Located /\ g.mstr_cpu = 0 /\ DOMAIN cpu = CPUs
        /\ g.test \in Nat /\ End \in Nat \ {0}
    BY EndType DEF Typed, OneInv, Findable, Shape, Globals
  <1> USE <1>0 DEF Located, Goto, SomeSelected, Computed, Underway, Advancing
  <1>1. CASE Top(0)
    <2>1. OneFields' /\ Findable'
      BY <1>1 DEF Top, OneInv, OneFields, Findable
    <2>2. Leaving'
      BY <1>1 DEF Top, OneInv, OneFields, Leaving
    <2>3. Iterated'
      BY <1>1 DEF Top, OneInv, OneFields, Iterated, Leaving
    <2> QED BY <2>1, <2>2, <2>3 DEF OneInv
  <1>2. CASE Defaults(0)
    <2>1. OneFields' /\ Findable'
      <3>1. 0 \in 0 .. End - 1
        OBVIOUS
      <3>2. g'.sel = [t \in 0 .. End - 1 |-> TRUE] /\ g'.test = 0
            /\ g'.mstr_cpu = g.mstr_cpu /\ pc'[0] = "restarted"
        BY <1>2 DEF Defaults, SetDefaults, OneInv, OneFields
      <3>3. SomeSelected(g'.sel)
        BY <3>1, <3>2
      <3>4. OneFields'
        BY <1>2 DEF Defaults, SetDefaults, OneInv, OneFields
      <3> QED BY <3>2, <3>3, <3>4 DEF Findable
    <2>2. Leaving'
      BY <1>2 DEF Defaults, SetDefaults, OneInv, OneFields, Leaving
    <2>3. Iterated'
      BY <1>2 DEF Defaults, SetDefaults, OneInv, OneFields, Iterated, Leaving
    <2> QED BY <2>1, <2>2, <2>3 DEF OneInv
  <1>3. CASE Restarted(0)
    <2>1. OneFields' /\ Findable'
      BY <1>3 DEF Restarted, OneInv, OneFields, Findable
    <2>2. Leaving'
      BY <1>3 DEF Restarted, OneInv, OneFields, Leaving
    <2>3. Iterated'
      BY <1>3 DEF Restarted, OneInv, OneFields, Iterated, Leaving
    <2> QED BY <2>1, <2>2, <2>3 DEF OneInv
  <1>4. CASE NewTest(0)
    <2>1. OneFields' /\ Findable'
      BY <1>4 DEF NewTest, OneInv, OneFields, Findable
    <2>2. Leaving'
      BY <1>4 DEF NewTest, OneInv, OneFields, Leaving
    <2>3. Iterated'
      BY <1>4 DEF NewTest, OneInv, OneFields, Iterated, Leaving
    <2> QED BY <2>1, <2>2, <2>3 DEF OneInv
  <1>5. CASE LoadIters(0)
    <2>1. OneFields' /\ Findable'
      BY <1>5 DEF LoadIters, OneInv, OneFields, Findable
    <2>2. Leaving'
      BY <1>5 DEF LoadIters, OneInv, OneFields, Leaving
    <2>3. Iterated'
      BY <1>5 DEF LoadIters, OneInv, OneFields, Iterated, Leaving
    <2> QED BY <2>1, <2>2, <2>3 DEF OneInv
  <1>6. CASE SetIters(0)
    <2>1. OneFields' /\ Findable'
      BY <1>6 DEF SetIters, OneInv, OneFields, Findable
    <2>2. Leaving'
      BY <1>6 DEF SetIters, OneInv, OneFields, Leaving
    <2>3. Iterated'
      BY <1>6 DEF SetIters, OneInv, OneFields, Iterated, Leaving
    <2> QED BY <2>1, <2>2, <2>3 DEF OneInv
  <1>7. CASE WindowLoop(0)
    <2>1. OneFields' /\ Findable'
      BY <1>7 DEF WindowLoop, OneInv, OneFields, Findable
    <2>2. Leaving'
      BY <1>7 DEF WindowLoop, OneInv, OneFields, Leaving
    <2>3. Iterated'
      BY <1>7 DEF WindowLoop, OneInv, OneFields, Iterated, Leaving
    <2> QED BY <2>1, <2>2, <2>3 DEF OneInv
  <1>8. CASE FadeWindow(0)
    <2>1. OneFields' /\ Findable'
      BY <1>8 DEF FadeWindow, OneInv, OneFields, Findable
    <2>2. Leaving'
      BY <1>8 DEF FadeWindow, OneInv, OneFields, Leaving
    <2>3. Iterated'
      BY <1>8 DEF FadeWindow, OneInv, OneFields, Iterated, Leaving
    <2> QED BY <2>1, <2>2, <2>3 DEF OneInv
  <1> QED BY <1>1, <1>2, <1>3, <1>4, <1>5, <1>6, <1>7, <1>8

(* The end of a test, and of a pass.                                        *)
LEMMA OneEnds ==
    ASSUME OneCpu, OneInv, Typed, Shape, Globals, 0 \in CPUs,
           ResetWindows(0) \/ RestartTest(0) \/ NextStage(0) \/ Advance(0) \/ NextTest(0) \/ Scan(0) \/ Rescan(0) \/ EndPass(0) \/ NewPass(0) \/ Unbail(0)
    PROVE  OneInv'
  <1>0. /\ Located /\ g.mstr_cpu = 0 /\ DOMAIN cpu = CPUs
        /\ g.test \in Nat /\ End \in Nat \ {0}
    BY EndType DEF Typed, OneInv, Findable, Shape, Globals
  <1> USE <1>0 DEF Located, Goto, SomeSelected, Computed, Underway, Advancing
  <1>1. CASE ResetWindows(0)
    <2>1. OneFields' /\ Findable'
      BY <1>1 DEF ResetWindows, Master, OneInv, OneFields, Findable
    <2>2. Leaving'
      BY <1>1 DEF ResetWindows, Master, OneInv, OneFields, Leaving
    <2>3. Iterated'
      BY <1>1 DEF ResetWindows, Master, OneInv, OneFields, Iterated, Leaving
    <2> QED BY <2>1, <2>2, <2>3 DEF OneInv
  <1>2. CASE RestartTest(0)
    <2>1. OneFields' /\ Findable'
      BY <1>2 DEF RestartTest, TestOver, OneInv, OneFields, Findable
    <2>2. Leaving'
      BY <1>2 DEF RestartTest, TestOver, OneInv, OneFields, Leaving
    <2>3. Iterated'
      BY <1>2 DEF RestartTest, TestOver, OneInv, OneFields, Iterated, Leaving
    <2> QED BY <2>1, <2>2, <2>3 DEF OneInv
  <1>3. CASE NextStage(0)
    <2>1. OneFields' /\ Findable'
      BY <1>3 DEF NextStage, TestOver, OneInv, OneFields, Findable
    <2>2. Leaving'
      BY <1>3 DEF NextStage, TestOver, OneInv, OneFields, Leaving
    <2>3. Iterated'
      BY <1>3 DEF NextStage, TestOver, OneInv, OneFields, Iterated, Leaving
    <2> QED BY <2>1, <2>2, <2>3 DEF OneInv
  <1>4. CASE Advance(0)
    <2>1. OneFields' /\ Findable'
      BY <1>4 DEF Advance, TestOver, OneInv, OneFields, Findable
    <2>2. Leaving'
      BY <1>4 DEF Advance, TestOver, OneInv, OneFields, Leaving
    <2>3. Iterated'
      BY <1>4 DEF Advance, TestOver, OneInv, OneFields, Iterated, Leaving
    <2> QED BY <2>1, <2>2, <2>3 DEF OneInv
  <1>5. CASE NextTest(0)
    <2>1. OneFields' /\ Findable'
      BY <1>5 DEF NextTest, OneInv, OneFields, Findable
    <2>2. Leaving'
      BY <1>5 DEF NextTest, OneInv, OneFields, Leaving
    <2>3. Iterated'
      BY <1>5 DEF NextTest, OneInv, OneFields, Iterated, Leaving
    <2> QED BY <2>1, <2>2, <2>3 DEF OneInv
  <1>6. CASE Scan(0)
    <2>1. OneFields' /\ Findable'
      BY <1>6 DEF Scan, Unselected, OneInv, OneFields, Findable
    <2>2. Leaving'
      BY <1>6 DEF Scan, Unselected, OneInv, OneFields, Leaving
    <2>3. Iterated'
      BY <1>6 DEF Scan, Unselected, OneInv, OneFields, Iterated, Leaving
    <2> QED BY <2>1, <2>2, <2>3 DEF OneInv
  <1>7. CASE Rescan(0)
    <2>1. OneFields' /\ Findable'
      BY <1>7 DEF Rescan, Unselected, OneInv, OneFields, Findable
    <2>2. Leaving'
      BY <1>7 DEF Rescan, Unselected, OneInv, OneFields, Leaving
    <2>3. Iterated'
      BY <1>7 DEF Rescan, Unselected, OneInv, OneFields, Iterated, Leaving
    <2> QED BY <2>1, <2>2, <2>3 DEF OneInv
  <1>8. CASE EndPass(0)
    <2>1. OneFields' /\ Findable'
      BY <1>8 DEF EndPass, OneInv, OneFields, Findable
    <2>2. Leaving'
      BY <1>8 DEF EndPass, OneInv, OneFields, Leaving
    <2>3. Iterated'
      BY <1>8 DEF EndPass, OneInv, OneFields, Iterated, Leaving
    <2> QED BY <2>1, <2>2, <2>3 DEF OneInv
  <1>9. CASE NewPass(0)
    <2>1. OneFields' /\ Findable'
      BY <1>9 DEF NewPass, OneInv, OneFields, Findable
    <2>2. Leaving'
      BY <1>9 DEF NewPass, OneInv, OneFields, Leaving
    <2>3. Iterated'
      BY <1>9 DEF NewPass, OneInv, OneFields, Iterated, Leaving
    <2> QED BY <2>1, <2>2, <2>3 DEF OneInv
  <1>10. CASE Unbail(0)
    <2>1. OneFields' /\ Findable'
      BY <1>10 DEF Unbail, OneInv, OneFields, Findable
    <2>2. Leaving'
      BY <1>10 DEF Unbail, OneInv, OneFields, Leaving
    <2>3. Iterated'
      BY <1>10 DEF Unbail, OneInv, OneFields, Iterated, Leaving
    <2> QED BY <2>1, <2>2, <2>3 DEF OneInv
  <1> QED BY <1>1, <1>2, <1>3, <1>4, <1>5, <1>6, <1>7, <1>8, <1>9, <1>10

(* A key of the menu, at a tick or at the end of the test.                  *)
LEMMA OneInputs ==
    ASSUME OneCpu, OneInv, Typed, Shape, Globals, 0 \in CPUs, Tick(0) \/ HouseInput(0)
    PROVE  OneInv'
  <1>1. Located /\ g.mstr_cpu = 0 /\ Master(0)
    BY DEF Typed, OneInv, Findable, Master
  <1>2. /\ CheckInput /\ UNCHANGED cpu
        /\ \/ pc[0] = "tick" /\ pc'[0] = "tick_bar"
           \/ pc[0] = "house" /\ pc'[0] = "advance"
    BY <1>1 DEF Tick, HouseInput, Goto, Located
  <1>3. SomeSelected(g.sel) /\ g.test < End
    BY <1>2 DEF OneInv, Findable
  <1>4. GoesOn(g')
    BY <1>2, <1>3, OneInput DEF OneInv
  <1>5. DOMAIN g' = DOMAIN g
    BY <1>2, InputFrame DEF Kept
  <1> USE DEF GoesOn, Computed, Underway, Advancing
  <1>6. OneFields' /\ Findable'
    BY <1>1, <1>2, <1>4, <1>5 DEF OneInv, OneFields, Findable
  <1>7. Leaving'
    BY <1>2, <1>4 DEF OneInv, Leaving
  <1>8. Iterated'
    BY <1>2, <1>4 DEF OneInv, Iterated, Leaving
  <1> QED BY <1>6, <1>7, <1>8 DEF OneInv

LEMMA OneNext ==
    ASSUME OneCpu, StagesInv, OneInv, [Next]_vars
    PROVE  OneInv'
  <1>1. Typed /\ Shape /\ Globals
    BY DEF StagesInv, Typed
  <1>2. CPUs = {0}
    BY Alone
  <1> USE DEF OneInv, OneFields, Findable, Leaving, Iterated, Computed
  <1>3. CASE MeetOpens
    BY <1>3 DEF MeetOpens
  <1>4. CASE Step(0)
    BY <1>1, <1>2, <1>4, OneBegins, OneQuietStep, OneInputs, OneEnds DEF Step
  <1>5. CASE UNCHANGED vars
    BY <1>5 DEF vars
  <1> QED BY <1>2, <1>3, <1>4, <1>5 DEF Next

LEMMA OneInvariance == ASSUME OneCpu PROVE SafeSpec => []OneInv
  <1>1. Init => OneInv
    BY OneInit
  <1>2. StagesInv /\ OneInv /\ [Next]_vars => OneInv'
    BY OneNext
  <1> QED BY <1>1, <1>2, StagesInvariance, PTL DEF SafeSpec

(* One CPU runs a test with the iterations of this test in this pass,       *)
(* whatever is selected, limited, skipped or restarted (main.c:573-585), if *)
(* no list of tests is entered: test_setup()'s `ltest` tells when they have *)
(* to be computed again.                                                    *)
THEOREM LoneIterations == ASSUME OneCpu PROVE SafeSpec => []ItersRight
  <1>1. StagesInv /\ OneInv => ItersRight
    <2> SUFFICES ASSUME StagesInv, OneInv, pc[0] = "access" PROVE g.c_iter = <<g.test, g.pass = 0>>
      BY Alone DEF ItersRight, Testing
    <2>1. ~g.restart_single
      BY DEF OneInv, Leaving
    <2>2. Computed(g) /\ g.test = g.ltest
      BY <2>1 DEF OneInv, Iterated, Underway
    <2>3. g.test # -1
      BY DEF StagesInv, Typed, Globals
    <2> QED BY <2>2, <2>3 DEF Computed
  <1> QED BY <1>1, OneInvariance, StagesInvariance, PTL

=============================================================================
