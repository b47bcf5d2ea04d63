--------------------------- MODULE Barrier_proofs ---------------------------
(***************************************************************************)
(* Proofs about Barrier for any number of CPUs the program supports:       *)
(* BarrierInv is an invariant, and the barrier implements the meeting      *)
(* point of Rendezvous (the safety part; TLC checks liveness).             *)
(***************************************************************************)
EXTENDS Barrier, FiniteSetTheorems, TLAPS

IInv == TypeOK /\ BarrierInv

(* The CPUs that owe the lock byte a decrement. *)
Busy == Holders \cup Spinners

HolderLabels == {"arrive", "hold", "open", "recount", "release", "depart",
                 "reopen", "shut", "unlock"}
BusyLabels   == HolderLabels \cup {"spin", "spin2"}
AbsentLabels == {"hold", "open", "recount", "release", "st2", "lock2",
                 "spin2", "depart"}

----------------------------------------------------------------------------
(* The number of CPUs is a positive number that a signed byte can count. *)
LEMMA MaxProcType == MaxProc \in 1 .. 32
BY CPUsAssumption DEF MaxProc

(* Sets of CPUs are finite, no larger than CPUs, and CPUs only when full. *)
LEMMA SubsetCard ==
    ASSUME NEW S, S \subseteq CPUs
    PROVE  /\ IsFiniteSet(S)
           /\ Cardinality(S) \in 0 .. MaxProc
           /\ Cardinality(S) = MaxProc => S = CPUs
           /\ Cardinality(S) = 0 <=> S = {}
<1>1. /\ IsFiniteSet(S)
      /\ Cardinality(S) <= Cardinality(CPUs)
      /\ Cardinality(CPUs) = Cardinality(S) => CPUs = S
  BY FS_Subset, CPUsAssumption
<1>2. Cardinality(S) \in Nat
  BY <1>1, FS_CardinalityType
<1>3. Cardinality(S) = 0 <=> S = {}
  BY <1>1, FS_EmptySet
<1> QED  BY <1>1, <1>2, <1>3, MaxProcType DEF MaxProc

(* Adding a CPU to a set, or taking one out, moves its size by one. *)
LEMMA AddCard ==
    ASSUME NEW S, S \subseteq CPUs, NEW c \in CPUs, c \notin S
    PROVE  Cardinality(S \cup {c}) = Cardinality(S) + 1
BY SubsetCard, FS_AddElement

LEMMA RemoveCard ==
    ASSUME NEW S, S \subseteq CPUs, NEW c \in S
    PROVE  Cardinality(S \ {c}) = Cardinality(S) - 1
BY SubsetCard, FS_RemoveElement

(* A CPU whose label is not counted does not change the number of CPUs      *)
(* that are; one that moves to or from a counted label changes it by one.   *)
LEMMA AbsentMoves ==
    ASSUME TypeOK, NEW c \in CPUs, NEW from, NEW to, Goto(c, from, to)
    PROVE  /\ (from \in AbsentLabels <=> to \in AbsentLabels) => Absent' = Absent
           /\ from \notin AbsentLabels /\ to \in AbsentLabels =>
                 /\ Absent' = Absent \cup {c}
                 /\ Cardinality(Absent') = Cardinality(Absent) + 1
           /\ from \in AbsentLabels /\ to \notin AbsentLabels =>
                 /\ Absent' = Absent \ {c}
                 /\ Cardinality(Absent') = Cardinality(Absent) - 1
<1>1. Absent \subseteq CPUs
  BY DEF Absent
<1>2. (from \in AbsentLabels <=> to \in AbsentLabels) => Absent' = Absent
  BY DEF Absent, AbsentLabels, Goto, TypeOK
<1>3. from \notin AbsentLabels /\ to \in AbsentLabels =>
         c \notin Absent /\ Absent' = Absent \cup {c}
  BY DEF Absent, AbsentLabels, Goto, TypeOK
<1>4. from \in AbsentLabels /\ to \notin AbsentLabels =>
         c \in Absent /\ Absent' = Absent \ {c}
  BY DEF Absent, AbsentLabels, Goto, TypeOK
<1> QED  BY <1>1, <1>2, <1>3, <1>4, AddCard, RemoveCard

(* The same for the CPUs that owe the lock byte a decrement. *)
LEMMA BusyMoves ==
    ASSUME TypeOK, NEW c \in CPUs, NEW from, NEW to, Goto(c, from, to)
    PROVE  /\ (from \in BusyLabels <=> to \in BusyLabels) => Busy' = Busy
           /\ from \notin BusyLabels /\ to \in BusyLabels =>
                 Cardinality(Busy') = Cardinality(Busy) + 1
           /\ Cardinality(Busy) \in 0 .. MaxProc
           /\ Cardinality(Busy') \in 0 .. MaxProc
<1>1. Busy \subseteq CPUs /\ Busy' \subseteq CPUs
  BY DEF Busy, Holders, Spinners
<1>2. (from \in BusyLabels <=> to \in BusyLabels) => Busy' = Busy
  BY DEF Busy, Holders, Spinners, BusyLabels, HolderLabels, Goto, TypeOK
<1>3. from \notin BusyLabels /\ to \in BusyLabels =>
         c \notin Busy /\ Busy' = Busy \cup {c}
  BY DEF Busy, Holders, Spinners, BusyLabels, HolderLabels, Goto, TypeOK
<1> QED  BY <1>1, <1>2, <1>3, AddCard, SubsetCard

(* With the invariant a decb never wraps round. *)
LEMMA DecbExact ==
    ASSUME IInv
    PROVE  Decb(lck) = lck - 1 /\ lck - 1 \in -128 .. 127
<1>1. Busy \subseteq CPUs
  BY DEF Busy, Holders, Spinners
<1>2. Cardinality(Busy) \in 0 .. MaxProc
  BY <1>1, SubsetCard
<1>3. lck \in -31 .. 1
  BY <1>2, MaxProcType DEF IInv, TypeOK, BarrierInv, LockByte, Busy
<1> QED  BY <1>3 DEF Decb

----------------------------------------------------------------------------
LEMMA InitInv == Init => IInv
<1> SUFFICES ASSUME Init PROVE IInv
  OBVIOUS
<1>1. TypeOK
  BY MaxProcType DEF Init, TypeOK, Labels
<1>2. Absent = {} /\ Holders = {} /\ Spinners = {}
  BY DEF Init, Absent, Holders, Spinners
<1>3. Cardinality(Absent) = 0 /\ Cardinality(Holders \cup Spinners) = 0
  BY <1>2, FS_EmptySet
<1>4. MutualExclusion /\ LockByte /\ CountInv
  BY <1>2, <1>3, MaxProcType DEF Init, MutualExclusion, LockByte, CountInv
<1>5. PhaseInv
  BY DEF Init, PhaseInv, Filling
<1> QED  BY <1>1, <1>4, <1>5 DEF IInv, BarrierInv

(* The lock part: a CPU that enters Holders found the lock free. *)
LEMMA LockStep ==
    ASSUME IInv, NEW c \in CPUs, Call(c) \/ Inside(c)
    PROVE  MutualExclusion' /\ LockByte' /\ lck' \in -128 .. 127
<1> USE DEF IInv, TypeOK, BarrierInv, MutualExclusion, LockByte
<1> DEFINE Quiet(from, to) == /\ Goto(c, from, to)
                              /\ lck' = lck
                              /\ from \in HolderLabels <=> to \in HolderLabels
                              /\ from \in BusyLabels <=> to \in BusyLabels
<1>1. ASSUME NEW from, NEW to, Quiet(from, to)
      PROVE  MutualExclusion' /\ LockByte' /\ lck' \in -128 .. 127
  <2>1. Holders' = Holders
    BY <1>1 DEF Holders, HolderLabels, Goto
  <2>2. Busy' = Busy
    BY <1>1, BusyMoves
  <2> QED  BY <1>1, <2>1, <2>2 DEF Busy
<1>2. ASSUME NEW from \in {"lock", "lock2"}, NEW spin \in {"spin", "spin2"},
             NEW held \in {"arrive", "depart"}, SpinLock(c, from, spin, held)
      PROVE  MutualExclusion' /\ LockByte' /\ lck' \in -128 .. 127
  <2> DEFINE to == IF Decb(lck) >= 0 THEN held ELSE spin
  <2>1. lck' = lck - 1 /\ lck' \in -128 .. 127 /\ Goto(c, from, to)
    BY <1>2, DecbExact DEF SpinLock
  <2>2. /\ Cardinality(Busy') = Cardinality(Busy) + 1
        /\ Cardinality(Busy) \in 0 .. MaxProc
    <3>1. from \notin BusyLabels /\ to \in BusyLabels
      BY DEF BusyLabels, HolderLabels
    <3> QED  BY <2>1, <3>1, BusyMoves
  <2>3. lck' >= 1 - Cardinality(Busy')
    <3>1. lck >= 1 - Cardinality(Busy)
      BY DEF Busy
    <3> HIDE DEF IInv, TypeOK, BarrierInv, MutualExclusion, LockByte
    <3>2. Cardinality(Busy) \in Int
      BY <2>2
    <3>3. lck \in Int
      BY DEF IInv, TypeOK
    <3> QED  BY <2>1, <2>2, <3>1, <3>2, <3>3
  <2>4. CASE lck = 1
    <3>1. Holders' = {c}
      BY <1>2, <2>1, <2>4, DecbExact DEF Holders, Goto
    <3> QED  BY <2>1, <2>3, <2>4, <3>1 DEF Busy
  <2>5. CASE lck # 1
    <3>1. lck <= 0 /\ to = spin
      BY <2>5, DecbExact
    <3>2. Holders' = Holders
      BY <2>1, <3>1 DEF Holders, Goto
    <3> QED  BY <2>1, <2>3, <2>5, <3>1, <3>2 DEF Busy
  <2> QED  BY <2>4, <2>5
<1>3. ASSUME NEW from \in {"lock", "lock2"}, NEW spin \in {"spin", "spin2"},
             SpinRetry(c, spin, from)
      PROVE  MutualExclusion' /\ LockByte' /\ lck' \in -128 .. 127
  <2>1. lck = 1 /\ lck' = 1 /\ Goto(c, spin, from)
    BY <1>3 DEF SpinRetry
  <2>2. Holders' = Holders
    BY <2>1 DEF Holders, Goto
  <2>3. Cardinality(Busy') \in 0 .. MaxProc
    BY <2>1, BusyMoves
  <2> QED  BY <2>1, <2>2, <2>3, MaxProcType DEF Busy
<1>4. ASSUME NEW from \in HolderLabels, NEW to \in {"work", "st2"},
             SpinUnlock(c, from, to)
      PROVE  MutualExclusion' /\ LockByte' /\ lck' \in -128 .. 127
  <2>1. lck' = 1 /\ Goto(c, from, to)
    BY <1>4 DEF SpinUnlock
  <2>2. Holders' = {}
    BY <2>1 DEF Holders, HolderLabels, Goto
  <2>3. Cardinality(Busy') \in 0 .. MaxProc
    BY <2>1, BusyMoves
  <2> QED  BY <2>1, <2>2, <2>3, MaxProcType DEF Busy
<1>5. \/ \E from, to : Quiet(from, to)
      \/ Lock(c) \/ Lock2(c) \/ LockRetry(c) \/ Lock2Retry(c)
      \/ Release(c) \/ Return(c)
  BY DEF Call, Inside, WaitEntry, SpinWait, CountDown, HoldEntry, OpenExit,
         Recount, WaitExit, CountUp, Reopen, ShutExit, Goto, HolderLabels,
         BusyLabels
<1> QED
  <2> HIDE DEF IInv, TypeOK, BarrierInv, MutualExclusion, LockByte, Quiet
  <2> QED  BY <1>1, <1>2, <1>3, <1>4, <1>5
           DEF Lock, Lock2, LockRetry, Lock2Retry, Release, Return, HolderLabels

(* The count part: it moves with Absent, under the lock. *)
LEMMA CountStep ==
    ASSUME IInv, NEW c \in CPUs, Call(c) \/ Inside(c)
    PROVE  CountInv' /\ count' \in 0 .. MaxProc
<1>1. CountInv /\ TypeOK
  BY DEF IInv, BarrierInv
<1>2. /\ Cardinality(Absent) \in 0 .. MaxProc
      /\ Cardinality(Absent') \in 0 .. MaxProc
  BY SubsetCard DEF Absent
<1>3. ASSUME CountInv' PROVE count' \in 0 .. MaxProc
  BY <1>2, <1>3, MaxProcType DEF CountInv
<1>4. CASE CountDown(c)
  <2>1. Cardinality(Absent') = Cardinality(Absent) + 1
    BY <1>1, <1>4, AbsentMoves DEF CountDown, AbsentLabels
  <2> QED  BY <1>1, <1>2, <1>3, <1>4, <2>1, MaxProcType DEF CountInv, CountDown
<1>5. CASE Recount(c) \/ CountUp(c)
  <2>1. Cardinality(Absent') = Cardinality(Absent) - 1
    BY <1>1, <1>5, AbsentMoves DEF Recount, CountUp, AbsentLabels
  <2> QED
    BY <1>1, <1>2, <1>3, <1>5, <2>1, MaxProcType DEF CountInv, Recount, CountUp
<1>6. CASE ~(CountDown(c) \/ Recount(c) \/ CountUp(c))
  <2>1. PICK from, to : /\ Goto(c, from, to)
                        /\ from \in AbsentLabels <=> to \in AbsentLabels
    BY <1>6 DEF Call, Inside, WaitEntry, Lock, LockRetry, HoldEntry, OpenExit,
                Release, WaitExit, Lock2, Lock2Retry, Reopen, ShutExit, Return,
                SpinLock, SpinRetry, SpinUnlock, SpinWait, AbsentLabels, Goto
  <2>2. Absent' = Absent
    BY <1>1, <2>1, AbsentMoves
  <2>3. count' = count
    BY <1>6 DEF Call, Inside, WaitEntry, Lock, LockRetry, HoldEntry, OpenExit,
                Release, WaitExit, Lock2, Lock2Retry, Reopen, ShutExit, Return,
                SpinLock, SpinRetry, SpinUnlock, SpinWait
  <2> QED  BY <1>1, <1>3, <2>2, <2>3 DEF CountInv
<1> QED  BY <1>4, <1>5, <1>6

(* The phase part.  Only the CPU with the lock moves the round on, and it   *)
(* is the count that tells it that all the others are where it needs them.  *)
LEMMA PhaseStep ==
    ASSUME IInv, NEW c \in CPUs, Call(c) \/ Inside(c)
    PROVE  PhaseInv'
<1>1. /\ TypeOK
      /\ PhaseInv
      /\ CountInv
      /\ \A d \in CPUs \ {c} : pc[c] \in HolderLabels => pc[d] \notin HolderLabels
  BY DEF IInv, BarrierInv, MutualExclusion, Holders, HolderLabels
<1>2. CASE Call(c) \/ WaitEntry(c) \/ WaitExit(c)
  BY <1>1, <1>2 DEF Call, WaitEntry, WaitExit, SpinWait, Goto, PhaseInv, Filling,
                    Draining, TypeOK, HolderLabels, Absent
<1>3. CASE Lock(c)
  <2>1. Decb(lck) >= 0 => \A d \in CPUs : pc[d] \notin HolderLabels
    BY DecbExact DEF IInv, BarrierInv, TypeOK, LockByte, Holders, HolderLabels
  <2>2. \E to \in {"arrive", "spin"} :
           /\ Goto(c, "lock", to)
           /\ to = "arrive" => \A d \in CPUs : pc[d] \notin HolderLabels
    BY <1>3, <2>1 DEF Lock, SpinLock
  <2> QED
    BY <1>1, <1>3, <2>2 DEF Lock, SpinLock, Goto, PhaseInv, Filling, Draining,
                            TypeOK, HolderLabels, Absent
<1>4. CASE LockRetry(c)
  BY <1>1, <1>4 DEF LockRetry, SpinRetry, Goto, PhaseInv, Filling, Draining,
                    TypeOK, HolderLabels, Absent
<1>5. CASE Lock2(c) \/ Lock2Retry(c)
  BY <1>1, <1>5 DEF Lock2, Lock2Retry, SpinLock, SpinRetry, Goto, PhaseInv,
                    Filling, Draining, TypeOK, HolderLabels, Absent
<1>6. CASE Release(c)
  BY <1>1, <1>6 DEF Release, SpinUnlock, Goto, PhaseInv, Filling, Draining,
                    TypeOK, HolderLabels, Absent
<1>7. CASE Return(c)
  BY <1>1, <1>7 DEF Return, SpinUnlock, Goto, PhaseInv, Filling, Draining,
                    TypeOK, HolderLabels, Absent
<1>8. CASE CountDown(c)
  <2>1. /\ Cardinality(Absent') = Cardinality(Absent) + 1
        /\ Absent' = Absent \cup {c}
    BY <1>1, <1>8, AbsentMoves DEF CountDown, AbsentLabels
  <2>2. count = 1 => Absent' = CPUs
    <3>1. /\ Cardinality(Absent') \in 0 .. MaxProc
          /\ Cardinality(Absent') = MaxProc => Absent' = CPUs
      BY SubsetCard DEF Absent
    <3>2. Cardinality(Absent) \in 0 .. MaxProc
      BY SubsetCard DEF Absent
    <3> QED  BY <1>1, <2>1, <3>1, <3>2, MaxProcType DEF CountInv
  <2>3. count = 1 => \A d \in CPUs \ {c} : pc[d] = "st2"
    BY <1>1, <1>8, <2>1, <2>2
       DEF CountDown, Goto, PhaseInv, Filling, Draining, TypeOK, HolderLabels,
           Absent
  <2>4. count - 1 = 0 <=> count = 1
    BY <1>1 DEF TypeOK
  <2> QED
    BY <1>1, <1>8, <2>3, <2>4
       DEF CountDown, Goto, PhaseInv, Filling, Draining, TypeOK, HolderLabels,
           Absent
<1>9. CASE CountUp(c)
  <2>1. Cardinality(Absent') = Cardinality(Absent) - 1
    BY <1>1, <1>9, AbsentMoves DEF CountUp, AbsentLabels
  <2>2. count + 1 = MaxProc => Absent' = {}
    <3>1. Cardinality(Absent') = 0 <=> Absent' = {}
      BY SubsetCard DEF Absent
    <3>2. Cardinality(Absent) \in 0 .. MaxProc
      BY SubsetCard DEF Absent
    <3> QED  BY <1>1, <2>1, <3>1, <3>2, MaxProcType DEF CountInv
  <2> QED
    BY <1>1, <1>9, <2>2
       DEF CountUp, Goto, PhaseInv, Filling, Draining, TypeOK, HolderLabels
<1>10. CASE HoldEntry(c) \/ OpenExit(c) \/ Recount(c)
  BY <1>1, <1>10
     DEF HoldEntry, OpenExit, Recount, Goto, PhaseInv, Filling, Draining, TypeOK,
         HolderLabels, Absent
<1>11. CASE Reopen(c)
  <2>1. Absent = {} /\ st1 = 0 /\ st2 = 1
    BY <1>1, <1>11 DEF Reopen, Goto, PhaseInv, Filling, Draining, TypeOK
  <2>2. \A d \in CPUs \ {c} : pc[d] \in {"work", "st1"}
    BY <1>1, <1>11, <2>1
       DEF Reopen, Goto, PhaseInv, Draining, TypeOK, HolderLabels, Absent
  <2> QED  BY <1>1, <1>11, <2>1, <2>2 DEF Reopen, Goto, PhaseInv, TypeOK
<1>12. CASE ShutExit(c)
  BY <1>1, <1>12
     DEF ShutExit, Goto, PhaseInv, Filling, Draining, TypeOK, HolderLabels, Absent
<1> QED
  BY <1>2, <1>3, <1>4, <1>5, <1>6, <1>7, <1>8, <1>9, <1>10, <1>11, <1>12 DEF Inside

(* A step keeps every CPU at a label and the flags at 0 or 1. *)
LEMMA LabelStep ==
    ASSUME TypeOK, NEW c \in CPUs, Call(c) \/ Inside(c)
    PROVE  pc' \in [CPUs -> Labels] /\ st1' \in {0, 1} /\ st2' \in {0, 1}
BY DEF TypeOK, Labels, Entering, Opening, Waiting, Closing, Call, Inside,
       WaitEntry, Lock, LockRetry, CountDown, HoldEntry, OpenExit, Recount,
       Release, WaitExit, Lock2, Lock2Retry, CountUp, Reopen, ShutExit, Return,
       SpinLock, SpinRetry, SpinUnlock, SpinWait, Goto

LEMMA NextInv == IInv /\ [Next]_vars => IInv'
<1> SUFFICES ASSUME IInv, [Next]_vars PROVE IInv'
  OBVIOUS
<1>1. CASE UNCHANGED vars
  BY <1>1 DEF vars, IInv, TypeOK, BarrierInv, MutualExclusion, LockByte, CountInv,
              PhaseInv, Holders, Spinners, Absent
<1>2. ASSUME NEW c \in CPUs, Call(c) \/ Inside(c) PROVE IInv'
  <2>1. TypeOK'
    BY <1>2, LabelStep, LockStep, CountStep DEF IInv, TypeOK
  <2> QED  BY <1>2, <2>1, LockStep, CountStep, PhaseStep DEF IInv, BarrierInv
<1> QED  BY <1>1, <1>2 DEF Next

----------------------------------------------------------------------------
(* Whatever the number of CPUs, the lock byte, the count and the labels     *)
(* keep their ranges: the byte never wraps, the count never goes negative.  *)
THEOREM Typing == Spec => []TypeOK
<1>1. IInv => TypeOK
  BY DEF IInv
<1> QED  BY <1>1, InitInv, NextInv, PTL DEF Spec

(* Whatever the number of CPUs, the parts of the barrier agree: one CPU at  *)
(* a time touches the count, the count is right, and a CPU still waiting or *)
(* leaving is never overtaken by the next round (smp.c:49-71).              *)
THEOREM Invariance == Spec => []BarrierInv
<1>1. IInv => BarrierInv
  BY DEF IInv
<1> QED  BY <1>1, InitInv, NextInv, PTL DEF Spec

----------------------------------------------------------------------------
(* The initial states of the barrier are initial states of the meeting. *)
LEMMA MeetingInit == Init => Meeting!Init
BY DEF Init, Meeting!Init, Place

(* Every step of the barrier is a step of the meeting or none. *)
LEMMA MeetingStep ==
    ASSUME IInv, [Next]_vars
    PROVE  [Meeting!Next]_([c \in CPUs |-> Place(c)])
<1> DEFINE at == [c \in CPUs |-> Place(c)]
<1> USE DEF Goto, SpinLock, SpinRetry, SpinUnlock, SpinWait, Place, Entering
<1>1. TypeOK /\ PhaseInv
  BY DEF IInv, BarrierInv
<1>2. CASE UNCHANGED vars
  BY <1>2 DEF vars
<1>3. ASSUME NEW c \in CPUs, CountDown(c)
      PROVE  Meeting!Arrive(c)
  <2>1. st1 = 1 /\ st2 = 0
    BY <1>1, <1>3 DEF CountDown, TypeOK, PhaseInv, Filling, Draining
  <2> QED  BY <1>1, <1>3, <2>1 DEF CountDown, Meeting!Arrive, TypeOK
<1>4. ASSUME NEW c \in CPUs, OpenExit(c)
      PROVE  Meeting!Open
  <2>1. st2 = 0 /\ \A d \in CPUs \ {c} : pc[d] = "st2"
    BY <1>1, <1>4 DEF OpenExit, TypeOK, PhaseInv, Filling, Draining
  <2> QED  BY <1>1, <1>4, <2>1 DEF OpenExit, Meeting!Open, TypeOK
<1>5. ASSUME NEW c \in CPUs, Return(c)
      PROVE  Meeting!Depart(c)
  BY <1>1, <1>5 DEF Return, Meeting!Depart, TypeOK
<1>6. ASSUME NEW c \in CPUs, ShutExit(c)
      PROVE  at' = at
  <2>1. \A d \in CPUs \ {c} : pc[d] # "st2"
    BY <1>1, <1>6 DEF ShutExit, TypeOK, PhaseInv, Filling, Draining
  <2> QED  BY <1>1, <1>6, <2>1 DEF ShutExit, TypeOK
<1>7. ASSUME NEW c \in CPUs, Release(c)
      PROVE  at' = at
  <2>1. st2 = 0
    BY <1>1, <1>7 DEF Release, TypeOK, PhaseInv, Filling, Draining
  <2> QED  BY <1>1, <1>7, <2>1 DEF Release, TypeOK
<1>8. ASSUME NEW c \in CPUs,
             \/ Call(c) \/ WaitEntry(c) \/ Lock(c) \/ LockRetry(c)
             \/ HoldEntry(c) \/ Recount(c) \/ WaitExit(c) \/ Lock2(c)
             \/ Lock2Retry(c) \/ CountUp(c) \/ Reopen(c)
      PROVE  at' = at
  BY <1>1, <1>8 DEF Call, WaitEntry, Lock, LockRetry, HoldEntry, Recount,
                    WaitExit, Lock2, Lock2Retry, CountUp, Reopen, TypeOK
<1> QED  BY <1>2, <1>3, <1>4, <1>5, <1>6, <1>7, <1>8
         DEF Next, Inside, Meeting!Next

(* Whatever the number of CPUs, no CPU gets past barrier() before all of    *)
(* them have called it, in every round: the promise each of the "barrier"   *)
(* comments of main.c relies on.                                            *)
THEOREM Refinement == Spec => ImplementsSafe
<1>1. Init /\ [][Next]_vars => []IInv
  BY InitInv, NextInv, PTL
<1>2. Init => Meeting!Init
  BY MeetingInit
<1>3. IInv /\ [Next]_vars => [Meeting!Next]_([c \in CPUs |-> Place(c)])
  BY MeetingStep
<1> QED  BY <1>1, <1>2, <1>3, PTL DEF Spec, ImplementsSafe, Meeting!Safe

=============================================================================
