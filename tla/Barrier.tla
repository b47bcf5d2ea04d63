------------------------------ MODULE Barrier ------------------------------
(***************************************************************************)
(* The main barrier of smp.c and the byte spin lock it is built from       *)
(* (smp.h).  barrier() and s_barrier() are the same algorithm on two sets  *)
(* of fields of barrier_s; this module models one set.                     *)
(*                                                                         *)
(* One action per access to the shared structure.  get_cpuid() clears the  *)
(* mon bit (cpuid.c:87) before a second CPU runs, so the monitor/mwait     *)
(* branches of spin_wait and spin_lock are never taken.                    *)
(***************************************************************************)
EXTENDS Integers, FiniteSets

CONSTANTS CPUs,         \* the CPUs counted by act_cpus, all of them started
          NumCpus       \* num_cpus, selected or not: what barrier() tests

(* barrier_init() gets act_cpus; cpu_mask only ever removes CPUs from the   *)
(* num_cpus that were found, and MAX_CPUS is 32 (smp.h).                    *)
ASSUME CPUsAssumption ==
    /\ IsFiniteSet(CPUs)
    /\ Cardinality(CPUs) \in 1 .. 32
    /\ NumCpus \in Nat
    /\ NumCpus >= Cardinality(CPUs)

VARIABLES lck,          \* barr->lck.slock, as the signed byte decb acts on
          count,        \* barr->count
          st1,          \* barr->st1.slock: 1 when the barrier can be entered
          st2,          \* barr->st2.slock: 1 while the waiting CPUs may leave
          pc            \* where each CPU is in barrier(); "work" is outside

vars == <<lck, count, st1, st2, pc>>

MaxProc == Cardinality(CPUs)                              \* barr->maxproc

(* The steps of a call.  In order: wait for st1, take the lock, count down  *)
(* and then either open the barrier or wait for st2, take the lock again    *)
(* and count up.                                                            *)
Entering == {"st1", "lock", "spin", "arrive"}
Opening  == {"hold", "open", "recount"}
Waiting  == {"release", "st2", "lock2", "spin2", "depart"}
Closing  == {"reopen", "shut", "unlock"}
Labels   == {"work"} \cup Entering \cup Opening \cup Waiting \cup Closing

TypeOK == /\ lck \in -128 .. 127
          /\ count \in 0 .. MaxProc
          /\ st1 \in {0, 1}
          /\ st2 \in {0, 1}
          /\ pc \in [CPUs -> Labels]

(* barrier_init *)
Init == /\ lck = 1
        /\ count = MaxProc
        /\ st1 = 1
        /\ st2 = 0
        /\ pc = [c \in CPUs |-> "work"]

Goto(c, from, to) == pc[c] = from /\ pc' = [pc EXCEPT ![c] = to]

----------------------------------------------------------------------------
(* The spin lock.                                                           *)

(* decb on a signed byte *)
Decb(b) == IF b = -128 THEN 127 ELSE b - 1

(* "lock; decb; jns": the CPU has the lock when the result is not negative. *)
SpinLock(c, from, spin, held) ==
    /\ lck' = Decb(lck)
    /\ Goto(c, from, IF Decb(lck) >= 0 THEN held ELSE spin)
    /\ UNCHANGED <<count, st1, st2>>

(* "cmpb; jle": spin until the byte is positive, then try again. *)
SpinRetry(c, spin, from) ==
    /\ lck > 0
    /\ Goto(c, spin, from)
    /\ UNCHANGED <<lck, count, st1, st2>>

(* "movb $1" *)
SpinUnlock(c, from, to) ==
    /\ lck' = 1
    /\ Goto(c, from, to)
    /\ UNCHANGED <<count, st1, st2>>

(* spin_wait leaves its loop when the byte is not zero. *)
SpinWait(c, byte, from, to) ==
    /\ byte # 0
    /\ Goto(c, from, to)
    /\ UNCHANGED <<lck, count, st1, st2>>

----------------------------------------------------------------------------
(* barrier()                                                                *)

(* The call.  With one CPU in the machine it returns at once. *)
Call(c) == /\ NumCpus # 1
           /\ Goto(c, "work", "st1")
           /\ UNCHANGED <<lck, count, st1, st2>>

(* Mutants, here and below, are what a bug would make of the definition     *)
(* that follows.  This one does not wait for the last round to end.         *)
WaitEntryMutant(c) == Goto(c, "st1", "lock") /\ UNCHANGED <<lck, count, st1, st2>>

WaitEntry(c) == SpinWait(c, st1, "st1", "lock")
Lock(c)      == SpinLock(c, "lock", "spin", "arrive")
LockRetry(c) == SpinRetry(c, "spin", "lock")

(* --barr->count == 0 ?  The count is only touched with the lock held. *)
CountDown(c) == /\ Goto(c, "arrive", IF count - 1 = 0 THEN "hold" ELSE "release")
                /\ count' = count - 1
                /\ UNCHANGED <<lck, st1, st2>>

(* The last CPU to arrive closes the entry, opens the exit, gives back its  *)
(* place in the count and leaves.                                           *)
HoldEntry(c) == /\ Goto(c, "hold", "open")
                /\ st1' = 0
                /\ UNCHANGED <<lck, count, st2>>

OpenExit(c) == /\ Goto(c, "open", "recount")
               /\ st2' = 1
               /\ UNCHANGED <<lck, count, st1>>

(* Mutant: the last CPU then also takes the path of the others. *)
RecountMutant(c) == /\ Goto(c, "recount", "release")
                    /\ count' = count + 1
                    /\ UNCHANGED <<lck, st1, st2>>

Recount(c) == /\ Goto(c, "recount", "unlock")
              /\ count' = count + 1
              /\ UNCHANGED <<lck, st1, st2>>

(* Mutant: the lock is kept while waiting for the exit. *)
ReleaseMutant(c) == Goto(c, "release", "st2") /\ UNCHANGED <<lck, count, st1, st2>>

(* Every other CPU waits for the exit and counts itself back in. *)
Release(c)    == SpinUnlock(c, "release", "st2")
WaitExit(c)   == SpinWait(c, st2, "st2", "lock2")
Lock2(c)      == SpinLock(c, "lock2", "spin2", "depart")
Lock2Retry(c) == SpinRetry(c, "spin2", "lock2")

CountUp(c) == /\ Goto(c, "depart", IF count + 1 = MaxProc THEN "reopen" ELSE "unlock")
              /\ count' = count + 1
              /\ UNCHANGED <<lck, st1, st2>>

(* The last CPU to leave makes the barrier ready for its next use. *)
Reopen(c) == /\ Goto(c, "reopen", "shut")
             /\ st1' = 1
             /\ UNCHANGED <<lck, count, st2>>

(* Mutant: the exit stays open. *)
ShutExitMutant(c) == Goto(c, "shut", "unlock") /\ UNCHANGED <<lck, count, st1, st2>>

ShutExit(c) == /\ Goto(c, "shut", "unlock")
               /\ st2' = 0
               /\ UNCHANGED <<lck, count, st1>>

Return(c) == SpinUnlock(c, "unlock", "work")

(* What a CPU does inside the call. *)
Inside(c) ==
    \/ WaitEntry(c) \/ Lock(c) \/ LockRetry(c) \/ CountDown(c)
    \/ HoldEntry(c) \/ OpenExit(c) \/ Recount(c)
    \/ Release(c) \/ WaitExit(c) \/ Lock2(c) \/ Lock2Retry(c) \/ CountUp(c)
    \/ Reopen(c) \/ ShutExit(c) \/ Return(c)

Next == \E c \in CPUs : Call(c) \/ Inside(c)

(* The CPUs run in parallel and none of them is ever suspended: a CPU that  *)
(* can take a step takes it.  Between two barriers a CPU executes finite    *)
(* code, so it also calls again.                                            *)
Spec == /\ Init /\ [][Next]_vars
        /\ \A c \in CPUs : WF_vars(Call(c)) /\ WF_vars(Inside(c))

----------------------------------------------------------------------------
(* The invariant.                                                           *)

(* The CPUs between a successful decb and the movb that undoes it. *)
Holders == {c \in CPUs : pc[c] \in {"arrive", "hold", "open", "recount",
                                    "release", "depart", "reopen", "shut",
                                    "unlock"}}
Spinners == {c \in CPUs : pc[c] \in {"spin", "spin2"}}

(* The lock around barr->count is a lock: smp.c:58 "Get lock for barr       *)
(* struct" is true of at most one CPU at a time.                            *)
MutualExclusion == \A c, d \in Holders : c = d

(* The byte tells whether the lock is free, and every decb since the last   *)
(* unlock left its CPU holding or spinning: 32 CPUs cannot wrap it round.    *)
LockByte == /\ lck <= 1
            /\ lck = 1 <=> Holders = {}
            /\ lck >= 1 - Cardinality(Holders \cup Spinners)

(* The CPUs that took themselves off the count and are not back on it. *)
Absent == {c \in CPUs : pc[c] \in {"hold", "open", "recount", "release",
                                   "st2", "lock2", "spin2", "depart"}}

CountInv == count = MaxProc - Cardinality(Absent)

(* What each CPU may be doing in each of the four phases (st1, st2) of a    *)
(* round: filling, being opened, draining, being reset.                     *)
Filling  == {"work", "st1", "lock", "spin", "arrive", "hold", "release",
             "st2", "unlock"}
Draining == {"work", "st1", "recount", "st2", "lock2", "spin2", "depart",
             "reopen", "unlock"}
PhaseInv ==
    /\ st1 = 1 /\ st2 = 0 => \A c \in CPUs : pc[c] \in Filling
    /\ st1 = 0 /\ st2 = 0 => \E c \in CPUs :
                                /\ pc[c] = "open"
                                /\ \A d \in CPUs \ {c} : pc[d] = "st2"
    /\ st1 = 0 /\ st2 = 1 => \A c \in CPUs : pc[c] \in Draining
    /\ st1 = 1 /\ st2 = 1 => \E c \in CPUs :
                                /\ pc[c] = "shut"
                                /\ \A d \in CPUs \ {c} :
                                      pc[d] \in {"work", "st1", "lock", "spin"}
    /\ \A c \in CPUs : pc[c] = "hold" => \A d \in CPUs \ {c} : pc[d] = "st2"
    /\ \A c \in CPUs : pc[c] = "reopen" => Absent = {}

(* The inductive invariant: what has to be true of the lock, the count and  *)
(* the two flags together for a round to end where the next one begins.     *)
BarrierInv == /\ MutualExclusion
              /\ LockByte
              /\ CountInv
              /\ PhaseInv

----------------------------------------------------------------------------
(* barrier() implements the meeting point.                                  *)

(* A CPU is present once it has counted itself down, and is let go when the *)
(* last one raises st2.                                                     *)
Place(c) ==
    IF pc[c] \in {"work"} \cup Entering THEN "work"
    ELSE IF pc[c] \in {"hold", "open", "release"} \/ (pc[c] = "st2" /\ st2 = 0)
         THEN "arrived"
         ELSE "released"

Meeting == INSTANCE Rendezvous WITH at <- [c \in CPUs |-> Place(c)]

(* Nobody gets past the barrier before everybody has come to it, round      *)
(* after round, although fast CPUs call again while slow ones are still on  *)
(* their way out; and everybody who is there gets past it (smp.c:56-70).    *)
ImplementsRendezvous == Meeting!Spec

(* The safety part alone. *)
ImplementsSafe == Meeting!Safe

(* Every call returns: the lock is unfair, but nobody can take it more than *)
(* twice in a round, so nobody spins on it for ever (smp.h:345-352).        *)
CallsReturn == \A c \in CPUs : pc[c] = "st1" ~> pc[c] = "work"

=============================================================================
