------------------------------ MODULE SmpBoot ------------------------------
(***************************************************************************)
(* How the boot CPU starts the others (initialise_cpus, smp_boot_ap,       *)
(* smp_ap_booted in smp.c) and how each of them comes through the start of *)
(* test_start (main.c:400-567) to the barriers that open the tests.        *)
(*                                                                         *)
(* CPU 0 is the boot CPU.  It starts the others one after the other and    *)
(* waits for each to say so, but not for ever.  A CPU that is started runs *)
(* on the boot stack, which all share, until it knows its number and       *)
(* switches to a stack of its own.  Whether and when it answers is up to   *)
(* the machine.                                                            *)
(***************************************************************************)
EXTENDS Naturals, FiniteSets

CONSTANT MAX_CPUS       \* 32

ASSUME MaxAssumption == MAX_CPUS \in Nat \ {0}

CPUs == 0 .. MAX_CPUS - 1
Free == MAX_CPUS        \* no holder of the mutex

VARIABLES
    alive,              \* the CPUs that answer a startup IPI, some time
    num_cpus,           \* CPUs found
    cpu_mask,           \* CPUs selected, as a set
    act_cpus,           \* CPUs found and selected: the size of the barrier
    at,                 \* where each CPU is
    next,               \* i of initialise_cpus: the next to start
    AP,                 \* AP[c].started, as a set
    mutex,              \* barr->mutex
    read,               \* the value of cpu_ord a CPU is about to increment
    cpu_ord,            \* the next ordinal
    num_to_ord,         \* the ordinals
    late,               \* CPUs that have been given up
    start_seq           \* 1: starting, 2: started

vars == <<alive, num_cpus, cpu_mask, act_cpus, at, next, AP, mutex, read, cpu_ord,
          num_to_ord, late, start_seq>>

(* CPU 0's steps, those of the others, and the barriers of all. *)
BootPlaces  == {"begin", "tables", "boot", "wait"}
ApPlaces    == {"off", "kicked", "boot_stack", "main_stack", "booted", "locked", "read"}
Barriers    == {"startup", "speed", "speed_done"}
Places      == BootPlaces \cup ApPlaces \cup Barriers \cup {"tests"}

Counted  == {c \in CPUs : c < num_cpus /\ c \in cpu_mask}
Numbered == {c \in CPUs : at[c] \in {"tables", "boot", "wait", "tests"} \cup Barriers}

Init ==
    /\ alive \in SUBSET (CPUs \ {0})
    /\ num_cpus = 1 /\ act_cpus = 0 /\ next = 1
    /\ cpu_mask = CPUs
    /\ at = [c \in CPUs |-> IF c = 0 THEN "begin" ELSE "off"]
    /\ AP = {} /\ late = {} /\ mutex = Free /\ cpu_ord = 0 /\ start_seq = 0
    /\ read = [c \in CPUs |-> 0]
    /\ num_to_ord = [c \in CPUs |-> 0]

(* The first lines of test_start for CPU 0, which then takes the size of    *)
(* the memory.                                                              *)
Begin ==
    /\ at[0] = "begin"
    /\ at' = [at EXCEPT ![0] = "tables"]
    /\ cpu_ord' = cpu_ord + 1
    /\ num_to_ord' = [num_to_ord EXCEPT ![0] = cpu_ord]
    /\ start_seq' = 1
    /\ UNCHANGED <<alive, num_cpus, cpu_mask, act_cpus, next, AP, mutex, read, late>>

(* Mutant: the barrier is for all CPUs that are found. *)
InitialiseCpusMutant(n, mask) ==
    /\ at[0] = "tables"
    /\ at' = [at EXCEPT ![0] = "boot"]
    /\ num_cpus' = n
    /\ cpu_mask' = mask
    /\ act_cpus' = n
    /\ mutex' = Free
    /\ UNCHANGED <<alive, next, AP, read, cpu_ord, num_to_ord, late, start_seq>>

(* initialise_cpus() as far as the barrier, with n CPUs found and the       *)
(* choice of the command line.                                              *)
InitialiseCpus(n, mask) ==
    /\ at[0] = "tables"
    /\ at' = [at EXCEPT ![0] = "boot"]
    /\ num_cpus' = n
    /\ cpu_mask' = mask
    /\ act_cpus' = Cardinality({c \in CPUs : c < n /\ c \in mask})
    /\ mutex' = Free
    /\ UNCHANGED <<alive, next, AP, read, cpu_ord, num_to_ord, late, start_seq>>

(* Its loop: boot_ap() for the next CPU, if it is selected. *)
BootAp ==
    /\ at[0] = "boot" /\ next < num_cpus
    /\ IF next \in cpu_mask
       THEN at' = [at EXCEPT ![0] = "wait", ![next] = "kicked"] /\ UNCHANGED next
       ELSE next' = next + 1 /\ UNCHANGED at
    /\ UNCHANGED <<alive, num_cpus, cpu_mask, act_cpus, AP, mutex, read, cpu_ord,
                   num_to_ord, late, start_seq>>

(* The end of smp_boot_ap(): the CPU has answered ... *)
Answered ==
    /\ at[0] = "wait" /\ next \in AP
    /\ at' = [at EXCEPT ![0] = "boot"]
    /\ next' = next + 1
    /\ UNCHANGED <<alive, num_cpus, cpu_mask, act_cpus, AP, mutex, read, cpu_ord,
                   num_to_ord, late, start_seq>>

(* ... or a message says "Turning off SMP", and nothing is turned off.      *)
TimedOut ==
    /\ at[0] = "wait" /\ next \notin AP
    /\ at' = [at EXCEPT ![0] = "boot"]
    /\ next' = next + 1
    /\ late' = late \cup {next}
    /\ UNCHANGED <<alive, num_cpus, cpu_mask, act_cpus, AP, mutex, read, cpu_ord,
                   num_to_ord, start_seq>>

(* init(), set_defaults() and find_ticks_for_pass(), up to the barrier.     *)
Ready ==
    /\ at[0] = "boot" /\ next >= num_cpus
    /\ at' = [at EXCEPT ![0] = "startup"]
    /\ UNCHANGED <<alive, num_cpus, cpu_mask, act_cpus, next, AP, mutex, read, cpu_ord,
                   num_to_ord, late, start_seq>>

----------------------------------------------------------------------------
(* A CPU that CPU 0 starts.                                                 *)

Step(c, from, to) == at[c] = from /\ at' = [at EXCEPT ![c] = to]

(* The trampoline and startup_32, on the boot stack. *)
ApStart(c) ==
    /\ Step(c, "kicked", "boot_stack") /\ c \in alive
    /\ UNCHANGED <<alive, num_cpus, cpu_mask, act_cpus, next, AP, mutex, read, cpu_ord,
                   num_to_ord, late, start_seq>>

(* smp_my_cpu_num() and switch_to_main_stack(). *)
SwitchStack(c) ==
    /\ Step(c, "boot_stack", "main_stack")
    /\ UNCHANGED <<alive, num_cpus, cpu_mask, act_cpus, next, AP, mutex, read, cpu_ord,
                   num_to_ord, late, start_seq>>

(* Mutant: a CPU says that it is up while it is on the boot stack. *)
ApBootedMutant(c) ==
    /\ \/ Step(c, "boot_stack", "booted")
       \/ Step(c, "kicked", "boot_stack")
    /\ AP' = AP \cup {c}
    /\ UNCHANGED <<alive, num_cpus, cpu_mask, act_cpus, next, mutex, read, cpu_ord,
                   num_to_ord, late, start_seq>>

(* smp_ap_booted(). *)
ApBooted(c) ==
    /\ Step(c, "main_stack", "booted")
    /\ AP' = AP \cup {c}
    /\ UNCHANGED <<alive, num_cpus, cpu_mask, act_cpus, next, mutex, read, cpu_ord,
                   num_to_ord, late, start_seq>>

(* Mutant: the mutex is left out. *)
LockMutant(c) ==
    /\ Step(c, "booted", "locked")
    /\ UNCHANGED <<alive, num_cpus, cpu_mask, act_cpus, next, AP, mutex, read, cpu_ord,
                   num_to_ord, late, start_seq>>

(* my_cpu_ord = cpu_ord++ under the mutex. *)
Lock(c) ==
    /\ Step(c, "booted", "locked") /\ mutex = Free
    /\ mutex' = c
    /\ UNCHANGED <<alive, num_cpus, cpu_mask, act_cpus, next, AP, read, cpu_ord,
                   num_to_ord, late, start_seq>>

ReadOrd(c) ==
    /\ Step(c, "locked", "read")
    /\ read' = [read EXCEPT ![c] = cpu_ord]
    /\ UNCHANGED <<alive, num_cpus, cpu_mask, act_cpus, next, AP, mutex, cpu_ord,
                   num_to_ord, late, start_seq>>

(* Mutant: the ordinal is the value after the increment. *)
SetOrdMutant(c) ==
    /\ Step(c, "read", "startup")
    /\ cpu_ord' = read[c] + 1
    /\ num_to_ord' = [num_to_ord EXCEPT ![c] = read[c] + 1]
    /\ mutex' = Free
    /\ UNCHANGED <<alive, num_cpus, cpu_mask, act_cpus, next, AP, read, late, start_seq>>

(* The rest of the line, smp_set_ordinal() and the unlock. *)
SetOrd(c) ==
    /\ Step(c, "read", "startup")
    /\ cpu_ord' = read[c] + 1
    /\ num_to_ord' = [num_to_ord EXCEPT ![c] = read[c]]
    /\ mutex' = Free
    /\ UNCHANGED <<alive, num_cpus, cpu_mask, act_cpus, next, AP, read, late, start_seq>>

----------------------------------------------------------------------------
(* The barrier at the end of start-up and the two in get_mem_speed().       *)

After(b) == CASE b = "startup" -> "speed"
              [] b = "speed"   -> "speed_done"
              [] OTHER         -> "tests"

(* Mutant: the barrier is for one less. *)
MeetMutant(b) ==
    /\ Cardinality({c \in CPUs : at[c] = b}) >= act_cpus - 1
    /\ \E c \in CPUs : at[c] = b
    /\ at' = [c \in CPUs |-> IF at[c] = b THEN After(b) ELSE at[c]]
    /\ start_seq' = IF b = "speed_done" THEN 2 ELSE start_seq
    /\ UNCHANGED <<alive, num_cpus, cpu_mask, act_cpus, next, AP, mutex, read, cpu_ord,
                   num_to_ord, late>>

(* barrier() lets all go when as many as act_cpus have come, but CPU 0 alone*)
(* of several gets through it only once (smp.c:51, see module Barrier).     *)
Meet(b) ==
    /\ b = "startup" \/ act_cpus > 1 \/ num_cpus = 1
    /\ Cardinality({c \in CPUs : at[c] = b}) = act_cpus
    /\ \E c \in CPUs : at[c] = b
    /\ at' = [c \in CPUs |-> IF at[c] = b THEN After(b) ELSE at[c]]
    /\ start_seq' = IF b = "speed_done" THEN 2 ELSE start_seq
    /\ UNCHANGED <<alive, num_cpus, cpu_mask, act_cpus, next, AP, mutex, read, cpu_ord,
                   num_to_ord, late>>

----------------------------------------------------------------------------
Boot == Begin \/ BootAp \/ Answered \/ TimedOut \/ Ready

Other(c) == ApStart(c) \/ SwitchStack(c) \/ ApBooted(c) \/ Lock(c) \/ ReadOrd(c) \/ SetOrd(c)

(* All test, or CPU 0 waits for one that never comes, or at a barrier that  *)
(* does not open for it alone.                                              *)
Started == start_seq = 2
Hangs ==
    \/ at[0] = "startup" /\ \E c \in Counted \ {0} : c \notin alive
    \/ at[0] = "speed" /\ act_cpus = 1 /\ num_cpus > 1

(* The tables and the command line may say anything. *)
BootCpu ==
    \/ Boot
    \/ \E n \in 1 .. MAX_CPUS, mask \in SUBSET CPUs : 0 \in mask /\ InitialiseCpus(n, mask)

Next ==
    \/ BootCpu
    \/ \E c \in CPUs \ {0} : Other(c)
    \/ \E b \in Barriers : Meet(b)
    \/ (Started \/ Hangs) /\ UNCHANGED vars

SafeSpec == Init /\ [][Next]_vars

(* Every CPU runs, and one that is alive answers some time. *)
Fairness ==
    /\ WF_vars(BootCpu)
    /\ \A c \in CPUs \ {0} : WF_vars(Other(c))
    /\ WF_vars(\E b \in Barriers : Meet(b))

----------------------------------------------------------------------------
(* Properties.                                                              *)

TypeOK ==
    /\ alive \subseteq CPUs /\ cpu_mask \subseteq CPUs /\ AP \subseteq CPUs /\ late \subseteq CPUs
    /\ num_cpus \in 1 .. MAX_CPUS /\ act_cpus \in Nat
    /\ at \in [CPUs -> Places] /\ next \in 1 .. MAX_CPUS
    /\ mutex \in CPUs \cup {Free}
    /\ read \in [CPUs -> Nat] /\ cpu_ord \in Nat /\ num_to_ord \in [CPUs -> Nat]
    /\ start_seq \in 0 .. 2

(* No two CPUs get the same ordinal, though several may be numbering        *)
(* themselves at once (main.c:489): the ordinals decide who tests what.     *)
OrdinalsUnique ==
    \A c, d \in Numbered : c # d => num_to_ord[c] # num_to_ord[d]

(* When the tests begin, the ordinals are 0 .. act_cpus - 1, which is what  *)
(* the tests take for granted, and smp_ord_to_cpu() gives them back though  *)
(* the CPUs that are not selected have ordinal 0 in the table.              *)
OrdToCpu(ord) == CHOOSE c \in CPUs : /\ num_to_ord[c] = ord
                                     /\ \A d \in CPUs : d < c => num_to_ord[d] # ord
OrdinalsDense ==
    Started => /\ {num_to_ord[c] : c \in Numbered} = 0 .. act_cpus - 1
               /\ \A c \in Numbered : OrdToCpu(num_to_ord[c]) = c

(* No CPU comes past the first barrier before all that are selected have    *)
(* their ordinals (main.c:505).                                             *)
NobodyEarly ==
    (\E c \in CPUs : at[c] \in {"speed", "speed_done", "tests"}) => Counted = Numbered

(* Two CPUs are never on the boot stack at once, unless one of them had     *)
(* been given up (smp.c:808).                                               *)
OneOnBootStack ==
    late = {} => \A c, d \in CPUs : at[c] = "boot_stack" /\ at[d] = "boot_stack" => c = d

=============================================================================
