--------------------------- MODULE SmpBoot_proofs ---------------------------
(***************************************************************************)
(* Proofs about SmpBoot for any number of CPUs, any of which may fail to   *)
(* answer: the invariants the run checks hold of every behaviour of        *)
(* SafeSpec.                                                               *)
(***************************************************************************)
EXTENDS SmpBoot, FiniteSetTheorems, TLAPS

Others == CPUs \ {0}

(* Where a CPU has its ordinal, where it has come past the first barrier,   *)
(* where one that was started is up, and where it is not.                   *)
NumberedPlaces == {"tables", "boot", "wait", "tests"} \cup Barriers
Passed  == {"speed", "speed_done", "tests"}
UpPlaces     == {"booted", "locked", "read", "tests"} \cup Barriers
Climbing     == {"kicked", "boot_stack", "main_stack"}

(* CPU 0 goes through the CPUs in their order: none beyond next has been    *)
(* started, and none that is not selected; act_cpus is their number.        *)
PlaceInv ==
    /\ at[0] \in BootPlaces \cup Barriers \cup {"tests"}
    /\ \A c \in Others : /\ at[c] \in ApPlaces \cup Barriers \cup {"tests"}
                         /\ c \in AP <=> at[c] \in UpPlaces
    /\ \A c \in Others : at[c] # "off" =>
          /\ c \in Counted /\ at[0] \notin {"begin", "tables"}
          /\ c < next \/ (c = next /\ at[0] = "wait")
    /\ at[0] = "wait" => next \in Counted
    /\ 0 \in cpu_mask
    /\ at[0] \notin {"begin", "tables"} => act_cpus = Cardinality(Counted)

(* The mutex makes the increment of cpu_ord atomic, so that the ordinals    *)
(* given are 0 .. cpu_ord - 1, each to one CPU.                             *)
NumberInv ==
    /\ at[0] = "begin" => cpu_ord = 0
    /\ mutex # 0
    /\ \A c \in Others : at[c] \in {"locked", "read"} <=> mutex = c
    /\ \A c \in Others : at[c] = "read" => read[c] = cpu_ord
    /\ \A c \in Numbered : num_to_ord[c] < cpu_ord
    /\ \A k \in 0 .. cpu_ord - 1 : \E c \in Numbered : num_to_ord[c] = k
    /\ \A c \in CPUs \ Numbered : num_to_ord[c] = 0
    /\ num_to_ord[0] = 0
    /\ OrdinalsUnique

(* A CPU that has not switched to its own stack is the one that CPU 0 waits *)
(* for, or has been given up.                                               *)
StackInv ==
    \A c \in Others : at[c] \in Climbing => c \in late \/ (c = next /\ at[0] = "wait")

StartedInv == Started => \E c \in CPUs : at[c] = "tests"

IInv == TypeOK /\ PlaceInv /\ NumberInv /\ StackInv /\ NobodyEarly /\ StartedInv

----------------------------------------------------------------------------
LEMMA Zero == 0 \in CPUs /\ CPUs \subseteq Nat /\ Free \notin CPUs /\ IsFiniteSet(CPUs)
  BY MaxAssumption, FS_Interval DEF CPUs, Free

(* A CPU that moves between places where it has its ordinal, or between     *)
(* places where it has not, leaves Numbered as it is.                       *)
LEMMA SameNumbered ==
    ASSUME TypeOK, NEW c \in CPUs, NEW to,
           at' = [at EXCEPT ![c] = to],
           at[c] \in NumberedPlaces <=> to \in NumberedPlaces
    PROVE  Numbered' = Numbered
  BY DEF TypeOK, Numbered, NumberedPlaces

LEMMA TypeInit == Init => TypeOK
  BY Zero, MaxAssumption DEF Init, TypeOK, Places, BootPlaces, ApPlaces, CPUs

LEMMA InitInv == Init => IInv
  <1> SUFFICES ASSUME Init PROVE IInv
    OBVIOUS
  <1>1. TypeOK
    BY TypeInit
  <1>2. at[0] = "begin" /\ \A c \in Others : at[c] = "off"
    BY Zero DEF Init, Others
  <1>3. Numbered = {}
    BY <1>2 DEF Numbered, Barriers, Others
  <1>4. PlaceInv
    BY <1>2, Zero DEF Init, PlaceInv, BootPlaces, ApPlaces, UpPlaces, Barriers
  <1>5. NumberInv
    BY <1>2, <1>3, Zero DEF Init, NumberInv, OrdinalsUnique, Others
  <1>6. StackInv /\ StartedInv
    BY <1>2 DEF Init, StackInv, Climbing, StartedInv, Started
  <1>7. NobodyEarly
    BY <1>2, Zero DEF NobodyEarly, Others
  <1> QED BY <1>1, <1>4, <1>5, <1>6, <1>7 DEF IInv

----------------------------------------------------------------------------
(* Every action keeps the types. *)

LEMMA CountedType == IsFiniteSet(Counted) /\ Cardinality(Counted) \in Nat
  BY Zero, FS_Subset, FS_CardinalityType DEF Counted

LEMMA TypeBoot == TypeOK /\ PlaceInv /\ Boot => TypeOK'
  <1> SUFFICES ASSUME TypeOK, PlaceInv, Boot PROVE TypeOK'
    OBVIOUS
  <1> USE Zero, MaxAssumption DEF TypeOK, Places, BootPlaces, ApPlaces, Barriers
  <1>1. CASE Begin
    BY <1>1 DEF Begin
  <1>2. CASE BootAp
    <2>1. next \in CPUs
      BY <1>2 DEF BootAp, CPUs
    <2>2. next + 1 \in 1 .. MAX_CPUS
      BY <1>2 DEF BootAp
    <2>3. CASE next \in cpu_mask
      BY <1>2, <2>1, <2>3 DEF BootAp
    <2>4. CASE next \notin cpu_mask
      BY <1>2, <2>2, <2>4 DEF BootAp
    <2> QED BY <2>3, <2>4
  <1>3. CASE Answered
    <2>1. next + 1 \in 1 .. MAX_CPUS
      BY <1>3 DEF Answered, PlaceInv, Counted, CPUs
    <2> QED BY <1>3, <2>1 DEF Answered
  <1>4. CASE TimedOut
    <2>1. next + 1 \in 1 .. MAX_CPUS /\ next \in CPUs
      BY <1>4 DEF TimedOut, PlaceInv, Counted, CPUs
    <2> QED BY <1>4, <2>1 DEF TimedOut
  <1>5. CASE Ready
    BY <1>5 DEF Ready
  <1> QED BY <1>1, <1>2, <1>3, <1>4, <1>5 DEF Boot

LEMMA TypeInitialise ==
    ASSUME TypeOK, NEW n \in 1 .. MAX_CPUS, NEW mask \in SUBSET CPUs, InitialiseCpus(n, mask)
    PROVE  TypeOK'
  <1>1. act_cpus' \in Nat
    <2>1. act_cpus' = Cardinality({c \in CPUs : c < n /\ c \in mask})
      BY DEF InitialiseCpus
    <2> QED BY <2>1, Zero, FS_Subset, FS_CardinalityType
  <1>2. at' \in [CPUs -> Places]
    BY Zero DEF TypeOK, InitialiseCpus, Places, BootPlaces
  <1> QED BY <1>1, <1>2 DEF TypeOK, InitialiseCpus

LEMMA TypeOther ==
    ASSUME TypeOK, NEW c \in Others, Other(c)
    PROVE  TypeOK'
  <1>1. c \in CPUs
    BY DEF Others
  <1> USE <1>1, Zero DEF TypeOK, Step, Places, BootPlaces, ApPlaces, Barriers
  <1>2. CASE ApStart(c)
    BY <1>2 DEF ApStart
  <1>3. CASE SwitchStack(c)
    BY <1>3 DEF SwitchStack
  <1>4. CASE ApBooted(c)
    BY <1>4 DEF ApBooted
  <1>5. CASE Lock(c)
    BY <1>5 DEF Lock
  <1>6. CASE ReadOrd(c)
    BY <1>6 DEF ReadOrd
  <1>7. CASE SetOrd(c)
    BY <1>7 DEF SetOrd
  <1> QED BY <1>2, <1>3, <1>4, <1>5, <1>6, <1>7 DEF Other

LEMMA TypeMeet ==
    ASSUME TypeOK, NEW b \in Barriers, Meet(b)
    PROVE  TypeOK'
  <1>1. After(b) \in Places
    BY DEF After, Barriers, Places
  <1>2. at' \in [CPUs -> Places]
    BY <1>1 DEF TypeOK, Meet
  <1> QED BY <1>2 DEF TypeOK, Meet

----------------------------------------------------------------------------
(* CPU 0's steps. *)

LEMMA BeginInv == IInv /\ Begin => IInv'
  <1> SUFFICES ASSUME IInv, Begin PROVE IInv'
    OBVIOUS
  <1>1. TypeOK'
    BY TypeBoot DEF IInv, Boot
  <1> USE DEF IInv, Begin
  <1>2. cpu_ord = 0 /\ cpu_ord' = 1 /\ at'[0] = "tables" /\ num_to_ord' = num_to_ord
    BY Zero DEF NumberInv, TypeOK
  <1>3. \A c \in Others : at[c] = "off" /\ at'[c] = "off"
    BY DEF PlaceInv, Others, TypeOK
  <1>4. Numbered' = {0} /\ Numbered = {}
    BY <1>2, <1>3, Zero DEF Numbered, Barriers, Others
  <1>5. PlaceInv'
    BY <1>2, <1>3, Zero DEF PlaceInv, BootPlaces, ApPlaces, UpPlaces, Barriers, Counted
  <1>6. NumberInv'
    BY <1>2, <1>3, <1>4, Zero DEF NumberInv, OrdinalsUnique, Others
  <1>7. StackInv' /\ StartedInv'
    BY <1>3 DEF StackInv, Climbing, StartedInv, Started
  <1>8. NobodyEarly'
    BY <1>2, <1>3, Zero DEF NobodyEarly, Others
  <1> QED BY <1>1, <1>5, <1>6, <1>7, <1>8

LEMMA InitialiseInv ==
    ASSUME IInv, NEW n \in 1 .. MAX_CPUS, NEW mask \in SUBSET CPUs, 0 \in mask,
           InitialiseCpus(n, mask)
    PROVE  IInv'
  <1> USE DEF IInv, InitialiseCpus
  <1>1. TypeOK'
    BY TypeInitialise
  <1>2. at[0] = "tables" /\ at'[0] = "boot" /\ mutex' = Free /\ num_cpus' = n /\ cpu_mask' = mask
    BY Zero DEF TypeOK
  <1>3. \A c \in Others : at[c] = "off" /\ at'[c] = "off"
    BY <1>2 DEF PlaceInv, Others, TypeOK
  <1>4. Numbered' = Numbered
    BY <1>2, SameNumbered, Zero DEF NumberedPlaces, Barriers
  <1>5. PlaceInv'
    <2>1. act_cpus' = Cardinality(Counted')
      BY <1>2 DEF Counted
    <2> QED BY <1>2, <1>3, <2>1, Zero
            DEF PlaceInv, BootPlaces, ApPlaces, UpPlaces, Barriers
  <1>6. NumberInv'
    BY <1>2, <1>3, <1>4, Zero DEF NumberInv, OrdinalsUnique, Others
  <1>7. StackInv' /\ StartedInv'
    BY <1>2, <1>3, Zero DEF StackInv, Climbing, StartedInv, Started, TypeOK
  <1>8. NobodyEarly'
    BY <1>2, <1>3, Zero DEF NobodyEarly, Others
  <1> QED BY <1>1, <1>5, <1>6, <1>7, <1>8

LEMMA BootApInv == IInv /\ BootAp => IInv'
  <1> SUFFICES ASSUME IInv, BootAp PROVE IInv'
    OBVIOUS
  <1>1. TypeOK'
    BY TypeBoot DEF IInv, Boot
  <1> USE DEF IInv
  <1>2. at[0] = "boot" /\ next \in Others /\ next < num_cpus /\ Counted' = Counted
    BY MaxAssumption DEF BootAp, TypeOK, Others, CPUs, Counted
  <1>3. at[next] = "off" /\ \A c \in Others : at[c] # "off" => c < next
    BY <1>2, Zero DEF PlaceInv, Others
  <1>4. CASE next \in cpu_mask
    <2>1. /\ at' = [at EXCEPT ![0] = "wait", ![next] = "kicked"]
          /\ next' = next /\ UNCHANGED <<cpu_mask, act_cpus, AP, mutex, read, cpu_ord, num_to_ord,
                                          late, start_seq>>
      BY <1>4 DEF BootAp
    <2>2. at'[0] = "wait" /\ at'[next] = "kicked" /\ \A c \in Others \ {next} : at'[c] = at[c]
      BY <1>2, <2>1, Zero DEF TypeOK, Others
    <2>3. Numbered' = Numbered
      BY <1>2, <1>3, <2>2, Zero DEF Numbered, Barriers, Others
    <2>4. PlaceInv'
      <3>1. next \in Counted
        BY <1>2, <1>4 DEF Counted, Others
      <3> QED BY <1>2, <1>3, <2>1, <2>2, <3>1 DEF PlaceInv, BootPlaces, ApPlaces, UpPlaces, Barriers
    <2>5. NumberInv'
      BY <1>2, <1>3, <2>1, <2>2, <2>3 DEF NumberInv, OrdinalsUnique
    <2>6. StackInv'
      BY <1>2, <2>1, <2>2 DEF StackInv, Climbing
    <2>7. StartedInv' /\ NobodyEarly'
      BY <1>2, <1>3, <2>1, <2>2, <2>3, Zero DEF StartedInv, Started, NobodyEarly, Others
    <2> QED BY <1>1, <2>4, <2>5, <2>6, <2>7
  <1>5. CASE next \notin cpu_mask
    <2>1. /\ at' = at
          /\ next' = next + 1
          /\ UNCHANGED <<cpu_mask, act_cpus, AP, mutex, read, cpu_ord, num_to_ord, late, start_seq>>
      BY <1>5 DEF BootAp
    <2>2. Numbered' = Numbered
      BY <2>1 DEF Numbered
    <2>3. PlaceInv'
      BY <1>2, <1>3, <2>1, Zero DEF PlaceInv, TypeOK, Others
    <2>4. NumberInv'
      BY <2>1, <2>2 DEF NumberInv, OrdinalsUnique
    <2>5. StackInv'
      BY <1>2, <2>1 DEF StackInv
    <2>6. StartedInv' /\ NobodyEarly'
      BY <1>2, <2>1, <2>2 DEF StartedInv, Started, NobodyEarly
    <2> QED BY <1>1, <2>3, <2>4, <2>5, <2>6
  <1> QED BY <1>4, <1>5

(* CPU 0 goes on from waiting for next, which is up or is given up. *)
LEMMA WaitInv == IInv /\ (Answered \/ TimedOut) => IInv'
  <1> SUFFICES ASSUME IInv, Answered \/ TimedOut PROVE IInv'
    OBVIOUS
  <1>1. TypeOK'
    BY TypeBoot DEF IInv, Boot
  <1> USE DEF IInv
  <1>2. /\ at[0] = "wait" /\ at' = [at EXCEPT ![0] = "boot"] /\ next' = next + 1
        /\ UNCHANGED <<num_cpus, cpu_mask, act_cpus, AP, mutex, read, cpu_ord, num_to_ord, start_seq>>
        /\ next \in AP \/ next \in late'
        /\ late \subseteq late'
    BY DEF Answered, TimedOut
  <1>3. at'[0] = "boot" /\ Counted' = Counted /\ \A c \in Others : at'[c] = at[c]
    BY <1>2, Zero DEF TypeOK, Others, Counted
  <1>4. Numbered' = Numbered
    BY <1>2, SameNumbered, Zero DEF NumberedPlaces
  <1>5. PlaceInv'
    BY <1>2, <1>3, Zero DEF PlaceInv, BootPlaces, TypeOK, Others
  <1>6. NumberInv'
    BY <1>2, <1>3, <1>4 DEF NumberInv, OrdinalsUnique
  <1>7. StackInv'
    <2> SUFFICES ASSUME NEW c \in Others, at[c] \in Climbing
                 PROVE  c \in late'
      BY <1>3 DEF StackInv
    <2>1. c \in late \/ c = next
      BY DEF StackInv
    <2>2. c \notin AP
      BY DEF PlaceInv, Climbing, UpPlaces, Barriers
    <2> QED BY <1>2, <2>1, <2>2
  <1>8. StartedInv'
    BY <1>2 DEF StartedInv, Started, TypeOK
  <1>9. NobodyEarly'
    BY <1>2, <1>3, <1>4, Zero DEF NobodyEarly, Others
  <1> QED BY <1>1, <1>5, <1>6, <1>7, <1>8, <1>9

LEMMA ReadyInv == IInv /\ Ready => IInv'
  <1> SUFFICES ASSUME IInv, Ready PROVE IInv'
    OBVIOUS
  <1>1. TypeOK'
    BY TypeBoot DEF IInv, Boot
  <1> USE DEF IInv, Ready
  <1>2. /\ at[0] = "boot" /\ at'[0] = "startup" /\ Counted' = Counted
        /\ \A c \in Others : at'[c] = at[c]
    BY Zero DEF TypeOK, Others, Counted
  <1>3. Numbered' = Numbered
    BY <1>2, SameNumbered, Zero DEF NumberedPlaces, Barriers
  <1>4. PlaceInv'
    BY <1>2, Zero DEF PlaceInv, Barriers
  <1>5. NumberInv'
    BY <1>2, <1>3 DEF NumberInv, OrdinalsUnique
  <1>6. StackInv'
    BY <1>2 DEF StackInv
  <1>7. StartedInv' /\ NobodyEarly'
    BY <1>2, <1>3, Zero DEF StartedInv, Started, NobodyEarly, Others, TypeOK
  <1> QED BY <1>1, <1>4, <1>5, <1>6, <1>7

----------------------------------------------------------------------------
(* The steps of a CPU that was started. *)

(* One that has no part in the numbering. *)
LEMMA ClimbInv ==
    ASSUME IInv, NEW c \in Others, ApStart(c) \/ SwitchStack(c) \/ ApBooted(c)
    PROVE  IInv'
  <1>1. TypeOK'
    BY TypeOther DEF IInv, Other
  <1> USE DEF IInv
  <1>2. /\ UNCHANGED <<num_cpus, cpu_mask, act_cpus, next, mutex, read, cpu_ord, num_to_ord,
                       late, start_seq>>
        /\ at[c] \in Climbing /\ c # 0 /\ c \in CPUs
        /\ \/ at' = [at EXCEPT ![c] = "boot_stack"] /\ AP' = AP
           \/ at' = [at EXCEPT ![c] = "main_stack"] /\ AP' = AP
           \/ at' = [at EXCEPT ![c] = "booted"] /\ AP' = AP \cup {c}
    BY DEF ApStart, SwitchStack, ApBooted, Step, Climbing, Others
  <1>3. /\ \/ at'[c] \in Climbing /\ AP' = AP
           \/ at'[c] = "booted" /\ AP' = AP \cup {c}
        /\ \A d \in CPUs \ {c} : at'[d] = at[d]
        /\ at'[0] = at[0] /\ Counted' = Counted
    BY <1>2, Zero DEF TypeOK, Counted, Climbing
  <1>4. Numbered' = Numbered
    BY <1>2, SameNumbered DEF Climbing, NumberedPlaces, Barriers
  <1>5. PlaceInv'
    BY <1>2, <1>3 DEF PlaceInv, Climbing, UpPlaces, ApPlaces, Barriers, Others
  <1>6. NumberInv'
    BY <1>2, <1>3, <1>4 DEF NumberInv, OrdinalsUnique, Climbing, Others
  <1>7. StackInv'
    BY <1>2, <1>3 DEF StackInv, Climbing, Others
  <1>8. StartedInv'
    BY <1>2, <1>3 DEF StartedInv, Started, Climbing
  <1>9. NobodyEarly'
    BY <1>2, <1>3, <1>4 DEF NobodyEarly, Climbing
  <1> QED BY <1>1, <1>5, <1>6, <1>7, <1>8, <1>9

(* One that takes the mutex, or reads cpu_ord with it. *)
LEMMA LockInv ==
    ASSUME IInv, NEW c \in Others, Lock(c) \/ ReadOrd(c)
    PROVE  IInv'
  <1>1. TypeOK'
    BY TypeOther DEF IInv, Other
  <1> USE DEF IInv
  <1>2. /\ UNCHANGED <<num_cpus, cpu_mask, act_cpus, next, AP, cpu_ord, num_to_ord, late, start_seq>>
        /\ at[c] \in {"booted", "locked"} /\ c # 0 /\ c \in CPUs
        /\ at' = [at EXCEPT ![c] = "locked"] \/ at' = [at EXCEPT ![c] = "read"]
    BY DEF Lock, ReadOrd, Step, Others
  <1>3. /\ at'[c] \in {"locked", "read"}
        /\ \A d \in CPUs \ {c} : at'[d] = at[d]
        /\ at'[0] = at[0] /\ Counted' = Counted
    BY <1>2, Zero DEF TypeOK, Counted
  <1>4. Numbered' = Numbered
    BY <1>2, SameNumbered DEF NumberedPlaces, Barriers
  <1>5. PlaceInv'
    BY <1>2, <1>3 DEF PlaceInv, UpPlaces, ApPlaces, Barriers, Others
  <1>6. NumberInv'
    <2>1. CASE Lock(c)
      <3>1. at[c] = "booted" /\ at'[c] = "locked" /\ mutex = Free /\ mutex' = c /\ read' = read
        BY <2>1, <1>2 DEF Lock, Step, TypeOK
      <3>2. \A d \in Others : at[d] \notin {"locked", "read"}
        BY <3>1, Zero DEF NumberInv, Others
      <3> QED BY <1>2, <1>3, <1>4, <3>1, <3>2 DEF NumberInv, OrdinalsUnique, Others
    <2>2. CASE ReadOrd(c)
      <3>1. at[c] = "locked" /\ at'[c] = "read" /\ mutex' = mutex /\ read'[c] = cpu_ord
        BY <2>2, <1>2 DEF ReadOrd, Step, TypeOK
      <3>2. mutex = c /\ \A d \in Others \ {c} : at[d] # "read"
        BY <3>1 DEF NumberInv, Others
      <3> QED BY <1>2, <1>3, <1>4, <3>1, <3>2 DEF NumberInv, OrdinalsUnique, Others
    <2> QED BY <2>1, <2>2
  <1>7. StackInv'
    BY <1>2, <1>3 DEF StackInv, Climbing, Others
  <1>8. StartedInv'
    BY <1>2, <1>3 DEF StartedInv, Started
  <1>9. NobodyEarly'
    BY <1>2, <1>3, <1>4 DEF NobodyEarly
  <1> QED BY <1>1, <1>5, <1>6, <1>7, <1>8, <1>9

(* One that has its ordinal: it is the only one to have read cpu_ord, which *)
(* is still what it read.                                                   *)
LEMMA SetOrdInv ==
    ASSUME IInv, NEW c \in Others, SetOrd(c)
    PROVE  IInv'
  <1>1. TypeOK'
    BY TypeOther DEF IInv, Other
  <1> USE DEF IInv
  <1>2. /\ UNCHANGED <<num_cpus, cpu_mask, act_cpus, next, AP, read, late, start_seq>>
        /\ at[c] = "read" /\ c # 0 /\ c \in CPUs
        /\ at' = [at EXCEPT ![c] = "startup"]
        /\ mutex' = Free
    BY DEF SetOrd, Step, Others
  <1>3. /\ at'[c] = "startup"
        /\ \A d \in CPUs \ {c} : at'[d] = at[d]
        /\ at'[0] = at[0] /\ Counted' = Counted
    BY <1>2, Zero DEF TypeOK, Counted
  <1>4. read[c] = cpu_ord /\ mutex = c
    BY <1>2 DEF NumberInv
  <1>5. /\ cpu_ord' = cpu_ord + 1
        /\ num_to_ord'[c] = cpu_ord
        /\ \A d \in CPUs \ {c} : num_to_ord'[d] = num_to_ord[d]
    BY <1>2, <1>4 DEF SetOrd, TypeOK
  <1>6. Numbered' = Numbered \cup {c} /\ c \notin Numbered
    BY <1>2, <1>3 DEF Numbered, Barriers
  <1>7. PlaceInv'
    BY <1>2, <1>3 DEF PlaceInv, UpPlaces, ApPlaces, Barriers, Others
  <1>8. NumberInv'
    <2>1. \A d \in Others \ {c} : at[d] \notin {"locked", "read"}
      BY <1>4 DEF NumberInv, Others
    <2>2. /\ at'[0] = "begin" => cpu_ord' = 0
          /\ mutex' # 0
          /\ \A d \in Others : at'[d] \in {"locked", "read"} <=> mutex' = d
          /\ \A d \in Others : at'[d] = "read" => read'[d] = cpu_ord'
      <3>1. at[0] # "begin"
        BY <1>2 DEF PlaceInv
      <3> QED BY <1>2, <1>3, <2>1, <3>1, Zero DEF Others
    <2>3. cpu_ord \in Nat /\ Numbered \subseteq CPUs /\ \A d \in Numbered : num_to_ord[d] \in Nat
      BY DEF TypeOK, Numbered
    <2>4. \A d \in Numbered' : num_to_ord'[d] < cpu_ord'
      BY <1>5, <1>6, <2>3 DEF NumberInv
    <2>5. \A k \in 0 .. cpu_ord' - 1 : \E d \in Numbered' : num_to_ord'[d] = k
      <3> SUFFICES ASSUME NEW k \in 0 .. cpu_ord PROVE \E d \in Numbered' : num_to_ord'[d] = k
        BY <1>5, <2>3
      <3>1. CASE k = cpu_ord
        BY <1>5, <1>6, <3>1
      <3>2. CASE k # cpu_ord
        <4>1. PICK d \in Numbered : num_to_ord[d] = k
          BY <2>3, <3>2 DEF NumberInv
        <4> QED BY <1>5, <1>6, <2>3, <4>1
      <3> QED BY <3>1, <3>2
    <2>6. (\A d \in CPUs \ Numbered' : num_to_ord'[d] = 0) /\ num_to_ord'[0] = 0
      BY <1>2, <1>5, <1>6, Zero DEF NumberInv
    <2>7. OrdinalsUnique'
      <3> SUFFICES ASSUME NEW d \in Numbered', NEW e \in Numbered', d # e
                   PROVE  num_to_ord'[d] # num_to_ord'[e]
        BY DEF OrdinalsUnique
      <3>1. \A f \in Numbered : num_to_ord'[f] = num_to_ord[f] /\ num_to_ord[f] < cpu_ord
        BY <1>5, <1>6, <2>3 DEF NumberInv
      <3> QED BY <1>5, <1>6, <2>3, <3>1 DEF NumberInv, OrdinalsUnique
    <2> QED BY <2>2, <2>4, <2>5, <2>6, <2>7 DEF NumberInv
  <1>9. StackInv'
    BY <1>2, <1>3 DEF StackInv, Climbing, Others
  <1>10. StartedInv'
    BY <1>2, <1>3 DEF StartedInv, Started
  <1>11. NobodyEarly'
    <2>1. c \in Counted
      BY <1>2 DEF PlaceInv
    <2>2. Counted # Numbered
      BY <1>6, <2>1
    <2>3. ~ \E d \in CPUs : at'[d] \in Passed
      BY <1>2, <1>3, <2>2 DEF NobodyEarly, Passed
    <2> QED BY <2>3 DEF NobodyEarly, Passed
  <1> QED BY <1>1, <1>7, <1>8, <1>9, <1>10, <1>11

----------------------------------------------------------------------------
(* The barriers.                                                            *)

(* The CPUs that wait at the first barrier are all that are selected when   *)
(* they are as many; at the later ones nobody is who was not at the first.  *)
LEMMA AllHere ==
    ASSUME IInv, NEW b \in Barriers, Meet(b)
    PROVE  /\ Counted = Numbered
           /\ at[0] \notin {"begin", "tables"}
           /\ \A c \in Others : at[c] = b => c \in Counted
  <1> DEFINE here == {c \in CPUs : at[c] = b}
  <1> USE DEF IInv
  <1>1. PICK c \in CPUs : at[c] = b
    BY DEF Meet
  <1>2. at[0] \notin {"begin", "tables"}
    <2>1. CASE c = 0
      BY <1>1, <2>1 DEF Barriers
    <2>2. CASE c # 0
      BY <1>1, <2>2 DEF PlaceInv, Others, Barriers
    <2> QED BY <2>1, <2>2
  <1>3. 0 \in Counted
    BY Zero DEF Counted, PlaceInv, TypeOK
  <1>4. \A d \in Others : at[d] # "off" => d \in Counted
    BY DEF PlaceInv
  <1>5. here \subseteq Counted
    BY <1>3, <1>4 DEF Others, Barriers
  <1>6. here \subseteq Numbered
    BY DEF Numbered
  <1>7. Numbered \subseteq Counted
    BY <1>3, <1>4 DEF Numbered, Others, Barriers
  <1>8. Cardinality(here) = Cardinality(Counted)
    BY <1>2 DEF Meet, PlaceInv
  <1>9. here = Counted
    BY <1>5, <1>8, CountedType, FS_Subset
  <1> QED BY <1>2, <1>4, <1>6, <1>7, <1>9 DEF Barriers

LEMMA MeetInv ==
    ASSUME IInv, NEW b \in Barriers, Meet(b)
    PROVE  IInv'
  <1>1. TypeOK'
    BY TypeMeet DEF IInv
  <1> USE DEF IInv
  <1>2. /\ UNCHANGED <<num_cpus, cpu_mask, act_cpus, next, AP, mutex, read, cpu_ord, num_to_ord, late>>
        /\ Counted' = Counted
    BY DEF Meet, Counted
  <1>3. After(b) \in Passed
    BY DEF After, Passed
  <1>4. \A c \in CPUs : at'[c] = IF at[c] = b THEN After(b) ELSE at[c]
    BY DEF Meet, TypeOK
  <1> HIDE DEF IInv
  <1>5. \A c \in CPUs : (at[c] \in Barriers /\ at'[c] \in Passed) \/ at'[c] = at[c]
    BY <1>3, <1>4
  <1>6. Numbered' = Numbered
    BY <1>5 DEF Numbered, Passed, Barriers
  <1>7. PlaceInv'
    BY <1>2, <1>5, Zero DEF IInv, PlaceInv, Passed, UpPlaces, ApPlaces, BootPlaces, Barriers, Others
  <1>8. NumberInv'
    BY <1>2, <1>5, <1>6, Zero DEF IInv, NumberInv, OrdinalsUnique, Passed, Barriers, Others
  <1>9. StackInv'
    BY <1>2, <1>5, Zero DEF IInv, StackInv, Climbing, Passed, Barriers, Others
  <1>10. StartedInv'
    <2>1. CASE b = "speed_done"
      <3>1. PICK c \in CPUs : at[c] = b
        BY DEF Meet
      <3>2. at'[c] = "tests"
        BY <1>4, <2>1, <3>1 DEF After
      <3> QED BY <3>2 DEF StartedInv
    <2>2. CASE b # "speed_done"
      <3>1. Started' <=> Started
        BY <2>2 DEF Meet, Started
      <3> QED BY <1>5, <3>1 DEF IInv, StartedInv, Barriers
    <2> QED BY <2>1, <2>2
  <1>11. NobodyEarly'
    BY <1>2, <1>6, AllHere DEF NobodyEarly
  <1> QED BY <1>1, <1>7, <1>8, <1>9, <1>10, <1>11 DEF IInv

----------------------------------------------------------------------------
(* The theorems. *)

LEMMA StutterInv == IInv /\ UNCHANGED vars => IInv'
  <1> SUFFICES ASSUME IInv, UNCHANGED vars PROVE IInv'
    OBVIOUS
  <1>1. Numbered' = Numbered /\ Counted' = Counted
    BY DEF vars, Numbered, Counted
  <1> QED BY <1>1 DEF vars, IInv, TypeOK, PlaceInv, NumberInv, StackInv, NobodyEarly, StartedInv,
                     Started, OrdinalsUnique

LEMMA StepInv == IInv /\ [Next]_vars => IInv'
  <1> SUFFICES ASSUME IInv, [Next]_vars PROVE IInv'
    OBVIOUS
  <1>1. CASE Boot
    BY <1>1, BeginInv, BootApInv, WaitInv, ReadyInv DEF Boot
  <1>2. ASSUME NEW n \in 1 .. MAX_CPUS, NEW mask \in SUBSET CPUs, 0 \in mask,
               InitialiseCpus(n, mask)
        PROVE  IInv'
    BY <1>2, InitialiseInv
  <1>3. ASSUME NEW c \in CPUs \ {0}, Other(c)
        PROVE  IInv'
    BY <1>3, ClimbInv, LockInv, SetOrdInv DEF Other, Others
  <1>4. ASSUME NEW b \in Barriers, Meet(b)
        PROVE  IInv'
    BY <1>4, MeetInv
  <1>5. CASE UNCHANGED vars
    BY <1>5, StutterInv
  <1> QED BY <1>1, <1>2, <1>3, <1>4, <1>5 DEF Next, BootCpu

LEMMA Invariance == SafeSpec => []IInv
  BY InitInv, StepInv, PTL DEF SafeSpec

(* The variables keep their types while the CPUs are started, for any       *)
(* number of CPUs: next and num_cpus stay within MAX_CPUS (smp.c:592-630).  *)
THEOREM Typing == SafeSpec => []TypeOK
  <1>1. IInv => TypeOK
    BY DEF IInv
  <1> QED BY <1>1, Invariance, PTL

(* No two CPUs get the same ordinal (main.c:489), however many are numbering*)
(* themselves at once and whenever the late ones come.                      *)
THEOREM OrdinalsAreUnique == SafeSpec => []OrdinalsUnique
  <1>1. IInv => OrdinalsUnique
    BY DEF IInv, NumberInv
  <1> QED BY <1>1, Invariance, PTL

(* No CPU comes past the first barrier before all that are selected have    *)
(* their ordinals (main.c:505).                                             *)
THEOREM NobodyIsEarly == SafeSpec => []NobodyEarly
  <1>1. IInv => NobodyEarly
    BY DEF IInv
  <1> QED BY <1>1, Invariance, PTL

(* Two CPUs are never on the boot stack at once while none has been given   *)
(* up: CPU 0 starts the next only when the last has left it (smp.c:808).    *)
THEOREM OneIsOnBootStack == SafeSpec => []OneOnBootStack
  <1>1. IInv => OneOnBootStack
    <2> SUFFICES ASSUME IInv, late = {}, NEW c \in CPUs, NEW d \in CPUs,
                        at[c] = "boot_stack", at[d] = "boot_stack"
                 PROVE  c = d
      BY DEF OneOnBootStack
    <2>1. c \in Others /\ d \in Others
      BY DEF IInv, PlaceInv, Others, BootPlaces, Barriers
    <2> QED BY <2>1 DEF IInv, StackInv, Climbing
  <1> QED BY <1>1, Invariance, PTL

(* The ordinals given are as many as the CPUs that have one. *)
LEMMA OrdinalsCount == IInv => cpu_ord = Cardinality(Numbered)
  <1> SUFFICES ASSUME IInv PROVE cpu_ord = Cardinality(Numbered)
    OBVIOUS
  <1> DEFINE f == [c \in Numbered |-> num_to_ord[c]]
             ords == 0 .. cpu_ord - 1
  <1>1. cpu_ord \in Nat /\ Numbered \subseteq CPUs /\ \A c \in Numbered : num_to_ord[c] \in Nat
    BY DEF IInv, TypeOK, Numbered
  <1>2. f \in [Numbered -> ords]
    BY <1>1 DEF IInv, NumberInv
  <1>3. f \in Injection(Numbered, ords)
    BY <1>2 DEF IInv, NumberInv, OrdinalsUnique, Injection, IsInjective
  <1>4. f \in Surjection(Numbered, ords)
    BY <1>2 DEF IInv, NumberInv, Surjection
  <1>5. ExistsBijection(Numbered, ords)
    BY <1>3, <1>4 DEF ExistsBijection, Bijection
  <1>6. IsFiniteSet(Numbered)
    BY <1>1, Zero, FS_Subset
  <1>7. Cardinality(ords) = Cardinality(Numbered)
    BY <1>5, <1>6, FS_Bijection
  <1>8. Cardinality(ords) = cpu_ord
    BY <1>1, FS_Interval
  <1> QED BY <1>7, <1>8

(* When the tests begin, the ordinals are 0 .. act_cpus - 1, and            *)
(* smp_ord_to_cpu() gives the CPU of each back, though the CPUs that are    *)
(* not selected have ordinal 0 in the table (smp.c:836-855).                *)
THEOREM OrdinalsAreDense == SafeSpec => []OrdinalsDense
  <1>1. IInv => OrdinalsDense
    <2> SUFFICES ASSUME IInv, Started
                 PROVE  /\ {num_to_ord[c] : c \in Numbered} = 0 .. act_cpus - 1
                        /\ \A c \in Numbered : OrdToCpu(num_to_ord[c]) = c
      BY DEF OrdinalsDense
    <2>1. PICK t \in CPUs : at[t] = "tests"
      BY DEF IInv, StartedInv
    <2>2. Counted = Numbered
      BY <2>1 DEF IInv, NobodyEarly
    <2>3. at[0] \notin {"begin", "tables"}
      <3>1. CASE t = 0
        BY <2>1, <3>1
      <3>2. CASE t # 0
        BY <2>1, <3>2 DEF IInv, PlaceInv, Others
      <3> QED BY <3>1, <3>2
    <2>4. act_cpus = cpu_ord
      BY <2>2, <2>3, OrdinalsCount DEF IInv, PlaceInv
    <2>5. 0 \in Numbered
      BY <2>3, Zero DEF IInv, PlaceInv, BootPlaces, Numbered
    <2>6. /\ cpu_ord \in Nat /\ Numbered \subseteq CPUs
          /\ \A c \in CPUs : num_to_ord[c] \in Nat
      BY DEF IInv, TypeOK, Numbered
    <2>7. {num_to_ord[c] : c \in Numbered} = 0 .. act_cpus - 1
      BY <2>4, <2>6 DEF IInv, NumberInv
    <2>8. ASSUME NEW c \in Numbered
          PROVE  OrdToCpu(num_to_ord[c]) = c
      <3> DEFINE ord == num_to_ord[c]
                 First(x) == num_to_ord[x] = ord /\ \A d \in CPUs : d < x => num_to_ord[d] # ord
      <3>1. First(c)
        <4> SUFFICES ASSUME NEW d \in CPUs, d < c PROVE num_to_ord[d] # ord
          OBVIOUS
        <4>1. c # 0
          BY Zero, <2>6
        <4>2. ord # 0
          BY <2>5, <4>1 DEF IInv, NumberInv, OrdinalsUnique
        <4>3. CASE d \in Numbered
          BY <2>6, <4>3, Zero DEF IInv, NumberInv, OrdinalsUnique
        <4>4. CASE d \notin Numbered
          BY <4>2, <4>4 DEF IInv, NumberInv
        <4> QED BY <4>3, <4>4
      <3>2. \A x \in CPUs : First(x) => x = c
        BY <2>6, <3>1, Zero
      <3>3. OrdToCpu(ord) = CHOOSE x \in CPUs : First(x)
        BY DEF OrdToCpu
      <3> HIDE DEF First
      <3> QED BY <2>6, <3>1, <3>2, <3>3
    <2> QED BY <2>7, <2>8
  <1> QED BY <1>1, Invariance, PTL

=============================================================================
