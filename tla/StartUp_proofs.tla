--------------------------- MODULE StartUp_proofs ---------------------------
(***************************************************************************)
(* Proofs about start-up as a whole, for every memory map, every CPU table *)
(* and every command line: it is a start-up of module SmpBoot, so that all *)
(* that is proved there holds of it; each CPU found knows its number; and  *)
(* the pages tested are the RAM that the firmware's map tells of.          *)
(*                                                                         *)
(* Tables and maps are read by folds over lists.  A fold is a function on  *)
(* sets of indices, of which each set takes its value from the set without *)
(* its greatest; so facts about it follow by induction on the sets' sizes. *)
(* Where the order counts the fold is a run, of a value for each number of *)
(* elements taken, and the facts are invariants of the run.                *)
(***************************************************************************)
EXTENDS StartUp, SmpBoot_proofs, FunctionTheorems, WellFoundedInduction

LEMMA LeastNumber ==
    ASSUME NEW S, S \subseteq Nat, S # {}
    PROVE  \E x \in S : \A y \in S : x <= y
  <1> DEFINE Less == {ss \in Nat \X Nat : ss[1] < ss[2]}
  <1>1. IsWellFoundedOn(Less, Nat)
    BY NatLessThanWellFounded DEF OpToRel
  <1>2. PICK x \in S : \A y \in S : <<y, x>> \notin Less
    BY <1>1, WFMin
  <1>3. ASSUME NEW y \in S PROVE x <= y
    <2>1. <<y, x>> \in Nat \X Nat /\ <<y, x>>[1] = y /\ <<y, x>>[2] = x
      OBVIOUS
    <2>2. ~(y < x)
      BY <1>2, <2>1
    <2> QED BY <2>1, <2>2
  <1> QED BY <1>3

----------------------------------------------------------------------------
(* Folds.                                                                   *)

Greatest(s) == Tables!Max(s)
Rest(s) == s \ {Greatest(s)}

LEMMA HasGreatest ==
    ASSUME NEW n \in Nat, NEW s \in SUBSET (1 .. n), s # {}
    PROVE  Greatest(s) \in s /\ \A j \in s : j <= Greatest(s)
  <1> DEFINE Left == {n - i : i \in s}
  <1>1. Left \subseteq Nat /\ Left # {}
    <2>1. \A i \in s : i \in 1 .. n /\ n - i \in Nat
      OBVIOUS
    <2> QED BY <2>1
  <1>2. PICK x \in Left : \A y \in Left : x <= y
    BY <1>1, LeastNumber
  <1>3. PICK i \in s : x = n - i
    BY <1>2
  <1>4. \A j \in s : i >= j
    <2> TAKE j \in s
    <2>1. x <= n - j
      BY <1>2
    <2> QED BY <1>3, <2>1
  <1> QED BY <1>4 DEF Greatest, Tables!Max

LEMMA RestIsLess ==
    ASSUME NEW n \in Nat, NEW s \in SUBSET (1 .. n), s # {}
    PROVE  /\ Rest(s) \in SUBSET (1 .. n)
           /\ Greatest(s) \in 1 .. n
           /\ s = Rest(s) \cup {Greatest(s)} /\ Greatest(s) \notin Rest(s)
           /\ Cardinality(s) \in Nat /\ Cardinality(Rest(s)) = Cardinality(s) - 1
           /\ Cardinality(Rest(s)) \in Nat
  <1>1. Greatest(s) \in s
    BY HasGreatest
  <1>2. IsFiniteSet(s)
    <2>1. IsFiniteSet(1 .. n)
      BY FS_Interval
    <2> QED BY <2>1, FS_Subset
  <1>3. IsFiniteSet(Rest(s)) /\ Cardinality(Rest(s)) = Cardinality(s) - 1
    BY <1>1, <1>2, FS_RemoveElement DEF Rest
  <1>4. Cardinality(s) \in Nat /\ Cardinality(Rest(s)) \in Nat
    BY <1>2, <1>3, FS_CardinalityType
  <1> QED BY <1>1, <1>3, <1>4 DEF Rest

LEMMA LessThanGreatest ==
    ASSUME NEW n \in Nat, NEW s \in SUBSET (1 .. n), s # {}
    PROVE  /\ Rest(s) \in SUBSET Nat /\ Greatest(s) \in Nat
           /\ \A j \in Rest(s) : j < Greatest(s)
  <1>1. Greatest(s) \in s /\ \A j \in s : j <= Greatest(s)
    BY HasGreatest
  <1> DEFINE m == Greatest(s)
  <1> HIDE DEF m
  <1>2. m \in s /\ (\A j \in s : j <= m) /\ Rest(s) = s \ {m}
    BY <1>1 DEF m, Rest
  <1>3. s \subseteq Nat /\ m \in Nat
    BY <1>2
  <1>4. \A j \in Rest(s) : j \in Nat /\ j <= m /\ j # m
    BY <1>2, <1>3
  <1>5. \A j \in Rest(s) : j \in Nat /\ j < m
    BY <1>3, <1>4
  <1> QED BY <1>3, <1>5 DEF m

(* Induction on sets of indices, by their greatest.                         *)
LEMMA ByGreatest ==
    ASSUME NEW n \in Nat, NEW Good,
           {} \in Good,
           \A s \in SUBSET (1 .. n) : s # {} /\ Rest(s) \in Good => s \in Good
    PROVE  \A s \in SUBSET (1 .. n) : s \in Good
  <1> DEFINE Bad == {s \in SUBSET (1 .. n) : s \notin Good}
             Sizes == {Cardinality(s) : s \in Bad}
  <1> SUFFICES ASSUME Bad # {} PROVE FALSE
    OBVIOUS
  <1>1. \A s \in Bad : s \in SUBSET (1 .. n) /\ s # {}
    OBVIOUS
  <1>2. \A s \in Bad : Cardinality(s) \in Nat
    BY <1>1, RestIsLess
  <1>3. Sizes \subseteq Nat /\ Sizes # {}
    BY <1>2
  <1>4. PICK k \in Sizes : \A m \in Sizes : k <= m
    BY <1>3, LeastNumber
  <1>5. PICK s \in Bad : k = Cardinality(s)
    BY <1>4
  <1>6. Rest(s) \in Bad
    BY <1>1, RestIsLess
  <1>7. Cardinality(s) <= Cardinality(Rest(s))
    BY <1>4, <1>5, <1>6
  <1> QED BY <1>1, <1>7, RestIsLess

(* A fold of a function has a value of the function's type for each set.    *)
IsFold(f, n, T, base, H) ==
    /\ f \in [SUBSET (1 .. n) -> T]
    /\ \A s \in SUBSET (1 .. n) :
          f[s] = IF s = {} THEN base ELSE H[<<Greatest(s), f[Rest(s)]>>]

LEMMA FoldExists ==
    ASSUME NEW n \in Nat, NEW T, NEW base \in T, NEW H \in [(1 .. n) \X T -> T]
    PROVE  \E f : IsFold(f, n, T, base, H)
  <1> DEFINE Sets == SUBSET (1 .. n)
             Fold(g) == [s \in Sets |-> IF s = {} THEN base ELSE H[<<Greatest(s), g[Rest(s)]>>]]
             UpTo(g, k) == \A s \in Sets : Cardinality(s) <= k => g[s] = Fold(g)[s]
             Bad == {k \in Nat : ~\E g \in [Sets -> T] : UpTo(g, k)}
  <1>1. ASSUME NEW g \in [Sets -> T]
        PROVE  Fold(g) \in [Sets -> T]
    <2> SUFFICES ASSUME NEW s \in Sets, s # {}
                 PROVE  H[<<Greatest(s), g[Rest(s)]>>] \in T
      OBVIOUS
    <2>1. Greatest(s) \in 1 .. n /\ Rest(s) \in Sets
      BY RestIsLess
    <2> QED BY <2>1
  <1>2. \A s \in Sets : Cardinality(s) \in Nat /\ Cardinality(s) <= n
    <2>1. IsFiniteSet(1 .. n) /\ Cardinality(1 .. n) = n
      BY FS_Interval
    <2>2. ASSUME NEW s \in Sets PROVE Cardinality(s) \in Nat /\ Cardinality(s) <= n
      <3>1. IsFiniteSet(s) /\ Cardinality(s) <= Cardinality(1 .. n)
        BY <2>1, FS_Subset
      <3> QED BY <2>1, <3>1, FS_CardinalityType
    <2> QED BY <2>2
  <1>3. Bad = {}
    <2> SUFFICES ASSUME Bad # {} PROVE FALSE
      OBVIOUS
    <2>1. PICK k \in Bad : \A m \in Bad : k <= m
      BY LeastNumber
    <2>2. CASE k = 0
      <3> DEFINE g == [s \in Sets |-> base]
      <3>1. g \in [Sets -> T]
        OBVIOUS
      <3>2. ASSUME NEW s \in Sets, Cardinality(s) <= 0 PROVE g[s] = Fold(g)[s]
        <4>1. s = {}
          <5>1. s # {} => Cardinality(Rest(s)) \in Nat /\ Cardinality(Rest(s)) = Cardinality(s) - 1
            BY RestIsLess
          <5> QED BY <1>2, <3>2, <5>1
        <4> QED BY <4>1
      <3>3. UpTo(g, k)
        BY <2>2, <3>2
      <3> HIDE DEF g
      <3> QED BY <2>1, <3>1, <3>3
    <2>3. CASE k # 0
      <3>1. k - 1 \in Nat /\ k - 1 \notin Bad
        <4>1. k \in Nat /\ (k - 1 \in Bad => k <= k - 1)
          BY <2>1
        <4> HIDE DEF Bad
        <4> QED BY <2>3, <4>1
      <3>2. PICK g \in [Sets -> T] : UpTo(g, k - 1)
        BY <3>1
      <3>3. ASSUME NEW s \in Sets, Cardinality(s) <= k
            PROVE  Fold(g)[s] = Fold(Fold(g))[s]
        <4>1. CASE s = {}
          BY <4>1
        <4>2. CASE s # {}
          <5>1. Rest(s) \in Sets /\ Cardinality(Rest(s)) <= k - 1
            BY <1>2, <2>1, <3>3, <4>2, RestIsLess
          <5>2. g[Rest(s)] = Fold(g)[Rest(s)]
            BY <3>2, <5>1
          <5>3. Fold(g)[s] = H[<<Greatest(s), g[Rest(s)]>>]
            BY <4>2
          <5>4. Fold(Fold(g))[s] = H[<<Greatest(s), Fold(g)[Rest(s)]>>]
            BY <4>2
          <5> QED BY <5>2, <5>3, <5>4
        <4> QED BY <4>1, <4>2
      <3>4. UpTo(Fold(g), k)
        BY <3>3
      <3>5. Fold(g) \in [Sets -> T]
        BY <1>1
      <3> HIDE DEF Fold
      <3> QED BY <2>1, <3>4, <3>5
    <2> QED BY <2>2, <2>3
  <1>4. PICK f \in [Sets -> T] : UpTo(f, n)
    BY <1>3
  <1>5. \A s \in Sets : f[s] = Fold(f)[s]
    BY <1>2, <1>4
  <1> QED BY <1>5 DEF IsFold

----------------------------------------------------------------------------
(* The ACPI table (parse_madt).                                             *)

Ids == 0 .. MAX_CPUS - 1
Tabled(X) == [num_cpus : 1 .. MAX_CPUS, found_cpus : Nat, ids : [Ids -> X]]

MadtIds(madt) == {0} \cup {madt.cpus[i].id : i \in DOMAIN madt.cpus}

LEMMA NothingTabled ==
    ASSUME NEW X, 0 \in X
    PROVE  Tables!NoCpus \in Tabled(X)
  BY MachinesAssumption, MaxAssumption DEF Tables!NoCpus, Tabled, Ids

LEMMA TabledUpdate ==
    ASSUME NEW X, NEW r \in Tabled(X), NEW i \in Ids, NEW x \in X,
           NEW n \in 1 .. MAX_CPUS, NEW k \in Nat
    PROVE  /\ [r EXCEPT !.ids[i] = x, !.found_cpus = k] \in Tabled(X)
           /\ [r EXCEPT !.ids[i] = x, !.num_cpus = n, !.found_cpus = k] \in Tabled(X)
           /\ [r EXCEPT !.found_cpus = k] \in Tabled(X)
  <1> DEFINE q == [r EXCEPT !.ids[i] = x]
  <1>1. q \in Tabled(X)
    <2>1. [r.ids EXCEPT ![i] = x] \in [Ids -> X]
      BY DEF Tabled
    <2> QED BY <2>1 DEF Tabled
  <1>2. [r EXCEPT !.ids[i] = x, !.found_cpus = k] = [q EXCEPT !.found_cpus = k]
    OBVIOUS
  <1>3. [r EXCEPT !.ids[i] = x, !.num_cpus = n, !.found_cpus = k] =
            [[q EXCEPT !.num_cpus = n] EXCEPT !.found_cpus = k]
    OBVIOUS
  <1> HIDE DEF q
  <1>4. [q EXCEPT !.found_cpus = k] \in Tabled(X) /\ [q EXCEPT !.num_cpus = n] \in Tabled(X)
    BY <1>1 DEF Tabled
  <1>5. [[q EXCEPT !.num_cpus = n] EXCEPT !.found_cpus = k] \in Tabled(X)
    BY <1>4 DEF Tabled
  <1>6. [r EXCEPT !.found_cpus = k] \in Tabled(X)
    BY DEF Tabled
  <1> QED BY <1>2, <1>3, <1>4, <1>5, <1>6

(* What an entry does, by cases.                                            *)
LEMMA MadtCases ==
    ASSUME NEW r, NEW e, NEW bits
    PROVE  LET q    == Tables!MadtCpu(r, e, bits)
               same == Tables!SameCore(r, e.id, bits)
           IN  \/ /\ ~e.enabled
                  /\ q = r
               \/ /\ e.enabled /\ Tables!Full(r)
                  /\ q = [r EXCEPT !.found_cpus = @ + 1]
               \/ /\ e.enabled /\ ~Tables!Full(r) /\ r.found_cpus = 0
                  /\ q = [r EXCEPT !.ids[0] = e.id, !.found_cpus = 1]
               \/ /\ e.enabled /\ ~Tables!Full(r) /\ r.found_cpus # 0 /\ same = {}
                  /\ q = [r EXCEPT !.ids[r.num_cpus] = e.id, !.num_cpus = @ + 1,
                                   !.found_cpus = @ + 1]
               \/ /\ e.enabled /\ ~Tables!Full(r) /\ r.found_cpus # 0 /\ same # {}
                  /\ \E k \in {r.found_cpus, r.found_cpus + 1} : q = [r EXCEPT !.found_cpus = k]
  BY DEF Tables!MadtCpu

LEMMA MadtCpuType ==
    ASSUME NEW X, NEW r \in Tabled(X), NEW e, e.id \in X, NEW bits
    PROVE  Tables!MadtCpu(r, e, bits) \in Tabled(X)
  <1>1. /\ r.num_cpus \in 1 .. MAX_CPUS /\ r.found_cpus \in Nat /\ 0 \in Ids
        /\ r.found_cpus + 1 \in Nat
        /\ ~Tables!Full(r) => r.num_cpus + 1 \in 1 .. MAX_CPUS /\ r.num_cpus \in Ids
    BY MachinesAssumption, MaxAssumption DEF Tabled, Ids, Tables!Full
  <1>2. /\ [r EXCEPT !.found_cpus = @ + 1] \in Tabled(X)
        /\ \A k \in {r.found_cpus, r.found_cpus + 1} : [r EXCEPT !.found_cpus = k] \in Tabled(X)
    BY <1>1, TabledUpdate
  <1>3. [r EXCEPT !.ids[0] = e.id, !.found_cpus = 1] \in Tabled(X)
    BY <1>1, TabledUpdate
  <1>4. ~Tables!Full(r) =>
            [r EXCEPT !.ids[r.num_cpus] = e.id, !.num_cpus = @ + 1, !.found_cpus = @ + 1] \in Tabled(X)
    BY <1>1, TabledUpdate
  <1> DEFINE q == Tables!MadtCpu(r, e, bits)
  <1>5. \/ q = r
        \/ q = [r EXCEPT !.found_cpus = @ + 1]
        \/ q = [r EXCEPT !.ids[0] = e.id, !.found_cpus = 1]
        \/ /\ ~Tables!Full(r)
           /\ q = [r EXCEPT !.ids[r.num_cpus] = e.id, !.num_cpus = @ + 1, !.found_cpus = @ + 1]
        \/ \E k \in {r.found_cpus, r.found_cpus + 1} : q = [r EXCEPT !.found_cpus = k]
    BY MadtCases
  <1> QED BY <1>2, <1>3, <1>4, <1>5

(* parse_madt() as a fold: what is known after the entries of each set.     *)
LEMMA MadtFold ==
    ASSUME NEW madt, IsList(madt.cpus)
    PROVE  \E f : LET S == DOMAIN madt.cpus
                  IN  /\ Tables!ParseMadt(Tables!NoCpus, madt) = f[S]
                      /\ \A s \in SUBSET S : f[s] \in Tabled(MadtIds(madt))
                      /\ f[{}] = Tables!NoCpus
                      /\ \A s \in SUBSET S : s # {} =>
                            f[s] = Tables!MadtCpu(f[Rest(s)], madt.cpus[Greatest(s)], madt.bits)
  <1> DEFINE n == Len(madt.cpus)
             S == DOMAIN madt.cpus
             T == Tabled(MadtIds(madt))
             base == Tables!NoCpus
             H == [x \in S \X T |-> Tables!MadtCpu(x[2], madt.cpus[x[1]], madt.bits)]
             Is(f) == f = [s \in SUBSET S |->
                             IF s = {} THEN base
                             ELSE Tables!MadtCpu(f[s \ {Tables!Max(s)}], madt.cpus[Tables!Max(s)],
                                                 madt.bits)]
             iter == CHOOSE f : Is(f)
  <1>1. n \in Nat /\ S = 1 .. n
    BY DEF IsList
  <1>2. base \in T
    BY NothingTabled DEF MadtIds
  <1>3. H \in [S \X T -> T]
    <2> SUFFICES ASSUME NEW i \in S, NEW r \in T
                 PROVE  Tables!MadtCpu(r, madt.cpus[i], madt.bits) \in T
      OBVIOUS
    <2>1. madt.cpus[i].id \in MadtIds(madt)
      BY DEF MadtIds
    <2> QED BY <2>1, MadtCpuType
  <1>4. PICK f \in [SUBSET S -> T] :
            \A s \in SUBSET S : f[s] = IF s = {} THEN base ELSE H[<<Greatest(s), f[Rest(s)]>>]
    <2>1. H \in [(1 .. n) \X T -> T]
      BY <1>1, <1>3
    <2>2. \E f : IsFold(f, n, T, base, H)
      <3> HIDE DEF T, base, n, H, S
      <3> QED BY <1>1, <1>2, <2>1, FoldExists
    <2> HIDE DEF T, base, n, H, S
    <2> QED BY <1>1, <2>2 DEF IsFold
  <1> HIDE DEF T, base, n
  <1>5. ASSUME NEW s \in SUBSET S, s # {}
        PROVE  f[s] = Tables!MadtCpu(f[Rest(s)], madt.cpus[Greatest(s)], madt.bits)
    <2>1. Greatest(s) \in S /\ Rest(s) \in SUBSET S
      BY <1>1, <1>5, RestIsLess
    <2>2. <<Greatest(s), f[Rest(s)]>> \in S \X T
      BY <1>4, <2>1
    <2> QED BY <1>4, <1>5, <2>2
  <1>6. Is(f)
    BY <1>4, <1>5 DEF Greatest, Rest
  <1>7. Is(iter)
    BY <1>6
  <1>8. Tables!ParseMadt(base, madt) = iter[S]
    BY DEF Tables!ParseMadt, Tables!FoldLeft, Tables!MapThenFoldSet
  <1> HIDE DEF iter
  <1>9. iter[{}] = base
    BY <1>7
  <1>10. \A s \in SUBSET S : s # {} =>
            iter[s] = Tables!MadtCpu(iter[Rest(s)], madt.cpus[Greatest(s)], madt.bits)
    BY <1>7 DEF Greatest, Rest
  <1>11. \A s \in SUBSET S : iter[s] \in T
    <2> DEFINE Good == {s \in SUBSET S : iter[s] \in T}
    <2>1. {} \in Good
      BY <1>2, <1>9
    <2>2. ASSUME NEW s \in SUBSET S, s # {}, Rest(s) \in Good
          PROVE  s \in Good
      <3>1. Greatest(s) \in S /\ iter[Rest(s)] \in T
        BY <1>1, <2>2, RestIsLess
      <3>2. madt.cpus[Greatest(s)].id \in MadtIds(madt)
        BY <3>1 DEF MadtIds
      <3> QED BY <1>10, <2>2, <3>1, <3>2, MadtCpuType DEF T
    <2> HIDE DEF Good
    <2>3. \A s \in SUBSET S : s \in Good
      BY <1>1, <2>1, <2>2, ByGreatest
    <2> QED BY <2>3 DEF Good
  <1> QED BY <1>8, <1>9, <1>10, <1>11 DEF T, base

(* What parse_madt() has done with a set s of the entries: CPU 0 is the     *)
(* first of them, each CPU is of a core of its own, and unless it is full,  *)
(* each core seen has its CPU.                                              *)
On(madt, s)    == {i \in s : madt.cpus[i].enabled}
Cores(madt, s) == {Tables!CoreOf(madt.cpus[i].id, madt.bits) : i \in On(madt, s)}
Mine(madt, r)  == {Tables!CoreOf(r.ids[c], madt.bits) : c \in 0 .. r.num_cpus - 1}
BootIsFirst(madt, s, r) ==
    \E i \in On(madt, s) : (\A j \in On(madt, s) : i <= j) /\ r.ids[0] = madt.cpus[i].id
MadtRight(madt, s, r) ==
    /\ r.found_cpus = 0 => On(madt, s) = {} /\ r.num_cpus = 1 /\ \A c \in Ids : r.ids[c] = 0
    /\ r.found_cpus # 0 => BootIsFirst(madt, s, r)
    /\ r.found_cpus # 0 =>
          /\ Mine(madt, r) \subseteq Cores(madt, s)
          /\ r.num_cpus < MAX_CPUS => Mine(madt, r) = Cores(madt, s)
    /\ \A c, d \in 0 .. r.num_cpus - 1 :
          c # d => Tables!CoreOf(r.ids[c], madt.bits) # Tables!CoreOf(r.ids[d], madt.bits)

LEMMA MadtStep ==
    ASSUME NEW madt, NEW s \in SUBSET Nat, NEW m \in Nat, \A j \in s : j < m,
           NEW X, NEW r \in Tabled(X), madt.cpus[m].id \in X, MadtRight(madt, s, r)
    PROVE  MadtRight(madt, s \cup {m}, Tables!MadtCpu(r, madt.cpus[m], madt.bits))
  <1> DEFINE e == madt.cpus[m]
             t == s \cup {m}
             q == Tables!MadtCpu(r, e, madt.bits)
             Core(id) == Tables!CoreOf(id, madt.bits)
  <1> SUFFICES MadtRight(madt, t, q)
    OBVIOUS
  <1> HIDE DEF q
  <1>1. /\ r.num_cpus \in 1 .. MAX_CPUS /\ r.found_cpus \in Nat /\ 0 \in Ids
        /\ r.ids \in [Ids -> X] /\ MAX_CPUS \in Nat /\ MAX_CPUS > 1
        /\ DOMAIN r = {"num_cpus", "found_cpus", "ids"}
    BY MachinesAssumption, MaxAssumption DEF Tabled, Ids
  <1>2. /\ e.enabled => On(madt, t) = On(madt, s) \cup {m}
        /\ ~e.enabled => On(madt, t) = On(madt, s)
        /\ On(madt, s) \subseteq s
    BY DEF On
  <1>3. /\ e.enabled => Cores(madt, t) = Cores(madt, s) \cup {Core(e.id)}
        /\ ~e.enabled => Cores(madt, t) = Cores(madt, s)
    BY <1>2 DEF Cores
  <1>4. CASE ~e.enabled /\ q = r
    BY <1>2, <1>3, <1>4 DEF MadtRight, BootIsFirst
  <1>11. ASSUME e.enabled, r.found_cpus # 0, q.ids[0] = r.ids[0] PROVE BootIsFirst(madt, t, q)
    <2>1. PICK i \in On(madt, s) : (\A j \in On(madt, s) : i <= j) /\ r.ids[0] = madt.cpus[i].id
      BY <1>11 DEF MadtRight, BootIsFirst
    <2>3. On(madt, t) = On(madt, s) \cup {m} /\ i \in s /\ i \in Nat
      BY <1>2, <1>11
    <2>4. i < m
      BY <2>3
    <2>2. i \in On(madt, t) /\ \A j \in On(madt, t) : i <= j
      <3> HIDE DEF t
      <3> QED BY <2>1, <2>3, <2>4
    <2> QED BY <1>11, <2>1, <2>2 DEF BootIsFirst
  <1>5. CASE /\ e.enabled /\ r.found_cpus # 0
             /\ Tables!Full(r) \/ Tables!SameCore(r, e.id, madt.bits) # {}
             /\ \E k \in Nat \ {0} : q = [r EXCEPT !.found_cpus = k]
    <2>1. q.found_cpus # 0 /\ q.num_cpus = r.num_cpus /\ q.ids = r.ids
      <3>1. PICK k \in Nat \ {0} : q = [r EXCEPT !.found_cpus = k]
        BY <1>5
      <3> QED BY <1>1, <3>1
    <2>2. Mine(madt, q) = Mine(madt, r)
      BY <2>1 DEF Mine
    <2>3. r.num_cpus < MAX_CPUS => Core(e.id) \in Mine(madt, r)
      BY <1>1, <1>5 DEF Tables!Full, Tables!SameCore, Mine
    <2> QED BY <1>3, <1>5, <1>11, <2>1, <2>2, <2>3 DEF MadtRight
  <1>6. CASE e.enabled /\ r.found_cpus = 0 /\ q = [r EXCEPT !.ids[0] = e.id, !.found_cpus = 1]
    <2>1. q.found_cpus = 1 /\ q.num_cpus = 1 /\ q.ids[0] = e.id
      BY <1>1, <1>6 DEF MadtRight
    <2>2. Mine(madt, q) = {Core(e.id)}
      BY <2>1 DEF Mine
    <2>3. Cores(madt, s) = {}
      BY <1>6 DEF MadtRight, Cores
    <2>4. Mine(madt, q) = Cores(madt, t)
      BY <1>3, <1>6, <2>2, <2>3
    <2>5. \A c, d \in 0 .. q.num_cpus - 1 : c = d
      BY <2>1
    <2>6. On(madt, t) = {m}
      BY <1>2, <1>6 DEF MadtRight
    <2>7. BootIsFirst(madt, t, q)
      <3>1. m \in On(madt, t) /\ (\A j \in On(madt, t) : m <= j) /\ q.ids[0] = madt.cpus[m].id
        BY <2>1, <2>6
      <3> QED BY <3>1 DEF BootIsFirst
    <2> QED BY <2>1, <2>4, <2>5, <2>7 DEF MadtRight
  <1>7. CASE /\ e.enabled /\ ~Tables!Full(r) /\ r.found_cpus # 0
             /\ Tables!SameCore(r, e.id, madt.bits) = {}
             /\ q = [r EXCEPT !.ids[r.num_cpus] = e.id, !.num_cpus = @ + 1, !.found_cpus = @ + 1]
    <2>1. /\ q.num_cpus = r.num_cpus + 1 /\ q.found_cpus = r.found_cpus + 1
          /\ q.ids = [r.ids EXCEPT ![r.num_cpus] = e.id]
      BY <1>1, <1>7
    <2>2. /\ r.num_cpus \in Ids /\ r.num_cpus < MAX_CPUS
          /\ 0 .. r.num_cpus - 1 \subseteq Ids
      BY <1>1, <1>7 DEF Tables!Full, Ids
    <2>3. /\ q.ids[r.num_cpus] = e.id
          /\ \A c \in 0 .. r.num_cpus - 1 : q.ids[c] = r.ids[c]
      BY <1>1, <2>1, <2>2
    <2>4. 0 .. q.num_cpus - 1 = (0 .. r.num_cpus - 1) \cup {r.num_cpus}
      BY <1>1, <2>1
    <2>5. Mine(madt, q) = Mine(madt, r) \cup {Core(e.id)}
      BY <2>3, <2>4 DEF Mine
    <2>6. \A c \in 0 .. r.num_cpus - 1 : Core(r.ids[c]) # Core(e.id)
      BY <1>7 DEF Tables!SameCore
    <2>7. \A c, d \in 0 .. q.num_cpus - 1 : c # d => Core(q.ids[c]) # Core(q.ids[d])
      BY <1>1, <2>3, <2>4, <2>6 DEF MadtRight
    <2>8. Mine(madt, r) = Cores(madt, s)
      BY <1>7, <2>2 DEF MadtRight
    <2>9. Mine(madt, q) = Cores(madt, t)
      BY <1>3, <1>7, <2>5, <2>8
    <2>10. q.found_cpus # 0
      BY <1>1, <2>1
    <2>11. q.ids[0] = r.ids[0]
      BY <1>1, <2>3
    <2> QED BY <1>7, <1>11, <2>7, <2>9, <2>10, <2>11 DEF MadtRight
  <1>8. r.found_cpus = 0 => ~Tables!Full(r)
    BY <1>1 DEF MadtRight, Tables!Full
  <1>9. r.found_cpus + 1 \in Nat \ {0} /\ (r.found_cpus # 0 => r.found_cpus \in Nat \ {0})
    BY <1>1
  <1> QED BY <1>4, <1>5, <1>6, <1>7, <1>8, <1>9, MadtCases DEF q

LEMMA MadtParsed ==
    ASSUME NEW madt, IsList(madt.cpus)
    PROVE  /\ Tables!ParseMadt(Tables!NoCpus, madt) \in Tabled(MadtIds(madt))
           /\ MadtRight(madt, DOMAIN madt.cpus, Tables!ParseMadt(Tables!NoCpus, madt))
  <1> DEFINE S == DOMAIN madt.cpus
             T == Tabled(MadtIds(madt))
  <1>1. PICK f : /\ Tables!ParseMadt(Tables!NoCpus, madt) = f[S]
                 /\ \A s \in SUBSET S : f[s] \in T
                 /\ f[{}] = Tables!NoCpus
                 /\ \A s \in SUBSET S : s # {} =>
                       f[s] = Tables!MadtCpu(f[Rest(s)], madt.cpus[Greatest(s)], madt.bits)
    BY MadtFold
  <1>2. Len(madt.cpus) \in Nat /\ S = 1 .. Len(madt.cpus)
    BY DEF IsList
  <1> DEFINE Good == {s \in SUBSET S : MadtRight(madt, s, f[s])}
  <1>3. {} \in Good
    <2>1. f[{}].num_cpus = 1 /\ f[{}].found_cpus = 0 /\ \A c \in Ids : f[{}].ids[c] = 0
      BY <1>1 DEF Tables!NoCpus, Ids
    <2>2. On(madt, {}) = {}
      BY DEF On
    <2>3. \A c, d \in 0 .. f[{}].num_cpus - 1 : c = d
      BY <2>1
    <2> QED BY <2>1, <2>2, <2>3 DEF MadtRight
  <1>4. ASSUME NEW s \in SUBSET S, s # {}, Rest(s) \in Good
        PROVE  s \in Good
    <2>1. /\ Greatest(s) \in S /\ Greatest(s) \notin Rest(s) /\ s = Rest(s) \cup {Greatest(s)}
          /\ Rest(s) \in SUBSET S
      BY <1>2, <1>4, RestIsLess
    <2>2. madt.cpus[Greatest(s)].id \in MadtIds(madt)
      BY <2>1 DEF MadtIds
    <2>3. f[Rest(s)] \in T /\ MadtRight(madt, Rest(s), f[Rest(s)])
      BY <1>1, <1>4, <2>1
    <2>5. /\ Rest(s) \in SUBSET Nat /\ Greatest(s) \in Nat
          /\ \A j \in Rest(s) : j < Greatest(s)
      BY <1>2, <1>4, LessThanGreatest
    <2>4. MadtRight(madt, Rest(s) \cup {Greatest(s)},
                    Tables!MadtCpu(f[Rest(s)], madt.cpus[Greatest(s)], madt.bits))
      BY <2>2, <2>3, <2>5, MadtStep
    <2> QED BY <1>1, <1>4, <2>1, <2>4
  <1> HIDE DEF Good
  <1>5. \A s \in SUBSET S : s \in Good
    BY <1>2, <1>3, <1>4, ByGreatest
  <1> QED BY <1>1, <1>5 DEF Good

(* As many CPUs are found as cores are seen, but for those too many.        *)
LEMMA CoresCounted ==
    ASSUME NEW madt, IsList(madt.cpus), NEW r \in Tabled(MadtIds(madt)),
           MadtRight(madt, DOMAIN madt.cpus, r), On(madt, DOMAIN madt.cpus) # {}
    PROVE  LET n == Cardinality(Cores(madt, DOMAIN madt.cpus))
           IN  n \in Nat /\ r.num_cpus = IF n > MAX_CPUS THEN MAX_CPUS ELSE n
  <1> DEFINE S == DOMAIN madt.cpus
             core == [c \in 0 .. r.num_cpus - 1 |-> Tables!CoreOf(r.ids[c], madt.bits)]
             mine == Mine(madt, r)
             cores == Cores(madt, S)
  <1>1. r.num_cpus \in 1 .. MAX_CPUS /\ MAX_CPUS \in Nat
    BY MaxAssumption DEF Tabled
  <1>2. /\ mine \subseteq cores
        /\ r.num_cpus < MAX_CPUS => mine = cores
        /\ \A c, d \in 0 .. r.num_cpus - 1 : c # d => core[c] # core[d]
    BY DEF MadtRight
  <1>3. IsFiniteSet(cores)
    <2> DEFINE g == [i \in On(madt, S) |-> Tables!CoreOf(madt.cpus[i].id, madt.bits)]
    <2>1. IsFiniteSet(On(madt, S))
      <3>1. IsFiniteSet(1 .. Len(madt.cpus)) /\ S = 1 .. Len(madt.cpus)
        BY FS_Interval DEF IsList
      <3>2. On(madt, S) \subseteq S
        BY DEF On
      <3> QED BY <3>1, <3>2, FS_Subset
    <2>2. g \in Surjection(On(madt, S), cores)
      BY DEF Surjection, Cores
    <2> QED BY <2>1, <2>2, FS_Surjection
  <1>4. Cardinality(mine) = r.num_cpus
    <2>1. core \in Injection(0 .. r.num_cpus - 1, mine)
      BY <1>2 DEF Injection, IsInjective, Mine
    <2>2. core \in Surjection(0 .. r.num_cpus - 1, mine)
      BY DEF Surjection, Mine
    <2>3. ExistsBijection(0 .. r.num_cpus - 1, mine)
      BY <2>1, <2>2 DEF ExistsBijection, Bijection
    <2>4. IsFiniteSet(0 .. r.num_cpus - 1) /\ Cardinality(0 .. r.num_cpus - 1) = r.num_cpus
      BY <1>1, FS_Interval
    <2> QED BY <2>3, <2>4, FS_Bijection
  <1>5. Cardinality(cores) \in Nat /\ Cardinality(mine) <= Cardinality(cores)
    BY <1>2, <1>3, FS_Subset, FS_CardinalityType
  <1> HIDE DEF mine, cores
  <1>6. r.num_cpus = IF Cardinality(cores) > MAX_CPUS THEN MAX_CPUS ELSE Cardinality(cores)
    <2>1. CASE r.num_cpus < MAX_CPUS
      BY <1>1, <1>2, <1>4, <2>1
    <2>2. CASE r.num_cpus = MAX_CPUS
      BY <1>1, <1>4, <1>5, <2>2
    <2> QED BY <1>1, <2>1, <2>2
  <1> QED BY <1>5, <1>6 DEF cores

----------------------------------------------------------------------------
(* The MP table (read_mp_config_table).                                     *)

MpIds(es)     == {0} \cup {es[i].id : i \in DOMAIN es}
MpGood(es)    == {TRUE, FALSE} \cup {es[i].local : i \in DOMAIN es}
MpStates(es)  == [r : Tabled(MpIds(es)), good : MpGood(es), skip : BOOLEAN]
MpStart       == [r |-> Tables!NoCpus, good |-> TRUE, skip |-> FALSE]

LEMMA MpCpuCases ==
    ASSUME NEW r, NEW e
    PROVE  LET q == Tables!MpCpu(r, e)
           IN  \/ /\ e.boot
                  /\ q = [r EXCEPT !.ids[0] = e.id, !.found_cpus = @ + 1]
               \/ /\ ~e.boot /\ ~Tables!Full(r)
                  /\ q = [r EXCEPT !.ids[r.num_cpus] = e.id, !.num_cpus = @ + 1,
                                   !.found_cpus = @ + 1]
               \/ /\ ~e.boot /\ Tables!Full(r)
                  /\ q = [r EXCEPT !.found_cpus = @ + 1]
  BY DEF Tables!MpCpu

LEMMA MpCpuType ==
    ASSUME NEW X, NEW r \in Tabled(X), NEW e, e.id \in X
    PROVE  Tables!MpCpu(r, e) \in Tabled(X)
  <1>1. /\ r.num_cpus \in 1 .. MAX_CPUS /\ r.found_cpus \in Nat /\ 0 \in Ids
        /\ r.found_cpus + 1 \in Nat
        /\ ~Tables!Full(r) => r.num_cpus + 1 \in 1 .. MAX_CPUS /\ r.num_cpus \in Ids
    BY MachinesAssumption, MaxAssumption DEF Tabled, Ids, Tables!Full
  <1>2. [r EXCEPT !.found_cpus = @ + 1] \in Tabled(X)
    BY <1>1, TabledUpdate
  <1>3. [r EXCEPT !.ids[0] = e.id, !.found_cpus = @ + 1] \in Tabled(X)
    BY <1>1, TabledUpdate
  <1>4. ~Tables!Full(r) =>
            [r EXCEPT !.ids[r.num_cpus] = e.id, !.num_cpus = @ + 1, !.found_cpus = @ + 1] \in Tabled(X)
    BY <1>1, TabledUpdate
  <1> DEFINE q == Tables!MpCpu(r, e)
  <1>5. \/ q = [r EXCEPT !.found_cpus = @ + 1]
        \/ q = [r EXCEPT !.ids[0] = e.id, !.found_cpus = @ + 1]
        \/ /\ ~Tables!Full(r)
           /\ q = [r EXCEPT !.ids[r.num_cpus] = e.id, !.num_cpus = @ + 1, !.found_cpus = @ + 1]
    BY MpCpuCases
  <1> QED BY <1>2, <1>3, <1>4, <1>5

(* An entry either is that of a CPU or leaves the CPUs alone.               *)
LEMMA MpEntryCases ==
    ASSUME NEW es, NEW s \in MpStates(es), NEW i \in DOMAIN es
    PROVE  /\ Tables!MpEntry(s, es[i]) \in MpStates(es)
           /\ \/ es[i].kind = "cpu" /\ Tables!MpEntry(s, es[i]).r = Tables!MpCpu(s.r, es[i])
              \/ Tables!MpEntry(s, es[i]).r = s.r
  <1> DEFINE e == es[i]
             q == Tables!MpEntry(s, e)
  <1>1. /\ s.r \in Tabled(MpIds(es)) /\ s.good \in MpGood(es) /\ s.skip \in BOOLEAN
        /\ e.id \in MpIds(es) /\ e.local \in MpGood(es) /\ TRUE \in MpGood(es) /\ FALSE \in MpGood(es)
    BY DEF MpStates, MpIds, MpGood
  <1>2. Tables!MpCpu(s.r, e) \in Tabled(MpIds(es))
    BY <1>1, MpCpuType
  <1>3. \/ q = s
        \/ q = [s EXCEPT !.skip = FALSE]
        \/ e.kind = "cpu" /\ q = [s EXCEPT !.r = Tables!MpCpu(s.r, e), !.good = e.local]
        \/ q = [s EXCEPT !.skip = TRUE]
        \/ q = [s EXCEPT !.good = FALSE]
    BY DEF Tables!MpEntry
  <1> HIDE DEF q, e
  <1>4. CASE q = s
    BY <1>4 DEF q, e
  <1>5. CASE q = [s EXCEPT !.skip = FALSE] \/ q = [s EXCEPT !.skip = TRUE]
    <2>1. q \in MpStates(es) /\ q.r = s.r
      BY <1>1, <1>5 DEF MpStates
    <2> QED BY <2>1 DEF q, e
  <1>6. CASE q = [s EXCEPT !.good = FALSE]
    <2>1. q \in MpStates(es) /\ q.r = s.r
      BY <1>1, <1>6 DEF MpStates
    <2> QED BY <2>1 DEF q, e
  <1>7. CASE e.kind = "cpu" /\ q = [s EXCEPT !.r = Tables!MpCpu(s.r, e), !.good = e.local]
    <2> DEFINE p == [s EXCEPT !.r = Tables!MpCpu(s.r, e)]
    <2>1. p \in MpStates(es) /\ p.r = Tables!MpCpu(s.r, e)
      BY <1>2 DEF MpStates
    <2>2. q = [p EXCEPT !.good = e.local]
      BY <1>7
    <2> HIDE DEF p
    <2>3. q \in MpStates(es) /\ q.r = p.r
      BY <1>1, <2>1, <2>2 DEF MpStates
    <2> QED BY <1>7, <2>1, <2>3 DEF q, e
  <1> QED BY <1>3, <1>4, <1>5, <1>6, <1>7

LEMMA MpFold ==
    ASSUME NEW es, IsList(es)
    PROVE  \E f : LET S == DOMAIN es
                  IN  /\ Tables!FoldLeft(Tables!MpEntry, MpStart, es) = f[S]
                      /\ \A s \in SUBSET S : f[s] \in MpStates(es)
                      /\ f[{}] = MpStart
                      /\ \A s \in SUBSET S : s # {} =>
                            f[s] = Tables!MpEntry(f[Rest(s)], es[Greatest(s)])
  <1> DEFINE n == Len(es)
             S == DOMAIN es
             T == MpStates(es)
             base == MpStart
             H == [x \in S \X T |-> Tables!MpEntry(x[2], es[x[1]])]
             Is(f) == f = [s \in SUBSET S |->
                             IF s = {} THEN base
                             ELSE Tables!MpEntry(f[s \ {Tables!Max(s)}], es[Tables!Max(s)])]
             iter == CHOOSE f : Is(f)
  <1>1. n \in Nat /\ S = 1 .. n
    BY DEF IsList
  <1>2. base \in T
    <2>1. Tables!NoCpus \in Tabled(MpIds(es))
      BY NothingTabled DEF MpIds
    <2> QED BY <2>1 DEF MpStart, MpStates, MpGood
  <1>3. H \in [S \X T -> T]
    BY MpEntryCases
  <1>4. PICK f \in [SUBSET S -> T] :
            \A s \in SUBSET S : f[s] = IF s = {} THEN base ELSE H[<<Greatest(s), f[Rest(s)]>>]
    <2>1. H \in [(1 .. n) \X T -> T]
      BY <1>1, <1>3
    <2>2. \E f : IsFold(f, n, T, base, H)
      <3> HIDE DEF T, base, n, H, S
      <3> QED BY <1>1, <1>2, <2>1, FoldExists
    <2> HIDE DEF T, base, n, H, S
    <2> QED BY <1>1, <2>2 DEF IsFold
  <1> HIDE DEF T, base, n
  <1>5. ASSUME NEW s \in SUBSET S, s # {}
        PROVE  f[s] = Tables!MpEntry(f[Rest(s)], es[Greatest(s)])
    <2>1. Greatest(s) \in S /\ Rest(s) \in SUBSET S
      BY <1>1, <1>5, RestIsLess
    <2>2. <<Greatest(s), f[Rest(s)]>> \in S \X T
      BY <1>4, <2>1
    <2> QED BY <1>4, <1>5, <2>2
  <1>6. Is(f)
    BY <1>4, <1>5 DEF Greatest, Rest
  <1>7. Is(iter)
    BY <1>6
  <1>8. Tables!FoldLeft(Tables!MpEntry, base, es) = iter[S]
    BY DEF Tables!FoldLeft, Tables!MapThenFoldSet
  <1> HIDE DEF iter
  <1>9. iter[{}] = base
    BY <1>7
  <1>10. \A s \in SUBSET S : s # {} =>
            iter[s] = Tables!MpEntry(iter[Rest(s)], es[Greatest(s)])
    BY <1>7 DEF Greatest, Rest
  <1>11. \A s \in SUBSET S : iter[s] \in T
    <2> DEFINE Good == {s \in SUBSET S : iter[s] \in T}
    <2>1. {} \in Good
      BY <1>2, <1>9
    <2>2. ASSUME NEW s \in SUBSET S, s # {}, Rest(s) \in Good
          PROVE  s \in Good
      <3>1. Greatest(s) \in S /\ iter[Rest(s)] \in T
        BY <1>1, <2>2, RestIsLess
      <3> QED BY <1>10, <2>2, <3>1, MpEntryCases DEF T
    <2> HIDE DEF Good
    <2>3. \A s \in SUBSET S : s \in Good
      BY <1>1, <2>1, <2>2, ByGreatest
    <2> QED BY <2>3 DEF Good
  <1> QED BY <1>8, <1>9, <1>10, <1>11 DEF T, base

(* What read_mp_config_table() has done with a set s of the entries: CPU 0's *)
(* id is that of the boot CPU or not yet known, the other CPUs' ids are of  *)
(* entries that are not the boot CPU's and differ, and the rest is empty.   *)
MpRight(es, b, s, r) ==
    /\ r.ids[0] \in {0, b}
    /\ \A c \in 1 .. r.num_cpus - 1 : \E i \in s : i \in ApsIn(es) /\ r.ids[c] = es[i].id
    /\ \A c, d \in 1 .. r.num_cpus - 1 : c # d => r.ids[c] # r.ids[d]
    /\ \A c \in Ids : c >= r.num_cpus /\ c # 0 => r.ids[c] = 0

LEMMA MpStep ==
    ASSUME NEW es, NEW b, OwnIds(es, b), NEW s, NEW m, m \notin s, s \cup {m} \subseteq DOMAIN es,
           NEW X, NEW r \in Tabled(X), es[m].kind = "cpu", es[m].id \in X, MpRight(es, b, s, r)
    PROVE  MpRight(es, b, s \cup {m}, Tables!MpCpu(r, es[m]))
  <1> DEFINE e == es[m]
             q == Tables!MpCpu(r, e)
  <1> SUFFICES MpRight(es, b, s \cup {m}, q)
    OBVIOUS
  <1> HIDE DEF q
  <1>1. /\ r.num_cpus \in 1 .. MAX_CPUS /\ 0 \in Ids /\ r.ids \in [Ids -> X]
        /\ MAX_CPUS \in Nat /\ 0 .. r.num_cpus - 1 \subseteq Ids
        /\ 1 .. r.num_cpus - 1 \subseteq Ids /\ Ids \subseteq Nat
        /\ DOMAIN r = {"num_cpus", "found_cpus", "ids"}
    BY MachinesAssumption, MaxAssumption DEF Tabled, Ids
  <1>2. CASE e.boot /\ q = [r EXCEPT !.ids[0] = e.id, !.found_cpus = @ + 1]
    <2>1. /\ q.num_cpus = r.num_cpus /\ q.ids[0] = e.id
          /\ \A c \in Ids : c # 0 => q.ids[c] = r.ids[c]
      BY <1>1, <1>2
    <2>2. \A c \in 1 .. r.num_cpus - 1 : c \in Ids /\ c # 0
      BY <1>1
    <2>3. q.ids[0] \in {0, b}
      BY <1>2, <2>1 DEF OwnIds, CpusIn
    <2> QED BY <2>1, <2>2, <2>3 DEF MpRight
  <1>3. CASE /\ ~e.boot /\ ~Tables!Full(r)
             /\ q = [r EXCEPT !.ids[r.num_cpus] = e.id, !.num_cpus = @ + 1, !.found_cpus = @ + 1]
    <2>1. q.num_cpus = r.num_cpus + 1 /\ q.ids = [r.ids EXCEPT ![r.num_cpus] = e.id]
      BY <1>1, <1>3
    <2>2. r.num_cpus \in Ids /\ r.num_cpus # 0
      BY <1>1, <1>3 DEF Tables!Full, Ids
    <2>3. /\ q.ids[r.num_cpus] = e.id
          /\ \A c \in Ids : c # r.num_cpus => q.ids[c] = r.ids[c]
      BY <1>1, <2>1, <2>2
    <2>4. /\ 1 .. q.num_cpus - 1 = (1 .. r.num_cpus - 1) \cup {r.num_cpus}
          /\ \A c \in 1 .. r.num_cpus - 1 : c \in Ids /\ c # r.num_cpus
      BY <1>1, <2>1
    <2>5. m \in ApsIn(es)
      BY <1>3 DEF ApsIn, CpusIn
    <2>6. \A c \in 1 .. r.num_cpus - 1 : r.ids[c] # e.id
      <3> TAKE c \in 1 .. r.num_cpus - 1
      <3>1. PICK i \in s : i \in ApsIn(es) /\ r.ids[c] = es[i].id
        BY DEF MpRight
      <3>2. i # m
        OBVIOUS
      <3> QED BY <2>5, <3>1, <3>2 DEF OwnIds
    <2>7. \A c \in 1 .. q.num_cpus - 1 :
              \E i \in s \cup {m} : i \in ApsIn(es) /\ q.ids[c] = es[i].id
      BY <2>3, <2>4, <2>5 DEF MpRight
    <2>8. \A c, d \in 1 .. q.num_cpus - 1 : c # d => q.ids[c] # q.ids[d]
      BY <2>3, <2>4, <2>6 DEF MpRight
    <2>9. q.ids[0] \in {0, b}
      BY <1>1, <2>2, <2>3 DEF MpRight
    <2>10. \A c \in Ids : c >= q.num_cpus /\ c # 0 => q.ids[c] = 0
      <3> TAKE c \in Ids
      <3> HAVE c >= q.num_cpus /\ c # 0
      <3>1. c >= r.num_cpus /\ c # r.num_cpus
        BY <1>1, <2>1
      <3> QED BY <2>3, <3>1 DEF MpRight
    <2> QED BY <2>7, <2>8, <2>9, <2>10 DEF MpRight
  <1>4. CASE q = [r EXCEPT !.found_cpus = @ + 1]
    <2>1. q.num_cpus = r.num_cpus /\ q.ids = r.ids
      BY <1>1, <1>4
    <2> QED BY <2>1 DEF MpRight
  <1> QED BY <1>2, <1>3, <1>4, MpCpuCases DEF q

(* Once CPU 0 has the boot CPU's id, an entry leaves it that id.            *)
LEMMA MpCpuKeepsBoot ==
    ASSUME NEW X, NEW r \in Tabled(X), NEW e, e.id \in X, NEW b, r.ids[0] = b, e.boot => e.id = b
    PROVE  Tables!MpCpu(r, e).ids[0] = b
  <1> DEFINE q == Tables!MpCpu(r, e)
  <1> SUFFICES q.ids[0] = b
    OBVIOUS
  <1>1. /\ r.num_cpus \in 1 .. MAX_CPUS /\ 0 \in Ids /\ r.ids \in [Ids -> X]
        /\ MAX_CPUS \in Nat /\ Ids \subseteq Nat
        /\ DOMAIN r = {"num_cpus", "found_cpus", "ids"}
    BY MachinesAssumption, MaxAssumption DEF Tabled, Ids
  <1> HIDE DEF q
  <1>2. CASE e.boot /\ q = [r EXCEPT !.ids[0] = e.id, !.found_cpus = @ + 1]
    <2>1. q.num_cpus = r.num_cpus /\ q.ids[0] = e.id
      BY <1>1, <1>2
    <2> QED BY <1>2, <2>1
  <1>3. CASE q = [r EXCEPT !.ids[r.num_cpus] = e.id, !.num_cpus = @ + 1, !.found_cpus = @ + 1]
    <2>1. q.num_cpus = r.num_cpus + 1 /\ q.ids = [r.ids EXCEPT ![r.num_cpus] = e.id]
      BY <1>1, <1>3
    <2> QED BY <1>1, <2>1
  <1>4. CASE q = [r EXCEPT !.found_cpus = @ + 1]
    <2>1. q.num_cpus = r.num_cpus /\ q.ids = r.ids
      BY <1>1, <1>4
    <2> QED BY <2>1
  <1>5. \/ e.boot /\ q = [r EXCEPT !.ids[0] = e.id, !.found_cpus = @ + 1]
        \/ q = [r EXCEPT !.ids[r.num_cpus] = e.id, !.num_cpus = @ + 1, !.found_cpus = @ + 1]
        \/ q = [r EXCEPT !.found_cpus = @ + 1]
    BY MpCpuCases DEF q
  <1> QED BY <1>2, <1>3, <1>4, <1>5 DEF q

(* If the boot CPU's entry is read, CPU 0 has its id.                       *)
MpBoot(es, b, x, s, f) ==
    /\ s \subseteq 1 .. x - 1 => f.good /\ ~f.skip
    /\ x \in s => f.r.ids[0] = b

LEMMA MpBootStep ==
    ASSUME NEW es, NEW b, OwnIds(es, b), NEW x \in CpusIn(es), es[x].boot, IsRead(es, x),
           DOMAIN es \subseteq Nat \ {0}, NEW s, NEW m, s \cup {m} \subseteq DOMAIN es,
           \A j \in s : j < m,
           NEW f \in MpStates(es), MpBoot(es, b, x, s, f)
    PROVE  MpBoot(es, b, x, s \cup {m}, Tables!MpEntry(f, es[m]))
  <1> DEFINE e == es[m]
             q == Tables!MpEntry(f, e)
  <1>1. m \in Nat /\ x \in Nat /\ x \in DOMAIN es /\ s \subseteq Nat
    BY DEF CpusIn
  <1>2. /\ f.r \in Tabled(MpIds(es)) /\ DOMAIN f = {"r", "good", "skip"} /\ m \in DOMAIN es
        /\ e.id \in MpIds(es)
    BY DEF MpStates, MpIds
  <1>3. f.r.num_cpus \in 1 .. MAX_CPUS /\ DOMAIN f.r = {"num_cpus", "found_cpus", "ids"}
        /\ f.r.ids \in [Ids -> MpIds(es)] /\ 0 \in Ids
    BY <1>2, MachinesAssumption, MaxAssumption DEF Tabled, Ids
  <1>4. ASSUME s \cup {m} \subseteq 1 .. x - 1 PROVE q.good /\ ~q.skip
    <2>1. m \in CpusIn(es) /\ e.local
      BY <1>4 DEF IsRead
    <2>2. f.good /\ ~f.skip
      BY <1>4 DEF MpBoot
    <2>3. q = [f EXCEPT !.r = Tables!MpCpu(f.r, e), !.good = e.local]
      BY <2>1, <2>2 DEF Tables!MpEntry, CpusIn
    <2> HIDE DEF q, e
    <2>4. q.good = e.local /\ q.skip = f.skip
      BY <1>2, <2>3
    <2> QED BY <2>1, <2>2, <2>4
  <1>5. ASSUME x \in s PROVE q.r.ids[0] = b
    <2>1. f.r.ids[0] = b
      BY <1>5 DEF MpBoot
    <2>2. CASE e.kind = "cpu" /\ q.r = Tables!MpCpu(f.r, e)
      <3>1. e.boot => e.id = b
        BY <1>2, <2>2 DEF OwnIds, CpusIn
      <3>2. Tables!MpCpu(f.r, e).ids[0] = b
        BY <1>2, <2>1, <3>1, MpCpuKeepsBoot
      <3> QED BY <2>2, <3>2
    <2>3. CASE q.r = f.r
      BY <2>1, <2>3
    <2> QED BY <1>2, <2>2, <2>3, MpEntryCases
  <1>6. ASSUME x = m PROVE q.r.ids[0] = b
    <2>1. s \subseteq 1 .. x - 1
      <3>1. \A j \in s : j \in Nat /\ j < x
        BY <1>1, <1>6
      <3>2. 0 \notin s
        OBVIOUS
      <3> QED BY <1>1, <3>1, <3>2
    <2>2. f.good /\ ~f.skip
      BY <2>1 DEF MpBoot
    <2>3. q = [f EXCEPT !.r = Tables!MpCpu(f.r, e), !.good = e.local]
      BY <1>6, <2>2 DEF Tables!MpEntry, CpusIn
    <2>4. q.r = Tables!MpCpu(f.r, e)
      <3> HIDE DEF q, e
      <3> QED BY <1>2, <2>3
    <2>5. Tables!MpCpu(f.r, e) = [f.r EXCEPT !.ids[0] = e.id, !.found_cpus = @ + 1]
      BY <1>6 DEF Tables!MpCpu
    <2>6. e.id = b
      BY <1>6 DEF OwnIds
    <2> HIDE DEF q, e
    <2> QED BY <1>3, <2>4, <2>5, <2>6
  <1> HIDE DEF q
  <1>7. s \cup {m} \subseteq 1 .. x - 1 => q.good /\ ~q.skip
    BY <1>4
  <1>8. x \in s \cup {m} => q.r.ids[0] = b
    BY <1>5, <1>6
  <1> QED BY <1>7, <1>8 DEF MpBoot, q

(* The ids of the CPUs that are started differ from each other and from CPU *)
(* 0's; and the boot CPU, which has the id b, is not taken for another.     *)
IdsDiffer(r) == \A c, d \in 0 .. r.num_cpus - 1 : c # d => r.ids[c] # r.ids[d]
BootFound(r, b) == r.ids[0] = b \/ \A c \in Ids : r.ids[c] # b

LEMMA MpIdentified ==
    ASSUME NEW es, NEW b, OwnIds(es, b), NEW s \in SUBSET DOMAIN es, NEW X, NEW r \in Tabled(X),
           MpRight(es, b, s, r),
           \A x \in CpusIn(es) : es[x].boot /\ IsRead(es, x) => r.ids[0] = b
    PROVE  IdsDiffer(r) /\ BootFound(r, b)
  <1>1. r.num_cpus \in 1 .. MAX_CPUS /\ Ids \subseteq Nat
    BY MaxAssumption DEF Tabled, Ids
  <1>2. \A c \in 1 .. r.num_cpus - 1 : r.ids[c] # b /\ (r.ids[c] = 0 => r.ids[0] = b)
    <2> TAKE c \in 1 .. r.num_cpus - 1
    <2>1. PICK i \in ApsIn(es) : r.ids[c] = es[i].id
      BY DEF MpRight
    <2>2. es[i].id # b /\ i \in CpusIn(es)
      BY DEF OwnIds, ApsIn
    <2>3. r.ids[c] = 0 => r.ids[0] = b
      BY <2>1 DEF OwnIds
    <2> QED BY <2>1, <2>2, <2>3
  <1>3. \A c \in 1 .. r.num_cpus - 1 : r.ids[c] # r.ids[0]
    BY <1>2 DEF MpRight
  <1>4. \A c \in 0 .. r.num_cpus - 1 : c = 0 \/ c \in 1 .. r.num_cpus - 1
    BY <1>1
  <1>5. IdsDiffer(r)
    <2> SUFFICES ASSUME NEW c \in 0 .. r.num_cpus - 1, NEW d \in 0 .. r.num_cpus - 1, c # d
                 PROVE  r.ids[c] # r.ids[d]
      BY DEF IdsDiffer
    <2>1. CASE c = 0
      BY <1>3, <1>4, <2>1
    <2>2. CASE d = 0
      BY <1>3, <1>4, <2>2
    <2>3. CASE c # 0 /\ d # 0
      <3>1. c \in 1 .. r.num_cpus - 1 /\ d \in 1 .. r.num_cpus - 1
        BY <1>4, <2>3
      <3> QED BY <3>1 DEF MpRight
    <2> QED BY <2>1, <2>2, <2>3
  <1>6. BootFound(r, b)
    <2> SUFFICES ASSUME r.ids[0] # b, NEW c \in Ids PROVE r.ids[c] # b
      BY DEF BootFound
    <2>1. b # 0
      BY DEF MpRight
    <2>2. CASE c = 0
      BY <2>2
    <2>3. CASE c >= r.num_cpus /\ c # 0
      BY <2>1, <2>3 DEF MpRight
    <2>4. CASE c \in 1 .. r.num_cpus - 1
      BY <1>2, <2>4
    <2>5. c = 0 \/ (c >= r.num_cpus /\ c # 0) \/ c \in 1 .. r.num_cpus - 1
      BY <1>1
    <2> QED BY <2>2, <2>3, <2>4, <2>5
  <1> QED BY <1>5, <1>6

LEMMA NothingIdentified ==
    ASSUME NEW r, NEW b, r.num_cpus = 1, \A c \in Ids : r.ids[c] = 0
    PROVE  IdsDiffer(r) /\ BootFound(r, b)
  <1>1. \A c, d \in 0 .. r.num_cpus - 1 : c = d
    OBVIOUS
  <1>2. 0 \in Ids
    BY MachinesAssumption, MaxAssumption DEF Ids
  <1>3. BootFound(r, b)
    BY <1>2 DEF BootFound
  <1> QED BY <1>1, <1>3 DEF IdsDiffer

LEMMA NoCpusFacts ==
    /\ Tables!NoCpus.num_cpus = 1 /\ Tables!NoCpus.found_cpus = 0
    /\ \A c \in Ids : Tables!NoCpus.ids[c] = 0
    /\ 0 \in Ids
  BY MachinesAssumption, MaxAssumption DEF Tables!NoCpus, Ids

LEMMA MpParsed ==
    ASSUME NEW table, IsList(table.entries), NEW b
    PROVE  LET r == Tables!ReadMpConfigTable(Tables!NoCpus, table)
           IN  /\ r \in Tabled(MpIds(table.entries))
               /\ OwnIds(table.entries, b) => IdsDiffer(r) /\ BootFound(r, b)
  <1> DEFINE es == table.entries
             S == DOMAIN es
             r == Tables!ReadMpConfigTable(Tables!NoCpus, table)
  <1>1. CASE ~table.good
    <2>1. r = Tables!NoCpus
      BY <1>1 DEF Tables!ReadMpConfigTable
    <2>2. r \in Tabled(MpIds(es))
      BY <2>1, NothingTabled DEF MpIds
    <2>3. r.num_cpus = 1 /\ \A c \in Ids : r.ids[c] = 0
      BY <2>1, NoCpusFacts
    <2> HIDE DEF r
    <2> QED BY <2>2, <2>3, NothingIdentified DEF r
  <1>2. CASE table.good
    <2>1. PICK f : /\ Tables!FoldLeft(Tables!MpEntry, MpStart, es) = f[S]
                   /\ \A s \in SUBSET S : f[s] \in MpStates(es)
                   /\ f[{}] = MpStart
                   /\ \A s \in SUBSET S : s # {} =>
                         f[s] = Tables!MpEntry(f[Rest(s)], es[Greatest(s)])
      BY MpFold
    <2>2. r = f[S].r
      BY <1>2, <2>1 DEF Tables!ReadMpConfigTable, MpStart
    <2> HIDE DEF r
    <2>3. \A s \in SUBSET S : f[s].r \in Tabled(MpIds(es))
      BY <2>1 DEF MpStates
    <2>4. Len(es) \in Nat /\ S = 1 .. Len(es)
      BY DEF IsList
    <2>5. f[{}].r = Tables!NoCpus /\ f[{}].good /\ ~f[{}].skip
      BY <2>1 DEF MpStart
    <2>6. ASSUME NEW s \in SUBSET S, s # {}
          PROVE  LET m == Greatest(s)
                     t == Rest(s)
                 IN  /\ m \in S /\ m \in Nat /\ m \notin t /\ s = t \cup {m} /\ t \in SUBSET S
                     /\ \A j \in t : j < m
                     /\ f[s] = Tables!MpEntry(f[t], es[m]) /\ f[t] \in MpStates(es)
                     /\ f[t].r \in Tabled(MpIds(es))
                     /\ \/ es[m].kind = "cpu" /\ f[s].r = Tables!MpCpu(f[t].r, es[m])
                        \/ f[s].r = f[t].r
      <3> DEFINE m == Greatest(s)
                 t == Rest(s)
      <3>0. s \in SUBSET (1 .. Len(es)) /\ Len(es) \in Nat /\ 1 .. Len(es) = S
        BY <2>4
      <3>1. m \in S /\ m \notin t /\ s = t \cup {m} /\ t \in SUBSET S
        BY <2>6, <3>0, RestIsLess
      <3>2. m \in Nat /\ \A j \in t : j < m
        BY <2>6, <3>0, LessThanGreatest
      <3>3. f[s] = Tables!MpEntry(f[t], es[m]) /\ f[t] \in MpStates(es)
            /\ f[t].r \in Tabled(MpIds(es))
        BY <2>1, <2>3, <2>6, <3>1
      <3> HIDE DEF m, t
      <3>4. \/ es[m].kind = "cpu" /\ f[s].r = Tables!MpCpu(f[t].r, es[m])
            \/ f[s].r = f[t].r
        BY <3>1, <3>3, MpEntryCases
      <3> QED BY <3>1, <3>2, <3>3, <3>4 DEF m, t
    <2>7. ASSUME OwnIds(es, b) PROVE MpRight(es, b, S, f[S].r)
      <3> DEFINE Good == {s \in SUBSET S : MpRight(es, b, s, f[s].r)}
      <3>1. {} \in Good
        <4>1. 1 .. f[{}].r.num_cpus - 1 = {}
          BY <2>5, NoCpusFacts
        <4> QED BY <2>5, <4>1, NoCpusFacts DEF MpRight
      <3>2. ASSUME NEW s \in SUBSET S, s # {}, Rest(s) \in Good PROVE s \in Good
        <4> DEFINE m == Greatest(s)
                   t == Rest(s)
        <4>1. MpRight(es, b, t, f[t].r)
          BY <3>2
        <4>2. /\ m \in S /\ m \notin t /\ s = t \cup {m} /\ t \in SUBSET S
              /\ f[t].r \in Tabled(MpIds(es))
              /\ \/ es[m].kind = "cpu" /\ f[s].r = Tables!MpCpu(f[t].r, es[m])
                 \/ f[s].r = f[t].r
          BY <2>6, <3>2
        <4> HIDE DEF m, t
        <4>3. CASE es[m].kind = "cpu" /\ f[s].r = Tables!MpCpu(f[t].r, es[m])
          <5>1. es[m].id \in MpIds(es)
            BY <4>2 DEF MpIds
          <5>2. MpRight(es, b, t \cup {m}, Tables!MpCpu(f[t].r, es[m]))
            BY <2>7, <4>1, <4>2, <4>3, <5>1, MpStep
          <5> QED BY <4>2, <4>3, <5>2
        <4>4. CASE f[s].r = f[t].r
          <5>1. MpRight(es, b, s, f[t].r)
            BY <4>1, <4>2 DEF MpRight
          <5> QED BY <4>4, <5>1
        <4> QED BY <4>2, <4>3, <4>4
      <3> HIDE DEF Good
      <3>3. S \in Good
        BY <2>4, <3>1, <3>2, ByGreatest
      <3> QED BY <3>3 DEF Good
    <2>8. ASSUME OwnIds(es, b), NEW x \in CpusIn(es), es[x].boot, IsRead(es, x)
          PROVE  f[S].r.ids[0] = b
      <3> DEFINE Good == {s \in SUBSET S : MpBoot(es, b, x, s, f[s])}
      <3>1. {} \in Good
        BY <2>5 DEF MpBoot
      <3>2. ASSUME NEW s \in SUBSET S, s # {}, Rest(s) \in Good PROVE s \in Good
        <4> DEFINE m == Greatest(s)
                   t == Rest(s)
        <4>1. MpBoot(es, b, x, t, f[t])
          BY <3>2
        <4>2. /\ s = t \cup {m} /\ t \in SUBSET S /\ m \in S
              /\ \A j \in t : j < m
              /\ f[s] = Tables!MpEntry(f[t], es[m]) /\ f[t] \in MpStates(es)
          BY <2>6, <3>2
        <4>3. S \subseteq Nat \ {0}
          BY <2>4
        <4> HIDE DEF m, t
        <4>4. MpBoot(es, b, x, t \cup {m}, Tables!MpEntry(f[t], es[m]))
          BY <2>8, <4>1, <4>2, <4>3, MpBootStep
        <4> QED BY <4>2, <4>4
      <3> HIDE DEF Good
      <3>3. S \in Good
        BY <2>4, <3>1, <3>2, ByGreatest
      <3>4. x \in S
        BY DEF CpusIn
      <3> QED BY <3>3, <3>4 DEF Good, MpBoot
    <2>9. OwnIds(es, b) => IdsDiffer(r) /\ BootFound(r, b)
      <3>1. S \in SUBSET S /\ f[S].r \in Tabled(MpIds(es))
        BY <2>3
      <3> QED BY <2>2, <2>7, <2>8, <3>1, MpIdentified
    <2>10. r \in Tabled(MpIds(es))
      BY <2>2, <2>3
    <2> QED BY <2>9, <2>10 DEF r
  <1> QED BY <1>1, <1>2

----------------------------------------------------------------------------
(* All tables.                                                              *)

LEMMA FirstMadtIsGood ==
    ASSUME NEW m \in Machines, Tables!GoodMadts(m.tables) # {}
    PROVE  \E i \in Tables!GoodMadts(m.tables) :
               Tables!FirstMadt(m.tables) = m.tables.madts[i] /\ IsList(m.tables.madts[i].cpus)
  <1> DEFINE good == Tables!GoodMadts(m.tables)
  <1>1. good \subseteq DOMAIN m.tables.madts
    BY DEF Tables!GoodMadts
  <1>2. good \subseteq Nat
    <2>1. IsList(m.tables.madts)
      BY MachinesAssumption
    <2>2. DOMAIN m.tables.madts \subseteq Nat
      BY <2>1 DEF IsList
    <2> QED BY <1>1, <2>2
  <1>3. \E i \in good : \A j \in good : i <= j
    BY <1>2, LeastNumber
  <1> DEFINE first == CHOOSE i \in good : \A j \in good : i <= j
  <1>4. first \in good
    BY <1>3
  <1>5. Tables!FirstMadt(m.tables) = m.tables.madts[first]
    BY DEF Tables!FirstMadt
  <1> HIDE DEF first, good
  <1>6. IsList(m.tables.madts[first].cpus)
    BY <1>1, <1>4, MachinesAssumption
  <1> QED BY <1>4, <1>5, <1>6 DEF good

(* Whatever the tables say, there is room for the CPUs they give.           *)
LEMMA SmpCount ==
    ASSUME NEW m \in Machines
    PROVE  Tables!SmpFindCpus(m.tables).num_cpus \in 1 .. MAX_CPUS
  <1> DEFINE t == m.tables
             r == Tables!SmpFindCpus(t)
  <1>1. CASE Tables!GoodMadts(t) # {}
    <2>1. IsList(Tables!FirstMadt(t).cpus)
      BY <1>1, FirstMadtIsGood
    <2>2. r = Tables!ParseMadt(Tables!NoCpus, Tables!FirstMadt(t))
      BY <1>1 DEF Tables!SmpFindCpus
    <2> HIDE DEF r
    <2>3. r \in Tabled(MadtIds(Tables!FirstMadt(t)))
      BY <2>1, <2>2, MadtParsed
    <2> QED BY <2>3 DEF Tabled, r
  <1>2. CASE Tables!GoodMadts(t) = {} /\ t.fp = "table"
    <2>1. r = Tables!ReadMpConfigTable(Tables!NoCpus, t.mp)
      BY <1>2 DEF Tables!SmpFindCpus
    <2>2. IsList(t.mp.entries)
      BY MachinesAssumption
    <2> HIDE DEF r
    <2>3. r \in Tabled(MpIds(t.mp.entries))
      BY <2>1, <2>2, MpParsed
    <2> QED BY <2>3 DEF Tabled, r
  <1>3. CASE Tables!GoodMadts(t) = {} /\ t.fp # "table"
    <2>1. r.num_cpus \in {1, 2}
      BY <1>3 DEF Tables!SmpFindCpus, Tables!NoCpus
    <2> HIDE DEF r
    <2>2. r.num_cpus \in 1 .. MAX_CPUS
      BY <2>1, MachinesAssumption, MaxAssumption
    <2> QED BY <2>2 DEF r
  <1> QED BY <1>1, <1>2, <1>3

LEMMA FoundCount ==
    ASSUME NEW m \in Machines
    PROVE  Tables!CpusFound(m.tables, m.maxcpus).num_cpus \in 1 .. MAX_CPUS
  <1> DEFINE r == Tables!SmpFindCpus(m.tables)
             q == Tables!CpusFound(m.tables, m.maxcpus)
  <1>1. m.maxcpus \in Int /\ r.num_cpus \in 1 .. MAX_CPUS
    BY SmpCount, MachinesAssumption
  <1>2. q = IF m.maxcpus > 1
            THEN IF r.num_cpus > m.maxcpus THEN [r EXCEPT !.num_cpus = m.maxcpus] ELSE r
            ELSE [Tables!NoCpus EXCEPT !.found_cpus = 1]
    BY DEF Tables!CpusFound
  <1> HIDE DEF r, q
  <1>3. \/ q.num_cpus \in {r.num_cpus, 1}
        \/ q.num_cpus = m.maxcpus /\ m.maxcpus > 1 /\ r.num_cpus > m.maxcpus
    BY <1>2 DEF Tables!NoCpus
  <1>4. q.num_cpus \in 1 .. MAX_CPUS
    BY <1>1, <1>3, MaxAssumption
  <1> QED BY <1>4 DEF q

(* With tables that tell the CPUs apart, the CPUs' ids differ, and of a     *)
(* MADT there is one CPU for each core.                                     *)
CoresOf(m) ==
    LET madt == Tables!FirstMadt(m.tables)
        ids  == {m.bsp} \cup {madt.cpus[i].id : i \in EnabledIn(madt.cpus)}
    IN  {Tables!CoreOf(id, madt.bits) : id \in ids}

LEMMA MadtFound ==
    ASSUME NEW m \in Machines, TellsApart(m), Tables!GoodMadts(m.tables) # {}
    PROVE  LET r    == Tables!SmpFindCpus(m.tables)
               madt == Tables!FirstMadt(m.tables)
               n    == Cardinality(CoresOf(m))
           IN  /\ IdsDiffer(r) /\ BootFound(r, m.bsp)
               /\ n \in Nat /\ r.num_cpus = IF n > MAX_CPUS THEN MAX_CPUS ELSE n
               /\ r.num_cpus > 1 => r.ids[0] = m.bsp
               /\ MadtRight(madt, DOMAIN madt.cpus, r)
  <1> DEFINE r == Tables!SmpFindCpus(m.tables)
             madt == Tables!FirstMadt(m.tables)
             on == EnabledIn(madt.cpus)
             n == Cardinality(CoresOf(m))
  <1>1. IsList(madt.cpus)
    BY FirstMadtIsGood
  <1>2. r = Tables!ParseMadt(Tables!NoCpus, madt)
    BY DEF Tables!SmpFindCpus
  <1>3. FirstIs(madt.cpus, m.bsp)
    BY DEF TellsApart
  <1>4. CoresOf(m) = {Tables!CoreOf(id, madt.bits) : id \in {m.bsp} \cup {madt.cpus[i].id : i \in on}}
    BY DEF CoresOf
  <1> HIDE DEF r, madt
  <1>5. r \in Tabled(MadtIds(madt)) /\ MadtRight(madt, DOMAIN madt.cpus, r)
    BY <1>1, <1>2, MadtParsed
  <1>6. on = On(madt, DOMAIN madt.cpus) /\ on \subseteq Nat
    BY <1>1 DEF EnabledIn, On, IsList
  <1>7. IdsDiffer(r)
    BY <1>5 DEF MadtRight, IdsDiffer
  <1>8. CASE on = {}
    <2>1. r.num_cpus = 1 /\ \A c \in Ids : r.ids[c] = 0
      BY <1>5, <1>6, <1>8 DEF MadtRight, BootIsFirst
    <2>2. BootFound(r, m.bsp)
      BY <2>1, NothingIdentified
    <2>3. CoresOf(m) = {Tables!CoreOf(m.bsp, madt.bits)}
      BY <1>4, <1>8
    <2>4. n = 1
      BY <2>3, FS_Singleton
    <2> QED BY <1>5, <1>7, <2>1, <2>2, <2>4, MachinesAssumption, MaxAssumption DEF r, madt
  <1>9. CASE on # {}
    <2>1. PICK i \in on : \A j \in on : i <= j
      BY <1>6, <1>9, LeastNumber
    <2>2. madt.cpus[i].id = m.bsp
      BY <1>3, <2>1 DEF FirstIs
    <2>3. CoresOf(m) = Cores(madt, DOMAIN madt.cpus)
      BY <1>4, <1>6, <2>2 DEF Cores
    <2>4. n \in Nat /\ r.num_cpus = IF n > MAX_CPUS THEN MAX_CPUS ELSE n
      BY <1>1, <1>5, <1>6, <1>9, <2>3, CoresCounted
    <2>5. r.ids[0] = m.bsp
      <3>1. BootIsFirst(madt, DOMAIN madt.cpus, r)
        BY <1>5, <1>6, <1>9 DEF MadtRight
      <3>2. PICK k \in on : (\A j \in on : k <= j) /\ r.ids[0] = madt.cpus[k].id
        BY <1>6, <3>1 DEF BootIsFirst
      <3> QED BY <1>3, <3>2 DEF FirstIs
    <2> QED BY <1>5, <1>7, <2>4, <2>5 DEF BootFound, r, madt
  <1> QED BY <1>8, <1>9

LEMMA SmpFound ==
    ASSUME NEW m \in Machines, TellsApart(m)
    PROVE  LET r == Tables!SmpFindCpus(m.tables)
           IN  IdsDiffer(r) /\ BootFound(r, m.bsp)
  <1> DEFINE t == m.tables
             r == Tables!SmpFindCpus(t)
  <1>1. CASE Tables!GoodMadts(t) # {}
    BY <1>1, MadtFound
  <1>2. CASE Tables!GoodMadts(t) = {}
    <2>1. CASE t.fp = "table"
      <3>1. r = Tables!ReadMpConfigTable(Tables!NoCpus, t.mp)
        BY <1>2, <2>1 DEF Tables!SmpFindCpus
      <3>2. IsList(t.mp.entries) /\ OwnIds(t.mp.entries, m.bsp)
        BY <1>2, <2>1, MachinesAssumption DEF TellsApart
      <3> HIDE DEF r
      <3>3. IdsDiffer(r) /\ BootFound(r, m.bsp)
        BY <3>1, <3>2, MpParsed
      <3> QED BY <3>3 DEF r
    <2>2. CASE t.fp = "default"
      <3>1. r = [Tables!NoCpus EXCEPT !.num_cpus = 2, !.ids = [@ EXCEPT ![1] = 1]]
        BY <1>2, <2>2 DEF Tables!SmpFindCpus
      <3>2. r.num_cpus = 2 /\ r.ids[0] = 0 /\ r.ids[1] = 1 /\ \A c \in Ids : c > 1 => r.ids[c] = 0
        BY <3>1, MachinesAssumption, MaxAssumption DEF Tables!NoCpus, Ids
      <3>3. m.bsp # 1
        BY <1>2, <2>2 DEF TellsApart
      <3> HIDE DEF r
      <3>4. \A c \in 0 .. r.num_cpus - 1 : r.ids[c] = c
        BY <3>2
      <3>5. IdsDiffer(r)
        BY <3>4 DEF IdsDiffer
      <3>6. BootFound(r, m.bsp)
        <4>1. \A c \in Ids : c = 0 \/ c = 1 \/ c > 1
          BY DEF Ids
        <4> QED BY <3>2, <3>3, <4>1 DEF BootFound
      <3> QED BY <3>5, <3>6 DEF r
    <2>3. CASE t.fp \notin {"table", "default"}
      <3>1. r = Tables!NoCpus
        BY <1>2, <2>3 DEF Tables!SmpFindCpus
      <3> QED BY <3>1, NoCpusFacts, NothingIdentified
    <2> QED BY <2>1, <2>2, <2>3
  <1> QED BY <1>1, <1>2

(* initialise_cpus() takes no more CPUs than maxcpus=.                      *)
LEMMA FoundFrom ==
    ASSUME NEW m \in Machines, TellsApart(m)
    PROVE  LET r == Tables!SmpFindCpus(m.tables)
               q == Tables!CpusFound(m.tables, m.maxcpus)
           IN  /\ q.num_cpus \in 1 .. MAX_CPUS /\ r.num_cpus \in 1 .. MAX_CPUS
               /\ IdsDiffer(q) /\ BootFound(q, m.bsp)
               /\ m.maxcpus > 1 =>
                     /\ q.num_cpus = IF r.num_cpus > m.maxcpus THEN m.maxcpus ELSE r.num_cpus
                     /\ q.ids = r.ids
  <1> DEFINE r == Tables!SmpFindCpus(m.tables)
             q == Tables!CpusFound(m.tables, m.maxcpus)
  <1>1. m.maxcpus \in Int
    BY MachinesAssumption
  <1>2. r.num_cpus \in 1 .. MAX_CPUS /\ IdsDiffer(r) /\ BootFound(r, m.bsp)
    BY SmpCount, SmpFound
  <1>3. CASE m.maxcpus > 1
    <2>1. q = IF r.num_cpus > m.maxcpus THEN [r EXCEPT !.num_cpus = m.maxcpus] ELSE r
      BY <1>3 DEF Tables!CpusFound
    <2> HIDE DEF r, q
    <2>2. /\ q.num_cpus = IF r.num_cpus > m.maxcpus THEN m.maxcpus ELSE r.num_cpus
          /\ q.ids = r.ids
      BY <2>1
    <2>3. q.num_cpus \in 1 .. MAX_CPUS /\ q.num_cpus <= r.num_cpus
      BY <1>1, <1>2, <1>3, <2>2, MaxAssumption
    <2>4. IdsDiffer(q) /\ BootFound(q, m.bsp)
      BY <1>2, <2>2, <2>3 DEF IdsDiffer, BootFound
    <2> QED BY <1>2, <2>2, <2>3, <2>4 DEF r, q
  <1>4. CASE ~(m.maxcpus > 1)
    <2>1. q = [Tables!NoCpus EXCEPT !.found_cpus = 1]
      BY <1>4 DEF Tables!CpusFound
    <2>2. q.num_cpus = Tables!NoCpus.num_cpus /\ q.ids = Tables!NoCpus.ids
      BY <2>1 DEF Tables!NoCpus
    <2> HIDE DEF q
    <2>3. q.num_cpus = 1 /\ IdsDiffer(q) /\ BootFound(q, m.bsp)
      BY <2>2, NoCpusFacts, NothingIdentified
    <2> QED BY <1>2, <1>4, <2>3, MaxAssumption DEF q
  <1> QED BY <1>3, <1>4

(* smp_my_cpu_num() finds each CPU's number.                                *)
LEMMA NumberFound ==
    ASSUME NEW r, r.num_cpus \in 1 .. MAX_CPUS, IdsDiffer(r), NEW c \in 0 .. r.num_cpus - 1
    PROVE  Tables!MyCpuNum(r, r.ids[c]) = c
  <1> DEFINE is == {i \in 0 .. MAX_CPUS - 1 : r.ids[i] = r.ids[c]}
  <1>1. c \in is
    BY MaxAssumption
  <1>2. \A i \in is : c <= i
    <2> SUFFICES ASSUME NEW i \in is, i < c PROVE FALSE
      OBVIOUS
    <2>1. i \in 0 .. r.num_cpus - 1
      OBVIOUS
    <2> QED BY <2>1 DEF IdsDiffer
  <1>3. \A x \in is : (\A j \in is : x <= j) => x = c
    BY <1>1, <1>2
  <1> HIDE DEF is
  <1>4. (CHOOSE i \in is : \A j \in is : i <= j) = c
    BY <1>1, <1>2, <1>3
  <1> QED BY <1>1, <1>4 DEF is, Tables!MyCpuNum

LEMMA BootNumberFound ==
    ASSUME NEW r, NEW b, BootFound(r, b)
    PROVE  Tables!MyCpuNum(r, b) = 0
  <1> DEFINE is == {i \in 0 .. MAX_CPUS - 1 : r.ids[i] = b}
  <1>1. CASE is = {}
    BY <1>1 DEF Tables!MyCpuNum
  <1>2. CASE is # {}
    <2>1. 0 \in is /\ is \subseteq Nat
      BY <1>2, MaxAssumption DEF BootFound, Ids
    <2> HIDE DEF is
    <2>2. (CHOOSE i \in is : \A j \in is : i <= j) = 0
      <3>1. \A i \in is : (\A j \in is : i <= j) => i = 0
        BY <2>1
      <3>2. \A j \in is : 0 <= j
        BY <2>1
      <3> QED BY <2>1, <3>1, <3>2
    <2> QED BY <1>2, <2>2 DEF is, Tables!MyCpuNum
  <1> QED BY <1>1, <1>2

----------------------------------------------------------------------------
(* The theorems.                                                            *)

LEMMA StartInitIsInit == StartInit => Init /\ sc \in Machines
  BY MachinesAssumption DEF StartInit, Init

LEMMA StartStepIsStep ==
    ASSUME sc \in Machines, [StartNext]_allVars
    PROVE  [Next]_vars /\ sc' = sc
  <1>1. CASE SizeMemory
    BY <1>1 DEF SizeMemory, Boot, BootCpu, Next
  <1>2. CASE FindCpus
    <2> DEFINE n == Tables!CpusFound(sc.tables, sc.maxcpus).num_cpus
               mask == Tables!CpuMask(sc.digits)
    <2>1. n \in 1 .. MAX_CPUS
      BY FoundCount
    <2>2. mask \in SUBSET CPUs /\ 0 \in mask
      BY Zero DEF Tables!CpuMask, CPUs
    <2>3. InitialiseCpus(n, mask) /\ sc' = sc
      BY <1>2 DEF FindCpus
    <2> HIDE DEF n, mask
    <2> QED BY <2>1, <2>2, <2>3 DEF BootCpu, Next
  <1>3. CASE BootStep
    BY <1>3 DEF BootStep, Boot, BootCpu, Next
  <1>4. CASE GetReady
    BY <1>4 DEF GetReady, Boot, BootCpu, Next
  <1>5. ASSUME NEW c \in CPUs \ {0}, ApStep(c)
        PROVE  [Next]_vars /\ sc' = sc
    BY <1>5 DEF ApStep, Next
  <1>6. CASE MeetStep
    BY <1>6 DEF MeetStep, Next
  <1>7. CASE UNCHANGED allVars
    BY <1>7 DEF allVars
  <1> QED BY <1>1, <1>2, <1>3, <1>4, <1>5, <1>6, <1>7 DEF StartNext

(* Start-up with any tables and any command line is start-up as SmpBoot has *)
(* it: as many CPUs are found as there is room for, at least the boot CPU,  *)
(* which is always selected (smp.c:592-630, main.c:354-370).                *)
THEOREM StartsAsSmpBoot == StartSpec => SafeSpec
  <1>1. StartInit => sc \in Machines
    BY StartInitIsInit
  <1>2. sc \in Machines /\ [StartNext]_allVars => (sc \in Machines)'
    BY StartStepIsStep
  <1>3. StartInit /\ [][StartNext]_allVars => [](sc \in Machines)
    BY <1>1, <1>2, PTL
  <1>4. StartInit => Init
    BY StartInitIsInit
  <1>5. sc \in Machines /\ [StartNext]_allVars => [Next]_vars
    BY StartStepIsStep
  <1> QED BY <1>3, <1>4, <1>5, PTL DEF StartSpec, SafeSpec

(* So the ordinals are unique and, when the tests begin, dense, nobody comes*)
(* early and no two are on the boot stack, whatever the tables and the      *)
(* command line say (main.c:489, 505, smp.c:808).                           *)
THEOREM StartIsSafe ==
    StartSpec => [](TypeOK /\ OrdinalsUnique /\ OrdinalsDense /\ NobodyEarly /\ OneOnBootStack)
  BY StartsAsSmpBoot, Typing, OrdinalsAreUnique, OrdinalsAreDense, NobodyIsEarly, OneIsOnBootStack,
     PTL

(* From FindCpus on, the CPUs are those of the tables.                      *)
Tabulated ==
    /\ sc \in Machines
    /\ at[0] \notin {"begin", "tables"} =>
          /\ found = Tables!CpusFound(sc.tables, sc.maxcpus)
          /\ num_cpus = found.num_cpus

LEMMA TabulatedInit == StartInit => Tabulated
  <1> SUFFICES ASSUME StartInit PROVE Tabulated
    OBVIOUS
  <1>1. at[0] = "begin"
    BY Zero DEF StartInit
  <1> QED BY <1>1, StartInitIsInit DEF Tabulated

LEMMA TabulatedStep ==
    ASSUME TypeOK, Tabulated, [StartNext]_allVars
    PROVE  Tabulated'
  <1>1. sc \in Machines /\ sc' = sc
    BY StartStepIsStep DEF Tabulated
  <1>2. CASE FindCpus
    <2>1. found' = Tables!CpusFound(sc.tables, sc.maxcpus) /\ num_cpus' = found'.num_cpus
      BY <1>2 DEF FindCpus, InitialiseCpus
    <2> QED BY <1>1, <2>1 DEF Tabulated
  <1>3. CASE SizeMemory
    <2>1. at'[0] = "tables"
      BY <1>3, Zero DEF SizeMemory, Begin, TypeOK
    <2> QED BY <1>1, <2>1 DEF Tabulated
  <1>4. CASE /\ at[0] \in {"begin", "tables"} => at'[0] = at[0]
             /\ found' = found /\ num_cpus' = num_cpus
    BY <1>1, <1>4 DEF Tabulated
  <1>5. CASE BootStep
    BY <1>4, <1>5 DEF BootStep, own, BootAp, Answered, TimedOut
  <1>6. CASE GetReady
    BY <1>4, <1>6 DEF GetReady, Ready
  <1>7. ASSUME NEW c \in CPUs \ {0}, ApStep(c)
        PROVE  Tabulated'
    <2>1. at'[0] = at[0] /\ num_cpus' = num_cpus
      BY <1>7, Zero DEF ApStep, Other, ApStart, SwitchStack, ApBooted, Lock, ReadOrd, SetOrd, Step,
                        TypeOK
    <2>2. found' = found
      BY <1>7 DEF ApStep, own
    <2> QED BY <1>4, <2>1, <2>2
  <1>8. CASE MeetStep
    <2>1. PICK b \in Barriers : Meet(b)
      BY <1>8 DEF MeetStep
    <2>2. at'[0] = (IF at[0] = b THEN After(b) ELSE at[0]) /\ num_cpus' = num_cpus
      BY <2>1, Zero DEF Meet
    <2>3. found' = found
      BY <1>8 DEF MeetStep, own
    <2> QED BY <1>4, <2>2, <2>3 DEF Barriers
  <1>9. CASE UNCHANGED allVars
    BY <1>4, <1>9 DEF allVars, vars
  <1> QED BY <1>2, <1>3, <1>5, <1>6, <1>7, <1>8, <1>9 DEF StartNext

LEMMA TabulatedIdentified == Tabulated => CpusIdentified
  <1> SUFFICES ASSUME Tabulated, at[0] \notin {"begin", "tables"}, TellsApart(sc)
               PROVE  CpusIdentified
    BY DEF CpusIdentified
  <1> DEFINE r == Tables!SmpFindCpus(sc.tables)
  <1>1. /\ sc \in Machines /\ found = Tables!CpusFound(sc.tables, sc.maxcpus)
        /\ num_cpus = found.num_cpus
    BY DEF Tabulated
  <1>2. /\ found.num_cpus \in 1 .. MAX_CPUS /\ r.num_cpus \in 1 .. MAX_CPUS
        /\ IdsDiffer(found) /\ BootFound(found, sc.bsp)
        /\ sc.maxcpus > 1 =>
              /\ found.num_cpus = IF r.num_cpus > sc.maxcpus THEN sc.maxcpus ELSE r.num_cpus
              /\ found.ids = r.ids
    BY <1>1, FoundFrom
  <1>3. ASSUME NEW c \in Counted PROVE Tables!MyCpuNum(found, RealId(c)) = c
    <2>1. c \in 0 .. found.num_cpus - 1
      BY <1>1, <1>2, Zero DEF Counted, CPUs
    <2>2. CASE c = 0
      BY <1>2, <2>2, BootNumberFound DEF RealId
    <2>3. CASE c # 0
      BY <1>2, <2>1, <2>3, NumberFound DEF RealId
    <2> QED BY <2>2, <2>3
  <1> DEFINE madt == Tables!FirstMadt(sc.tables)
             n == Cardinality(CoresOf(sc))
             limit == IF sc.maxcpus < MAX_CPUS THEN sc.maxcpus ELSE MAX_CPUS
  <1>4. ASSUME Tables!GoodMadts(sc.tables) # {}, sc.maxcpus > 1
        PROVE  /\ num_cpus = IF n > limit THEN limit ELSE n
               /\ \A c, d \in 0 .. num_cpus - 1 : c # d =>
                    Tables!CoreOf(RealId(c), madt.bits) # Tables!CoreOf(RealId(d), madt.bits)
    <2>1. /\ n \in Nat /\ r.num_cpus = IF n > MAX_CPUS THEN MAX_CPUS ELSE n
          /\ r.num_cpus > 1 => r.ids[0] = sc.bsp
          /\ MadtRight(madt, DOMAIN madt.cpus, r)
      BY <1>1, <1>4, MadtFound
    <2>3. sc.maxcpus \in Int
      BY <1>1, MachinesAssumption
    <2> HIDE DEF r, madt, n
    <2>4. num_cpus = IF n > limit THEN limit ELSE n
      BY <1>1, <1>2, <1>4, <2>1, <2>3, MaxAssumption
    <2>5. num_cpus <= r.num_cpus /\ num_cpus \in Int /\ r.num_cpus \in Int
      BY <1>1, <1>2, <1>4, <2>3, MaxAssumption
    <2>6. \A c, d \in 0 .. num_cpus - 1 : c # d =>
              Tables!CoreOf(found.ids[c], madt.bits) # Tables!CoreOf(found.ids[d], madt.bits)
      BY <1>2, <1>4, <2>1, <2>5 DEF MadtRight
    <2>7. ASSUME NEW c \in 0 .. num_cpus - 1, NEW d \in 0 .. num_cpus - 1, c # d
          PROVE  RealId(c) = found.ids[c] /\ RealId(d) = found.ids[d]
      <3>1. r.num_cpus > 1
        BY <2>5, <2>7
      <3> QED BY <1>2, <1>4, <2>1, <3>1 DEF RealId
    <2>8. \A c, d \in 0 .. num_cpus - 1 : c # d =>
              Tables!CoreOf(RealId(c), madt.bits) # Tables!CoreOf(RealId(d), madt.bits)
      BY <2>6, <2>7
    <2> QED BY <2>4, <2>8 DEF madt
  <1> QED BY <1>3, <1>4 DEF CpusIdentified, CoresOf

(* With tables that tell the CPUs apart each CPU finds its own number by its*)
(* real APIC id, and of each core of a MADT, that of the boot CPU included, *)
(* one CPU runs, unless there are too many: for every list of CPUs, of cores*)
(* and of threads (smp.c:466, 818).                                         *)
THEOREM CpusAreIdentified == StartSpec => []CpusIdentified
  <1>1. StartInit => Tabulated
    BY TabulatedInit
  <1>2. TypeOK /\ Tabulated /\ [StartNext]_allVars => Tabulated'
    BY TabulatedStep
  <1>3. StartSpec => []TypeOK
    BY StartsAsSmpBoot, Typing, PTL
  <1>4. StartSpec => []Tabulated
    BY <1>1, <1>2, <1>3, PTL DEF StartSpec
  <1>5. Tabulated => CpusIdentified
    BY TabulatedIdentified
  <1> QED BY <1>4, <1>5, PTL

----------------------------------------------------------------------------
(* The memory map.                                                          *)

(* Induction on the places in a list.                                       *)
LEMMA ByPlace ==
    ASSUME NEW n \in Nat, NEW Good, 0 \in Good,
           \A k \in 0 .. n - 1 : k \in Good => k + 1 \in Good
    PROVE  \A k \in 0 .. n : k \in Good
  <1> DEFINE Bad == {k \in 0 .. n : k \notin Good}
  <1> SUFFICES ASSUME Bad # {} PROVE FALSE
    OBVIOUS
  <1>1. PICK k \in Bad : \A m \in Bad : k <= m
    <2>1. Bad \subseteq Nat
      OBVIOUS
    <2> HIDE DEF Bad
    <2> QED BY <2>1, LeastNumber
  <1>2. k \in 0 .. n /\ k \notin Good /\ k # 0
    BY <1>1
  <1>3. k - 1 \in 0 .. n - 1 /\ k - 1 \in 0 .. n /\ ~(k <= k - 1)
    BY <1>2
  <1>4. k - 1 \in Good
    BY <1>1, <1>3
  <1> QED BY <1>2, <1>3, <1>4

(* A fold along a list takes the places one by one.                         *)
LEMMA GreatestPlace ==
    ASSUME NEW k \in Nat, k > 0
    PROVE  Greatest(1 .. k) = k /\ Rest(1 .. k) = 1 .. k - 1 /\ 1 .. k # {}
  <1>1. k \in 1 .. k /\ \A j \in 1 .. k : k >= j
    OBVIOUS
  <1>2. Greatest(1 .. k) \in 1 .. k /\ \A j \in 1 .. k : Greatest(1 .. k) >= j
    BY <1>1 DEF Greatest, Tables!Max
  <1>3. Greatest(1 .. k) = k
    BY <1>1, <1>2
  <1> QED BY <1>1, <1>3 DEF Rest

(* The elements of a finite set, one after the other in a strict order, are *)
(* those with 0, 1, 2 and so on before them.                                *)
Orders(R, S) ==
    /\ \A a \in S : <<a, a>> \notin R
    /\ \A a, b, c \in S : <<a, b>> \in R /\ <<b, c>> \in R => <<a, c>> \in R
    /\ \A a, b \in S : a # b => <<a, b>> \in R \/ <<b, a>> \in R
Rank(R, S, p) == Cardinality({q \in S : <<q, p>> \in R})

LEMMA RankLess ==
    ASSUME NEW S, IsFiniteSet(S), NEW R, Orders(R, S)
    PROVE  /\ \A p \in S : Rank(R, S, p) \in Int /\ Rank(R, S, p) \in 0 .. Cardinality(S) - 1
           /\ \A a, b \in S : <<a, b>> \in R => Rank(R, S, a) < Rank(R, S, b)
  <1> DEFINE Low(p) == {q \in S : <<q, p>> \in R}
             n == Cardinality(S)
  <1>0. n \in Nat
    BY FS_CardinalityType
  <1>1. ASSUME NEW p \in S
        PROVE  /\ IsFiniteSet(Low(p)) /\ Cardinality(Low(p)) \in Int
               /\ Cardinality(Low(p)) \in 0 .. n - 1
    <2> DEFINE L == Low(p)
               Left == S \ {p}
    <2>1. IsFiniteSet(Left) /\ Cardinality(Left) = n - 1
      BY FS_RemoveElement
    <2>2. L \in SUBSET Left
      BY DEF Orders
    <2> HIDE DEF Left, L, n
    <2>3. IsFiniteSet(L) /\ Cardinality(L) <= n - 1
      BY <2>1, <2>2, FS_Subset
    <2>4. Cardinality(L) \in Nat
      BY <2>3, FS_CardinalityType
    <2>5. Cardinality(L) \in 0 .. n - 1 /\ Cardinality(L) \in Int
      BY <1>0, <2>3, <2>4
    <2> QED BY <2>3, <2>5 DEF L
  <1>2. ASSUME NEW a \in S, NEW b \in S, <<a, b>> \in R
        PROVE  Cardinality(Low(a)) < Cardinality(Low(b))
    <2>1. Low(a) \cup {a} \in SUBSET Low(b) /\ a \notin Low(a)
      BY <1>2 DEF Orders
    <2> HIDE DEF Low
    <2>2. Cardinality(Low(a) \cup {a}) = Cardinality(Low(a)) + 1
      BY <1>1, <2>1, FS_AddElement
    <2>3. Cardinality(Low(a) \cup {a}) <= Cardinality(Low(b))
      BY <1>1, <2>1, FS_Subset
    <2>4. Cardinality(Low(a)) \in Int /\ Cardinality(Low(b)) \in Int
      BY <1>1
    <2> QED BY <2>2, <2>3, <2>4
  <1> QED BY <1>1, <1>2 DEF Rank

LEMMA Ranked ==
    ASSUME NEW S, IsFiniteSet(S), NEW R, Orders(R, S), NEW c,
           \A k \in 1 .. Cardinality(S) : (\E p \in S : Rank(R, S, p) = k - 1) =>
               c[k] \in S /\ Rank(R, S, c[k]) = k - 1
    PROVE  /\ \A k \in 1 .. Cardinality(S) : c[k] \in S
           /\ \A p \in S : \E k \in 1 .. Cardinality(S) : c[k] = p
           /\ \A k, l \in 1 .. Cardinality(S) : k < l <=> <<c[k], c[l]>> \in R
  <1> DEFINE n == Cardinality(S)
             rank == [p \in S |-> Rank(R, S, p)]
  <1>0. n \in Nat
    BY FS_CardinalityType
  <1>1. \A p \in S : rank[p] \in Int /\ rank[p] \in 0 .. n - 1
    BY RankLess
  <1>2. \A a, b \in S : <<a, b>> \in R => rank[a] < rank[b]
    BY RankLess
  <1>a. \A k \in 1 .. n : (\E p \in S : rank[p] = k - 1) => c[k] \in S /\ rank[c[k]] = k - 1
    OBVIOUS
  <1> HIDE DEF rank, n
  <1>b. \A a, b \in S : rank[a] = rank[b] => a = b
    <2>1. ASSUME NEW a \in S, NEW b \in S, a # b
          PROVE  rank[a] # rank[b]
      <3>1. rank[a] < rank[b] \/ rank[b] < rank[a]
        BY <1>2, <2>1 DEF Orders
      <3>2. rank[a] \in Int /\ rank[b] \in Int
        BY <1>1
      <3> QED BY <3>1, <3>2
    <2> QED BY <2>1
  <1>3. rank \in Injection(S, 0 .. n - 1)
    <2>1. rank \in [S -> 0 .. n - 1]
      BY <1>1 DEF rank
    <2> QED BY <2>1, <1>b, Fun_IsInj
  <1>4. IsFiniteSet(0 .. n - 1) /\ Cardinality(0 .. n - 1) = n
    <2>1. 0 \in Int /\ n - 1 \in Int
      BY <1>0
    <2>2. /\ IsFiniteSet(0 .. n - 1)
          /\ Cardinality(0 .. n - 1) = IF 0 > n - 1 THEN 0 ELSE n - 1 - 0 + 1
      BY <2>1, FS_Interval
    <2> QED BY <1>0, <2>2
  <1>5. rank \in Surjection(S, 0 .. n - 1)
    BY <1>3, <1>4, FS_Injection DEF n
  <1>6. ASSUME NEW k \in 1 .. n
        PROVE  c[k] \in S /\ rank[c[k]] = k - 1
    <2>1. k - 1 \in 0 .. n - 1
      BY <1>0
    <2>2. \E p \in S : rank[p] = k - 1
      BY <1>5, <2>1 DEF Surjection
    <2> QED BY <1>a, <2>2
  <1>7. ASSUME NEW p \in S
        PROVE  \E k \in 1 .. n : c[k] = p
    <2>1. rank[p] + 1 \in 1 .. n /\ rank[p] = (rank[p] + 1) - 1
      BY <1>0, <1>1
    <2>2. c[rank[p] + 1] \in S /\ rank[c[rank[p] + 1]] = rank[p]
      BY <1>6, <2>1
    <2> QED BY <1>b, <2>1, <2>2
  <1>8. ASSUME NEW k \in 1 .. n, NEW l \in 1 .. n
        PROVE  k < l <=> <<c[k], c[l]>> \in R
    <2>1. c[k] \in S /\ c[l] \in S /\ rank[c[k]] = k - 1 /\ rank[c[l]] = l - 1
      BY <1>6
    <2>2. k \in Int /\ l \in Int
      BY <1>0
    <2>3. <<c[k], c[l]>> \in R => k - 1 < l - 1
      BY <1>2, <2>1
    <2>4. <<c[l], c[k]>> \in R => l - 1 < k - 1
      BY <1>2, <2>1
    <2>5. c[k] = c[l] => k - 1 = l - 1
      BY <2>1
    <2>6. c[k] = c[l] \/ <<c[k], c[l]>> \in R \/ <<c[l], c[k]>> \in R
      BY <2>1 DEF Orders
    <2> QED BY <2>2, <2>3, <2>4, <2>5, <2>6
  <1> QED BY <1>6, <1>7, <1>8 DEF n

(* The points at which an entry starts or ends, as sanitize_e820_map()      *)
(* sorts them.                                                              *)
Entries == [addr : Nat, size : Nat, type : Nat]
StartPoint(map, i) == [addr |-> map[i].addr, start |-> TRUE, of |-> i]
EndPoint(map, i)   == [addr |-> EndOf(map[i]), start |-> FALSE, of |-> i]
Points(map) == UNION {{StartPoint(map, i), EndPoint(map, i)} : i \in 1 .. Len(map)}
Precedes(a, b) == \/ a.addr < b.addr
                  \/ a.addr = b.addr /\ a.start /\ ~b.start
                  \/ a.addr = b.addr /\ a.start = b.start /\ a.of < b.of
Preceding(map) == {ab \in Points(map) \X Points(map) : Precedes(ab[1], ab[2])}

LEMMA EntryType ==
    ASSUME NEW map \in Seq(Entries), NEW i \in 1 .. Len(map)
    PROVE  /\ map[i] \in Entries /\ map[i].addr \in Nat /\ map[i].size \in Nat
           /\ map[i].type \in Nat /\ EndOf(map[i]) \in Nat /\ map[i].addr <= EndOf(map[i])
           /\ EndOf(map[i]) = map[i].addr + map[i].size
  <1>1. map[i] \in Entries
    <2> HIDE DEF Entries
    <2> QED OBVIOUS
  <1> QED BY <1>1 DEF Entries, EndOf

LEMMA PointType ==
    ASSUME NEW map \in Seq(Entries), NEW p \in Points(map)
    PROVE  /\ p.addr \in Nat /\ p.start \in BOOLEAN /\ p.of \in 1 .. Len(map)
           /\ p.start => p = StartPoint(map, p.of)
           /\ ~p.start => p = EndPoint(map, p.of)
  <1>1. PICK i \in 1 .. Len(map) : p = StartPoint(map, i) \/ p = EndPoint(map, i)
    BY DEF Points
  <1>2. map[i].addr \in Nat /\ EndOf(map[i]) \in Nat
    BY EntryType
  <1>3. CASE p = StartPoint(map, i)
    <2>1. p.addr = map[i].addr /\ p.start = TRUE /\ p.of = i
      BY <1>3 DEF StartPoint
    <2> QED BY <1>2, <1>3, <2>1
  <1>4. CASE p = EndPoint(map, i)
    <2>1. p.addr = EndOf(map[i]) /\ p.start = FALSE /\ p.of = i
      BY <1>4 DEF EndPoint
    <2> QED BY <1>2, <1>4, <2>1
  <1> QED BY <1>1, <1>3, <1>4

LEMMA PointsFinite ==
    ASSUME NEW map \in Seq(Entries)
    PROVE  IsFiniteSet(Points(map))
  <1> DEFINE n == Len(map)
             P == Points(map)
             f == [k \in 1 .. 2 * n |-> IF k <= n THEN StartPoint(map, k) ELSE EndPoint(map, k - n)]
  <1>0. n \in Nat
    OBVIOUS
  <1>1. \A i \in 1 .. n : StartPoint(map, i) \in P /\ EndPoint(map, i) \in P
    BY DEF Points
  <1>2. \A p \in P : \E i \in 1 .. n : p = StartPoint(map, i) \/ p = EndPoint(map, i)
    BY DEF Points
  <1> HIDE DEF P, n
  <1>3. f \in [1 .. 2 * n -> P]
    <2>1. \A k \in 1 .. 2 * n : k <= n => k \in 1 .. n
      BY <1>0
    <2>2. \A k \in 1 .. 2 * n : ~(k <= n) => k - n \in 1 .. n
      BY <1>0
    <2> QED BY <1>1, <2>1, <2>2
  <1>4. ASSUME NEW p \in P PROVE \E k \in 1 .. 2 * n : f[k] = p
    <2>1. PICK i \in 1 .. n : p = StartPoint(map, i) \/ p = EndPoint(map, i)
      BY <1>2
    <2>2. i \in 1 .. 2 * n /\ i <= n /\ i + n \in 1 .. 2 * n /\ ~(i + n <= n) /\ (i + n) - n = i
      BY <1>0
    <2>3. f[i] = StartPoint(map, i) /\ f[i + n] = EndPoint(map, i)
      BY <2>2
    <2> QED BY <2>1, <2>2, <2>3
  <1> HIDE DEF f
  <1>5. f \in Surjection(1 .. 2 * n, P)
    BY <1>3, <1>4, Fun_IsSurj
  <1>6. IsFiniteSet(1 .. 2 * n)
    <2>1. 1 \in Int /\ 2 * n \in Int
      BY <1>0
    <2> QED BY <2>1, FS_Interval
  <1>7. IsFiniteSet(P)
    BY <1>5, <1>6, FS_Surjection
  <1> QED BY <1>7 DEF P

LEMMA PointsInOrder ==
    ASSUME NEW map \in Seq(Entries)
    PROVE  Orders(Preceding(map), Points(map))
  <1> DEFINE P == Points(map)
  <1>1. \A a \in P : a.addr \in Nat /\ a.start \in BOOLEAN /\ a.of \in Nat
    BY PointType
  <1>2. \A a, b \in P : <<a, b>> \in Preceding(map) <=> Precedes(a, b)
    BY DEF Preceding
  <1>3. ASSUME NEW a \in P, NEW b \in P,
               a.addr = b.addr, a.start <=> b.start, a.of = b.of
        PROVE  a = b
    BY <1>3, PointType
  <1> HIDE DEF P
  <1>4. ASSUME NEW a \in P PROVE ~Precedes(a, a)
    BY <1>1 DEF Precedes
  <1>5. ASSUME NEW a \in P, NEW b \in P, a # b
        PROVE  Precedes(a, b) \/ Precedes(b, a)
    BY <1>1, <1>3, <1>5 DEF Precedes
  <1>6. ASSUME NEW a \in P, NEW b \in P, NEW d \in P, Precedes(a, b), Precedes(b, d)
        PROVE  Precedes(a, d)
    BY <1>1, <1>6 DEF Precedes
  <1> QED BY <1>2, <1>4, <1>5, <1>6 DEF Orders, P

(* ChangePoints() has each of them once, in that order.                     *)
LEMMA ChangePointsAre ==
    ASSUME NEW map \in Seq(Entries)
    PROVE  LET cp == ChangePoints(map)
               N  == Cardinality(Points(map))
           IN  /\ N \in Nat /\ DOMAIN cp = 1 .. N
               /\ \A k \in 1 .. N : cp[k] \in Points(map)
               /\ \A p \in Points(map) : \E k \in 1 .. N : cp[k] = p
               /\ \A k, l \in 1 .. N : k < l <=> Precedes(cp[k], cp[l])
  <1> DEFINE cp == ChangePoints(map)
             S == Points(map)
             R == Preceding(map)
  <1>1. cp = [k \in 1 .. Cardinality(S) |-> CHOOSE p \in S : Rank(R, S, p) = k - 1]
    <2>1. ASSUME NEW p \in S PROVE Rank(R, S, p) = Cardinality({q \in S : Precedes(q, p)})
      <3>1. {q \in S : <<q, p>> \in R} = {q \in S : Precedes(q, p)}
        BY DEF Preceding
      <3> QED BY <3>1 DEF Rank
    <2>2. cp = [k \in 1 .. Cardinality(S) |->
                   CHOOSE p \in S : Cardinality({q \in S : Precedes(q, p)}) = k - 1]
      BY DEF ChangePoints, Points, StartPoint, EndPoint, Precedes
    <2> QED BY <2>1, <2>2
  <1>2. IsFiniteSet(S) /\ Orders(R, S)
    BY PointsFinite, PointsInOrder
  <1>3. Cardinality(S) \in Nat
    BY <1>2, FS_CardinalityType
  <1>4. DOMAIN cp = 1 .. Cardinality(S)
    BY <1>1
  <1>5. \A a, b \in S : <<a, b>> \in R <=> Precedes(a, b)
    BY DEF Preceding
  <1>b. \A k \in 1 .. Cardinality(S) : (\E p \in S : Rank(R, S, p) = k - 1) =>
            cp[k] \in S /\ Rank(R, S, cp[k]) = k - 1
    <2> HIDE DEF cp, S, R
    <2> QED BY <1>1
  <1> HIDE DEF cp, S, R
  <1>6. /\ \A k \in 1 .. Cardinality(S) : cp[k] \in S
        /\ \A p \in S : \E k \in 1 .. Cardinality(S) : cp[k] = p
        /\ \A k, l \in 1 .. Cardinality(S) : k < l <=> <<cp[k], cp[l]>> \in R
    BY <1>2, <1>b, Ranked
  <1> QED BY <1>3, <1>4, <1>5, <1>6 DEF cp, S

(* The greatest type of some entries.                                       *)
LEMMA GreatestType ==
    ASSUME NEW map \in Seq(Entries), NEW open \in SUBSET (1 .. Len(map))
    PROVE  /\ CurrentType(map, open) \in Nat
           /\ open = {} => CurrentType(map, open) = 0
           /\ open # {} => \E i \in open : CurrentType(map, open) = map[i].type
           /\ \A i \in open : map[i].type <= CurrentType(map, open)
  <1> DEFINE n == Len(map)
             Good == {s \in SUBSET (1 .. n) : s # {} => \E i \in s : \A j \in s : map[i].type >= map[j].type}
  <1>0. n \in Nat /\ \A i \in 1 .. n : map[i].type \in Nat
    BY EntryType
  <1> HIDE DEF n
  <1>1. {} \in Good
    OBVIOUS
  <1>2. ASSUME NEW s \in SUBSET (1 .. n), s # {}, Rest(s) \in Good
        PROVE  s \in Good
    <2>1. /\ Rest(s) \in SUBSET (1 .. n) /\ Greatest(s) \in 1 .. n
          /\ s = Rest(s) \cup {Greatest(s)}
      BY <1>0, <1>2, RestIsLess
    <2>2. CASE Rest(s) = {}
      <3>1. s = {Greatest(s)}
        BY <2>1, <2>2
      <3>2. map[Greatest(s)].type >= map[Greatest(s)].type
        BY <1>0, <2>1
      <3> QED BY <3>1, <3>2
    <2>3. CASE Rest(s) # {}
      <3>1. PICK i \in Rest(s) : \A j \in Rest(s) : map[i].type >= map[j].type
        BY <1>2, <2>3
      <3>2. CASE map[i].type >= map[Greatest(s)].type
        BY <2>1, <3>1, <3>2
      <3>3. CASE ~(map[i].type >= map[Greatest(s)].type)
        <4>1. map[Greatest(s)].type >= map[i].type
          BY <1>0, <2>1, <3>1, <3>3
        <4>2. \A j \in Rest(s) : map[Greatest(s)].type >= map[j].type
          BY <1>0, <2>1, <3>1, <4>1
        <4>3. map[Greatest(s)].type >= map[Greatest(s)].type
          BY <1>0, <2>1
        <4>4. \A j \in s : map[Greatest(s)].type >= map[j].type
          BY <2>1, <4>2, <4>3
        <4> QED BY <2>1, <4>4
      <3> QED BY <3>2, <3>3
    <2> QED BY <2>2, <2>3
  <1> HIDE DEF Good
  <1>3. open \in Good
    BY <1>0, <1>1, <1>2, ByGreatest DEF n
  <1>4. CASE open = {}
    BY <1>4 DEF CurrentType
  <1>5. CASE open # {}
    <2> DEFINE top == CHOOSE i \in open : \A j \in open : map[i].type >= map[j].type
    <2>1. top \in open /\ \A j \in open : map[top].type >= map[j].type
      BY <1>3, <1>5 DEF Good
    <2>2. CurrentType(map, open) = map[top].type
      BY <1>5 DEF CurrentType
    <2> HIDE DEF top
    <2>3. map[top].type \in Nat /\ \A j \in open : map[j].type \in Nat
      BY <1>0, <2>1 DEF n
    <2>4. \A j \in open : map[j].type <= map[top].type
      BY <2>1, <2>3
    <2> QED BY <1>5, <2>1, <2>2, <2>3, <2>4
  <1> QED BY <1>4, <1>5

OpenAt(map, a) == {j \in 1 .. Len(map) : map[j].addr <= a /\ a < EndOf(map[j])}

LEMMA TypeOfOpen ==
    ASSUME NEW map \in Seq(Entries), NEW a
    PROVE  TypeAt(map, a) = CurrentType(map, OpenAt(map, a))
  <1> DEFINE open == OpenAt(map, a)
             t == CurrentType(map, open)
             types == {map[i].type : i \in open}
  <1>1. open \in SUBSET (1 .. Len(map))
    BY DEF OpenAt
  <1>2. TypeAt(map, a) = IF types = {} THEN 0 ELSE CHOOSE x \in types : \A u \in types : x >= u
    BY DEF TypeAt, OpenAt
  <1> HIDE DEF open
  <1>3. /\ t \in Nat /\ (open = {} => t = 0)
        /\ open # {} => \E i \in open : t = map[i].type
        /\ \A i \in open : map[i].type <= t
    BY <1>1, GreatestType
  <1>4. \A i \in open : map[i].type \in Nat
    BY <1>1, EntryType
  <1> HIDE DEF t
  <1>5. CASE types = {}
    <2>1. open = {}
      BY <1>5
    <2> QED BY <1>2, <1>3, <1>5, <2>1 DEF t, open
  <1>6. CASE types # {}
    <2>1. open # {}
      BY <1>6
    <2>2. t \in types /\ \A u \in types : u \in Nat /\ u <= t
      BY <1>3, <1>4, <2>1
    <2>3. \A u \in types : t >= u
      BY <1>3, <2>2
    <2> HIDE DEF types
    <2>4. \A x \in types : (\A u \in types : x >= u) => x = t
      BY <1>3, <2>2
    <2>5. (CHOOSE x \in types : \A u \in types : x >= u) = t
      BY <2>2, <2>3, <2>4
    <2> QED BY <1>2, <1>6, <2>5 DEF t, open
  <1> QED BY <1>5, <1>6

(* The places of the points in their order.                                 *)
Changes(map) == Cardinality(Points(map))
Point(map, k) == ChangePoints(map)[k]

LEMMA PointPlaces ==
    ASSUME NEW map \in Seq(Entries)
    PROVE  /\ Changes(map) \in Nat /\ DOMAIN ChangePoints(map) = 1 .. Changes(map)
           /\ \A k \in 1 .. Changes(map) :
                 /\ Point(map, k) \in Points(map) /\ Point(map, k).addr \in Nat
                 /\ Point(map, k).of \in 1 .. Len(map)
           /\ \A k, l \in 1 .. Changes(map) :
                 /\ Point(map, k) = Point(map, l) => k = l
                 /\ k < l <=> Precedes(Point(map, k), Point(map, l))
                 /\ k <= l => Point(map, k).addr <= Point(map, l).addr
           /\ \A i \in 1 .. Len(map) : \E s, e \in 1 .. Changes(map) :
                 /\ Point(map, s) = StartPoint(map, i) /\ Point(map, e) = EndPoint(map, i)
                 /\ s < e
  <1> DEFINE N == Changes(map)
             P(k) == Point(map, k)
  <1>1. /\ N \in Nat /\ DOMAIN ChangePoints(map) = 1 .. N
        /\ \A k \in 1 .. N : P(k) \in Points(map)
        /\ \A p \in Points(map) : \E k \in 1 .. N : P(k) = p
        /\ \A k, l \in 1 .. N : k < l <=> Precedes(P(k), P(l))
    BY ChangePointsAre DEF Changes, Point
  <1>2. \A k \in 1 .. N : P(k).addr \in Nat /\ P(k).of \in 1 .. Len(map)
    BY <1>1, PointType
  <1> HIDE DEF N, P
  <1>3. ASSUME NEW k \in 1 .. N, NEW l \in 1 .. N
        PROVE  /\ P(k) = P(l) => k = l
               /\ k <= l => P(k).addr <= P(l).addr
    <2>1. k \in Int /\ l \in Int
      BY <1>1
    <2>2. ~(k < k) /\ ~(l < l)
      BY <2>1
    <2>3. P(k) = P(l) => ~(k < l) /\ ~(l < k)
      BY <1>1, <2>2
    <2>4. k < l => P(k).addr <= P(l).addr
      BY <1>1, <1>2 DEF Precedes
    <2>5. k = l => P(k).addr <= P(l).addr
      BY <1>2
    <2> QED BY <2>1, <2>3, <2>4, <2>5
  <1>4. ASSUME NEW i \in 1 .. Len(map)
        PROVE  \E s, e \in 1 .. N : P(s) = StartPoint(map, i) /\ P(e) = EndPoint(map, i) /\ s < e
    <2>1. StartPoint(map, i) \in Points(map) /\ EndPoint(map, i) \in Points(map)
      BY DEF Points
    <2>2. PICK s \in 1 .. N : P(s) = StartPoint(map, i)
      BY <1>1, <2>1
    <2>3. PICK e \in 1 .. N : P(e) = EndPoint(map, i)
      BY <1>1, <2>1
    <2>4. map[i].addr < EndOf(map[i]) \/ map[i].addr = EndOf(map[i])
      BY EntryType
    <2>5. Precedes(StartPoint(map, i), EndPoint(map, i))
      BY <2>4 DEF Precedes, StartPoint, EndPoint
    <2>6. s < e
      BY <1>1, <2>2, <2>3, <2>5
    <2> QED BY <2>2, <2>3, <2>6
  <1> QED BY <1>1, <1>2, <1>3, <1>4 DEF N, P

(* The entries that are open after k of them.                               *)
Opened(map, k) ==
    {i \in 1 .. Len(map) : /\ \E l \in 1 .. k : Point(map, l) = StartPoint(map, i)
                           /\ ~\E l \in 1 .. k : Point(map, l) = EndPoint(map, i)}

LEMMA OpenedEnds ==
    ASSUME NEW map \in Seq(Entries)
    PROVE  Opened(map, 0) = {} /\ Opened(map, Changes(map)) = {}
  <1>1. 1 .. 0 = {}
    OBVIOUS
  <1> QED BY <1>1, PointPlaces DEF Opened

LEMMA OpenedStep ==
    ASSUME NEW map \in Seq(Entries), NEW k \in 0 .. Changes(map) - 1
    PROVE  LET p == Point(map, k + 1)
           IN  /\ p.start => Opened(map, k + 1) = Opened(map, k) \cup {p.of}
               /\ ~p.start => Opened(map, k + 1) = Opened(map, k) \ {p.of}
  <1> DEFINE p == Point(map, k + 1)
             N == Changes(map)
  <1>0. /\ N \in Nat /\ k \in Nat /\ k + 1 \in 1 .. N /\ 1 .. k \subseteq 1 .. N
        /\ 1 .. k + 1 = 1 .. k \cup {k + 1}
    <2>1. N \in Nat
      BY PointPlaces
    <2>2. k \in 0 .. N - 1
      OBVIOUS
    <2> HIDE DEF N
    <2>3. k \in Nat /\ k + 1 \in 1 .. N /\ 1 .. k \subseteq 1 .. N
      BY <2>1, <2>2
    <2>4. 1 .. k + 1 = 1 .. k \cup {k + 1}
      BY <2>3
    <2> QED BY <2>1, <2>3, <2>4
  <1>1. p \in Points(map)
    BY <1>0, PointPlaces
  <1>2. /\ p.of \in 1 .. Len(map)
        /\ p.start => p = StartPoint(map, p.of)
        /\ ~p.start => p = EndPoint(map, p.of)
    BY <1>1, PointType
  <1>3. \A i, j \in 1 .. Len(map) :
            /\ StartPoint(map, i) = StartPoint(map, j) => i = j
            /\ EndPoint(map, i) = EndPoint(map, j) => i = j
            /\ StartPoint(map, i) # EndPoint(map, j)
    BY DEF StartPoint, EndPoint
  <1>4. ASSUME NEW i \in 1 .. Len(map), p = StartPoint(map, i)
        PROVE  ~\E l \in 1 .. k + 1 : Point(map, l) = EndPoint(map, i)
    <2>1. PICK s \in 1 .. N, e \in 1 .. N : /\ Point(map, s) = StartPoint(map, i)
                                            /\ Point(map, e) = EndPoint(map, i) /\ s < e
      BY PointPlaces
    <2>2. s = k + 1
      BY <1>0, <1>4, <2>1, PointPlaces
    <2>3. \A l \in 1 .. N : Point(map, l) = EndPoint(map, i) => l = e
      BY <2>1, PointPlaces
    <2>4. e \notin 1 .. k + 1
      BY <1>0, <2>1, <2>2
    <2> QED BY <1>0, <2>3, <2>4
  <1> HIDE DEF p, N
  <1>5. ASSUME p.start, NEW i \in 1 .. Len(map)
        PROVE  i \in Opened(map, k + 1) <=> i \in Opened(map, k) \/ i = p.of
    <2>1. p = StartPoint(map, p.of) /\ p = Point(map, k + 1)
      BY <1>2, <1>5 DEF p
    <2>2. CASE i = p.of
      <3>1. \E l \in 1 .. k + 1 : Point(map, l) = StartPoint(map, i)
        BY <1>0, <2>1, <2>2
      <3>2. ~\E l \in 1 .. k + 1 : Point(map, l) = EndPoint(map, i)
        BY <1>4, <2>1, <2>2
      <3> QED BY <2>2, <3>1, <3>2 DEF Opened
    <2>3. CASE i # p.of
      <3>1. p # StartPoint(map, i) /\ p # EndPoint(map, i)
        BY <1>2, <1>3, <2>1, <2>3
      <3> QED BY <1>0, <2>1, <2>3, <3>1 DEF Opened
    <2> QED BY <2>2, <2>3
  <1>6. ASSUME ~p.start, NEW i \in 1 .. Len(map)
        PROVE  i \in Opened(map, k + 1) <=> i \in Opened(map, k) /\ i # p.of
    <2>1. p = EndPoint(map, p.of) /\ p = Point(map, k + 1)
      BY <1>2, <1>6 DEF p
    <2>2. CASE i = p.of
      <3>1. \E l \in 1 .. k + 1 : Point(map, l) = EndPoint(map, i)
        BY <1>0, <2>1, <2>2
      <3> QED BY <2>2, <3>1 DEF Opened
    <2>3. CASE i # p.of
      <3>1. p # StartPoint(map, i) /\ p # EndPoint(map, i)
        BY <1>2, <1>3, <2>1, <2>3
      <3> QED BY <1>0, <2>1, <2>3, <3>1 DEF Opened
    <2> QED BY <2>2, <2>3
  <1>7. Opened(map, k + 1) \subseteq 1 .. Len(map) /\ Opened(map, k) \subseteq 1 .. Len(map)
    BY DEF Opened
  <1>8. p.start => Opened(map, k + 1) = Opened(map, k) \cup {p.of}
    BY <1>2, <1>5, <1>7
  <1>9. ~p.start => Opened(map, k + 1) = Opened(map, k) \ {p.of}
    BY <1>2, <1>6, <1>7
  <1> QED BY <1>8, <1>9 DEF p

(* Which place an entry's start and end have.                               *)
LEMMA OpenedPlaces ==
    ASSUME NEW map \in Seq(Entries), NEW i \in 1 .. Len(map)
    PROVE  \E s, e \in 1 .. Changes(map) :
              /\ Point(map, s) = StartPoint(map, i) /\ Point(map, e) = EndPoint(map, i)
              /\ Point(map, s).addr = map[i].addr /\ Point(map, e).addr = EndOf(map[i])
              /\ Point(map, s).start = TRUE /\ Point(map, e).start = FALSE
              /\ \A k \in 0 .. Changes(map) : i \in Opened(map, k) <=> s <= k /\ k < e
  <1> DEFINE N == Changes(map)
  <1>0. N \in Nat
    BY PointPlaces
  <1>1. PICK s \in 1 .. N, e \in 1 .. N : /\ Point(map, s) = StartPoint(map, i)
                                          /\ Point(map, e) = EndPoint(map, i) /\ s < e
    BY PointPlaces
  <1>2. /\ Point(map, s).addr = map[i].addr /\ Point(map, e).addr = EndOf(map[i])
        /\ Point(map, s).start = TRUE /\ Point(map, e).start = FALSE
    BY <1>1 DEF StartPoint, EndPoint
  <1>3. ASSUME NEW k \in 0 .. N
        PROVE  i \in Opened(map, k) <=> s <= k /\ k < e
    <2>1. \A l \in 1 .. k : l \in 1 .. N
      BY <1>0
    <2>2. (\E l \in 1 .. k : Point(map, l) = StartPoint(map, i)) <=> s \in 1 .. k
      BY <1>1, <2>1, PointPlaces
    <2>3. (\E l \in 1 .. k : Point(map, l) = EndPoint(map, i)) <=> e \in 1 .. k
      BY <1>1, <2>1, PointPlaces
    <2>4. (s \in 1 .. k <=> s <= k) /\ (e \in 1 .. k <=> ~(k < e))
      BY <1>0
    <2> QED BY <2>2, <2>3, <2>4 DEF Opened
  <1> QED BY <1>1, <1>2, <1>3

(* Between one point and the next, the entries open are those that have the *)
(* unit of memory.                                                          *)
LEMMA OpenBetween ==
    ASSUME NEW map \in Seq(Entries), NEW k \in 0 .. Changes(map), NEW a \in Nat,
           k = 0 \/ Point(map, k).addr <= a,
           k = Changes(map) \/ a < Point(map, k + 1).addr
    PROVE  OpenAt(map, a) = Opened(map, k)
  <1> DEFINE N == Changes(map)
  <1>0. N \in Nat
    BY PointPlaces
  <1>1. ASSUME NEW l \in 1 .. N
        PROVE  Point(map, l).addr <= a <=> l <= k
    <2>1. l \in Nat /\ k \in Nat /\ k \in 0 .. N /\ Point(map, l).addr \in Nat
      BY <1>0, PointPlaces
    <2> HIDE DEF N
    <2>2. CASE l <= k
      <3>1. k \in 1 .. N /\ k # 0
        BY <1>0, <2>1, <2>2
      <3>2. Point(map, l).addr <= Point(map, k).addr /\ Point(map, k).addr \in Nat
        BY <2>2, <3>1, PointPlaces DEF N
      <3> QED BY <2>1, <2>2, <3>1, <3>2
    <2>3. CASE ~(l <= k)
      <3>1. k + 1 \in 1 .. N /\ k + 1 <= l /\ k # N
        BY <1>0, <2>1, <2>3
      <3>2. Point(map, k + 1).addr <= Point(map, l).addr /\ Point(map, k + 1).addr \in Nat
        BY <3>1, PointPlaces DEF N
      <3>3. a < Point(map, k + 1).addr
        BY <3>1 DEF N
      <3> QED BY <2>1, <2>3, <3>2, <3>3
    <2> QED BY <2>2, <2>3
  <1>2. ASSUME NEW i \in 1 .. Len(map)
        PROVE  map[i].addr <= a /\ a < EndOf(map[i]) <=> i \in Opened(map, k)
    <2>1. PICK s, e \in 1 .. N :
              /\ Point(map, s).addr = map[i].addr /\ Point(map, e).addr = EndOf(map[i])
              /\ i \in Opened(map, k) <=> s <= k /\ k < e
      BY OpenedPlaces
    <2>2. (map[i].addr <= a <=> s <= k) /\ (EndOf(map[i]) <= a <=> e <= k)
      BY <1>1, <2>1
    <2>3. k \in Int /\ e \in Int /\ EndOf(map[i]) \in Int
      BY <1>0, EntryType
    <2> QED BY <2>1, <2>2, <2>3
  <1>3. Opened(map, k) \subseteq 1 .. Len(map)
    BY DEF Opened
  <1> QED BY <1>2, <1>3 DEF OpenAt

(* Where both sides of an address are of one type, no point there changes   *)
(* the type, unless it is that of an entry of no size.                      *)
LEMMA NoChange ==
    ASSUME NEW map \in Seq(Entries), NEW k \in 1 .. Changes(map), NEW t \in Nat \ {0},
           NEW b \in Nat, Point(map, k).addr = b + 1,
           TypeAt(map, b) = t, TypeAt(map, b + 1) = t,
           \A i \in 1 .. Len(map) : map[i].addr = b + 1 => map[i].size # 0
    PROVE  CurrentType(map, Opened(map, k)) = t
  <1> DEFINE N == Changes(map)
             P(l) == Point(map, l)
             M == Opened(map, k)
             O == OpenAt(map, b)
             Q == OpenAt(map, b + 1)
  <1>0. /\ N \in Nat /\ k \in 1 .. N /\ k \in 0 .. N /\ k \in Nat
        /\ \A l \in 1 .. N : l \in Nat /\ P(l).addr \in Nat
    BY PointPlaces
  <1>1. M \in SUBSET (1 .. Len(map)) /\ O \in SUBSET (1 .. Len(map)) /\ Q \in SUBSET (1 .. Len(map))
    BY DEF Opened, OpenAt
  <1>2. CurrentType(map, O) = t /\ CurrentType(map, Q) = t
    BY TypeOfOpen
  <1>3. \A i \in O \cup Q : map[i].type <= t
    BY <1>1, <1>2, GreatestType
  <1>4. (\E i \in O : map[i].type = t) /\ (\E i \in Q : map[i].type = t)
    BY <1>1, <1>2, GreatestType
  <1>5. ASSUME NEW i \in 1 .. Len(map)
        PROVE  /\ i \in M => i \in O \cup Q
               /\ P(k).start => (i \in O => i \in M)
               /\ ~P(k).start => (i \in Q => i \in M)
    <2>1. PICK s, e \in 1 .. N :
              /\ P(s).addr = map[i].addr /\ P(e).addr = EndOf(map[i])
              /\ P(s).start = TRUE /\ P(e).start = FALSE
              /\ i \in M <=> s <= k /\ k < e
      BY <1>0, OpenedPlaces
    <2>2. /\ s \in Nat /\ e \in Nat /\ P(k).addr = b + 1
          /\ map[i].addr \in Nat /\ map[i].size \in Nat
          /\ EndOf(map[i]) = map[i].addr + map[i].size
          /\ map[i].addr = b + 1 => map[i].size # 0
      BY <1>0, EntryType
    <2>3. /\ i \in O <=> map[i].addr <= b /\ b < EndOf(map[i])
          /\ i \in Q <=> map[i].addr <= b + 1 /\ b + 1 < EndOf(map[i])
      BY DEF OpenAt
    <2>4. /\ s <= k => P(s).addr <= P(k).addr
          /\ k <= s => P(k).addr <= P(s).addr
          /\ e <= k => P(e).addr <= P(k).addr
          /\ k <= e => P(k).addr <= P(e).addr
      BY <1>0, PointPlaces
    <2>5. /\ e < k => Precedes(P(e), P(k))
          /\ k < s => Precedes(P(k), P(s))
      BY <1>0, PointPlaces
    <2> HIDE DEF P, M, O, Q, N
    <2>6. i \in M => i \in O \cup Q
      <3> SUFFICES ASSUME i \in M PROVE i \in O \cup Q
        OBVIOUS
      <3>1. s <= k /\ k <= e
        BY <1>0, <2>1, <2>2
      <3>2. map[i].addr <= b + 1 /\ b + 1 <= EndOf(map[i])
        BY <2>1, <2>2, <2>4, <3>1
      <3> QED BY <2>2, <2>3, <3>2
    <2>7. ASSUME P(k).start, i \in O PROVE i \in M
      <3>1. ~(k <= s)
        <4>1. map[i].addr <= b
          BY <2>3, <2>7
        <4> QED BY <2>1, <2>2, <2>4, <4>1
      <3>2. k # e
        BY <2>1, <2>7
      <3>3. ~(e < k)
        <4>1. b < EndOf(map[i])
          BY <2>3, <2>7
        <4>2. e < k => P(e).addr < P(k).addr
          BY <2>1, <2>5, <2>7, <4>1 DEF Precedes
        <4> QED BY <2>1, <2>2, <4>1, <4>2
      <3> QED BY <1>0, <2>1, <2>2, <3>1, <3>2, <3>3
    <2>8. ASSUME ~P(k).start, i \in Q PROVE i \in M
      <3>1. ~(e <= k)
        <4>1. b + 1 < EndOf(map[i])
          BY <2>3, <2>8
        <4> QED BY <2>1, <2>2, <2>4, <4>1
      <3>2. ~(k < s)
        <4>1. map[i].addr <= b + 1
          BY <2>3, <2>8
        <4>2. k < s => P(k).addr < P(s).addr
          BY <2>1, <2>5, <2>8 DEF Precedes
        <4> QED BY <2>1, <2>2, <4>1, <4>2
      <3> QED BY <1>0, <2>1, <2>2, <3>1, <3>2
    <2> QED BY <2>6, <2>7, <2>8
  <1> HIDE DEF P, M, O, Q
  <1>6. \E i \in M : map[i].type = t
    <2>1. P(k).start \/ ~P(k).start
      OBVIOUS
    <2>2. O \subseteq M \/ Q \subseteq M
      BY <1>1, <1>5, <2>1
    <2> QED BY <1>4, <2>2
  <1>7. M \subseteq O \cup Q
    BY <1>1, <1>5
  <1>8. \A i \in M : map[i].type \in Nat /\ map[i].type <= t
    BY <1>1, <1>3, <1>7, EntryType
  <1>9. /\ CurrentType(map, M) \in Nat
        /\ \E i \in M : CurrentType(map, M) = map[i].type
        /\ \A i \in M : map[i].type <= CurrentType(map, M)
    BY <1>1, <1>6, GreatestType
  <1>10. CurrentType(map, M) <= t /\ t <= CurrentType(map, M)
    BY <1>6, <1>8, <1>9
  <1> QED BY <1>9, <1>10 DEF M

(* A fold along a list as a function of the number of elements taken.       *)
IsRun(g, n, T, base, H, last) ==
    /\ g \in [0 .. n -> T] /\ g[0] = base /\ g[n] = last
    /\ \A k \in 0 .. n - 1 : g[k + 1] = H[<<k + 1, g[k]>>]

LEMMA FoldRuns ==
    ASSUME NEW n \in Nat, NEW T, NEW base \in T, NEW H \in [(1 .. n) \X T -> T], NEW iter,
           iter[{}] = base,
           \A s \in SUBSET (1 .. n) : s # {} /\ iter[Rest(s)] \in T =>
               iter[s] = H[<<Greatest(s), iter[Rest(s)]>>]
    PROVE  \E g : IsRun(g, n, T, base, H, iter[1 .. n])
  <1> DEFINE g == [k \in 0 .. n |-> iter[1 .. k]]
             Good == {k \in 0 .. n : iter[1 .. k] \in T}
  <1>1. ASSUME NEW k \in 0 .. n - 1, iter[1 .. k] \in T
        PROVE  iter[1 .. k + 1] = H[<<k + 1, iter[1 .. k]>>] /\ iter[1 .. k + 1] \in T
    <2>1. k + 1 \in Nat /\ k + 1 > 0 /\ k + 1 - 1 = k /\ 1 .. k + 1 \in SUBSET (1 .. n)
          /\ k + 1 \in 1 .. n
      OBVIOUS
    <2>2. Greatest(1 .. k + 1) = k + 1 /\ Rest(1 .. k + 1) = 1 .. k /\ 1 .. k + 1 # {}
      BY <2>1, GreatestPlace
    <2>3. iter[1 .. k + 1] = H[<<k + 1, iter[1 .. k]>>]
      BY <1>1, <2>1, <2>2
    <2> QED BY <1>1, <2>1, <2>3
  <1>2. iter[1 .. 0] = base
    <2>1. 1 .. 0 = {}
      OBVIOUS
    <2> QED BY <2>1
  <1>3. \A k \in 0 .. n : iter[1 .. k] \in T
    <2>1. 0 \in Good
      BY <1>2
    <2>2. ASSUME NEW k \in 0 .. n - 1, k \in Good PROVE k + 1 \in Good
      <3>1. k + 1 \in 0 .. n
        OBVIOUS
      <3> QED BY <1>1, <2>2, <3>1
    <2> HIDE DEF Good
    <2>3. \A k \in 0 .. n : k \in Good
      BY <2>1, <2>2, ByPlace
    <2> QED BY <2>3 DEF Good
  <1>4. \A k \in 0 .. n - 1 : k \in 0 .. n /\ k + 1 \in 0 .. n
    OBVIOUS
  <1>5. g[0] = base /\ g[n] = iter[1 .. n] /\ \A k \in 0 .. n - 1 : g[k + 1] = H[<<k + 1, g[k]>>]
    BY <1>1, <1>2, <1>3, <1>4
  <1>6. g \in [0 .. n -> T]
    BY <1>3
  <1> HIDE DEF g
  <1> QED BY <1>5, <1>6 DEF IsRun

----------------------------------------------------------------------------
(* sanitize_e820_map() as a run through the points.                         *)
Stretch == [addr : Nat, size : Int, type : Nat]
Merged(map) == [open : SUBSET (1 .. Len(map)), type : Nat, last_addr : Nat,
                new : Seq(Stretch), full : BOOLEAN]
Unmerged == [open |-> {}, type |-> 0, last_addr |-> 0, new |-> <<>>, full |-> FALSE]

(* What a point does, by cases.                                             *)
NowOpen(s, p) == IF p.start THEN s.open \cup {p.of} ELSE s.open \ {p.of}
Closed(s, p)  == [addr |-> s.last_addr, size |-> p.addr - s.last_addr, type |-> s.type]
NowNew(s, p)  == IF s.type # 0 /\ p.addr - s.last_addr # 0 THEN Append(s.new, Closed(s, p)) ELSE s.new

LEMMA ChangeCases ==
    ASSUME NEW map \in Seq(Entries), NEW s \in Merged(map), NEW p \in Points(map)
    PROVE  LET q    == Change(map, s, p)
               open == NowOpen(s, p)
               type == CurrentType(map, open)
           IN  /\ q \in Merged(map)
               /\ open \in SUBSET (1 .. Len(map)) /\ type \in Nat /\ NowNew(s, p) \in Seq(Stretch)
               /\ \/ s.full /\ q = s
                  \/ /\ ~s.full /\ ~q.full /\ type = s.type /\ q.open = open
                     /\ q.type = s.type /\ q.new = s.new /\ q.last_addr = s.last_addr
                  \/ /\ ~s.full /\ type # s.type /\ q.open = open /\ q.type = type
                     /\ q.new = NowNew(s, p) /\ (q.full <=> Len(q.new) >= E820MAX)
                     /\ q.last_addr = IF type # 0 THEN p.addr ELSE s.last_addr
  <1> DEFINE q == Change(map, s, p)
             open == NowOpen(s, p)
             type == CurrentType(map, open)
             new == NowNew(s, p)
             last == IF type # 0 THEN p.addr ELSE s.last_addr
  <1>1. /\ s.open \in SUBSET (1 .. Len(map)) /\ s.type \in Nat /\ s.last_addr \in Nat
        /\ s.new \in Seq(Stretch) /\ s.full \in BOOLEAN
        /\ s = [open |-> s.open, type |-> s.type, last_addr |-> s.last_addr, new |-> s.new,
                full |-> s.full]
    BY DEF Merged
  <1>2. p.addr \in Nat /\ p.of \in 1 .. Len(map)
    BY PointType
  <1>3. open \in SUBSET (1 .. Len(map))
    BY <1>1, <1>2 DEF NowOpen
  <1>4. type \in Nat
    BY <1>3, GreatestType
  <1>5. new \in Seq(Stretch)
    <2>1. Closed(s, p) \in Stretch
      BY <1>1, <1>2 DEF Closed, Stretch
    <2> HIDE DEF Stretch
    <2> QED BY <1>1, <2>1 DEF NowNew
  <1>6. last \in Nat
    BY <1>1, <1>2
  <1>7. q = IF s.full THEN s
            ELSE IF type = s.type THEN [s EXCEPT !.open = open]
            ELSE [open |-> open, type |-> type, new |-> new, full |-> Len(new) >= E820MAX,
                  last_addr |-> last]
    BY DEF Change, NowOpen, NowNew, Closed
  <1> HIDE DEF q, open, type, new, last
  <1>8. CASE s.full
    BY <1>3, <1>4, <1>5, <1>7, <1>8 DEF q, open, type, new
  <1>9. CASE ~s.full /\ type = s.type
    <2>1. q = [open |-> open, type |-> s.type, last_addr |-> s.last_addr, new |-> s.new,
               full |-> s.full]
      BY <1>1, <1>7, <1>9
    <2>2. q \in Merged(map)
      BY <1>1, <1>3, <2>1 DEF Merged
    <2> QED BY <1>3, <1>4, <1>5, <1>9, <2>1, <2>2 DEF q, open, type, new
  <1>10. CASE ~s.full /\ type # s.type
    <2>1. q = [open |-> open, type |-> type, new |-> new, full |-> Len(new) >= E820MAX,
               last_addr |-> last]
      BY <1>7, <1>10
    <2>2. (Len(new) >= E820MAX) \in BOOLEAN
      OBVIOUS
    <2>3. q \in Merged(map)
      BY <1>3, <1>4, <1>5, <1>6, <2>1, <2>2 DEF Merged
    <2>4. q.full <=> Len(q.new) >= E820MAX
      BY <2>1
    <2> QED BY <1>3, <1>4, <1>5, <1>10, <2>1, <2>3, <2>4 DEF q, open, type, new, last
  <1> QED BY <1>8, <1>9, <1>10

LEMMA SanitizeRun ==
    ASSUME NEW map \in Seq(Entries), ~Unreasonable(map)
    PROVE  \E g : LET N == Changes(map)
                  IN  /\ SanitizeE820Map(map) = g[N].new
                      /\ g[0] = Unmerged /\ \A k \in 0 .. N : g[k] \in Merged(map)
                      /\ \A k \in 0 .. N - 1 : g[k + 1] = Change(map, g[k], Point(map, k + 1))
  <1> DEFINE n == Changes(map)
             cp == ChangePoints(map)
             T == Merged(map)
             S == 1 .. n
             base == Unmerged
             H == [x \in S \X T |-> Change(map, x[2], cp[x[1]])]
             Is(f) == f = [s \in SUBSET S |->
                             IF s = {} THEN base
                             ELSE Change(map, f[s \ {Max(s)}], cp[Max(s)])]
             iter == CHOOSE f : Is(f)
  <1>1. n \in Nat /\ DOMAIN cp = S /\ \A k \in S : cp[k] \in Points(map)
    BY PointPlaces DEF Point
  <1>2. base \in T
    BY DEF Unmerged, Merged
  <1>3. H \in [S \X T -> T]
    <2> SUFFICES ASSUME NEW k \in S, NEW s \in T
                 PROVE  Change(map, s, cp[k]) \in T
      OBVIOUS
    <2> HIDE DEF cp
    <2> QED BY <1>1, ChangeCases
  <1>4. PICK f : IsFold(f, n, T, base, H)
    <2> HIDE DEF T, base, n, H
    <2> QED BY <1>1, <1>2, <1>3, FoldExists
  <1>5. \A s : Greatest(s) = Max(s)
    BY DEF Greatest, Tables!Max, Max
  <1> HIDE DEF T, base, n, cp
  <1>6. Is(f)
    <2>1. ASSUME NEW s \in SUBSET S, s # {}
          PROVE  f[s] = Change(map, f[Rest(s)], cp[Greatest(s)])
      <3>1. Greatest(s) \in S /\ Rest(s) \in SUBSET S
        BY <1>1, <2>1, RestIsLess
      <3>2. <<Greatest(s), f[Rest(s)]>> \in S \X T
        BY <1>4, <3>1 DEF IsFold
      <3> QED BY <1>4, <2>1, <3>2 DEF IsFold
    <2>2. f \in [SUBSET S -> T] /\ f[{}] = base
      BY <1>4 DEF IsFold
    <2> QED BY <1>5, <2>1, <2>2 DEF Rest
  <1>7. Is(iter)
    BY <1>6
  <1>8. SanitizeE820Map(map) = iter[S].new
    BY <1>1 DEF SanitizeE820Map, FoldLeft, MapThenFoldSet, base, Unmerged, cp
  <1> HIDE DEF iter
  <1>9. iter[{}] = base
    BY <1>7
  <1>10. ASSUME NEW s \in SUBSET S, s # {}, iter[Rest(s)] \in T
         PROVE  iter[s] = H[<<Greatest(s), iter[Rest(s)]>>]
    <2>1. iter[s] = Change(map, iter[Rest(s)], cp[Greatest(s)])
      BY <1>5, <1>7, <1>10 DEF Rest
    <2>2. Greatest(s) \in S
      BY <1>1, <1>10, RestIsLess
    <2> QED BY <1>10, <2>1, <2>2
  <1>11. PICK g : IsRun(g, n, T, base, H, iter[1 .. n])
    <2>1. \A s \in SUBSET (1 .. n) : s # {} /\ iter[Rest(s)] \in T =>
              iter[s] = H[<<Greatest(s), iter[Rest(s)]>>]
      BY <1>10
    <2>2. n \in Nat /\ base \in T /\ H \in [(1 .. n) \X T -> T] /\ iter[{}] = base
      BY <1>1, <1>2, <1>3, <1>9
    <2> HIDE DEF H
    <2> QED BY <2>1, <2>2, FoldRuns
  <1>12. ASSUME NEW k \in 0 .. n - 1
         PROVE  g[k + 1] = Change(map, g[k], Point(map, k + 1))
    <2>1. k \in 0 .. n /\ k + 1 \in S
      BY <1>1
    <2> QED BY <1>11, <2>1 DEF IsRun, Point, cp
  <1> QED BY <1>8, <1>11, <1>12 DEF IsRun, T, base, n

----------------------------------------------------------------------------
(* What holds of the new map at each point: its entries tell the type of    *)
(* what they hold, in order, and of all that lies before the last point     *)
(* only what is of the type that is open is not yet in one.                 *)
Place(map, k) == IF k = 0 THEN 0 ELSE Point(map, k).addr
Frontier(map, k, s) == IF s.type # 0 THEN s.last_addr ELSE Place(map, k)

Divided(map, a) == \E i \in 1 .. Len(map) : map[i].addr = a /\ map[i].size = 0

Right(map, e) ==
    /\ e.addr \in Nat /\ e.size \in Nat \ {0} /\ e.type \in Nat \ {0}
    /\ \A a \in Nat : e.addr <= a /\ a < EndOf(e) => TypeAt(map, a) = e.type
    /\ TypeAt(map, EndOf(e)) # e.type \/ Divided(map, EndOf(e))

Ascending(new) == \A i, j \in 1 .. Len(new) : i < j => EndOf(new[i]) <= new[j].addr
Within(new, a) == \E i \in 1 .. Len(new) : new[i].addr <= a /\ a < EndOf(new[i])

RightSoFar(map, k, s) ==
    /\ s.open = Opened(map, k) /\ s.type = CurrentType(map, s.open)
    /\ Frontier(map, k, s) <= Place(map, k)
    /\ \A i \in 1 .. Len(s.new) :
          Right(map, s.new[i]) /\ EndOf(s.new[i]) <= Frontier(map, k, s)
    /\ Ascending(s.new)
    /\ \A a \in Nat : a < Frontier(map, k, s) /\ TypeAt(map, a) # 0 => Within(s.new, a)
    /\ s.type # 0 => \A a \in Nat : s.last_addr <= a /\ a < Place(map, k) => TypeAt(map, a) = s.type

MergedRight(map, k, s) ==
    IF s.full THEN Len(s.new) >= E820MAX ELSE RightSoFar(map, k, s)

LEMMA PlaceType ==
    ASSUME NEW map \in Seq(Entries), NEW k \in 0 .. Changes(map)
    PROVE  /\ Place(map, k) \in Nat
           /\ k < Changes(map) => Place(map, k) <= Place(map, k + 1)
  <1>1. Changes(map) \in Nat /\ \A l \in 1 .. Changes(map) : Point(map, l).addr \in Nat
    BY PointPlaces
  <1>2. Place(map, k) \in Nat
    <2>1. k # 0 => k \in 1 .. Changes(map)
      BY <1>1
    <2> QED BY <1>1, <2>1 DEF Place
  <1>3. ASSUME k < Changes(map) PROVE Place(map, k) <= Place(map, k + 1)
    <2>1. k + 1 \in 1 .. Changes(map) /\ k + 1 # 0 /\ k <= k + 1
      BY <1>1, <1>3
    <2>2. CASE k = 0
      BY <1>1, <2>1, <2>2 DEF Place
    <2>3. CASE k # 0
      <3>1. k \in 1 .. Changes(map)
        BY <1>1, <2>3
      <3> QED BY <2>1, <2>3, <3>1, PointPlaces DEF Place
    <2> QED BY <2>2, <2>3
  <1> QED BY <1>2, <1>3

LEMMA TypeBetween ==
    ASSUME NEW map \in Seq(Entries), NEW k \in 0 .. Changes(map), NEW a \in Nat,
           Place(map, k) <= a, k = Changes(map) \/ a < Place(map, k + 1)
    PROVE  TypeAt(map, a) = CurrentType(map, Opened(map, k))
  <1>1. Changes(map) \in Nat
    BY PointPlaces
  <1>2. k = 0 \/ Point(map, k).addr <= a
    BY DEF Place
  <1>3. k = Changes(map) \/ a < Point(map, k + 1).addr
    <2>1. k + 1 # 0
      BY <1>1
    <2> QED BY <2>1 DEF Place
  <1>4. OpenAt(map, a) = Opened(map, k)
    BY <1>2, <1>3, OpenBetween
  <1> QED BY <1>4, TypeOfOpen

LEMMA RightType ==
    ASSUME NEW map, NEW e, Right(map, e)
    PROVE  e.addr \in Nat /\ EndOf(e) \in Nat /\ e.addr < EndOf(e)
  <1>1. e.addr \in Nat /\ e.size \in Nat \ {0}
    BY DEF Right
  <1> QED BY <1>1 DEF EndOf

(* A stretch at the end of the new map.                                     *)
LEMMA StretchAdded ==
    ASSUME NEW map, NEW new \in Seq(Stretch), NEW e \in Stretch, NEW F \in Nat,
           Right(map, e), EndOf(e) = F, Ascending(new),
           \A i \in 1 .. Len(new) : Right(map, new[i]) /\ EndOf(new[i]) <= e.addr
    PROVE  LET more == Append(new, e)
           IN  /\ Ascending(more)
               /\ \A i \in 1 .. Len(more) : Right(map, more[i]) /\ EndOf(more[i]) <= F
               /\ \A a : Within(more, a) <=> Within(new, a) \/ (e.addr <= a /\ a < EndOf(e))
  <1> DEFINE more == Append(new, e)
             n == Len(new)
  <1>1. /\ n \in Nat /\ Len(more) = n + 1 /\ more[n + 1] = e
        /\ \A i \in 1 .. n : more[i] = new[i]
        /\ 1 .. Len(more) = 1 .. n \cup {n + 1} /\ \A i \in 1 .. n : i < n + 1
        /\ \A i \in 1 .. n + 1 : ~(n + 1 < i)
    <2>1. n \in Nat /\ Len(more) = n + 1 /\ more[n + 1] = e /\ \A i \in 1 .. n : more[i] = new[i]
      <3> HIDE DEF Stretch
      <3> QED OBVIOUS
    <2> HIDE DEF n, more
    <2> QED BY <2>1
  <1> HIDE DEF more, n
  <1>2. \A i \in 1 .. n : EndOf(new[i]) <= e.addr
    BY DEF n
  <1>3. Ascending(more)
    <2> SUFFICES ASSUME NEW i \in 1 .. n + 1, NEW j \in 1 .. n + 1, i < j
                 PROVE  EndOf(more[i]) <= more[j].addr
      BY <1>1 DEF Ascending
    <2>1. i \in 1 .. n
      BY <1>1
    <2>2. CASE j = n + 1
      BY <1>1, <1>2, <2>1, <2>2
    <2>3. CASE j \in 1 .. n
      BY <1>1, <2>1, <2>3 DEF Ascending, n
    <2> QED BY <1>1, <2>2, <2>3
  <1>4. ASSUME NEW i \in 1 .. Len(more) PROVE Right(map, more[i]) /\ EndOf(more[i]) <= F
    <2>1. CASE i = n + 1
      BY <1>1, <2>1
    <2>2. CASE i \in 1 .. n
      <3>1. more[i] = new[i] /\ Right(map, new[i]) /\ EndOf(new[i]) <= e.addr
        BY <1>1, <2>2 DEF n
      <3>2. EndOf(new[i]) \in Nat /\ e.addr \in Nat /\ e.addr <= F
        BY <3>1, RightType
      <3> QED BY <3>1, <3>2
    <2>3. i \in 1 .. n \cup {n + 1}
      BY <1>1
    <2> QED BY <2>1, <2>2, <2>3
  <1>5. ASSUME NEW a PROVE Within(more, a) <=> Within(new, a) \/ (e.addr <= a /\ a < EndOf(e))
    BY <1>1 DEF Within, n
  <1> QED BY <1>3, <1>4, <1>5 DEF more

(* A stretch that is closed where the type changes is right.                *)
LEMMA ClosedRight ==
    ASSUME NEW map \in Seq(Entries), NEW k \in 1 .. Changes(map),
           NEW e, e.addr \in Nat, e.size \in Nat \ {0}, e.type \in Nat \ {0},
           EndOf(e) = Point(map, k).addr,
           \A a \in Nat : e.addr <= a /\ a < EndOf(e) => TypeAt(map, a) = e.type,
           CurrentType(map, Opened(map, k)) # e.type
    PROVE  Right(map, e)
  <1>1. PICK b \in Nat : EndOf(e) = b + 1 /\ e.addr <= b
    <2>1. e.addr + e.size - 1 \in Nat /\ EndOf(e) = (e.addr + e.size - 1) + 1
          /\ e.addr <= e.addr + e.size - 1
      BY DEF EndOf
    <2> QED BY <2>1
  <1>2. TypeAt(map, b) = e.type
    BY <1>1
  <1>3. ASSUME TypeAt(map, b + 1) = e.type, ~Divided(map, b + 1) PROVE FALSE
    <2>1. \A i \in 1 .. Len(map) : map[i].addr = b + 1 => map[i].size # 0
      BY <1>3 DEF Divided
    <2>2. Point(map, k).addr = b + 1
      BY <1>1
    <2> QED BY <1>2, <1>3, <2>1, <2>2, NoChange
  <1> QED BY <1>1, <1>3 DEF Right

LEMMA MergeStep ==
    ASSUME NEW map \in Seq(Entries), NEW k \in 0 .. Changes(map) - 1,
           NEW s \in Merged(map), MergedRight(map, k, s), E820MAX \in Nat
    PROVE  MergedRight(map, k + 1, Change(map, s, Point(map, k + 1)))
  <1> DEFINE p == Point(map, k + 1)
             q == Change(map, s, p)
             open == NowOpen(s, p)
             type == CurrentType(map, open)
             c == Place(map, k + 1)
             f == Frontier(map, k, s)
             g == Frontier(map, k + 1, q)
  <1>1. /\ Changes(map) \in Nat /\ k \in 0 .. Changes(map) /\ k < Changes(map)
        /\ k + 1 \in 0 .. Changes(map) /\ k + 1 \in 1 .. Changes(map) /\ k + 1 # 0
    <2>1. Changes(map) \in Nat
      BY PointPlaces
    <2> QED BY <2>1
  <1>2. p \in Points(map) /\ p.addr = c
    BY <1>1, PointPlaces DEF Place
  <1>3. c \in Nat /\ Place(map, k) \in Nat /\ Place(map, k) <= c
    BY <1>1, PlaceType
  <1>4. /\ q \in Merged(map)
        /\ open \in SUBSET (1 .. Len(map)) /\ type \in Nat /\ NowNew(s, p) \in Seq(Stretch)
        /\ \/ s.full /\ q = s
           \/ /\ ~s.full /\ ~q.full /\ type = s.type /\ q.open = open
              /\ q.type = s.type /\ q.new = s.new /\ q.last_addr = s.last_addr
           \/ /\ ~s.full /\ type # s.type /\ q.open = open /\ q.type = type
              /\ q.new = NowNew(s, p) /\ (q.full <=> Len(q.new) >= E820MAX)
              /\ q.last_addr = IF type # 0 THEN p.addr ELSE s.last_addr
    BY <1>2, ChangeCases
  <1>5. CASE s.full
    BY <1>4, <1>5 DEF MergedRight
  <1>6. CASE ~s.full
    <2>1. RightSoFar(map, k, s)
      BY <1>6 DEF MergedRight
    <2>2. /\ s.open = Opened(map, k) /\ s.type = CurrentType(map, s.open)
          /\ f <= Place(map, k) /\ Ascending(s.new)
          /\ \A i \in 1 .. Len(s.new) : Right(map, s.new[i]) /\ EndOf(s.new[i]) <= f
          /\ \A a \in Nat : a < f /\ TypeAt(map, a) # 0 => Within(s.new, a)
          /\ s.type # 0 =>
                \A a \in Nat : s.last_addr <= a /\ a < Place(map, k) => TypeAt(map, a) = s.type
      BY <2>1 DEF RightSoFar
    <2>3. /\ s.last_addr \in Nat /\ s.type \in Nat /\ s.new \in Seq(Stretch)
          /\ q.type \in Nat /\ q.last_addr \in Nat
      BY <1>4 DEF Merged
    <2>4. f \in Nat /\ f <= c /\ f = IF s.type # 0 THEN s.last_addr ELSE Place(map, k)
      BY <1>3, <2>2, <2>3 DEF Frontier
    <2>5. open = Opened(map, k + 1)
      BY <2>2, OpenedStep DEF NowOpen
    <2>6. \A a \in Nat : f <= a /\ a < c => TypeAt(map, a) = s.type
      <3>1. \A a \in Nat : Place(map, k) <= a /\ a < c => TypeAt(map, a) = s.type
        BY <1>1, <2>2, TypeBetween
      <3> QED BY <1>3, <2>2, <2>3, <2>4, <3>1
    <2> HIDE DEF open, type, p, q, c, f
    <2>7. CASE type = s.type
      <3>1. /\ q.open = open /\ q.type = s.type /\ q.new = s.new /\ q.last_addr = s.last_addr
            /\ ~q.full
        BY <1>4, <1>6, <2>7
      <3>2. g = (IF s.type # 0 THEN f ELSE c) /\ g <= c /\ f <= g /\ g \in Nat
        BY <1>3, <2>3, <2>4, <3>1 DEF Frontier, c
      <3> HIDE DEF g
      <3>3. \A i \in 1 .. Len(q.new) : Right(map, q.new[i]) /\ EndOf(q.new[i]) <= g
        <4> TAKE i \in 1 .. Len(q.new)
        <4>1. Right(map, s.new[i]) /\ EndOf(s.new[i]) <= f
          BY <2>2, <3>1
        <4>2. EndOf(s.new[i]) \in Nat
          BY <4>1, RightType
        <4> QED BY <2>4, <3>1, <3>2, <4>1, <4>2
      <3>4. \A a \in Nat : a < g /\ TypeAt(map, a) # 0 => Within(q.new, a)
        BY <2>2, <2>4, <2>6, <3>1, <3>2
      <3>5. q.type # 0 => \A a \in Nat : q.last_addr <= a /\ a < c => TypeAt(map, a) = q.type
        BY <2>4, <2>6, <3>1
      <3>6. q.open = Opened(map, k + 1) /\ q.type = CurrentType(map, q.open) /\ Ascending(q.new)
        BY <2>2, <2>5, <2>7, <3>1 DEF type
      <3>7. RightSoFar(map, k + 1, q)
        BY <3>2, <3>3, <3>4, <3>5, <3>6 DEF RightSoFar, g, c
      <3> QED BY <3>1, <3>7 DEF MergedRight, q, p
    <2>8. CASE type # s.type
      <3>1. /\ q.open = open /\ q.type = type /\ q.new = NowNew(s, p)
            /\ (q.full <=> Len(q.new) >= E820MAX)
            /\ q.last_addr = IF type # 0 THEN c ELSE s.last_addr
        BY <1>2, <1>4, <1>6, <2>8
      <3>2. g = c
        BY <3>1 DEF Frontier, c
      <3>3. /\ Ascending(q.new)
            /\ \A i \in 1 .. Len(q.new) : Right(map, q.new[i]) /\ EndOf(q.new[i]) <= c
            /\ \A a \in Nat : a < c /\ TypeAt(map, a) # 0 => Within(q.new, a)
        <4>1. CASE s.type # 0 /\ c - s.last_addr # 0
          <5> DEFINE e == Closed(s, p)
          <5>1. e.addr = f /\ e.size = c - f /\ e.type = s.type /\ q.new = Append(s.new, e)
            BY <1>2, <2>4, <3>1, <4>1 DEF Closed, NowNew
          <5>2. e \in Stretch /\ c - f \in Nat \ {0}
            <6>1. c - f \in Nat \ {0}
              BY <1>3, <2>4, <4>1
            <6>2. e = [addr |-> f, size |-> c - f, type |-> s.type]
              BY <1>2, <2>4, <4>1 DEF Closed
            <6> QED BY <2>3, <2>4, <6>1, <6>2 DEF Stretch
          <5> HIDE DEF e
          <5>3. EndOf(e) = c
            BY <1>3, <2>4, <5>1 DEF EndOf
          <5>4. CurrentType(map, Opened(map, k + 1)) # e.type
            BY <2>5, <2>8, <5>1 DEF type
          <5>5. \A a \in Nat : e.addr <= a /\ a < EndOf(e) => TypeAt(map, a) = e.type
            BY <2>6, <5>1, <5>3
          <5>6. EndOf(e) = Point(map, k + 1).addr
            BY <1>2, <5>3 DEF p
          <5>7. e.addr \in Nat /\ e.size \in Nat \ {0} /\ e.type \in Nat \ {0}
            BY <2>3, <2>4, <4>1, <5>1, <5>2
          <5>8. Right(map, e)
            BY <1>1, <5>4, <5>5, <5>6, <5>7, ClosedRight
          <5>9. \A i \in 1 .. Len(s.new) : Right(map, s.new[i]) /\ EndOf(s.new[i]) <= e.addr
            BY <2>2, <5>1
          <5>10. /\ Ascending(q.new)
                 /\ \A i \in 1 .. Len(q.new) : Right(map, q.new[i]) /\ EndOf(q.new[i]) <= c
                 /\ \A a : Within(q.new, a) <=> Within(s.new, a) \/ (e.addr <= a /\ a < EndOf(e))
            <6>1. /\ s.new \in Seq(Stretch) /\ e \in Stretch /\ c \in Nat /\ Right(map, e)
                  /\ EndOf(e) = c /\ Ascending(s.new)
                  /\ \A i \in 1 .. Len(s.new) : Right(map, s.new[i]) /\ EndOf(s.new[i]) <= e.addr
              BY <1>3, <2>2, <2>3, <5>2, <5>3, <5>8, <5>9
            <6> HIDE DEF Right, Ascending
            <6> QED BY <5>1, <6>1, StretchAdded
          <5>11. ASSUME NEW a \in Nat, a < c, TypeAt(map, a) # 0 PROVE Within(q.new, a)
            <6>1. a < f \/ (e.addr <= a /\ a < EndOf(e))
              BY <2>4, <5>1, <5>3, <5>11
            <6> QED BY <2>2, <5>10, <5>11, <6>1
          <5> QED BY <5>10, <5>11
        <4>2. CASE s.type = 0 \/ c - s.last_addr = 0
          <5>1. q.new = s.new
            BY <1>2, <3>1, <4>2 DEF NowNew
          <5>2. ASSUME NEW i \in 1 .. Len(q.new)
                PROVE  Right(map, q.new[i]) /\ EndOf(q.new[i]) <= c
            <6>1. Right(map, s.new[i]) /\ EndOf(s.new[i]) <= f
              BY <2>2, <5>1
            <6>2. EndOf(s.new[i]) \in Nat
              BY <6>1, RightType
            <6> QED BY <1>3, <2>4, <5>1, <6>1, <6>2
          <5>3. s.type # 0 => f = c
            BY <1>3, <2>3, <2>4, <4>2
          <5>4. ASSUME NEW a \in Nat, a < c, TypeAt(map, a) # 0 PROVE Within(q.new, a)
            <6>1. a < f
              BY <1>3, <2>4, <2>6, <5>3, <5>4
            <6> QED BY <2>2, <5>1, <5>4, <6>1
          <5> QED BY <2>2, <5>1, <5>2, <5>4
        <4> QED BY <4>1, <4>2
      <3>4. q.type # 0 => \A a \in Nat : q.last_addr <= a /\ a < c => TypeAt(map, a) = q.type
        BY <1>3, <3>1
      <3>5. q.open = Opened(map, k + 1) /\ q.type = CurrentType(map, q.open)
        BY <2>5, <3>1 DEF type
      <3>6. c <= c
        BY <1>3
      <3> HIDE DEF g
      <3>7. RightSoFar(map, k + 1, q)
        BY <3>2, <3>3, <3>4, <3>5, <3>6 DEF RightSoFar, g, c
      <3> QED BY <3>1, <3>7 DEF MergedRight, q, p
    <2> QED BY <2>7, <2>8
  <1> QED BY <1>5, <1>6

(* All memory that has a type is in an entry of the new map, if that had    *)
(* room; the entries tell its type, in order.                               *)
LEMMA NewMapRight ==
    ASSUME NEW map \in Seq(Entries), E820MAX \in Nat, ~Unreasonable(map),
           Len(SanitizeE820Map(map)) < E820MAX
    PROVE  LET new == SanitizeE820Map(map)
           IN  /\ new \in Seq(Stretch) /\ Ascending(new)
               /\ \A i \in 1 .. Len(new) : Right(map, new[i])
               /\ \A a \in Nat : TypeAt(map, a) # 0 => Within(new, a)
  <1> DEFINE N == Changes(map)
             new == SanitizeE820Map(map)
  <1>1. PICK g : /\ new = g[N].new
                 /\ g[0] = Unmerged /\ \A k \in 0 .. N : g[k] \in Merged(map)
                 /\ \A k \in 0 .. N - 1 : g[k + 1] = Change(map, g[k], Point(map, k + 1))
    BY SanitizeRun
  <1>2. N \in Nat
    BY PointPlaces
  <1>3. MergedRight(map, 0, g[0])
    <2>1. /\ g[0].open = {} /\ g[0].type = 0 /\ g[0].new = <<>> /\ g[0].full = FALSE
          /\ Len(g[0].new) = 0
      BY <1>1 DEF Unmerged
    <2>2. Opened(map, 0) = {} /\ CurrentType(map, {}) = 0
      BY OpenedEnds DEF CurrentType
    <2>3. Frontier(map, 0, g[0]) = 0 /\ Place(map, 0) = 0
      BY <2>1 DEF Frontier, Place
    <2>4. RightSoFar(map, 0, g[0])
      BY <2>1, <2>2, <2>3 DEF RightSoFar, Ascending
    <2> QED BY <2>1, <2>4 DEF MergedRight
  <1> DEFINE Good == {k \in 0 .. N : MergedRight(map, k, g[k])}
  <1>4. ASSUME NEW k \in 0 .. N - 1, k \in Good PROVE k + 1 \in Good
    <2>1. k + 1 \in 0 .. N /\ k \in 0 .. N
      BY <1>2
    <2> QED BY <1>1, <1>4, <2>1, MergeStep
  <1>5. 0 \in Good
    BY <1>2, <1>3
  <1> HIDE DEF Good, N, new
  <1>6. N \in Good
    <2>1. \A k \in 0 .. N : k \in Good
      BY <1>2, <1>4, <1>5, ByPlace
    <2> QED BY <1>2, <2>1
  <1>7. g[N] \in Merged(map)
    BY <1>1, <1>2
  <1>8. new \in Seq(Stretch) /\ Len(new) \in Nat
    <2>1. new \in Seq(Stretch)
      BY <1>1, <1>7 DEF Merged
    <2> QED BY <2>1
  <1>9. RightSoFar(map, N, g[N])
    <2>1. ~(Len(new) >= E820MAX)
      BY <1>8 DEF new
    <2> QED BY <1>1, <1>6, <2>1 DEF Good, MergedRight
  <1>10. g[N].open = {} /\ g[N].type = 0 /\ Frontier(map, N, g[N]) = Place(map, N)
    <2>1. g[N].open = {}
      BY <1>9, OpenedEnds DEF RightSoFar, N
    <2> QED BY <1>9, <2>1 DEF RightSoFar, CurrentType, Frontier
  <1>11. ASSUME NEW a \in Nat, TypeAt(map, a) # 0 PROVE Within(new, a)
    <2>1. CASE a < Place(map, N)
      BY <1>1, <1>9, <1>10, <1>11, <2>1 DEF RightSoFar
    <2>2. CASE ~(a < Place(map, N))
      <3>1. Place(map, N) \in Nat /\ N \in 0 .. N
        BY <1>2, PlaceType DEF N
      <3>2. TypeAt(map, a) = CurrentType(map, Opened(map, N))
        BY <2>2, <3>1, TypeBetween DEF N
      <3> QED BY <1>11, <3>2, OpenedEnds DEF CurrentType, N
    <2> QED BY <2>1, <2>2
  <1> QED BY <1>1, <1>8, <1>9, <1>11 DEF RightSoFar, new

----------------------------------------------------------------------------
(* Pages.                                                                   *)
LEMMA PageRounds ==
    ASSUME NEW a \in Nat, NEW p \in Int
    PROVE  /\ PageUp(a) \in Nat /\ PageDown(a) \in Nat /\ p * PG \in Int
           /\ PageUp(a) <= p <=> a <= p * PG
           /\ p < PageDown(a) <=> p * PG + PG <= a
  <1>1. PG \in Nat \ {0}
    BY MapsAssumption
  <1>2. ASSUME NEW x \in Nat
        PROVE  /\ x \div PG \in Nat /\ (x \div PG) * PG <= x
               /\ x < (x \div PG) * PG + PG
    BY <1>1
  <1>3. ASSUME NEW m \in Int, NEW q \in Int, m < q
        PROVE  m * PG + PG <= q * PG
    BY <1>1, <1>3
  <1>4. p * PG \in Int /\ \A m \in Nat : m * PG \in Int
    BY <1>1
  <1>5. a + PG - 1 \in Nat
    BY <1>1
  <1>6. /\ PageUp(a) \in Nat /\ PageUp(a) * PG <= a + PG - 1
        /\ a + PG - 1 < PageUp(a) * PG + PG /\ PageUp(a) * PG \in Int
    BY <1>2, <1>4, <1>5 DEF PageUp
  <1>7. /\ PageDown(a) \in Nat /\ PageDown(a) * PG <= a /\ a < PageDown(a) * PG + PG
        /\ PageDown(a) * PG \in Int
    BY <1>2, <1>4 DEF PageDown
  <1>8. PageUp(a) <= p => a <= p * PG
    <2>1. CASE PageUp(a) = p
      BY <1>1, <1>4, <1>6, <2>1
    <2>2. CASE PageUp(a) < p
      BY <1>1, <1>3, <1>4, <1>6, <2>2
    <2> QED BY <1>6, <2>1, <2>2
  <1>9. ~(PageUp(a) <= p) => ~(a <= p * PG)
    <2>1. p < PageUp(a) => p * PG + PG <= PageUp(a) * PG
      BY <1>3, <1>6
    <2> QED BY <1>1, <1>4, <1>6, <2>1
  <1>10. p < PageDown(a) => p * PG + PG <= a
    <2>1. p < PageDown(a) => p * PG + PG <= PageDown(a) * PG
      BY <1>3, <1>7
    <2> QED BY <1>1, <1>4, <1>7, <2>1
  <1>11. ~(p < PageDown(a)) => ~(p * PG + PG <= a)
    <2>1. CASE PageDown(a) = p
      BY <1>1, <1>4, <1>7, <2>1
    <2>2. CASE PageDown(a) < p
      BY <1>1, <1>3, <1>4, <1>7, <2>2
    <2> QED BY <1>7, <2>1, <2>2
  <1> QED BY <1>4, <1>6, <1>7, <1>8, <1>9, <1>10, <1>11

LEMMA DownBeforeUp ==
    ASSUME NEW a \in Nat, NEW b \in Nat, a <= b
    PROVE  PageDown(a) <= PageUp(b)
  <1> DEFINE p == PageUp(b)
  <1>1. p \in Int /\ PG \in Nat \ {0}
    BY PageRounds, MapsAssumption
  <1>2. b <= p * PG /\ p * PG \in Int
    <2> HIDE DEF p
    <2>1. p <= p
      BY <1>1
    <2> QED BY <1>1, <2>1, PageRounds DEF p
  <1>3. ~(p * PG + PG <= a)
    <2> HIDE DEF p
    <2> QED BY <1>1, <1>2
  <1>4. ~(p < PageDown(a)) /\ PageDown(a) \in Nat
    <2> HIDE DEF p
    <2> QED BY <1>1, <1>3, PageRounds
  <1> QED BY <1>1, <1>4

(* A segment has the pages that lie in its entry, beside the hole.          *)
SegStart(e) == IF e.addr > RES_START /\ e.addr < RES_END THEN RES_END ELSE e.addr
SegEnd(e)   == IF EndOf(e) > RES_START /\ EndOf(e) < RES_END THEN RES_START ELSE EndOf(e)
InHole(e)   == e.addr > RES_START /\ e.addr < RES_END /\ EndOf(e) < RES_END
Seg(e)      == [start |-> PageUp(SegStart(e)), end |-> PageDown(SegEnd(e))]
Kept == [start : Nat, end : Nat]

LEMMA SegmentIs ==
    ASSUME NEW e, e.addr \in Nat, EndOf(e) \in Nat, e.addr < EndOf(e)
    PROVE  /\ Segment(e) = IF InHole(e) THEN <<>> ELSE <<Seg(e)>>
           /\ SegStart(e) \in Nat /\ SegEnd(e) \in Nat
           /\ e.addr <= SegStart(e) /\ SegEnd(e) <= EndOf(e)
           /\ Seg(e) \in Kept
  <1>1. Segment(e) = IF InHole(e) THEN <<>> ELSE <<Seg(e)>>
    BY DEF Segment, InHole, Seg, SegStart, SegEnd
  <1>2. /\ SegStart(e) \in Nat /\ SegEnd(e) \in Nat
        /\ e.addr <= SegStart(e) /\ SegEnd(e) <= EndOf(e)
    BY MapsAssumption DEF SegStart, SegEnd
  <1>3. Seg(e) \in Kept
    BY <1>2, PageRounds DEF Seg, Kept
  <1> QED BY <1>1, <1>2, <1>3

LEMMA SegmentPages ==
    ASSUME NEW e, e.addr \in Nat, EndOf(e) \in Nat, e.addr < EndOf(e), ~InHole(e),
           NEW p \in Seg(e).start .. Seg(e).end - 1, NEW a \in Units(p)
    PROVE  a \in Nat /\ e.addr <= a /\ a < EndOf(e) /\ (Hole(a) => Covers(e))
  <1>1. SegStart(e) \in Nat /\ SegEnd(e) \in Nat /\ e.addr <= SegStart(e) /\ SegEnd(e) <= EndOf(e)
    BY SegmentIs
  <1>2. p \in Int /\ PageUp(SegStart(e)) <= p /\ p < PageDown(SegEnd(e))
    BY <1>1, PageRounds DEF Seg
  <1>3. p * PG \in Int /\ SegStart(e) <= p * PG /\ p * PG + PG <= SegEnd(e)
    BY <1>1, <1>2, PageRounds
  <1>4. a \in Int /\ p * PG <= a /\ a < p * PG + PG
    <2>1. PG \in Nat
      BY MapsAssumption
    <2> QED BY <1>3, <2>1 DEF Units
  <1>5. PG \in Nat
    BY MapsAssumption
  <1>6. a \in Nat /\ SegStart(e) <= a /\ a < SegEnd(e)
    BY <1>1, <1>3, <1>4, <1>5
  <1>7. ASSUME Hole(a) PROVE Covers(e)
    BY <1>1, <1>6, <1>7, MapsAssumption DEF Hole, Covers, SegStart, SegEnd
  <1> QED BY <1>1, <1>6, <1>7

LEMMA PagesOfSegment ==
    ASSUME NEW e, e.addr \in Nat, EndOf(e) \in Nat, e.addr < EndOf(e),
           NEW p \in Nat, e.addr <= p * PG, p * PG + PG <= EndOf(e),
           ~\E a \in Units(p) : Hole(a)
    PROVE  ~InHole(e) /\ p \in Seg(e).start .. Seg(e).end - 1
  <1>1. SegStart(e) \in Nat /\ SegEnd(e) \in Nat
    BY SegmentIs
  <1>2. PG \in Nat \ {0} /\ RES_START \in Nat /\ RES_END \in Nat /\ p * PG \in Int
    BY MapsAssumption
  <1>3. p * PG \in Units(p) /\ p * PG + PG - 1 \in Units(p)
    BY <1>2 DEF Units
  <1>4. ~Hole(p * PG) /\ ~Hole(p * PG + PG - 1)
    BY <1>3
  <1>5. ~InHole(e)
    BY <1>2, <1>4 DEF InHole, Hole
  <1>6. SegStart(e) <= p * PG
    BY <1>2, <1>4 DEF SegStart, Hole
  <1>7. p * PG + PG <= SegEnd(e)
    BY <1>2, <1>4 DEF SegEnd, Hole
  <1>8. PageUp(SegStart(e)) <= p /\ p < PageDown(SegEnd(e))
    BY <1>1, <1>6, <1>7, PageRounds
  <1>9. PageUp(SegStart(e)) \in Nat /\ PageDown(SegEnd(e)) \in Nat
    BY <1>1, PageRounds
  <1> QED BY <1>5, <1>8, <1>9 DEF Seg

----------------------------------------------------------------------------
(* memsize_820(), entry by entry.                                           *)
Proper(new) ==
    /\ new \in Seq(Stretch) /\ Ascending(new)
    /\ \A i \in 1 .. Len(new) :
          new[i].addr \in Nat /\ EndOf(new[i]) \in Nat /\ new[i].addr < EndOf(new[i])
Taken(e) == Usable(e) /\ ~InHole(e)
AlsoTaken(e, kept) == IF Taken(e) THEN Append(kept, Seg(e)) ELSE kept

LEMMA MemsizeRun ==
    ASSUME NEW new, Proper(new)
    PROVE  \E g : LET n == Len(new)
                  IN  /\ Memsize820(new) = g[n]
                      /\ g[0] = <<>> /\ \A k \in 0 .. n : g[k] \in Seq(Kept)
                      /\ \A k \in 0 .. n - 1 : g[k + 1] = AlsoTaken(new[k + 1], g[k])
  <1> DEFINE n == Len(new)
             T == Seq(Kept)
             S == 1 .. n
             base == <<>>
             Op(kept, e) == IF Usable(e) THEN kept \o Segment(e) ELSE kept
             H == [x \in S \X T |-> AlsoTaken(new[x[1]], x[2])]
             Is(f) == f = [s \in SUBSET S |->
                             IF s = {} THEN base ELSE Op(f[s \ {Max(s)}], new[Max(s)])]
             iter == CHOOSE f : Is(f)
  <1>1. n \in Nat /\ DOMAIN new = S
    BY DEF Proper
  <1>2. base \in T
    OBVIOUS
  <1>3. ASSUME NEW k \in S, NEW kept \in T
        PROVE  Op(kept, new[k]) = AlsoTaken(new[k], kept) /\ AlsoTaken(new[k], kept) \in T
    <2>1. /\ Segment(new[k]) = (IF InHole(new[k]) THEN <<>> ELSE <<Seg(new[k])>>)
          /\ Seg(new[k]) \in Kept
      BY SegmentIs DEF Proper
    <2> HIDE DEF Kept
    <2>2. kept \o <<>> = kept
      OBVIOUS
    <2>3. kept \o <<Seg(new[k])>> = Append(kept, Seg(new[k])) /\ Append(kept, Seg(new[k])) \in T
      BY <2>1
    <2> QED BY <2>1, <2>2, <2>3 DEF AlsoTaken, Taken
  <1>4. H \in [S \X T -> T]
    BY <1>3
  <1>5. PICK f : IsFold(f, n, T, base, H)
    <2> HIDE DEF T, base, n, H
    <2> QED BY <1>1, <1>2, <1>4, FoldExists
  <1>6. \A s : Greatest(s) = Max(s)
    BY DEF Greatest, Tables!Max, Max
  <1> HIDE DEF T, base, n, Op
  <1>7. Is(f)
    <2>1. ASSUME NEW s \in SUBSET S, s # {}
          PROVE  f[s] = Op(f[Rest(s)], new[Greatest(s)])
      <3>1. Greatest(s) \in S /\ Rest(s) \in SUBSET S
        BY <1>1, <2>1, RestIsLess
      <3>2. f[Rest(s)] \in T /\ <<Greatest(s), f[Rest(s)]>> \in S \X T
        BY <1>5, <3>1 DEF IsFold
      <3>3. f[s] = AlsoTaken(new[Greatest(s)], f[Rest(s)])
        BY <1>5, <2>1, <3>2 DEF IsFold
      <3> QED BY <1>3, <3>1, <3>2, <3>3
    <2>2. f \in [SUBSET S -> T] /\ f[{}] = base
      BY <1>5 DEF IsFold
    <2> QED BY <1>6, <2>1, <2>2 DEF Rest
  <1>8. Is(iter)
    BY <1>7
  <1>9. Memsize820(new) = iter[S]
    BY <1>1 DEF Memsize820, FoldLeft, MapThenFoldSet, base, Op
  <1> HIDE DEF iter
  <1>10. iter[{}] = base
    BY <1>8
  <1>11. ASSUME NEW s \in SUBSET S, s # {}, iter[Rest(s)] \in T
         PROVE  iter[s] = H[<<Greatest(s), iter[Rest(s)]>>]
    <2>1. iter[s] = Op(iter[Rest(s)], new[Greatest(s)])
      BY <1>6, <1>8, <1>11 DEF Rest
    <2>2. Greatest(s) \in S
      BY <1>1, <1>11, RestIsLess
    <2> QED BY <1>3, <1>11, <2>1, <2>2
  <1>12. PICK g : IsRun(g, n, T, base, H, iter[1 .. n])
    <2>1. \A s \in SUBSET (1 .. n) : s # {} /\ iter[Rest(s)] \in T =>
              iter[s] = H[<<Greatest(s), iter[Rest(s)]>>]
      BY <1>11
    <2>2. n \in Nat /\ base \in T /\ H \in [(1 .. n) \X T -> T] /\ iter[{}] = base
      BY <1>1, <1>2, <1>4, <1>10
    <2> HIDE DEF H
    <2> QED BY <2>1, <2>2, FoldRuns
  <1>13. ASSUME NEW k \in 0 .. n - 1 PROVE g[k + 1] = AlsoTaken(new[k + 1], g[k])
    <2>1. k \in 0 .. n /\ k + 1 \in S
      BY <1>1
    <2> QED BY <1>12, <2>1 DEF IsRun
  <1> QED BY <1>9, <1>12, <1>13 DEF IsRun, T, base, n

(* The map has what is taken of the entries, and nothing else, in order.    *)
KeptSoFar(new, k, kept) ==
    /\ \A x \in 1 .. Len(kept) : \E i \in 1 .. k : Taken(new[i]) /\ kept[x] = Seg(new[i])
    /\ \A i \in 1 .. k : Taken(new[i]) => \E x \in 1 .. Len(kept) : kept[x] = Seg(new[i])
    /\ \A x, y \in 1 .. Len(kept) : x < y => kept[x].end <= kept[y].start

LEMMA SegmentsApart ==
    ASSUME NEW new, Proper(new), NEW i \in 1 .. Len(new), NEW j \in 1 .. Len(new), i < j
    PROVE  Seg(new[i]).end <= Seg(new[j]).start
  <1>1. /\ new[i].addr \in Nat /\ EndOf(new[i]) \in Nat /\ new[i].addr < EndOf(new[i])
        /\ new[j].addr \in Nat /\ EndOf(new[j]) \in Nat /\ new[j].addr < EndOf(new[j])
        /\ EndOf(new[i]) <= new[j].addr
    BY DEF Proper, Ascending
  <1>2. SegEnd(new[i]) \in Nat /\ SegEnd(new[i]) <= EndOf(new[i])
        /\ SegStart(new[j]) \in Nat /\ new[j].addr <= SegStart(new[j])
    BY <1>1, SegmentIs
  <1>3. SegEnd(new[i]) <= SegStart(new[j])
    BY <1>1, <1>2
  <1> QED BY <1>2, <1>3, DownBeforeUp DEF Seg

LEMMA KeptStep ==
    ASSUME NEW new, Proper(new), NEW k \in 0 .. Len(new) - 1, NEW kept \in Seq(Kept),
           KeptSoFar(new, k, kept)
    PROVE  KeptSoFar(new, k + 1, AlsoTaken(new[k + 1], kept))
  <1> DEFINE e == new[k + 1]
             m == Len(kept)
             more == Append(kept, Seg(e))
  <1>1. Len(new) \in Nat
    BY DEF Proper
  <1>2. /\ k + 1 \in 1 .. Len(new) /\ \A i \in 1 .. k : i \in 1 .. Len(new) /\ i < k + 1
        /\ 1 .. k + 1 = 1 .. k \cup {k + 1}
    BY <1>1
  <1>3. CASE ~Taken(e)
    BY <1>2, <1>3 DEF KeptSoFar, AlsoTaken
  <1>4. CASE Taken(e)
    <2>1. Seg(e) \in Kept
      BY <1>2, SegmentIs DEF Proper
    <2>2. /\ m \in Nat /\ Len(more) = m + 1 /\ more[m + 1] = Seg(e)
          /\ \A x \in 1 .. m : more[x] = kept[x]
      <3> HIDE DEF Kept
      <3> QED BY <2>1
    <2> HIDE DEF more, e, m
    <2>3. /\ 1 .. Len(more) = 1 .. m \cup {m + 1} /\ \A x \in 1 .. Len(more) : ~(m + 1 < x)
          /\ \A x \in 1 .. Len(more) : x \in 1 .. m \/ x = m + 1
      BY <2>2
    <2>4. \A x \in 1 .. Len(more) : \E i \in 1 .. k + 1 : Taken(new[i]) /\ more[x] = Seg(new[i])
      <3> TAKE x \in 1 .. Len(more)
      <3>1. CASE x = m + 1
        BY <1>2, <1>4, <2>2, <3>1 DEF e
      <3>2. CASE x \in 1 .. m
        <4>1. PICK i \in 1 .. k : Taken(new[i]) /\ kept[x] = Seg(new[i])
          BY <3>2 DEF KeptSoFar, m
        <4> QED BY <1>2, <2>2, <3>2, <4>1
      <3> QED BY <2>3, <3>1, <3>2
    <2>5. \A i \in 1 .. k + 1 : Taken(new[i]) => \E x \in 1 .. Len(more) : more[x] = Seg(new[i])
      BY <1>2, <2>2, <2>3 DEF KeptSoFar, e, m
    <2>6. ASSUME NEW x \in 1 .. Len(more), NEW y \in 1 .. Len(more), x < y
          PROVE  more[x].end <= more[y].start
      <3>1. x \in 1 .. m
        BY <2>3, <2>6
      <3>2. CASE y = m + 1
        <4>1. PICK i \in 1 .. k : kept[x] = Seg(new[i])
          BY <3>1 DEF KeptSoFar, m
        <4> QED BY <1>2, <2>2, <3>1, <3>2, <4>1, SegmentsApart DEF e
      <3>3. CASE y \in 1 .. m
        BY <2>2, <2>6, <3>1, <3>3 DEF KeptSoFar, m
      <3> QED BY <2>3, <3>2, <3>3
    <2>7. AlsoTaken(e, kept) = more
      BY <1>4 DEF AlsoTaken, more
    <2> QED BY <2>4, <2>5, <2>6, <2>7 DEF KeptSoFar, e
  <1> QED BY <1>3, <1>4

LEMMA MemsizeKeeps ==
    ASSUME NEW new, Proper(new)
    PROVE  Memsize820(new) \in Seq(Kept) /\ KeptSoFar(new, Len(new), Memsize820(new))
  <1> DEFINE n == Len(new)
  <1>1. PICK g : /\ Memsize820(new) = g[n]
                 /\ g[0] = <<>> /\ \A k \in 0 .. n : g[k] \in Seq(Kept)
                 /\ \A k \in 0 .. n - 1 : g[k + 1] = AlsoTaken(new[k + 1], g[k])
    BY MemsizeRun
  <1>2. n \in Nat
    BY DEF Proper
  <1> DEFINE Good == {k \in 0 .. n : KeptSoFar(new, k, g[k])}
  <1>3. 0 \in Good
    <2>1. Len(g[0]) = 0 /\ 1 .. 0 = {}
      BY <1>1
    <2> QED BY <1>2, <2>1 DEF KeptSoFar
  <1>4. ASSUME NEW k \in 0 .. n - 1, k \in Good PROVE k + 1 \in Good
    <2>1. k + 1 \in 0 .. n /\ k \in 0 .. n
      BY <1>2
    <2> QED BY <1>1, <1>4, <2>1, KeptStep
  <1> HIDE DEF Good, n
  <1>5. n \in Good
    <2>1. \A k \in 0 .. n : k \in Good
      BY <1>2, <1>3, <1>4, ByPlace
    <2> QED BY <1>2, <2>1
  <1> QED BY <1>1, <1>2, <1>5 DEF Good, n

----------------------------------------------------------------------------
(* sort_pmap() leaves a map alone whose starts ascend, whatever lies before *)
(* its first element.                                                       *)
LEMMA StartsAscend ==
    ASSUME NEW map \in Seq(Kept),
           \A i \in 2 .. Len(map) : map[i - 1].start < map[i].start
    PROVE  \A i, j \in 1 .. Len(map) : i < j => map[i].start < map[j].start
  <1> DEFINE n == Len(map)
             Good == {k \in 0 .. n : \A i, j \in 1 .. n : i < j /\ j <= k =>
                                        map[i].start < map[j].start}
  <1>1. n \in Nat /\ \A i \in 1 .. n : map[i].start \in Nat
    <2>1. n \in Nat /\ \A i \in 1 .. n : map[i] \in Kept
      <3> HIDE DEF Kept
      <3> QED OBVIOUS
    <2> QED BY <2>1 DEF Kept
  <1> HIDE DEF n
  <1>2. 0 \in Good
    BY <1>1
  <1>3. ASSUME NEW k \in 0 .. n - 1, k \in Good PROVE k + 1 \in Good
    <2> SUFFICES ASSUME NEW i \in 1 .. n, NEW j \in 1 .. n, i < j, j <= k + 1
                 PROVE  map[i].start < map[j].start
      BY <1>1
    <2>1. CASE j <= k
      BY <1>3, <2>1
    <2>2. CASE ~(j <= k)
      <3>1. j = k + 1 /\ j \in 2 .. n /\ j - 1 = k /\ k \in 1 .. n /\ k <= k
        BY <1>1, <2>2
      <3>2. map[k].start < map[j].start
        BY <3>1 DEF n
      <3>3. i = k \/ map[i].start < map[k].start
        BY <1>1, <1>3, <3>1
      <3> QED BY <1>1, <3>1, <3>2, <3>3
    <2> QED BY <2>1, <2>2
  <1> HIDE DEF Good
  <1>4. n \in Good
    <2>1. \A k \in 0 .. n : k \in Good
      BY <1>1, <1>2, <1>3, ByPlace
    <2> QED BY <1>1, <2>1
  <1> QED BY <1>1, <1>4 DEF Good, n

(* Where an element goes: sort_pmap()'s inner loop.                         *)
Inserted(m, i, n) ==
    LET less == {k \in 0 .. i - 1 : m[i].start > m[k].start}
        j    == IF less = {} THEN -1
                ELSE (CHOOSE k \in less : \A l \in less : l <= k) + 1
    IN  IF i = j THEN m
        ELSE [k \in -1 .. n - 1 |-> IF k = j THEN m[i]
                                    ELSE IF k > j /\ k < i THEN m[k + 1] ELSE m[k]]
Sorting(map) ==
    {m \in [-1 .. Len(map) - 1 -> Kept] : \A k \in 0 .. Len(map) - 1 : m[k] = map[k + 1]}

LEMMA InsertedThere ==
    ASSUME NEW map \in Seq(Kept),
           \A i \in 2 .. Len(map) : map[i - 1].start < map[i].start,
           NEW m \in Sorting(map), NEW i \in 0 .. Len(map) - 1
    PROVE  Inserted(m, i, Len(map)) \in Sorting(map)
  <1> DEFINE n == Len(map)
             less == {k \in 0 .. i - 1 : m[i].start > m[k].start}
             j == IF less = {} THEN -1 ELSE (CHOOSE k \in less : \A l \in less : l <= k) + 1
  <1>1. n \in Nat /\ m \in [-1 .. n - 1 -> Kept] /\ \A k \in 0 .. n - 1 : m[k] = map[k + 1]
    <2>1. n \in Nat
      <3> HIDE DEF Kept
      <3> QED OBVIOUS
    <2> QED BY <2>1 DEF Sorting
  <1>2. \A k, l \in 1 .. n : k < l => map[k].start < map[l].start
    BY StartsAscend
  <1>3. \A k \in 1 .. n : map[k].start \in Nat
    <2>1. \A k \in 1 .. n : map[k] \in Kept
      <3> HIDE DEF Kept
      <3> QED OBVIOUS
    <2> QED BY <2>1 DEF Kept
  <1> HIDE DEF n
  <1>4. less = 0 .. i - 1
    <2> SUFFICES ASSUME NEW k \in 0 .. i - 1 PROVE m[i].start > m[k].start
      OBVIOUS
    <2>1. i \in 0 .. n - 1
      BY DEF n
    <2>2. k \in 0 .. n - 1 /\ k + 1 \in 1 .. n /\ i + 1 \in 1 .. n /\ k + 1 < i + 1
      BY <1>1, <2>1
    <2>3. map[k + 1].start < map[i + 1].start
      BY <1>2, <2>2
    <2>4. m[k] = map[k + 1] /\ m[i] = map[i + 1]
      BY <1>1, <2>1, <2>2
    <2> QED BY <1>3, <2>2, <2>3, <2>4
  <1>5. i \in Nat /\ i < n
    BY <1>1 DEF n
  <1>6. Inserted(m, i, n) = IF i = j THEN m
        ELSE [k \in -1 .. n - 1 |-> IF k = j THEN m[i]
                                    ELSE IF k > j /\ k < i THEN m[k + 1] ELSE m[k]]
    BY DEF Inserted
  <1> HIDE DEF less
  <1>7. CASE i # 0
    <2>1. less # {} /\ i - 1 \in less /\ \A l \in less : l <= i - 1 /\ l \in Int
      <3>1. i - 1 \in 0 .. i - 1 /\ \A l \in 0 .. i - 1 : l <= i - 1 /\ l \in Int
        BY <1>5, <1>7
      <3> QED BY <1>4, <3>1
    <2>2. (CHOOSE k \in less : \A l \in less : l <= k) = i - 1
      <3> DEFINE c == CHOOSE k \in less : \A l \in less : l <= k
      <3>1. c \in less /\ \A l \in less : l <= c
        BY <2>1
      <3> HIDE DEF c
      <3>2. c <= i - 1 /\ i - 1 <= c /\ c \in Int
        BY <2>1, <3>1
      <3>3. c = i - 1
        BY <1>5, <3>2
      <3> QED BY <3>3 DEF c
    <2>3. j = i
      BY <1>5, <2>1, <2>2
    <2> QED BY <1>6, <2>3 DEF n
  <1>8. CASE i = 0
    <2>1. less = {} /\ j = -1
      BY <1>4, <1>8
    <2>2. Inserted(m, i, n) = [k \in -1 .. n - 1 |-> IF k = -1 THEN m[0] ELSE m[k]]
      <3>1. ASSUME NEW k \in -1 .. n - 1 PROVE ~(k > -1 /\ k < 0)
        OBVIOUS
      <3> HIDE DEF j
      <3> QED BY <1>6, <1>8, <2>1, <3>1
    <2>3. 0 \in -1 .. n - 1 /\ \A k \in 0 .. n - 1 : k \in -1 .. n - 1 /\ k # -1
      BY <1>1, <1>5, <1>8
    <2>4. [k \in -1 .. n - 1 |-> IF k = -1 THEN m[0] ELSE m[k]] \in [-1 .. n - 1 -> Kept]
      <3> HIDE DEF Kept
      <3> QED BY <1>1, <2>3
    <2> HIDE DEF j
    <2> QED BY <1>1, <2>2, <2>3, <2>4 DEF Sorting, n
  <1> QED BY <1>7, <1>8 DEF n

LEMMA SortedAlready ==
    ASSUME NEW map \in Seq(Kept),
           \A i \in 2 .. Len(map) : map[i - 1].start < map[i].start
    PROVE  SortPmap(map) = map
  <1> DEFINE n == Len(map)
             T == Sorting(map)
             S == 1 .. n
             base == [k \in -1 .. n - 1 |-> IF k = -1 THEN Before ELSE map[k + 1]]
             order == [i \in 1 .. n |-> i - 1]
             H == [x \in S \X T |-> Inserted(x[2], x[1] - 1, n)]
             Is(f) == f = [s \in SUBSET S |->
                             IF s = {} THEN base
                             ELSE Inserted(f[s \ {Max(s)}], order[Max(s)], n)]
             iter == CHOOSE f : Is(f)
  <1>1. n \in Nat /\ DOMAIN order = S /\ DOMAIN map = 1 .. n /\ map = [k \in 1 .. n |-> map[k]]
    <2> HIDE DEF Kept
    <2> QED OBVIOUS
  <1>2. base \in T
    <2>1. Before \in Kept
      BY DEF Before, Kept
    <2>2. \A k \in 0 .. n - 1 : k \in -1 .. n - 1 /\ k # -1 /\ k + 1 \in 1 .. n
      BY <1>1
    <2>3. \A k \in -1 .. n - 1 : k = -1 \/ map[k + 1] \in Kept
      <3>1. \A k \in -1 .. n - 1 : k = -1 \/ k + 1 \in 1 .. n
        BY <1>1
      <3>2. \A k \in 1 .. n : map[k] \in Kept
        <4> HIDE DEF Kept
        <4> QED OBVIOUS
      <3> QED BY <3>1, <3>2
    <2>4. base \in [-1 .. n - 1 -> Kept]
      <3> HIDE DEF Kept
      <3> QED BY <2>1, <2>3
    <2>5. \A k \in 0 .. n - 1 : base[k] = map[k + 1]
      BY <2>2
    <2> HIDE DEF base
    <2> QED BY <2>4, <2>5 DEF Sorting
  <1>3. \A k \in S : order[k] = k - 1 /\ k - 1 \in 0 .. n - 1
    BY <1>1
  <1>4. H \in [S \X T -> T]
    <2>1. ASSUME NEW k \in S, NEW m \in T PROVE Inserted(m, k - 1, n) \in T
      BY <1>3, InsertedThere
    <2> HIDE DEF T, n
    <2> QED BY <2>1
  <1>5. PICK f : IsFold(f, n, T, base, H)
    <2> HIDE DEF T, base, n, H
    <2> QED BY <1>1, <1>2, <1>4, FoldExists
  <1>6. \A s : Greatest(s) = Max(s)
    BY DEF Greatest, Tables!Max, Max
  <1> HIDE DEF T, base, n, order
  <1>7. Is(f)
    <2>1. ASSUME NEW s \in SUBSET S, s # {}
          PROVE  f[s] = Inserted(f[Rest(s)], order[Greatest(s)], n)
      <3>1. Greatest(s) \in S /\ Rest(s) \in SUBSET S
        BY <1>1, <2>1, RestIsLess
      <3>2. f[Rest(s)] \in T /\ <<Greatest(s), f[Rest(s)]>> \in S \X T
        BY <1>5, <3>1 DEF IsFold
      <3> QED BY <1>3, <1>5, <2>1, <3>1, <3>2 DEF IsFold
    <2>2. f \in [SUBSET S -> T] /\ f[{}] = base
      BY <1>5 DEF IsFold
    <2> QED BY <1>6, <2>1, <2>2 DEF Rest
  <1>8. Is(iter)
    BY <1>7
  <1>9. SortPmap(map) = [k \in 1 .. n |-> iter[S][k - 1]]
    <2>1. SortPmap(map) = [k \in 1 .. n |->
              FoldLeft(LAMBDA m, i : Inserted(m, i, n), base, order)[k - 1]]
      BY DEF SortPmap, Inserted, base, n, order
    <2>2. FoldLeft(LAMBDA m, i : Inserted(m, i, n), base, order) = iter[S]
      BY <1>1 DEF FoldLeft, MapThenFoldSet
    <2> QED BY <2>1, <2>2
  <1> HIDE DEF iter
  <1>10. iter[{}] = base
    BY <1>8
  <1>11. ASSUME NEW s \in SUBSET S, s # {}, iter[Rest(s)] \in T
         PROVE  iter[s] = H[<<Greatest(s), iter[Rest(s)]>>]
    <2>1. iter[s] = Inserted(iter[Rest(s)], order[Greatest(s)], n)
      BY <1>6, <1>8, <1>11 DEF Rest
    <2>2. Greatest(s) \in S
      BY <1>1, <1>11, RestIsLess
    <2> QED BY <1>3, <1>11, <2>1, <2>2
  <1>12. PICK g : IsRun(g, n, T, base, H, iter[1 .. n])
    <2>1. \A s \in SUBSET (1 .. n) : s # {} /\ iter[Rest(s)] \in T =>
              iter[s] = H[<<Greatest(s), iter[Rest(s)]>>]
      BY <1>11
    <2>2. n \in Nat /\ base \in T /\ H \in [(1 .. n) \X T -> T] /\ iter[{}] = base
      BY <1>1, <1>2, <1>4, <1>10
    <2> HIDE DEF H
    <2> QED BY <2>1, <2>2, FoldRuns
  <1>13. iter[S] \in T
    BY <1>1, <1>12 DEF IsRun
  <1>14. \A k \in 1 .. n : iter[S][k - 1] = map[k]
    <2>1. \A k \in 0 .. n - 1 : iter[S][k] = map[k + 1]
      BY <1>13 DEF T, Sorting, n
    <2>2. \A k \in 1 .. n : k - 1 \in 0 .. n - 1 /\ (k - 1) + 1 = k
      BY <1>1
    <2> QED BY <2>1, <2>2
  <1> QED BY <1>1, <1>9, <1>14

----------------------------------------------------------------------------
(* Between 0 and the end of the map adj_mem() selects all pages of it, and  *)
(* counts each once.                                                        *)
Spaced(map) ==
    /\ map \in Seq(Kept)
    /\ \A i, j \in 1 .. Len(map) : i < j => map[i].end <= map[j].start
Apart(map) ==
    /\ Spaced(map)
    /\ \A i \in 1 .. Len(map) : map[i].start <= map[i].end
PagesAt(map, i) == map[i].start .. map[i].end - 1

LEMMA ApartType ==
    ASSUME NEW map, Spaced(map)
    PROVE  /\ Len(map) \in Nat /\ DOMAIN map = 1 .. Len(map)
           /\ \A i \in 1 .. Len(map) :
                 map[i] \in Kept /\ map[i].start \in Nat /\ map[i].end \in Nat
  <1>1. map \in Seq(Kept)
    BY DEF Spaced
  <1>2. Len(map) \in Nat /\ DOMAIN map = 1 .. Len(map) /\ \A i \in 1 .. Len(map) : map[i] \in Kept
    <2> HIDE DEF Kept
    <2> QED BY <1>1
  <1> QED BY <1>2 DEF Kept

LEMMA SelectionRun ==
    ASSUME NEW map, Apart(map), map # <<>>
    PROVE  \E g : LET n == Len(map)
                  IN  /\ AdjMem(map, 0, map[n].end) = g[n]
                      /\ g[0] = 0 /\ \A k \in 0 .. n : g[k] \in Int
                      /\ \A k \in 0 .. n - 1 : g[k + 1] = g[k] + (map[k + 1].end - map[k + 1].start)
  <1> DEFINE n == Len(map)
             upper == map[n].end
             T == Int
             S == 1 .. n
             base == 0
             Op(x, e) == x + SelectedOf(e, 0, upper)
             H == [x \in S \X T |-> x[2] + (map[x[1]].end - map[x[1]].start)]
             Is(f) == f = [s \in SUBSET S |->
                             IF s = {} THEN base ELSE Op(f[s \ {Max(s)}], map[Max(s)])]
             iter == CHOOSE f : Is(f)
  <1>1. n \in Nat /\ DOMAIN map = S
    BY ApartType DEF Apart
  <1>2. base \in T
    OBVIOUS
  <1>3. ASSUME NEW k \in S, NEW x \in T
        PROVE  /\ Op(x, map[k]) = x + (map[k].end - map[k].start)
               /\ x + (map[k].end - map[k].start) \in T
    <2>1. n \in S
      BY <1>1
    <2>2. /\ map[k].start \in Nat /\ map[k].end \in Nat /\ upper \in Nat
          /\ map[n].start \in Nat
      BY <2>1, ApartType DEF Apart
    <2>3. map[n].start <= upper /\ (k < n => map[k].end <= map[n].start)
      BY <2>1 DEF Apart, Spaced
    <2> HIDE DEF n
    <2>4. k = n \/ k < n
      BY <1>1
    <2>5. map[k].end <= upper /\ map[k].start >= 0
      <3>1. CASE k = n
        BY <2>2, <3>1
      <3>2. CASE k < n
        <4> HIDE DEF upper
        <4> QED BY <2>2, <2>3, <3>2
      <3> QED BY <2>4, <3>1, <3>2
    <2> HIDE DEF upper
    <2>6. SelectedOf(map[k], 0, upper) = map[k].end - map[k].start
      BY <2>2, <2>5 DEF SelectedOf
    <2> QED BY <2>2, <2>6
  <1>4. H \in [S \X T -> T]
    BY <1>3
  <1>5. PICK f : IsFold(f, n, T, base, H)
    <2> HIDE DEF T, base, n, H
    <2> QED BY <1>1, <1>2, <1>4, FoldExists
  <1>6. \A s : Greatest(s) = Max(s)
    BY DEF Greatest, Tables!Max, Max
  <1> HIDE DEF T, base, n, Op, upper
  <1>7. Is(f)
    <2>1. ASSUME NEW s \in SUBSET S, s # {}
          PROVE  f[s] = Op(f[Rest(s)], map[Greatest(s)])
      <3>1. Greatest(s) \in S /\ Rest(s) \in SUBSET S
        BY <1>1, <2>1, RestIsLess
      <3>2. f[Rest(s)] \in T /\ <<Greatest(s), f[Rest(s)]>> \in S \X T
        BY <1>5, <3>1 DEF IsFold
      <3>3. f[s] = f[Rest(s)] + (map[Greatest(s)].end - map[Greatest(s)].start)
        BY <1>5, <2>1, <3>2 DEF IsFold
      <3> QED BY <1>3, <3>1, <3>2, <3>3
    <2>2. f \in [SUBSET S -> T] /\ f[{}] = base
      BY <1>5 DEF IsFold
    <2> QED BY <1>6, <2>1, <2>2 DEF Rest
  <1>8. Is(iter)
    BY <1>7
  <1>9. AdjMem(map, 0, upper) = iter[S]
    BY <1>1 DEF AdjMem, FoldLeft, MapThenFoldSet, base, Op
  <1> HIDE DEF iter
  <1>10. iter[{}] = base
    BY <1>8
  <1>11. ASSUME NEW s \in SUBSET S, s # {}, iter[Rest(s)] \in T
         PROVE  iter[s] = H[<<Greatest(s), iter[Rest(s)]>>]
    <2>1. iter[s] = Op(iter[Rest(s)], map[Greatest(s)])
      BY <1>6, <1>8, <1>11 DEF Rest
    <2>2. Greatest(s) \in S
      BY <1>1, <1>11, RestIsLess
    <2> QED BY <1>3, <1>11, <2>1, <2>2
  <1>12. PICK g : IsRun(g, n, T, base, H, iter[1 .. n])
    <2>1. \A s \in SUBSET (1 .. n) : s # {} /\ iter[Rest(s)] \in T =>
              iter[s] = H[<<Greatest(s), iter[Rest(s)]>>]
      BY <1>11
    <2>2. n \in Nat /\ base \in T /\ H \in [(1 .. n) \X T -> T] /\ iter[{}] = base
      BY <1>1, <1>2, <1>4, <1>10
    <2> HIDE DEF H
    <2> QED BY <2>1, <2>2, FoldRuns
  <1>13. ASSUME NEW k \in 0 .. n - 1
         PROVE  g[k + 1] = g[k] + (map[k + 1].end - map[k + 1].start)
    <2>1. k \in 0 .. n /\ k + 1 \in S
      BY <1>1
    <2> QED BY <1>12, <2>1 DEF IsRun
  <1> QED BY <1>9, <1>12, <1>13 DEF IsRun, T, base, n, upper

LEMMA AllSelected ==
    ASSUME NEW map, Apart(map), map # <<>>
    PROVE  /\ IsFiniteSet(PagesOf(map))
           /\ AdjMem(map, 0, map[Len(map)].end) = Cardinality(PagesOf(map))
  <1> DEFINE n == Len(map)
             Upto(k) == UNION {PagesAt(map, i) : i \in 1 .. k}
  <1>1. PICK g : /\ AdjMem(map, 0, map[n].end) = g[n]
                 /\ g[0] = 0 /\ \A k \in 0 .. n : g[k] \in Int
                 /\ \A k \in 0 .. n - 1 : g[k + 1] = g[k] + (map[k + 1].end - map[k + 1].start)
    BY SelectionRun
  <1>2. n \in Nat /\ \A i \in 1 .. n : map[i].start \in Nat /\ map[i].end \in Nat
    BY ApartType DEF Apart
  <1>3. /\ \A i \in 1 .. n : map[i].start <= map[i].end
        /\ \A i, j \in 1 .. n : i < j => map[i].end <= map[j].start
    BY DEF Apart, Spaced
  <1> DEFINE Good == {k \in 0 .. n : IsFiniteSet(Upto(k)) /\ Cardinality(Upto(k)) = g[k]}
  <1>4. PagesOf(map) = Upto(n)
    BY DEF PagesOf, PagesAt
  <1> HIDE DEF n
  <1>5. 0 \in Good
    <2>1. Upto(0) = {}
      OBVIOUS
    <2>2. 0 \in 0 .. n
      BY <1>2
    <2> HIDE DEF Upto
    <2> QED BY <1>1, <2>1, <2>2, FS_EmptySet
  <1>6. ASSUME NEW k \in 0 .. n - 1, k \in Good PROVE k + 1 \in Good
    <2> DEFINE U == Upto(k)
               V == PagesAt(map, k + 1)
    <2>1. k + 1 \in 1 .. n /\ k + 1 \in 0 .. n /\ 1 .. k + 1 = 1 .. k \cup {k + 1}
          /\ \A i \in 1 .. k : i \in 1 .. n /\ i < k + 1
      BY <1>2
    <2>2. Upto(k + 1) = U \cup V
      BY <2>1
    <2>3. IsFiniteSet(V) /\ Cardinality(V) = map[k + 1].end - map[k + 1].start
      <3>1. map[k + 1].start \in Nat /\ map[k + 1].end \in Nat /\ map[k + 1].start <= map[k + 1].end
        BY <1>2, <1>3, <2>1
      <3> DEFINE a == map[k + 1].start
                 b == map[k + 1].end - 1
      <3>2. a \in Int /\ b \in Int
        BY <3>1
      <3>3. IsFiniteSet(a .. b) /\ Cardinality(a .. b) = IF a > b THEN 0 ELSE b - a + 1
        BY <3>2, FS_Interval
      <3> QED BY <3>1, <3>3 DEF PagesAt
    <2>4. U \cap V = {}
      <3> SUFFICES ASSUME NEW p \in U, p \in V PROVE FALSE
        OBVIOUS
      <3>1. PICK i \in 1 .. k : p \in PagesAt(map, i)
        OBVIOUS
      <3>2. map[i].end <= map[k + 1].start /\ map[i].end \in Nat /\ map[k + 1].start \in Nat
            /\ map[i].start \in Nat /\ map[k + 1].end \in Nat
        BY <1>2, <1>3, <2>1
      <3>3. p \in map[i].start .. map[i].end - 1 /\ p \in map[k + 1].start .. map[k + 1].end - 1
        BY <3>1 DEF PagesAt
      <3> QED BY <3>2, <3>3
    <2>5. IsFiniteSet(U) /\ Cardinality(U) = g[k]
      BY <1>6
    <2> HIDE DEF U, V
    <2>6. IsFiniteSet(U \cup V)
          /\ Cardinality(U \cup V) = Cardinality(U) + Cardinality(V) - Cardinality(U \cap V)
      BY <2>3, <2>5, FS_Union
    <2>7. Cardinality(U \cap V) = 0
      BY <2>4, FS_EmptySet
    <2>8. k \in 0 .. n /\ g[k] \in Int /\ map[k + 1].end - map[k + 1].start \in Int
      BY <1>1, <1>2, <2>1
    <2>9. Cardinality(U \cup V) = g[k + 1]
      BY <1>1, <2>3, <2>5, <2>6, <2>7, <2>8
    <2> QED BY <2>1, <2>2, <2>6, <2>9
  <1> HIDE DEF Good, Upto
  <1>7. n \in Good
    <2>1. \A k \in 0 .. n : k \in Good
      BY <1>2, <1>5, <1>6, ByPlace
    <2> QED BY <1>2, <2>1
  <1> QED BY <1>1, <1>4, <1>7 DEF Good, n

----------------------------------------------------------------------------
(* What mem_size() makes of a map that is tame.                             *)
LEMMA BuiltRight ==
    ASSUME sc \in Machines, Tame
    PROVE  /\ Proper(New) /\ \A i \in 1 .. Len(New) : Right(sc.e820, New[i])
           /\ \A a \in Nat : TypeAt(sc.e820, a) # 0 => Within(New, a)
           /\ Spaced(Built) /\ Built # <<>> /\ KeptSoFar(New, Len(New), Built)
           /\ MemSize(sc.e820, sc.alt_mem, sc.ext_mem) = Built
  <1>1. sc.e820 \in Seq(Entries) /\ E820MAX \in Nat
    BY MapsAssumption DEF Entries
  <1>2. Len(New) < E820MAX /\ Built # <<>>
    BY DEF Tame
  <1>3. New # <<>>
    <2> SUFFICES ASSUME New = <<>> PROVE Built = <<>>
      BY <1>2
    <2>1. Proper(<<>>) /\ Len(<<>>) = 0
      BY DEF Proper, Ascending
    <2>2. Built \in Seq(Kept) /\ KeptSoFar(<<>>, 0, Built)
      BY <2>1, MemsizeKeeps DEF Built
    <2>3. ~\E x \in 1 .. Len(Built) : TRUE
      BY <2>2 DEF KeptSoFar
    <2> HIDE DEF Kept
    <2>4. Len(Built) = 0
      BY <2>2, <2>3
    <2> QED BY <2>2, <2>4
  <1>4. ~Unreasonable(sc.e820)
    BY <1>3 DEF New, SanitizeE820Map
  <1>5. /\ New \in Seq(Stretch) /\ Ascending(New)
        /\ \A i \in 1 .. Len(New) : Right(sc.e820, New[i])
        /\ \A a \in Nat : TypeAt(sc.e820, a) # 0 => Within(New, a)
    BY <1>1, <1>2, <1>4, NewMapRight DEF New
  <1>6. Proper(New)
    BY <1>5, RightType DEF Proper
  <1>7. Built \in Seq(Kept) /\ KeptSoFar(New, Len(New), Built)
    BY <1>6, MemsizeKeeps DEF Built
  <1>8. Spaced(Built)
    BY <1>7 DEF Spaced, KeptSoFar
  <1>9. MemSize(sc.e820, sc.alt_mem, sc.ext_mem) = Built
    <2>1. Len(New) \in Nat /\ Len(New) # 0
      <3>1. New \in Seq(Stretch)
        BY <1>5
      <3> HIDE DEF Stretch
      <3> QED BY <1>3, <3>1
    <2>2. ~(Len(New) < 1 \/ Len(New) > E820MAX)
      BY <1>1, <1>2, <2>1
    <2>3. MemSize(sc.e820, sc.alt_mem, sc.ext_mem) = SortPmap(Built)
      BY <2>2 DEF MemSize, New, Built
    <2>4. \A i \in 2 .. Len(Built) : Built[i - 1].start < Built[i].start
      BY DEF Tame
    <2> QED BY <1>7, <2>3, <2>4, SortedAlready
  <1> QED BY <1>2, <1>5, <1>6, <1>7, <1>8, <1>9

LEMMA PagesAreRam ==
    ASSUME sc \in Machines, Tame, NEW p \in PagesOf(Built), NEW a \in Units(p)
    PROVE  p \in Nat /\ Ram(a) /\ (Hole(a) => \E i \in Useful : Covers(New[i]))
  <1>1. PICK x \in 1 .. Len(Built) : p \in Built[x].start .. Built[x].end - 1
    BY DEF PagesOf
  <1>2. PICK i \in 1 .. Len(New) : Taken(New[i]) /\ Built[x] = Seg(New[i])
    BY BuiltRight DEF KeptSoFar
  <1> DEFINE e == New[i]
  <1>3. Right(sc.e820, e) /\ e.addr \in Nat /\ EndOf(e) \in Nat /\ e.addr < EndOf(e)
    BY BuiltRight, RightType
  <1>4. p \in Seg(e).start .. Seg(e).end - 1 /\ ~InHole(e) /\ Usable(e)
    BY <1>1, <1>2 DEF Taken
  <1> HIDE DEF e
  <1>5. a \in Nat /\ e.addr <= a /\ a < EndOf(e) /\ (Hole(a) => Covers(e))
    BY <1>3, <1>4, SegmentPages
  <1>6. TypeAt(sc.e820, a) = e.type
    BY <1>3, <1>5 DEF Right
  <1>7. p \in Nat
    BY <1>3, <1>4, SegmentIs DEF Kept
  <1> QED BY <1>4, <1>5, <1>6, <1>7 DEF Ram, Usable, Useful, e

LEMMA WholeIsTaken ==
    ASSUME sc \in Machines, Tame, NEW p \in Nat, Whole(p), ~\E a \in Units(p) : Hole(a)
    PROVE  p \in PagesOf(Built)
  <1>1. PG \in Nat \ {0} /\ p * PG \in Nat
    BY MapsAssumption
  <1>2. \A a : a \in Units(p) <=> a \in Nat /\ p * PG <= a /\ a < p * PG + PG
    BY <1>1 DEF Units
  <1>3. PICK t \in {E820_RAM, E820_ACPI} : \A a \in Units(p) : TypeAt(sc.e820, a) = t
    BY DEF Whole
  <1>4. p * PG \in Units(p) /\ TypeAt(sc.e820, p * PG) = t /\ t # 0
    BY <1>1, <1>2, <1>3 DEF E820_RAM, E820_ACPI
  <1>5. PICK i \in 1 .. Len(New) : New[i].addr <= p * PG /\ p * PG < EndOf(New[i])
    BY <1>1, <1>4, BuiltRight DEF Within
  <1> DEFINE e == New[i]
  <1>6. Right(sc.e820, e) /\ e.addr \in Nat /\ EndOf(e) \in Nat /\ e.addr < EndOf(e)
    BY BuiltRight, RightType
  <1> HIDE DEF e
  <1>7. e.type = t /\ Usable(e)
    <2>1. TypeAt(sc.e820, p * PG) = e.type
      BY <1>1, <1>5, <1>6 DEF Right, e
    <2> QED BY <1>3, <1>4, <2>1 DEF Usable
  <1>8. p * PG + PG <= EndOf(e)
    <2> SUFFICES ASSUME EndOf(e) < p * PG + PG PROVE FALSE
      BY <1>1, <1>6
    <2>1. EndOf(e) \in Units(p) \ {p * PG}
      BY <1>1, <1>2, <1>5, <1>6 DEF e
    <2>2. TypeAt(sc.e820, EndOf(e)) = e.type
      BY <1>3, <1>7, <2>1
    <2>3. Divided(sc.e820, EndOf(e))
      BY <1>6, <2>2 DEF Right
    <2> QED BY <2>1, <2>3 DEF Divided, Whole
  <1>9. ~InHole(e) /\ p \in Seg(e).start .. Seg(e).end - 1
    BY <1>5, <1>6, <1>8, PagesOfSegment DEF e
  <1>10. PICK x \in 1 .. Len(Built) : Built[x] = Seg(e)
    <2>1. Taken(e)
      BY <1>7, <1>9 DEF Taken
    <2> QED BY <2>1, BuiltRight DEF KeptSoFar, e
  <1> QED BY <1>9, <1>10 DEF PagesOf

(* The page for the barrier.                                                *)
LEMMA BarrierTaken ==
    ASSUME NEW map, Spaced(map), map # <<>>
    PROVE  LET less == WithoutBarrier(map)
               b    == map[1].end - 1
           IN  /\ less[1].end = b /\ b \in Int
               /\ PagesOf(less) \subseteq PagesOf(map)
               /\ PagesOf(map) \subseteq PagesOf(less) \cup {b}
               /\ map[1].start < map[1].end => b \in PagesOf(map) /\ b \notin PagesOf(less)
  <1> DEFINE n == Len(map)
             less == WithoutBarrier(map)
             b == map[1].end - 1
  <1>1. /\ n \in Nat /\ DOMAIN map = 1 .. n
        /\ \A i \in 1 .. n : map[i] \in Kept /\ map[i].start \in Nat /\ map[i].end \in Nat
    BY ApartType
  <1>2. 1 \in 1 .. n
    <2>1. map \in Seq(Kept)
      BY DEF Spaced
    <2> HIDE DEF Kept
    <2> QED BY <2>1
  <1>3. /\ less = [map EXCEPT ![1] = [map[1] EXCEPT !.end = b]]
        /\ \A i \in 1 .. n : i # 1 => less[i] = map[i]
        /\ less[1] = [map[1] EXCEPT !.end = b] /\ DOMAIN less = 1 .. n
    BY <1>1, <1>2 DEF WithoutBarrier
  <1>4. less[1].end = b /\ less[1].start = map[1].start
    <2>1. map[1] = [start |-> map[1].start, end |-> map[1].end]
      BY <1>1, <1>2 DEF Kept
    <2> QED BY <1>3, <2>1
  <1>5. Len(less) = n
    <2>1. less \in Seq([start : Nat, end : Int])
      <3> DEFINE R == [start : Nat, end : Int]
      <3>1. \A i \in 1 .. n : less[i] \in R
        <4> TAKE i \in 1 .. n
        <4>1. CASE i = 1
          <5>1. less[1] = [start |-> map[1].start, end |-> b]
            <6>1. map[1] = [start |-> map[1].start, end |-> map[1].end]
              BY <1>1, <1>2 DEF Kept
            <6> QED BY <1>3, <6>1
          <5> QED BY <1>1, <1>2, <4>1, <5>1
        <4>2. CASE i # 1
          BY <1>1, <1>3, <4>2 DEF Kept
        <4> QED BY <4>1, <4>2
      <3>2. less = [i \in 1 .. n |-> less[i]]
        BY <1>1, <1>3
      <3> HIDE DEF R, less, n
      <3>3. [i \in 1 .. n |-> less[i]] \in Seq(R)
        BY <1>1, <3>1
      <3>4. less \in Seq(R)
        BY <3>2, <3>3
      <3> QED BY <3>4 DEF R
    <2>2. DOMAIN less = 1 .. Len(less) /\ Len(less) \in Nat
      <3> DEFINE R == [start : Nat, end : Int]
      <3> HIDE DEF R, less
      <3> QED BY <2>1 DEF R
    <2> HIDE DEF less, n
    <2> QED BY <1>1, <1>3, <2>2
  <1>6. \A p : p \in PagesOf(less) <=> \E i \in 1 .. n : p \in less[i].start .. less[i].end - 1
    BY <1>5 DEF PagesOf
  <1>7. \A p : p \in PagesOf(map) <=> \E i \in 1 .. n : p \in map[i].start .. map[i].end - 1
    BY DEF PagesOf
  <1> HIDE DEF less, n
  <1>8. b \in Int /\ map[1].start \in Nat /\ map[1].end \in Nat
    BY <1>1, <1>2
  <1>9. PagesOf(less) \subseteq PagesOf(map)
    <2> SUFFICES ASSUME NEW p \in PagesOf(less) PROVE p \in PagesOf(map)
      OBVIOUS
    <2>1. PICK i \in 1 .. n : p \in less[i].start .. less[i].end - 1
      BY <1>6
    <2>2. i = 1 => p \in map[1].start .. map[1].end - 1
      BY <1>4, <1>8, <2>1
    <2>3. p \in map[i].start .. map[i].end - 1
      BY <1>3, <2>1, <2>2
    <2> QED BY <1>7, <2>3
  <1>10. ASSUME NEW p \in PagesOf(map), p # b PROVE p \in PagesOf(less)
    <2>1. PICK i \in 1 .. n : p \in map[i].start .. map[i].end - 1
      BY <1>7
    <2>2. i = 1 => p \in less[1].start .. less[1].end - 1
      BY <1>4, <1>8, <1>10, <2>1
    <2>3. p \in less[i].start .. less[i].end - 1
      BY <1>3, <2>1, <2>2
    <2> QED BY <1>6, <2>3
  <1>11. ASSUME map[1].start < map[1].end PROVE b \in PagesOf(map) /\ b \notin PagesOf(less)
    <2>1. b \in map[1].start .. map[1].end - 1
      BY <1>8, <1>11
    <2>2. b \in PagesOf(map)
      BY <1>2, <1>7, <2>1
    <2>3. ASSUME NEW i \in 1 .. n, b \in less[i].start .. less[i].end - 1 PROVE FALSE
      <3>1. i # 1
        BY <1>4, <1>8, <2>3
      <3>2. less[i] = map[i] /\ 1 < i
        BY <1>1, <1>3, <3>1
      <3>3. map[1].end <= map[i].start /\ map[i].start \in Nat /\ map[i].end \in Nat
        BY <1>1, <1>2, <3>2 DEF Spaced, n
      <3> QED BY <1>8, <2>3, <3>2, <3>3
    <2> QED BY <1>6, <2>2, <2>3
  <1> QED BY <1>4, <1>8, <1>9, <1>10, <1>11 DEF less

(* From SizeMemory on, the map is the machine's.                            *)
Measured ==
    /\ sc \in Machines
    /\ Sized => LET map == MemSize(sc.e820, sc.alt_mem, sc.ext_mem)
                IN  /\ pmap = WithoutBarrier(map) /\ barr = pmap[1].end
                    /\ selected_pages = AdjMem(map, 0, map[Len(map)].end)

LEMMA MeasuredInit == StartInit => Measured
  <1> SUFFICES ASSUME StartInit PROVE Measured
    OBVIOUS
  <1>1. at[0] = "begin"
    BY Zero DEF StartInit
  <1> QED BY <1>1, StartInitIsInit DEF Measured, Sized

LEMMA MeasuredStep ==
    ASSUME TypeOK, Measured, [StartNext]_allVars
    PROVE  Measured'
  <1>1. sc \in Machines /\ sc' = sc
    BY StartStepIsStep DEF Measured
  <1>2. CASE SizeMemory
    BY <1>1, <1>2 DEF SizeMemory, Measured
  <1>3. CASE /\ at[0] = "begin" => at'[0] = "begin"
             /\ pmap' = pmap /\ selected_pages' = selected_pages /\ barr' = barr
    BY <1>1, <1>3 DEF Measured, Sized
  <1>4. CASE FindCpus
    BY <1>3, <1>4 DEF FindCpus, InitialiseCpus
  <1>5. CASE BootStep
    BY <1>3, <1>5 DEF BootStep, own, BootAp, Answered, TimedOut
  <1>6. CASE GetReady
    BY <1>3, <1>6 DEF GetReady, Ready
  <1>7. ASSUME NEW c \in CPUs \ {0}, ApStep(c)
        PROVE  Measured'
    <2>1. at'[0] = at[0]
      BY <1>7, Zero DEF ApStep, Other, ApStart, SwitchStack, ApBooted, Lock, ReadOrd, SetOrd, Step,
                        TypeOK
    <2>2. pmap' = pmap /\ selected_pages' = selected_pages /\ barr' = barr
      BY <1>7 DEF ApStep, own
    <2> QED BY <1>3, <2>1, <2>2
  <1>8. CASE MeetStep
    <2>1. PICK b \in Barriers : Meet(b)
      BY <1>8 DEF MeetStep
    <2>2. at'[0] = (IF at[0] = b THEN After(b) ELSE at[0])
      BY <2>1, Zero DEF Meet
    <2>3. pmap' = pmap /\ selected_pages' = selected_pages /\ barr' = barr
      BY <1>8 DEF MeetStep, own
    <2> QED BY <1>3, <2>2, <2>3 DEF Barriers
  <1>9. CASE UNCHANGED allVars
    BY <1>3, <1>9 DEF allVars, vars
  <1> QED BY <1>2, <1>4, <1>5, <1>6, <1>7, <1>8, <1>9 DEF StartNext

LEMMA MeasuredTestsTheRam == Measured => TestsTheRam
  <1> SUFFICES ASSUME Measured, Sized, Tame PROVE TestsTheRam
    BY DEF TestsTheRam
  <1>1. sc \in Machines /\ Spaced(Built) /\ Built # <<>>
    BY BuiltRight DEF Measured
  <1>2. /\ barr = Built[1].end - 1
        /\ PagesOf(pmap) \subseteq PagesOf(Built)
        /\ PagesOf(Built) \subseteq PagesOf(pmap) \cup {barr}
    BY <1>1, BuiltRight, BarrierTaken DEF Measured
  <1>3. \A p \in PagesOf(pmap) : \A a \in Units(p) :
            Ram(a) /\ (Hole(a) => \E i \in Useful : Covers(New[i]))
    BY <1>1, <1>2, PagesAreRam
  <1>4. ASSUME NEW p \in 0 .. PageDown(ADDR_TOP) - 1, Whole(p), ~\E a \in Units(p) : Hole(a)
        PROVE  p \in PagesOf(pmap) \/ p = barr
    <2>1. p \in Nat
      BY MapsAssumption, PageRounds
    <2>2. p \in PagesOf(Built)
      BY <1>1, <1>4, <2>1, WholeIsTaken
    <2> QED BY <1>2, <2>2
  <1> QED BY <1>3, <1>4 DEF TestsTheRam

LEMMA MeasuredKeepsBarrierOut == Measured => BarrierKeptOut
  <1> SUFFICES ASSUME Measured, Sized, Tame, Forward, Built[1].start < Built[1].end
               PROVE  BarrierKeptOut
    BY DEF BarrierKeptOut
  <1>1. /\ sc \in Machines /\ Spaced(Built) /\ Apart(Built) /\ Built # <<>>
        /\ MemSize(sc.e820, sc.alt_mem, sc.ext_mem) = Built
    BY BuiltRight DEF Measured, Apart, Forward
  <1>2. /\ pmap = WithoutBarrier(Built) /\ barr = Built[1].end - 1
        /\ PagesOf(Built) \subseteq PagesOf(pmap) \cup {barr}
        /\ PagesOf(pmap) \subseteq PagesOf(Built)
        /\ barr \in PagesOf(Built) /\ barr \notin PagesOf(pmap)
    BY <1>1, BarrierTaken DEF Measured
  <1>3. \A a \in Units(barr) : Ram(a)
    BY <1>1, <1>2, PagesAreRam
  <1>4. selected_pages = Cardinality(PagesOf(Built)) /\ IsFiniteSet(PagesOf(Built))
    BY <1>1, AllSelected DEF Measured
  <1>5. PagesOf(pmap) = PagesOf(Built) \ {barr}
    BY <1>2
  <1>6. Cardinality(PagesOf(pmap)) = Cardinality(PagesOf(Built)) - 1
        /\ Cardinality(PagesOf(Built)) \in Nat
    <2> DEFINE S == PagesOf(Built)
    <2>1. IsFiniteSet(S) /\ barr \in S
      BY <1>2, <1>4
    <2> HIDE DEF S
    <2>2. Cardinality(S \ {barr}) = Cardinality(S) - 1 /\ Cardinality(S) \in Nat
      BY <2>1, FS_RemoveElement, FS_CardinalityType
    <2> QED BY <1>5, <2>2 DEF S
  <1> QED BY <1>2, <1>3, <1>4, <1>6 DEF BarrierKeptOut

LEMMA StartIsMeasured == StartSpec => []Measured
  <1>1. StartInit => Measured
    BY MeasuredInit
  <1>2. TypeOK /\ Measured /\ [StartNext]_allVars => Measured'
    BY MeasuredStep
  <1>3. StartSpec => []TypeOK
    BY StartsAsSmpBoot, Typing, PTL
  <1> QED BY <1>1, <1>2, <1>3, PTL DEF StartSpec

(* Whatever the firmware's entries are, in whatever order and however they  *)
(* overlap, and whatever a page's size: all pages that are RAM of one kind, *)
(* and no others, are tested (memsize.c:116, 198).                          *)
THEOREM RamIsTested == StartSpec => []TestsTheRam
  <1>1. Measured => TestsTheRam
    BY MeasuredTestsTheRam
  <1> QED BY <1>1, StartIsMeasured, PTL

(* In the same way the barrier's page is in RAM, and all others are counted *)
(* once and tested (main.c:428, memsize.c:70).                              *)
THEOREM BarrierIsKeptOut == StartSpec => []BarrierKeptOut
  <1>1. Measured => BarrierKeptOut
    BY MeasuredKeepsBarrierOut
  <1> QED BY <1>1, StartIsMeasured, PTL

=============================================================================
