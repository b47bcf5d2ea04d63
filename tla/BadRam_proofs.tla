--------------------------- MODULE BadRam_proofs ---------------------------
(***************************************************************************)
(* Proofs about BadRam for any word size and any length of the list: types *)
(* are preserved, and every address inserted stays covered until a          *)
(* relocation goes astray.                                                  *)
(***************************************************************************)
EXTENDS BadRam, FiniteSetTheorems, WellFoundedInduction, TLAPS

(* A set of naturals has a least element. *)
LEMMA LeastNat ==
    ASSUME NEW S, S \subseteq Nat, S # {}
    PROVE  \E x \in S : \A y \in S : x <= y
<1> DEFINE Less == {ss \in Nat \X Nat : ss[1] < ss[2]}
<1>1. IsWellFoundedOn(Less, Nat)
  BY NatLessThanWellFounded DEF OpToRel
<1>2. PICK x \in S : \A y \in S : <<y, x>> \notin Less
  BY <1>1, WFMin
<1>3. ASSUME NEW y \in S PROVE x <= y
  <2>1. x \in Nat /\ y \in Nat
    OBVIOUS
  <2>2. <<y, x>> \in Nat \X Nat /\ <<y, x>>[1] = y /\ <<y, x>>[2] = x
    BY <2>1
  <2>3. ~ (y < x)
    BY <1>2, <2>2
  <2> QED  BY <2>1, <2>3
<1> QED  BY <1>3

(* Powers of two up to 2^W, by the smallest exponent that would fail. *)
LEMMA PowerType == \A n \in 0 .. W : 2^n \in Nat \ {0}
<1> DEFINE Bad == {n \in 0 .. W : 2^n \notin Nat \ {0}}
<1> SUFFICES ASSUME Bad # {} PROVE FALSE
  OBVIOUS
<1>1. PICK n \in Bad : \A m \in Bad : n <= m
  <2>1. Bad \subseteq Nat
    BY WAssumption
  <2> HIDE DEF Bad
  <2> QED  BY <2>1, LeastNat
<1>2. CASE n = 0
  BY <1>2, PowerAssumption
<1>3. CASE n # 0
  <2>1. n - 1 \in 0 .. W - 1 /\ n - 1 \notin Bad
    BY <1>1, <1>3, WAssumption
  <2>2. 2^(n - 1) \in Nat \ {0} /\ 2^((n - 1) + 1) = 2 * 2^(n - 1)
    BY <2>1, WAssumption, PowerAssumption
  <2>3. (n - 1) + 1 = n
    BY <2>1
  <2> QED  BY <2>2, <2>3
<1> QED  BY <1>2, <1>3

LEMMA PowerStep ==
    ASSUME NEW n \in 1 .. W
    PROVE  n - 1 \in 0 .. W /\ 2^n = 2 * 2^(n - 1)
<1>1. n - 1 \in 0 .. W - 1 /\ (n - 1) + 1 = n
  BY WAssumption
<1>2. 2^((n - 1) + 1) = 2 * 2^(n - 1)
  BY <1>1, PowerAssumption
<1> QED  BY <1>1, <1>2, WAssumption

LEMMA PowerGrows == \A m \in 0 .. W : \A n \in 0 .. W : m < n => 2^m < 2^n
<1> SUFFICES ASSUME NEW m \in 0 .. W PROVE \A n \in 0 .. W : m < n => 2^m < 2^n
  OBVIOUS
<1> DEFINE Bad == {n \in 0 .. W : m < n /\ ~(2^m < 2^n)}
<1> SUFFICES ASSUME Bad # {} PROVE FALSE
  OBVIOUS
<1>1. PICK n \in Bad : \A k \in Bad : n <= k
  <2>1. Bad \subseteq Nat
    BY WAssumption
  <2> HIDE DEF Bad
  <2> QED  BY <2>1, LeastNat
<1>2. n \in 1 .. W /\ n - 1 \in 0 .. W /\ n - 1 \notin Bad
  BY <1>1, WAssumption
<1>3. /\ 2^n = 2 * 2^(n - 1)
      /\ 2^m \in Nat \ {0} /\ 2^(n - 1) \in Nat \ {0} /\ 2^n \in Nat \ {0}
  BY <1>2, PowerStep, PowerType
<1>4. CASE m = n - 1
  <2>1. 2^m < 2^n
    BY <1>3, <1>4
  <2> QED  BY <1>1, <2>1
<1>5. CASE m # n - 1
  <2>1. 2^m < 2^(n - 1)
    BY <1>1, <1>2, <1>5
  <2>2. 2^m < 2^n
    BY <1>3, <2>1
  <2> QED  BY <1>1, <2>2
<1> QED  BY <1>4, <1>5

(* What is subtracted and taken modulo M as unsigned words are. *)
LEMMA Modulo ==
    ASSUME NEW M \in Nat \ {0}, NEW a \in 0 .. M - 1, NEW b \in 0 .. M - 1
    PROVE  (a - b) % M = IF a >= b THEN a - b ELSE a - b + M
OBVIOUS

(* A count of addresses is an unsigned word: 0 for an empty mask. *)
LEMMA Counted ==
    ASSUME NEW mask
    PROVE  /\ IsFiniteSet(Bits \ mask) /\ Cardinality(Bits \ mask) \in 0 .. W
           /\ Addresses(mask) \in 0 .. 2^W - 1
           /\ Addresses(mask) = IF Cardinality(Bits \ mask) = W THEN 0
                                ELSE 2^Cardinality(Bits \ mask)
<1> DEFINE zeros == Cardinality(Bits \ mask)
<1>1. IsFiniteSet(Bits) /\ Cardinality(Bits) = W
  <2>1. 0 \in Int /\ W - 1 \in Int /\ ~(0 > W - 1)
    BY WAssumption
  <2>2. IsFiniteSet(0 .. W - 1) /\ Cardinality(0 .. W - 1) = (W - 1) - 0 + 1
    BY <2>1, FS_Interval
  <2> QED  BY <2>2, WAssumption DEF Bits
<1>2. IsFiniteSet(Bits \ mask) /\ zeros \in Nat /\ zeros <= W
  <2>1. Bits \ mask \in SUBSET Bits
    OBVIOUS
  <2> QED  BY <1>1, <2>1, FS_Subset, FS_CardinalityType
<1>3. zeros \in 0 .. W
  BY <1>2, WAssumption
<1> HIDE DEF zeros
<1>4. 2^W \in Nat \ {0} /\ 2^zeros \in Nat \ {0}
  BY <1>3, PowerType, WAssumption
<1>5. Addresses(mask) = 2^zeros % 2^W
  BY DEF Addresses, zeros
<1>6. CASE zeros = W
  <2>1. 2^zeros % 2^W = 0
    BY <1>4, <1>6
  <2> QED  BY <1>2, <1>3, <1>4, <1>5, <1>6, <2>1 DEF zeros
<1>7. CASE zeros # W
  <2>1. 2^zeros < 2^W
    BY <1>3, <1>7, PowerGrows, WAssumption
  <2>2. 2^zeros % 2^W = 2^zeros
    BY <1>4, <2>1
  <2> QED  BY <1>2, <1>3, <1>4, <1>5, <1>7, <2>1, <2>2 DEF zeros
<1> QED  BY <1>6, <1>7

(* A cost is the difference of two counts, as an unsigned word. *)
LEMMA Cost ==
    ASSUME NEW p, NEW q
    PROVE  LET new == Addresses(Combine(p, q).mask)
               old == Addresses(p.mask)
           IN  /\ CombiCost(p, q) \in 0 .. 2^W - 1
               /\ CombiCost(p, q) = IF new >= old THEN new - old ELSE new - old + 2^W
<1> DEFINE new == Addresses(Combine(p, q).mask)
           old == Addresses(p.mask)
<1>1. 2^W \in Nat \ {0}
  BY PowerType, WAssumption
<1>2. new \in 0 .. 2^W - 1 /\ old \in 0 .. 2^W - 1
  BY Counted
<1>3. CombiCost(p, q) = (new - old) % 2^W
  BY DEF CombiCost
<1> HIDE DEF new, old
<1>4. (new - old) % 2^W = IF new >= old THEN new - old ELSE new - old + 2^W
  BY <1>1, <1>2, Modulo
<1>5. CombiCost(p, q) \in 0 .. 2^W - 1
  BY <1>1, <1>2, <1>3, <1>4
<1> QED  BY <1>3, <1>4, <1>5 DEF new, old

LEMMA CostType ==
    ASSUME NEW p, NEW q
    PROVE  CombiCost(p, q) \in Nat
BY Cost, PowerType, WAssumption

(* A search finds one of the pairs that are cheap enough, if there are any. *)
LEMMA CheapIndexFound ==
    ASSUME NEW pairs, NEW num \in Nat, NEW q, NEW mincost,
           Cheap(pairs, num, q, mincost) # {}
    PROVE  CheapIndex(pairs, num, q, mincost) \in Cheap(pairs, num, q, mincost)
<1> DEFINE cost(i) == CombiCost(pairs[i], q)
           cheap   == Cheap(pairs, num, q, mincost)
<1> SUFFICES \E i \in cheap : \A j \in cheap :
                          cost(i) < cost(j) \/ (cost(i) = cost(j) /\ i >= j)
  BY DEF CheapIndex
<1>1. cheap # {}
  OBVIOUS
<1>2. cheap \subseteq 0 .. num - 1
  BY DEF Cheap
<1>3. \A i \in cheap : cost(i) \in Nat
  BY CostType
<1>4. PICK m \in {cost(i) : i \in cheap} : \A y \in {cost(i) : i \in cheap} : m <= y
  <2> DEFINE costs == {cost(i) : i \in cheap}
  <2>1. costs \subseteq Nat /\ costs # {}
    BY <1>1, <1>3
  <2> HIDE DEF cost, cheap
  <2> QED  BY <2>1, LeastNat
<1> DEFINE least == {i \in cheap : cost(i) = m}
           below == {num - 1 - i : i \in least}
<1>5. least # {} /\ least \subseteq 0 .. num - 1
  BY <1>2, <1>4
<1>6. PICK d \in below : \A y \in below : d <= y
  <2>1. below \subseteq Nat /\ below # {}
    <3>1. \A i \in least : num - 1 - i \in Nat
      BY <1>5
    <3> HIDE DEF least
    <3> QED  BY <1>5, <3>1
  <2> HIDE DEF below
  <2> QED  BY <2>1, LeastNat
<1>7. PICK i \in least : d = num - 1 - i
  BY <1>6
<1>8. ASSUME NEW j \in cheap
      PROVE  cost(i) < cost(j) \/ (cost(i) = cost(j) /\ i >= j)
  <2>1. cost(i) = m /\ i \in cheap
    BY <1>7
  <2>2. m <= cost(j) /\ m \in Nat /\ cost(j) \in Nat
    BY <1>3, <1>4
  <2>3. CASE m < cost(j)
    BY <2>1, <2>3
  <2>4. CASE m = cost(j)
    <3>1. j \in least /\ num - 1 - j \in below
      BY <2>4
    <3>2. num - 1 - i <= num - 1 - j
      BY <1>6, <1>7, <3>1
    <3>3. i \in Int /\ j \in Int
      BY <1>5, <1>7, <3>1
    <3>4. i >= j
      BY <3>2, <3>3
    <3> QED  BY <2>1, <2>4, <3>4
  <2> QED  BY <2>2, <2>3, <2>4
<1> QED  BY <1>7, <1>8

(* Whatever the pairs, a search ends with an index below num, or with None. *)
LEMMA CheapIndexRange ==
    ASSUME NEW pairs, NEW num \in Nat, NEW q, NEW mincost
    PROVE  CheapIndex(pairs, num, q, mincost) \in 0 .. num - 1 \cup {None}
<1> DEFINE cheap == Cheap(pairs, num, q, mincost)
<1>1. CASE cheap = {}
  BY <1>1 DEF CheapIndex
<1>2. CASE cheap # {}
  <2>1. CheapIndex(pairs, num, q, mincost) \in cheap
    BY <1>2, CheapIndexFound
  <2>2. cheap \subseteq 0 .. num - 1
    BY DEF Cheap
  <2> QED  BY <2>1, <2>2
<1> QED  BY <1>1, <1>2

LEMMA NothingCheap ==
    ASSUME NEW pairs, NEW num \in Nat, NEW q, NEW mincost
    PROVE  CheapIndex(pairs, num, q, mincost) = None
               <=> Cheap(pairs, num, q, mincost) = {}
<1>1. CASE Cheap(pairs, num, q, mincost) = {}
  BY <1>1 DEF CheapIndex
<1>2. CASE Cheap(pairs, num, q, mincost) # {}
  <2>1. CheapIndex(pairs, num, q, mincost) \in 0 .. num - 1
    BY <1>2, CheapIndexFound DEF Cheap
  <2> QED  BY <1>2, <2>1 DEF None
<1> QED  BY <1>1, <1>2

(* The same for the search of relocateidx. *)
LEMMA RelocateIdxRange ==
    ASSUME NEW pairs, NEW num \in Nat, NEW i
    PROVE  RelocateIdx(pairs, num, i) \in 0 .. num - 1 \cup {None}
BY CheapIndexRange DEF RelocateIdx

----------------------------------------------------------------------------
(* combine() loses nothing: what either pair covers, the result covers. *)
LEMMA CombineCovers ==
    ASSUME NEW p, NEW q, NEW a, Covers(p, a) \/ Covers(q, a)
    PROVE  Covers(Combine(p, q), a) /\ Covers(Combine(q, p), a)
BY DEF Covers, Combine, CombineMask

LEMMA CombineType ==
    ASSUME NEW p \in Pairs, NEW q \in Pairs
    PROVE  Combine(p, q) \in Pairs
BY DEF Combine, CombineMask, Pairs, Words

LEMMA PairFacts ==
    ASSUME NEW a \in Words
    PROVE  Pair(a) \in Pairs /\ Covers(Pair(a), a)
BY DEF Pair, Pairs, Words, DefaultMask, Covers

----------------------------------------------------------------------------
(* Type correctness: the list never outgrows its array, and no index leaves *)
(* it (patn.c:105-144).                                                     *)
LEMMA TypeStep ==
    ASSUME TypeOK, [Next]_vars
    PROVE  TypeOK'
<1> USE MaxAssumption, ErrorsAssumption DEF TypeOK, Slots
<1> Errors \subseteq Words
  BY DEF Longwords, DefaultMask, Words
<1>0. (astray \in BOOLEAN)'
  <2>1. CASE Relocate
    BY <2>1 DEF Relocate
  <2>2. CASE Restart
    BY <2>2 DEF Restart
  <2>3. ASSUME NEW a \in Errors, InsertAddress(a) PROVE (astray \in BOOLEAN)'
    BY <2>3 DEF InsertAddress, Append, Extend
  <2>4. CASE UNCHANGED vars
    BY <2>4 DEF vars
  <2> QED  BY <2>1, <2>2, <2>3, <2>4 DEF Next
<1>1. CASE Relocate
  <2> DEFINE new == RelocateIdx(patn, numpatn, idx)
  <2>1. new \in 0 .. numpatn - 1 \cup {None}
    BY RelocateIdxRange
  <2>2. CASE new = None
    BY <1>0, <1>1, <2>2 DEF Relocate
  <2>3. CASE new # None
    <3>1. new \in Slots /\ idx \in Slots /\ numpatn - 1 \in Slots
      BY <1>1, <2>1, <2>3 DEF Relocate
    <3>2. Combine(patn[new], patn[idx]) \in Pairs
      BY <3>1, CombineType
    <3> DEFINE merged == Merged(new)
    <3>3. merged \in [Slots -> Pairs]
      BY <3>1, <3>2 DEF Merged
    <3>4. Fill(merged, numpatn - 1) \in [Slots -> Pairs]
      BY <3>1, <3>3 DEF Fill
    <3>5. patn' \in [Slots -> Pairs] /\ numpatn' = numpatn - 1 /\ idx' = new
      BY <1>1, <2>3, <3>3, <3>4 DEF Relocate
    <3>6. faulty' = faulty /\ numpatn - 1 \in 0 .. MAXPATNS
      BY <1>1, <3>1 DEF Relocate
    <3> QED  BY <1>0, <2>1, <3>5, <3>6
  <2> QED  BY <2>2, <2>3
<1>2. CASE Restart
  <2>1. patn' = patn /\ idx' = idx /\ numpatn' = 0 /\ faulty' = {}
    BY <1>2 DEF Restart
  <2> QED  BY <1>0, <2>1
<1>3. ASSUME NEW a \in Errors, InsertAddress(a) PROVE TypeOK'
  <2>1. Pair(a) \in Pairs
    BY PairFacts
  <2>2. CASE Known(a)
    BY <1>3, <2>2 DEF InsertAddress
  <2>3. CASE Append(a)
    BY <1>3, <2>1, <2>3 DEF InsertAddress, Append
  <2>4. CASE Extend(a)
    <3> DEFINE best == CheapIndex(patn, numpatn, Pair(a), AnyCost)
    <3>1. best \in 0 .. numpatn - 1 \cup {None}
      BY CheapIndexRange
    <3>2. best \in Slots => Combine(patn[best], Pair(a)) \in Pairs
      BY <2>1, CombineType
    <3> HIDE DEF best
    <3>3. patn' \in [Slots -> Pairs]
      <4>1. patn' = [patn EXCEPT ![best] = Combine(@, Pair(a))]
        BY <2>4 DEF Extend, best
      <4> QED  BY <3>2, <4>1
    <3>4. idx' = best /\ numpatn' = numpatn
      BY <2>4 DEF Extend, best
    <3> QED  BY <1>3, <3>1, <3>3, <3>4 DEF InsertAddress
  <2> QED  BY <1>3, <2>2, <2>3, <2>4 DEF InsertAddress
<1>4. CASE UNCHANGED vars
  BY <1>4 DEF vars
<1> QED  BY <1>1, <1>2, <1>3, <1>4 DEF Next

THEOREM Typing == Spec => []TypeOK
<1>1. Init => TypeOK
  <2> SUFFICES ASSUME Init PROVE TypeOK
    OBVIOUS
  <2>1. astray \in BOOLEAN
    BY DEF Init
  <2>2. patn \in [Slots -> Pairs] /\ numpatn = 0 /\ idx = None /\ faulty = {}
    BY MaxAssumption DEF Init, Slots, Pairs, Words
  <2> QED  BY <2>1, <2>2, MaxAssumption DEF TypeOK
<1>2. TypeOK /\ [Next]_vars => TypeOK'
  BY TypeStep
<1> QED  BY <1>1, <1>2, PTL DEF Spec

----------------------------------------------------------------------------
(* Relocation from a live index: the merged pair covers what the two did,   *)
(* and the slot that falls off the end is either free or was copied.        *)
LEMMA RelocateKeepsCover ==
    ASSUME TypeOK, Live, Relocate, NEW a, Covered(a)
    PROVE  Covered(a)'
<1> DEFINE new    == RelocateIdx(patn, numpatn, idx)
           last   == numpatn - 1
           merged == Merged(new)
<1>1. /\ idx \in 0 .. last
      /\ new # idx
      /\ new \in 0 .. last \cup {None}
      /\ numpatn \in Nat
      /\ 0 .. last \subseteq DOMAIN patn
  BY RelocateIdxRange, MaxAssumption DEF Live, Relocate, TypeOK, Slots
<1>2. PICK i \in 0 .. last : Covers(patn[i], a)
  BY DEF Covered
<1>3. CASE new = None
  BY <1>2, <1>3 DEF Relocate, Covered
<1>4. CASE new # None
  <2> HIDE DEF new
  <2>1. PICK j \in 0 .. last : j # idx /\ Covers(merged[j], a)
    <3>1. CASE i \in {new, idx}
      <4>1. merged[new] = Combine(patn[new], patn[idx])
        BY <1>1, <1>4 DEF Merged
      <4>2. Covers(merged[new], a)
        BY <1>2, <3>1, <4>1, CombineCovers
      <4> QED  BY <1>1, <1>4, <4>2
    <3>2. CASE i \notin {new, idx}
      <4>1. merged[i] = patn[i]
        BY <1>1, <1>2, <3>2 DEF Merged
      <4> QED  BY <1>2, <3>2, <4>1
    <3> QED  BY <3>1, <3>2
  <2>2. /\ numpatn' = last
        /\ patn' = IF idx < last THEN [merged EXCEPT ![idx] = merged[last]] ELSE merged
    BY <1>4 DEF Relocate, Fill, new
  <2>3. DOMAIN merged = DOMAIN patn
    BY DEF Merged
  <2>4. CASE idx < last /\ j < last
    <3>1. patn'[j] = merged[j]
      BY <1>1, <2>1, <2>2, <2>3, <2>4
    <3>2. j \in 0 .. numpatn' - 1
      BY <1>1, <2>1, <2>2, <2>4
    <3> QED  BY <2>1, <3>1, <3>2 DEF Covered
  <2>5. CASE idx < last /\ j = last
    <3>1. patn'[idx] = merged[j]
      BY <1>1, <2>1, <2>2, <2>3, <2>5
    <3>2. idx \in 0 .. numpatn' - 1
      BY <1>1, <2>2, <2>5
    <3> QED  BY <2>1, <3>1, <3>2 DEF Covered
  <2>6. CASE ~ (idx < last)
    <3>1. patn'[j] = merged[j] /\ idx = last
      BY <1>1, <2>2, <2>6
    <3>2. j \in 0 .. numpatn' - 1
      BY <1>1, <2>1, <2>2, <3>1
    <3> QED  BY <2>1, <3>1, <3>2 DEF Covered
  <2> QED  BY <1>1, <2>1, <2>4, <2>5, <2>6
<1> QED  BY <1>3, <1>4

(* An insertion leaves the list alone, adds a pair, or widens one. *)
LEMMA InsertKeepsCover ==
    ASSUME TypeOK, NEW b, InsertAddress(b), NEW a, Covered(a)
    PROVE  Covered(a)'
<1>1. PICK i \in 0 .. numpatn - 1 : Covers(patn[i], a)
  BY DEF Covered
<1>2. numpatn \in Nat /\ 0 .. numpatn - 1 \subseteq DOMAIN patn
  BY MaxAssumption DEF TypeOK, Slots
<1>3. CASE Known(b)
  BY <1>1, <1>3 DEF InsertAddress, Covered
<1>4. CASE Append(b)
  <2>1. patn'[i] = patn[i] /\ i \in 0 .. numpatn' - 1
    BY <1>1, <1>2, <1>4 DEF Append
  <2> QED  BY <1>1, <2>1 DEF Covered
<1>5. CASE Extend(b)
  <2> DEFINE best == CheapIndex(patn, numpatn, Pair(b), AnyCost)
  <2>1. patn' = [patn EXCEPT ![best] = Combine(@, Pair(b))] /\ numpatn' = numpatn
    BY <1>5 DEF Extend
  <2> HIDE DEF best
  <2>2. patn'[i] = IF i = best THEN Combine(patn[i], Pair(b)) ELSE patn[i]
    BY <1>1, <1>2, <2>1
  <2>3. Covers(patn'[i], a)
    BY <1>1, <2>2, CombineCovers
  <2> QED  BY <2>1, <2>3 DEF Covered
<1> QED  BY <1>3, <1>4, <1>5 DEF InsertAddress

(* No step but a restart uncovers an address while idx is live: what the    *)
(* code loses, it loses through an index that is not (patn.c:105-120).      *)
THEOREM KeepsCover == Spec => LiveStepsKeepCover
<1>1. ASSUME TypeOK, [Next]_vars, Live, ~Restart, NEW a, Covered(a)
      PROVE  Covered(a)'
  <2>1. CASE Relocate
    BY <1>1, <2>1, RelocateKeepsCover
  <2>2. ASSUME NEW b \in Errors, InsertAddress(b) PROVE Covered(a)'
    BY <1>1, <2>2, InsertKeepsCover
  <2>3. CASE UNCHANGED vars
    BY <1>1, <2>3 DEF vars, Covered
  <2> QED  BY <1>1, <2>1, <2>2, <2>3 DEF Next
<1>2. TypeOK /\ [Next]_vars =>
         [Live /\ ~Restart => \A a \in Longwords : Covered(a) => Covered(a)']_vars
  BY <1>1
<1> QED  BY <1>2, Typing, PTL DEF Spec, LiveStepsKeepCover

----------------------------------------------------------------------------
(* No pattern tells the two bits inside a longword apart: the masks of the  *)
(* list only ever shrink from DEFAULT_MASK.                                 *)
Masked == \A i \in Slots : patn[i].mask \subseteq DefaultMask

LEMMA CombineMasked ==
    ASSUME NEW p, NEW q, p.mask \subseteq DefaultMask \/ q.mask \subseteq DefaultMask
    PROVE  Combine(p, q).mask \subseteq DefaultMask
BY DEF Combine, CombineMask

LEMMA MaskedStep ==
    ASSUME TypeOK, Masked, [Next]_vars
    PROVE  Masked'
<1> USE DEF Masked
<1> Slots' = Slots /\ DefaultMask' = DefaultMask
  BY DEF Slots, DefaultMask, Bits
<1> DOMAIN patn = Slots
  BY DEF TypeOK
<1>1. CASE Relocate
  <2> DEFINE new == RelocateIdx(patn, numpatn, idx)
             merged == Merged(new)
  <2>1. CASE new = None
    BY <1>1, <2>1 DEF Relocate
  <2>2. CASE new # None
    <3>1. new \in Slots /\ numpatn - 1 \in Slots
      <4>1. new \in 0 .. numpatn - 1 /\ numpatn \in 0 .. MAXPATNS
        BY <2>2, RelocateIdxRange, MaxAssumption DEF TypeOK
      <4> HIDE DEF new
      <4> QED  BY <4>1, MaxAssumption DEF Slots
    <3>2. patn' = Fill(merged, numpatn - 1)
      BY <1>1, <2>2 DEF Relocate
    <3> HIDE DEF new
    <3>3. /\ DOMAIN merged = Slots
          /\ \A i \in Slots : merged[i].mask \subseteq DefaultMask
      BY <3>1, CombineMasked DEF Merged
    <3> HIDE DEF merged
    <3> QED  BY <3>1, <3>2, <3>3 DEF Fill
  <2> QED  BY <2>1, <2>2
<1>2. CASE Restart
  BY <1>2 DEF Restart
<1>3. ASSUME NEW a \in Errors, InsertAddress(a) PROVE Masked'
  <2>1. CASE Known(a)
    BY <1>3, <2>1 DEF InsertAddress
  <2>2. CASE Append(a)
    BY <2>2 DEF Append, Pair
  <2>3. CASE Extend(a)
    <3> DEFINE best == CheapIndex(patn, numpatn, Pair(a), AnyCost)
    <3>1. patn' = [patn EXCEPT ![best] = Combine(patn[best], Pair(a))]
      BY <2>3 DEF Extend
    <3>2. Combine(patn[best], Pair(a)).mask \subseteq DefaultMask
      BY CombineMasked DEF Pair
    <3> HIDE DEF best
    <3> QED  BY <3>1, <3>2
  <2> QED  BY <1>3, <2>1, <2>2, <2>3 DEF InsertAddress
<1>4. CASE UNCHANGED vars
  BY <1>4 DEF vars
<1> QED  BY <1>1, <1>2, <1>3, <1>4 DEF Next

LEMMA Masking == Spec => [](TypeOK /\ Masked)
<1>1. Init => Masked
  BY DEF Init, Masked, Slots
<1>2. TypeOK /\ Masked /\ [Next]_vars => Masked'
  BY MaskedStep
<1> QED  BY <1>1, <1>2, Typing, PTL DEF Spec

(* To take up an address costs a pattern nothing exactly if it covers it:   *)
(* the combined mask is part of the mask, and a smaller mask leaves more    *)
(* addresses.                                                               *)
LEMMA FreeIsCovered ==
    ASSUME NEW p \in Pairs, p.mask \subseteq DefaultMask, NEW a \in Longwords
    PROVE  CombiCost(p, Pair(a)) = 0 <=> Covers(p, a)
<1> DEFINE mask == Combine(p, Pair(a)).mask
<1>1. mask \subseteq p.mask /\ p.mask \subseteq Bits /\ a \subseteq Bits
  BY DEF Combine, CombineMask, Pairs, Words, Longwords, DefaultMask
<1>2. mask = p.mask <=> Covers(p, a)
  BY <1>1 DEF Combine, CombineMask, Pair, Covers
<1>3. CombiCost(p, Pair(a)) = 0 <=> Addresses(mask) = Addresses(p.mask)
  <2> DEFINE new == Addresses(mask)
             old == Addresses(p.mask)
  <2>1. new \in 0 .. 2^W - 1 /\ old \in 0 .. 2^W - 1
    BY Counted
  <2>2. CombiCost(p, Pair(a)) = IF new >= old THEN new - old ELSE new - old + 2^W
    BY Cost
  <2>3. 2^W \in Nat \ {0}
    <3>1. W \in 0 .. W
      BY WAssumption
    <3> QED  BY <3>1, PowerType
  <2> HIDE DEF new, old
  <2>4. CombiCost(p, Pair(a)) = 0 <=> new = old
    BY <2>1, <2>2, <2>3
  <2> QED  BY <2>4 DEF new, old
<1> HIDE DEF mask
<1>4. Addresses(mask) = Addresses(p.mask) => mask = p.mask
  <2> SUFFICES ASSUME Addresses(mask) = Addresses(p.mask) PROVE mask = p.mask
    OBVIOUS
  <2> DEFINE more == Cardinality(Bits \ mask)
             less == Cardinality(Bits \ p.mask)
  <2>1. IsFiniteSet(Bits \ mask) /\ Bits \ p.mask \in SUBSET (Bits \ mask)
    BY <1>1, Counted
  <2>2. more \in 0 .. W /\ less \in 0 .. W
    BY Counted
  <2>3. /\ Addresses(mask) = IF more = W THEN 0 ELSE 2^more
        /\ Addresses(p.mask) = IF less = W THEN 0 ELSE 2^less
    BY Counted
  <2>4. more = less
    <3> HIDE DEF more, less
    <3>1. 2^more \in Nat \ {0} /\ 2^less \in Nat \ {0}
      BY <2>2, PowerType
    <3>2. CASE more = W \/ less = W
      BY <2>3, <3>1, <3>2
    <3>3. CASE more # W /\ less # W
      <4>1. 2^more = 2^less
        BY <2>3, <3>3
      <4>2. ~(more < less) /\ ~(less < more)
        <5>1. more < less => 2^more < 2^less
          BY <2>2, PowerGrows
        <5>2. less < more => 2^less < 2^more
          BY <2>2, PowerGrows
        <5> QED  BY <3>1, <4>1, <5>1, <5>2
      <4> QED  BY <2>2, <4>2, WAssumption
    <3> QED  BY <3>2, <3>3
  <2>5. Bits \ mask = Bits \ p.mask
    BY <2>1, <2>4, FS_Subset
  <2> QED  BY <1>1, <2>5
<1> QED  BY <1>2, <1>3, <1>4

(* So the search for a pattern that costs less than 1 finds those that cover. *)
LEMMA KnownAreCoveredNow == TypeOK /\ Masked => KnownIsCovered
<1>1. ASSUME TypeOK, Masked, NEW a \in Longwords
      PROVE  Known(a) <=> Covered(a)
  <2> DEFINE cheap == Cheap(patn, numpatn, Pair(a), 1)
  <2>1. numpatn \in Nat /\ 0 .. numpatn - 1 \subseteq Slots
    BY <1>1, MaxAssumption DEF TypeOK, Slots
  <2>2. Known(a) <=> cheap # {}
    BY <2>1, NothingCheap DEF Known
  <2>3. ASSUME NEW i \in 0 .. numpatn - 1
        PROVE  CombiCost(patn[i], Pair(a)) < 1 <=> Covers(patn[i], a)
    <3>1. patn[i] \in Pairs /\ patn[i].mask \subseteq DefaultMask
      BY <1>1, <2>1 DEF TypeOK, Masked
    <3>2. CombiCost(patn[i], Pair(a)) \in Nat
      BY CostType
    <3> QED  BY <3>1, <3>2, FreeIsCovered
  <2>4. cheap # {} <=> Covered(a)
    BY <2>3 DEF Cheap, Covered
  <2> QED  BY <2>2, <2>4
<1> QED  BY <1>1 DEF KnownIsCovered

(* insertaddress() takes for known what the list covers, and nothing else   *)
(* (patn.c:126), for any word size, any length of the list and any errors.  *)
THEOREM KnownAreCovered == Spec => []KnownIsCovered
BY KnownAreCoveredNow, Masking, PTL

----------------------------------------------------------------------------
(* The two lowest bits are not in a mask, so a count of addresses is even,  *)
(* and so is a cost.                                                        *)
LEMMA EvenCount ==
    ASSUME NEW mask, mask \subseteq DefaultMask
    PROVE  \E k \in Nat : Addresses(mask) = 2 * k
<1> DEFINE zeros == Cardinality(Bits \ mask)
<1>1. zeros \in 0 .. W /\ Addresses(mask) = IF zeros = W THEN 0 ELSE 2^zeros
  BY Counted
<1>2. zeros # 0
  <2>1. 0 \in Bits \ mask
    BY WAssumption DEF Bits, DefaultMask
  <2>2. IsFiniteSet(Bits \ mask)
    BY Counted
  <2> QED  BY <2>1, <2>2, FS_EmptySet
<1> HIDE DEF zeros
<1>3. CASE zeros = W
  BY <1>1, <1>3
<1>4. CASE zeros # W
  <2>1. zeros \in 1 .. W
    BY <1>1, <1>2, WAssumption
  <2>2. zeros - 1 \in 0 .. W /\ 2^zeros = 2 * 2^(zeros - 1)
    BY <2>1, PowerStep
  <2>3. 2^(zeros - 1) \in Nat
    BY <2>2, PowerType
  <2> QED  BY <1>1, <1>4, <2>2, <2>3
<1> QED  BY <1>3, <1>4

LEMMA CostBelowAny ==
    ASSUME NEW p, NEW q, p.mask \subseteq DefaultMask
    PROVE  CombiCost(p, q) < AnyCost
<1> DEFINE new == Addresses(Combine(p, q).mask)
           old == Addresses(p.mask)
<1>1. PICK m \in Nat : new = 2 * m
  BY CombineMasked, EvenCount
<1>2. PICK n \in Nat : old = 2 * n
  BY EvenCount
<1>3. PICK h \in Nat : 2^W = 2 * h
  <2>1. W \in 1 .. W
    BY WAssumption
  <2> QED  BY <2>1, PowerStep, PowerType
<1>4. /\ CombiCost(p, q) \in 0 .. 2^W - 1
      /\ CombiCost(p, q) = IF new >= old THEN new - old ELSE new - old + 2^W
  BY Cost
<1> HIDE DEF new, old
<1>5. CombiCost(p, q) # 2^W - 1
  <2>1. CASE new >= old
    BY <1>1, <1>2, <1>3, <1>4, <2>1
  <2>2. CASE ~(new >= old)
    BY <1>1, <1>2, <1>3, <1>4, <2>2
  <2> QED  BY <2>1, <2>2
<1> QED  BY <1>3, <1>4, <1>5 DEF AnyCost

(* What is inserted is covered, also when the list is full (patn.c:135):    *)
(* whatever it costs to extend a pattern, it is less than ~0L, so the       *)
(* search finds one.                                                        *)
LEMMA InsertCovers ==
    ASSUME TypeOK, Masked, NEW a \in Errors, InsertAddress(a)
    PROVE  Covered(a)'
<1>1. numpatn \in Nat /\ 0 .. numpatn - 1 \subseteq Slots /\ DOMAIN patn = Slots
  BY MaxAssumption DEF TypeOK, Slots
<1>2. a \in Longwords /\ a \in Words
  BY ErrorsAssumption DEF Longwords, Words, DefaultMask
<1>3. CASE Known(a)
  <2>1. KnownIsCovered
    BY KnownAreCoveredNow
  <2>2. Covered(a)
    BY <1>2, <1>3, <2>1 DEF KnownIsCovered
  <2>3. UNCHANGED <<patn, numpatn>>
    BY <1>3 DEF InsertAddress
  <2> QED  BY <2>2, <2>3 DEF Covered
<1>4. CASE Append(a)
  <2>1. /\ patn' = [patn EXCEPT ![numpatn] = Pair(a)]
        /\ numpatn' = numpatn + 1 /\ numpatn \in Slots
    BY <1>1, <1>4, MaxAssumption DEF Append, Slots
  <2>2. patn'[numpatn] = Pair(a) /\ numpatn \in 0 .. numpatn' - 1
    BY <1>1, <2>1
  <2> QED  BY <1>2, <2>2, PairFacts DEF Covered
<1>5. CASE Extend(a)
  <2> DEFINE best == CheapIndex(patn, numpatn, Pair(a), AnyCost)
  <2>1. 0 \in 0 .. numpatn - 1
    BY <1>1, <1>5, MaxAssumption DEF Extend
  <2>2. CombiCost(patn[0], Pair(a)) < AnyCost
    BY <1>1, <2>1, CostBelowAny DEF Masked
  <2>3. best \in 0 .. numpatn - 1
    BY <1>1, <2>1, <2>2, CheapIndexFound DEF Cheap
  <2>4. /\ patn' = [patn EXCEPT ![best] = Combine(patn[best], Pair(a))]
        /\ numpatn' = numpatn
    BY <1>5 DEF Extend
  <2> HIDE DEF best
  <2>5. patn'[best] = Combine(patn[best], Pair(a))
    BY <1>1, <2>3, <2>4
  <2>6. Covers(patn'[best], a)
    BY <1>2, <2>5, PairFacts, CombineCovers
  <2> QED  BY <2>3, <2>4, <2>6 DEF Covered
<1> QED  BY <1>3, <1>4, <1>5 DEF InsertAddress

(* No address that was inserted since the restart is lost before a          *)
(* relocation goes astray (patn.c:105-144), for any word size, any length   *)
(* of the list and any errors.                                              *)
THEOREM CoveredAtLeast == Spec => []CoveredUntilAstray
<1>1. ASSUME TypeOK, Masked, CoveredUntilAstray, [Next]_vars
      PROVE  CoveredUntilAstray'
  <2>1. CASE Relocate
    <3> SUFFICES ASSUME ~astray', NEW a \in faulty' PROVE Covered(a)'
      BY DEF CoveredUntilAstray
    <3>1. ~astray /\ Live /\ faulty' = faulty
      BY <2>1 DEF Relocate, TypeOK
    <3> QED  BY <1>1, <2>1, <3>1, RelocateKeepsCover DEF CoveredUntilAstray
  <2>2. CASE Restart
    BY <2>2 DEF Restart, CoveredUntilAstray
  <2>3. ASSUME NEW b \in Errors, InsertAddress(b) PROVE CoveredUntilAstray'
    <3> SUFFICES ASSUME ~astray', NEW a \in faulty' PROVE Covered(a)'
      BY DEF CoveredUntilAstray
    <3>1. ~astray /\ faulty' = faulty \cup {b}
      BY <2>3 DEF InsertAddress
    <3>2. CASE a = b
      BY <1>1, <2>3, <3>2, InsertCovers
    <3>3. CASE a # b
      BY <1>1, <2>3, <3>1, <3>3, InsertKeepsCover DEF CoveredUntilAstray
    <3> QED  BY <3>2, <3>3
  <2>4. CASE UNCHANGED vars
    BY <1>1, <2>4 DEF vars, CoveredUntilAstray, Covered
  <2> QED  BY <1>1, <2>1, <2>2, <2>3, <2>4 DEF Next
<1>2. Init => CoveredUntilAstray
  BY DEF Init, CoveredUntilAstray
<1>3. CoveredUntilAstray /\ TypeOK /\ Masked /\ [Next]_vars => CoveredUntilAstray'
  BY <1>1
<1> QED  BY <1>2, <1>3, Masking, PTL DEF Spec

=============================================================================
