------------------------------- MODULE BadRam -------------------------------
(***************************************************************************)
(* The BadRAM patterns of patn.c: a short list of address/mask pairs that  *)
(* is meant to cover every faulty address reported so far, and as few      *)
(* others as possible.                                                     *)
(*                                                                         *)
(* A machine word is the set of the bits that are 1 in it, so that & is    *)
(* intersection, | is union and ~ is complement.  Indices are those of C.  *)
(***************************************************************************)
EXTENDS Integers, FiniteSets

CONSTANTS W,                    \* bits in a ulong
          MAXPATNS,             \* BADRAM_MAXPATNS
          Errors                \* the addresses that may be reported faulty

ASSUME WAssumption == W \in Nat /\ W > 2
(* What ^ means here: the provers know nothing of it. *)
ASSUME PowerAssumption == 2^0 = 1 /\ \A n \in 0 .. W - 1 : 2^(n + 1) = 2 * 2^n
ASSUME MaxAssumption == MAXPATNS \in Nat \ {0}

VARIABLES patn,                 \* v->patn
          numpatn,              \* v->numpatn
          idx,                  \* the argument of a pending relocateiffree
          faulty,               \* the addresses inserted, and whether a relocation
          astray                \* has gone astray; both read by properties only

vars == <<patn, numpatn, idx, faulty, astray>>

Bits  == 0 .. W - 1
Words == SUBSET Bits
Pairs == [adr : Words, mask : Words]
Slots == 0 .. MAXPATNS - 1
None  == -1

(* DEFAULT_MASK: everything but the two bits inside a longword. *)
DefaultMask == Bits \ {0, 1}
Longwords   == SUBSET DefaultMask
Pair(adr)   == [adr |-> adr, mask |-> DefaultMask]

ASSUME ErrorsAssumption == Errors \subseteq Longwords

(* What the Linux kernel's BadRAM takes a pair to mean. *)
Covers(p, a) == a \cap p.mask = p.adr \cap p.mask

----------------------------------------------------------------------------
(* The helpers.                                                             *)

(* Mutant: the bits that are 0 in both addresses are not kept. *)
CombineMaskMutant(a, b, c, d) == a \cap b \cap c \cap d

(* COMBINE_MASK: the bits of both masks on which the addresses agree. *)
CombineMask(a, b, c, d) == (a \cap b \cap c \cap d) \cup ((b \cap d) \ (a \cup c))

Combine(p, q) ==
    LET mask == CombineMask(p.adr, p.mask, q.adr, q.mask)
    IN  [adr |-> (p.adr \cup q.adr) \cap mask, mask |-> mask]

(* ctr is doubled for every 0 in the mask; a mask of 0 makes it 0. *)
Addresses(mask) == 2^Cardinality(Bits \ mask) % 2^W

CombiCost(p, q) == (Addresses(Combine(p, q).mask) - Addresses(p.mask)) % 2^W

(* The loop goes down and keeps an index only if it is cheaper than all     *)
(* before it: the cheapest, and the highest of those that cost the same.    *)
Cheap(pairs, num, q, mincost) ==
    {i \in 0 .. num - 1 : CombiCost(pairs[i], q) < mincost}

CheapIndex(pairs, num, q, mincost) ==
    LET cost(i) == CombiCost(pairs[i], q)
        cheap == Cheap(pairs, num, q, mincost)
    IN  IF cheap = {} THEN None
        ELSE CHOOSE i \in cheap : \A j \in cheap : \/ cost(i) < cost(j)
                                                   \/ cost(i) = cost(j) /\ i >= j

(* The pair itself is hidden from the search by turning its address over. *)
RelocateIdx(pairs, num, i) ==
    CheapIndex([pairs EXCEPT ![i].adr = Bits \ @], num, pairs[i],
               1 + Addresses(pairs[i].mask))

----------------------------------------------------------------------------
Init == /\ patn = [i \in Slots |-> [adr |-> {}, mask |-> {}]]
        /\ numpatn = 0
        /\ idx = None
        /\ faulty = {}
        /\ astray = FALSE

(* relocateiffree works from a pair of the list, and does not find the very *)
(* pair it works from (patn.c:94 "Never select idx").                       *)
Live == idx # None => /\ idx < numpatn
                      /\ RelocateIdx(patn, numpatn, idx) # idx

Merged(new) == [patn EXCEPT ![new] = Combine(@, patn[idx])]

(* The last pair takes the slot that became free.  Mutant: it does not. *)
FillMutant(pairs, last) == pairs
Fill(pairs, last) == IF idx < last THEN [pairs EXCEPT ![idx] = pairs[last]] ELSE pairs

(* One call of relocateiffree, up to the call in its last line, which goes  *)
(* on from the other pair's index.  Mutant: the list is not shortened.      *)
RelocateMutant ==
    /\ idx # None
    /\ idx' = RelocateIdx(patn, numpatn, idx)
    /\ patn' = IF idx' = None THEN patn ELSE Merged(idx')
    /\ astray' = (astray \/ ~Live)
    /\ UNCHANGED <<numpatn, faulty>>

Relocate ==
    LET new == RelocateIdx(patn, numpatn, idx)
    IN  /\ idx # None
        /\ idx' = new
        /\ IF new = None THEN UNCHANGED <<patn, numpatn>>
           ELSE /\ patn' = Fill(Merged(new), numpatn - 1)
                /\ numpatn' = numpatn - 1
        /\ astray' = (astray \/ ~Live)
        /\ UNCHANGED faulty

(* insertaddress(), up to relocateiffree. *)
Known(a) == CheapIndex(patn, numpatn, Pair(a), 1) # None

(* Mutant: one pair too many. *)
AppendMutant(a) ==
    /\ numpatn <= MAXPATNS
    /\ patn' = [patn EXCEPT ![numpatn] = Pair(a)]
    /\ numpatn' = numpatn + 1
    /\ idx' = numpatn

Append(a) ==
    /\ numpatn < MAXPATNS
    /\ patn' = [patn EXCEPT ![numpatn] = Pair(a)]
    /\ numpatn' = numpatn + 1
    /\ idx' = numpatn

(* ~0L.  Mutant: only a pair that need not grow is accepted. *)
AnyCostMutant == 1
AnyCost == 2^W - 1

(* The list is full: extend the pair that gets least worse. *)
Extend(a) ==
    LET best == CheapIndex(patn, numpatn, Pair(a), AnyCost)
    IN  /\ numpatn >= MAXPATNS
        /\ patn' = [patn EXCEPT ![best] = Combine(@, Pair(a))]
        /\ idx' = best
        /\ UNCHANGED numpatn

InsertAddress(a) ==
    /\ idx = None
    /\ IF Known(a) THEN UNCHANGED <<patn, numpatn, idx>>
       ELSE Append(a) \/ Extend(a)
    /\ faulty' = faulty \cup {a}
    /\ UNCHANGED astray

(* init() at a restart: the list is emptied, its slots keep their contents. *)
Restart ==
    /\ idx = None
    /\ numpatn' = 0
    /\ faulty' = {}
    /\ astray' = FALSE
    /\ UNCHANGED <<patn, idx>>

Next == Relocate \/ Restart \/ \E a \in Errors : InsertAddress(a)

Spec == Init /\ [][Next]_vars /\ WF_vars(Relocate)

----------------------------------------------------------------------------
Covered(a) == \E i \in 0 .. numpatn - 1 : Covers(patn[i], a)

TypeOK == /\ patn \in [Slots -> Pairs]
          /\ numpatn \in 0 .. MAXPATNS
          /\ idx \in Slots \cup {None}
          /\ faulty \subseteq Errors
          /\ astray \in BOOLEAN

(* Every faulty address is covered ("Generates patterns for the Linux       *)
(* kernel's BadRAM extension that avoids allocation of faulty pages",       *)
(* patn.c:3-4).                                                             *)
FaultyCovered == idx = None => \A a \in faulty : Covered(a)

(* insertaddress() takes an address for known exactly if a pattern of the   *)
(* list covers it: no new error is dropped as an old one, and none that is  *)
(* covered is inserted and printed again (patn.c:126).                      *)
KnownIsCovered == \A a \in Longwords : Known(a) <=> Covered(a)

(* A step that works from an index of the list uncovers no address: to      *)
(* merge, to move the last pair into the free slot and to shorten the list  *)
(* lose nothing as long as idx is live (patn.c:105-120).                    *)
LiveStepsKeepCover ==
    [][Live /\ ~Restart => \A a \in Longwords : Covered(a) => Covered(a)']_vars

(* Every address inserted since the restart stays covered, through merging, *)
(* moving, shortening and, when the list is full, extending a pair whatever *)
(* it costs (patn.c:135), until a relocation goes astray: insertaddress()   *)
(* covers its address, and only relocateiffree() from an index that is not  *)
(* live can lose one (patn.c:105-144).                                      *)
CoveredUntilAstray == astray \/ \A a \in faulty : Covered(a)

(* The recursion of relocateiffree ends, so insertaddress() returns         *)
(* (patn.c:118, 133, 141).                                                  *)
RelocationEnds == idx # None ~> idx = None

=============================================================================
