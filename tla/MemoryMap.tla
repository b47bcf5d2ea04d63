----------------------------- MODULE MemoryMap -----------------------------
(***************************************************************************)
(* From what the firmware says of the memory to v->pmap, the pages to test *)
(* (memsize.c and adj_mem() of config.c).                                  *)
(*                                                                         *)
(* An e820 entry is [addr, size, type].  The unit of an address is a part  *)
(* of a page, of which a page has PG.  A map is a sequence of entries; pmap*)
(* is a sequence of [start, end] in pages, end being the page after.       *)
(***************************************************************************)
EXTENDS Integers, SequencesExt

CONSTANTS
    PG,             \* units in a page (4096 bytes)
    RES_START,      \* 640K
    RES_END,        \* 1024K
    ADDR_TOP,       \* addresses are modulo this (2^64)
    E820MAX         \* 32

E820_RAM  == 1
E820_ACPI == 3

EndOf(e) == e.addr + e.size
PageUp(a) == (a + PG - 1) \div PG
PageDown(a) == a \div PG

----------------------------------------------------------------------------
(* sanitize_e820_map(): the points where an entry starts or ends, in order  *)
(* of their addresses, starts before ends; from the types of the entries    *)
(* that are open at a point, the greatest counts.                           *)

ChangePoints(map) ==
    LET points == UNION {{[addr |-> map[i].addr, start |-> TRUE, of |-> i],
                          [addr |-> EndOf(map[i]), start |-> FALSE, of |-> i]} :
                         i \in 1 .. Len(map)}
        before(a, b) == \/ a.addr < b.addr
                        \/ a.addr = b.addr /\ a.start /\ ~b.start
                        \/ a.addr = b.addr /\ a.start = b.start /\ a.of < b.of
    IN  [k \in 1 .. Cardinality(points) |->
            CHOOSE p \in points : Cardinality({q \in points : before(q, p)}) = k - 1]

(* Mutant: the first entry that is open gives the type. *)
CurrentTypeMutant(map, open) ==
    IF open = {} THEN 0 ELSE map[CHOOSE i \in open : \A j \in open : i <= j].type

CurrentType(map, open) ==
    IF open = {} THEN 0
    ELSE map[CHOOSE i \in open : \A j \in open : map[i].type >= map[j].type].type

(* One change point: s has the entries open, the type since last_addr, the  *)
(* new map, and whether that is full.                                       *)
Change(map, s, p) ==
    LET open   == IF p.start THEN s.open \cup {p.of} ELSE s.open \ {p.of}
        type   == CurrentType(map, open)
        size   == p.addr - s.last_addr
        new    == IF s.type # 0 /\ size # 0
                  THEN Append(s.new, [addr |-> s.last_addr, size |-> size, type |-> s.type])
                  ELSE s.new
    IN  IF s.full THEN s
        ELSE IF type = s.type THEN [s EXCEPT !.open = open]
        ELSE [open |-> open, type |-> type, new |-> new, full |-> Len(new) >= E820MAX,
              last_addr |-> IF type # 0 THEN p.addr ELSE s.last_addr]

Unreasonable(map) == \E i \in 1 .. Len(map) : EndOf(map[i]) % ADDR_TOP < map[i].addr

SanitizeE820Map(map) ==
    IF Unreasonable(map) THEN <<>>
    ELSE FoldLeft(LAMBDA s, p : Change(map, s, p),
                  [open |-> {}, type |-> 0, last_addr |-> 0, new |-> <<>>, full |-> FALSE],
                  ChangePoints(map)).new

----------------------------------------------------------------------------
(* memsize_820(): an entry as a segment, <<>> if there is nothing of it     *)
(* beside the hole from 640K to 1024K.                                      *)

Segment(e) ==
    LET inside == e.addr > RES_START /\ e.addr < RES_END
        start  == IF inside THEN RES_END ELSE e.addr
        end    == IF EndOf(e) > RES_START /\ EndOf(e) < RES_END THEN RES_START ELSE EndOf(e)
    IN  IF inside /\ EndOf(e) < RES_END THEN <<>>
        ELSE <<[start |-> PageUp(start), end |-> PageDown(end)]>>

Usable(e) == e.type \in {E820_RAM, E820_ACPI}

Memsize820(nm) ==
    FoldLeft(LAMBDA pmap, e : IF Usable(e) THEN pmap \o Segment(e) ELSE pmap, <<>>, nm)

(* memsize_801(): what the old BIOS calls say, of memory beyond 1024K.      *)
Memsize801(alt_mem, ext_mem) ==
    LET mem_size == IF alt_mem < ext_mem THEN ext_mem ELSE alt_mem
    IN  <<[start |-> 0, end |-> PageDown(RES_START)],
          [start |-> PageUp(RES_END), end |-> PageDown(mem_size + RES_END)]>>

(* Whatever lies before pmap[0] in v. *)
Before == [start |-> 0, end |-> 0]

(* sort_pmap(): an insertion sort.  j is where element i goes, -1 if it is  *)
(* not greater than any; but memmove() moves the wrong way.                 *)
SortPmap(pmap) ==
    LET n == Len(pmap)
        insert(m, i) ==
            LET less == {k \in 0 .. i - 1 : m[i].start > m[k].start}
                j    == IF less = {} THEN -1
                        ELSE (CHOOSE k \in less : \A l \in less : l <= k) + 1
            IN  IF i = j THEN m
                ELSE [k \in -1 .. n - 1 |-> IF k = j THEN m[i]
                                            ELSE IF k > j /\ k < i THEN m[k + 1] ELSE m[k]]
        sorted == FoldLeft(insert, [k \in -1 .. n - 1 |-> IF k = -1 THEN Before ELSE pmap[k + 1]],
                           [i \in 1 .. n |-> i - 1])
    IN  [k \in 1 .. n |-> sorted[k - 1]]

(* mem_size() without its limits and counts. *)
MemSize(map, alt_mem, ext_mem) ==
    LET nm == SanitizeE820Map(map)
    IN  SortPmap(IF Len(nm) < 1 \/ Len(nm) > E820MAX THEN Memsize801(alt_mem, ext_mem)
                 ELSE Memsize820(nm))

(* adj_mem(): the pages between the limits. *)
SelectedOf(seg, lower, upper) ==
    CASE seg.start >= lower /\ seg.end <= upper -> seg.end - seg.start
      [] seg.start < lower /\ seg.end < lower -> 0
      [] seg.start < lower /\ seg.end >= lower ->
            (IF seg.end > upper THEN upper ELSE seg.end) - lower
      [] seg.start >= lower /\ seg.end > upper ->
            IF seg.start > upper THEN 0 ELSE upper - seg.start

AdjMem(pmap, lower, upper) ==
    FoldLeft(LAMBDA n, seg : n + SelectedOf(seg, lower, upper), 0, pmap)

(* The line after mem_size() in test_start: the last page of the first      *)
(* segment is for the barrier.                                              *)
WithoutBarrier(pmap) == [pmap EXCEPT ![1].end = @ - 1]

(* Where the program goes to test the memory it is in (main.c:462). *)
HighTestPage(pmap, high, low, enough) ==
    IF pmap[Len(pmap)].end > enough THEN high ELSE low

PagesOf(pmap) == UNION {pmap[i].start .. pmap[i].end - 1 : i \in 1 .. Len(pmap)}

=============================================================================
