------------------------------ MODULE MemTest ------------------------------
(***************************************************************************)
(* The memory tests (test.c) as do_test() (main.c) runs them on the        *)
(* segments of one window: what each CPU writes and compares, section by   *)
(* section, between the ticks at which all selected CPUs meet, and what    *)
(* becomes of the errors found (module ErrorLog).                          *)
(*                                                                         *)
(* Memory is a function from addresses, which count words modulo 2^A, to   *)
(* words, which are numbers.  A pattern has W bits.  The memory may have a *)
(* fault: words with bits that are stuck or lose their charge, or an       *)
(* address line that is stuck at 0.                                        *)
(*                                                                         *)
(* A CPU runs from one s_barrier() to the next in one step (do_tick() is   *)
(* an s_barrier() to all but the master), except that it reports the       *)
(* errors it has found one by one, and that addr_tst1 takes a step for     *)
(* each address bit.  Leaving a test early is the subject of module        *)
(* Scheduler and not repeated here.                                        *)
(***************************************************************************)
EXTENDS Chunks, ErrorLog, SequencesExt

CONSTANTS
    A,              \* address bits (32, of which 2 choose a byte)
    W,              \* bits of a pattern (32)
    SPINSZ,         \* a section is this many words
    ALIGN,          \* words of 256 bytes, the unit of a share in movinv32
    BLOCK,          \* words of 64 bytes, the unit of block_move
    MOD_SZ,         \* the distance of the words modtst looks at (20)
    GRAIN,          \* 0x20000 bytes in words, see addr_tst1
    BANK,           \* the size of a bank in words, see addr_tst1
    Iter,           \* c_iter
    Scenarios       \* what to test, with whom, on which memory

Top  == 2^A                     \* addresses are modulo Top

(* The partition and the patterns rely on these ratios. *)
ASSUME SizesAssumption ==
    /\ {A, W, SPINSZ, ALIGN, BLOCK, MOD_SZ, GRAIN, BANK, Iter, Top} \subseteq Nat \ {0}
    /\ PAGE % ALIGN = 0 /\ PAGE % BLOCK = 0 /\ SPINSZ % PAGE = 0 /\ Top % PAGE = 0
    /\ ALIGN % W = 0 /\ BLOCK % 2 = 0 /\ MOD_SZ < PAGE /\ W <= A /\ SPINSZ <= Top
    /\ 0 .. A - 1 \subseteq Bits

(* A segment lies beyond the BIOS's block (main.c:881), begins and ends at  *)
(* a multiple of a block, and has words for everybody: that shares are      *)
(* rounded down to nothing "probably will never happen" (test.c:64).  No    *)
(* share is a word longer than whole sections: a sweep down would go on     *)
(* below it (test.c:634-644).  One CPU runs addr_tst1 (main.c:56) and the   *)
(* bit fade test (main.c:66), and the base of addr_tst1 is an address.      *)
ASSUME ScenariosAssumption ==
    \A s \in Scenarios :
        /\ s.pat \in 0 .. 11 /\ s.run_cpus \in Nat \ {0} /\ s.mode \in Modes
        /\ Len(s.map) \in Nat \ {0} /\ DOMAIN s.map = 1 .. Len(s.map)
        /\ \A j \in DOMAIN s.map :
              LET seg == s.map[j]
              IN  /\ seg \in [start : 3 .. Top - 1, end : 3 .. Top - 1] /\ seg.start <= seg.end
                  /\ seg.start % BLOCK = 0 /\ (seg.end + 1) % BLOCK = 0
                  /\ Share(seg, s.run_cpus, 1) > MOD_SZ
                  /\ Share(seg, s.run_cpus, ALIGN) > 0 /\ Share(seg, s.run_cpus, BLOCK) > 0
                  /\ \A me \in 0 .. s.run_cpus - 1, m \in {1, ALIGN} :
                        LET c == Chunk(seg, me, s.run_cpus - 1, s.run_cpus, m)
                        IN  (c.end - c.start) % SPINSZ # 0
        /\ s.pat \in {0, 11} => s.run_cpus = 1
        /\ s.pat = 0 => RoundUp(s.map[1].start, GRAIN) < Top

Mask == 2^W - 1                 \* ~0 for a pattern
Not(x) == Mask - x

VARIABLES
    sc,             \* the scenario; chosen once
    mem,            \* the cells of memory
    sp,             \* sp1 and sp2, the patterns all CPUs share (main.c:866)
    seed,           \* SEED_X and SEED_Y of each CPU (random.c)
    cpu,            \* each CPU's place in do_test() and the test, and its locals
    log,            \* v->erri and the counters
    hist            \* all errors reported, and strays; read by properties only

vars == <<sc, mem, sp, seed, cpu, log, hist>>

CPUs   == 0 .. sc.run_cpus - 1
mstr   == sc.run_cpus - 1       \* mstr_cpu (main.c:652-659)
segs   == Len(sc.map)

----------------------------------------------------------------------------
(* Memory, with its faults.                                                 *)

SetBit(x, b, val) == x + ((val - ((x \div 2^b) % 2)) * 2^b)

Cell(a) == IF sc.line = {} THEN a
           ELSE LET b == 2^(CHOOSE l \in sc.line : TRUE)
                IN  a - (((a \div b) % 2) * b)

Load(m, a) ==
    LET cell == Cell(a)
        stuck == {s \in sc.stuck : s.at = cell}
    IN  IF stuck = {} THEN m[cell]
        ELSE FoldSet(LAMBDA s, x : SetBit(x, s.bit, s.val), m[cell], stuck)

Store(m, a, x) == [m EXCEPT ![Cell(a)] = x]

(* What a sweep carries along: memory, errors, and the pattern's state. *)
Check(acc, a, good) ==
    LET bad == Load(acc.m, a)
    IN  IF bad = good THEN acc
        ELSE [acc EXCEPT !.errs = Append(@, DataError(a, good, bad))]

Write(acc, a, x) == [acc EXCEPT !.m = Store(@, a, x), !.wrote = @ \cup {a}]

----------------------------------------------------------------------------
(* The inner loops, one word of each.                                       *)

(* Check for one pattern and leave another. *)
Invert(acc, a, from, to) == Write(Check(acc, a, from), a, to)

(* movinv32's pattern one bit further up, or lb after the last bit. *)
ShiftUp(acc, c) ==
    IF acc.k + 1 = W THEN [acc EXCEPT !.k = 0, !.pat = c.lb]
    ELSE [acc EXCEPT !.k = @ + 1, !.pat = ((2 * @) % 2^W) + c.sval]

(* One bit further down, or hb before the first. *)
ShiftDown(acc, c) ==
    IF acc.k - 1 > 0 THEN [acc EXCEPT !.k = @ - 1, !.pat = @ \div 2 + c.sval * 2^(W - 1)]
    ELSE [acc EXCEPT !.k = W, !.pat = c.hb]

(* rand(): two multiply-with-carry generators of half a word each.          *)
Half == 2^(W \div 2)
Rand(s) == <<(3 * (s[1] % Half)) + (s[1] \div Half), (2 * (s[2] % Half)) + (s[2] \div Half)>>
Number(s) == (((s[1] % Half) * Half) + (s[2] % Half)) % 2^W

(* Mutant: all CPUs draw from the first one's seed. *)
SeedIndexMutant(me) == 0

(* The seed a CPU draws from. *)
SeedIndex(me) == me

(* Write, or check and invert, with the next random number. *)
WriteRandom(acc, a) ==
    LET s == Rand(acc.seed) IN [Write(acc, a, Number(s)) EXCEPT !.seed = s]

InvertRandom(acc, a, i) ==
    LET s == Rand(acc.seed)
        num == IF i = 1 THEN Not(Number(s)) ELSE Number(s)
    IN  [Invert(acc, a, num, Not(num)) EXCEPT !.seed = s]

(* modtst: the pattern's complement goes to all words but each offset-th.   *)
WriteRest(acc, a, c) ==
    [(IF acc.k = c.off THEN acc ELSE Write(acc, a, c.p2))
        EXCEPT !.k = IF acc.k + 1 > MOD_SZ - 1 THEN 0 ELSE acc.k + 1]

(* block_move: words that start at p, in blocks of pairs; the pattern       *)
(* rotates left through the carry after each block.                         *)
WriteBlock(acc, a, p) ==
    LET i   == (a - p) % BLOCK
        x   == acc.pat % 2^W
        out == Write(acc, a, IF (i \div 2) % 2 = 0 THEN x ELSE Not(x))
    IN  IF i < BLOCK - 1 THEN out
        ELSE [out EXCEPT !.pat = ((2 * @) % 2^(W + 1)) + (@ \div 2^W)]

(* Adjacent words must be the same. *)
CheckPair(acc, a) ==
    LET good == Load(acc.m, a)
        bad  == Load(acc.m, a + 1)
    IN  IF good = bad THEN acc
        ELSE [acc EXCEPT !.errs = Append(@, DataError(a, good, bad))]

(* rep movsl. *)
Copy(m, from, to, n) ==
    FoldLeft(LAMBDA r, i : Store(r, to + i - 1, Load(r, from + i - 1)), m,
             [i \in 1 .. n |-> i])

(* The second half becomes the first, and the first the second rotated by   *)
(* half a block.                                                            *)
MoveHalves(m, p, len) ==
    LET pp == p + len
        half == BLOCK \div 2
        m1 == Copy(m, p, pp, len)
        m2 == Copy(m1, pp, p + half, len - half)
    IN  Copy(m2, pp + len - half, p, half)

(* Mutant: stops short of pe. *)
UpwardsMutant(p, pe, step) ==
    LET n == IF p < pe THEN (pe - p + step - 1) \div step ELSE 1
    IN  [i \in 1 .. n |-> (p + ((i - 1) * step)) % Top]

(* The addresses of a loop that works at p before it compares with pe:      *)
(* upwards while below, downwards until equal, downwards while above.       *)
Upwards(p, pe, step) ==
    LET n == IF p < pe THEN (pe - p + step - 1) \div step + 1 ELSE 1
    IN  [i \in 1 .. n |-> (p + (i - 1) * step) % Top]
DownUntil(p, pe) == [i \in 1 .. ((p - pe) % Top) + 1 |-> (p - i + 1) % Top]
DownWhile(p, pe) == IF p > pe THEN DownUntil(p, pe) ELSE <<p>>

(* Loops that stop short of pe: modtst's, which works at p in any case, and *)
(* the bit fade test's.                                                     *)
Every(p, pe) ==
    LET n == IF p + MOD_SZ < pe THEN (pe - p + MOD_SZ - 1) \div MOD_SZ ELSE 1
    IN  [i \in 1 .. n |-> (p + (i - 1) * MOD_SZ) % Top]
Below(p, pe) == [i \in 1 .. (IF p < pe THEN pe - p ELSE 0) |-> p + i - 1]

(* The words of the blocks from p to the one that begins at pe.             *)
Blocks(p, pe) == [i \in 1 .. BLOCK * Len(Upwards(p, pe, BLOCK)) |-> (p + i - 1) % Top]

----------------------------------------------------------------------------
(* What do_test() calls for each pat, as a sequence of calls.               *)

NoArgs == [fn |-> "", p1 |-> 0, p2 |-> 0, iter |-> Iter, lb |-> 0, hb |-> 0,
           sval |-> 0, off |-> 0]

Movinv1(iter, p1, p2) ==
    [NoArgs EXCEPT !.fn = "movinv1", !.iter = iter, !.p1 = p1, !.p2 = p2]

(* one(i), then other(i), for i from 1 to n. *)
InTurn(n, one(_), other(_)) ==
    [i \in 1 .. 2 * n |-> IF i % 2 = 1 THEN one((i + 1) \div 2) ELSE other(i \div 2)]

(* n patterns, each followed by its complement. *)
Both(n, p(_)) == InTurn(n, LAMBDA i : Movinv1(Iter, p(i), Not(p(i))),
                           LAMBDA i : Movinv1(Iter, Not(p(i)), p(i)))

(* One bit of each byte, of which a pattern has two. *)
EightBit == Both(W \div 2, LAMBDA i : 2^((W \div 2) - i) * (1 + Half))

Movinv32(p1, lb, hb, sval, off) ==
    [NoArgs EXCEPT !.fn = "movinv32", !.p1 = p1, !.lb = lb, !.hb = hb, !.sval = sval,
                   !.off = off]

Shifting == InTurn(W, LAMBDA i : Movinv32(2^(i - 1), 1, 2^(W - 1), 0, i - 1),
                      LAMBDA i : Movinv32(Not(2^(i - 1)), Not(1), Not(2^(W - 1)), 1, i - 1))

(* Each CPU's rand(0) on a seed they all use at once gives it some p1.      *)
Modtst(p1, off) ==
    [NoArgs EXCEPT !.fn = "modtst", !.iter = 2, !.p1 = p1, !.p2 = Not(p1), !.off = off]

(* c_iter times each offset. *)
Modulo(p1) == InTurn(Iter * MOD_SZ, LAMBDA i : Modtst(p1, (i - 1) % MOD_SZ),
                                    LAMBDA i : Modtst(Not(p1), (i - 1) % MOD_SZ))

Fade(fn, p1) == [NoArgs EXCEPT !.fn = fn, !.p1 = p1]

Again(call) == [i \in 1 .. Iter |-> call]

Calls(pat, me) ==
    CASE pat = 0        -> <<[NoArgs EXCEPT !.fn = "addr_tst1"]>>
      [] pat \in {1, 2} -> <<[NoArgs EXCEPT !.fn = "addr_tst2"]>>
      [] pat \in {3, 4} -> Both(1, LAMBDA i : 0)
      [] pat = 5        -> EightBit
      [] pat = 6        -> <<[NoArgs EXCEPT !.fn = "s_barrier"]>>
                           \o Again([NoArgs EXCEPT !.fn = "random", !.iter = 2])
      [] pat = 7        -> <<[NoArgs EXCEPT !.fn = "block_move"]>>
      [] pat = 8        -> Shifting
      [] pat = 9        -> Again([NoArgs EXCEPT !.fn = "movinvr"])
      [] pat = 10       -> Modulo(sc.rnd[me])
      [] pat = 11       -> <<Fade("bit_fade_fill", 0), Fade("sleep", 0),
                             Fade("bit_fade_chk", 0), Fade("bit_fade_fill", Mask),
                             Fade("sleep", 0), Fade("bit_fade_chk", Mask)>>

(* The number of the test that has a pat, as in tseq; what error.c goes by. *)
TestNo == CASE sc.pat \in {0, 1, 2, 3} -> sc.pat
            [] sc.pat \in 5 .. 11      -> sc.pat - 1

(* The loops over all segments that a function consists of, with the        *)
(* s_barrier()s before and within it.                                       *)
Loops(fn, iter) ==
    CASE fn = "s_barrier"     -> <<"sync">>
      [] fn = "addr_tst1"     -> <<"global", "global", "bank", "bank">>
      [] fn = "addr_tst2"     -> <<"own_fill", "own_check">>
      [] fn \in {"movinv1", "random"} ->
            <<"sync", "fill">> \o InTurn(iter, LAMBDA i : "up", LAMBDA i : "down")
      [] fn = "movinv32"      ->
            <<"sync", "fill32">> \o InTurn(iter, LAMBDA i : "up32", LAMBDA i : "down32")
      [] fn = "movinvr"       -> <<"sync", "fillr", "checkr", "checkr_inv">>
      [] fn = "modtst"        ->
            <<"sync", "nth">> \o [i \in 1 .. iter |-> "rest"] \o <<"check_nth">>
      [] fn = "block_move"    -> <<"init", "sync", "move", "sync", "pairs">>
      [] fn = "bit_fade_fill" -> <<"fade_fill">>
      [] fn = "bit_fade_chk"  -> <<"fade_chk">>
      [] fn = "sleep"         -> <<"sleep">>

Downward == {"down", "down32"}
Fading   == {"fade_fill", "fade_chk"}

Whole == {"addr_tst2", "bit_fade_fill", "bit_fade_chk"}

(* What a share is a multiple of. *)
Unit(fn) == CASE fn = "movinv32"   -> ALIGN
              [] fn = "block_move" -> BLOCK
              [] OTHER             -> 1

(* What a CPU tests of segment j: its share, or all of it. *)
Region(fn, j, me) ==
    IF fn \in Whole THEN sc.map[j]
    ELSE Chunk(sc.map[j], me, mstr, sc.run_cpus, Unit(fn))

----------------------------------------------------------------------------
(* Where a CPU is.                                                          *)

LoopOf(c)  == Loops(c.args.fn, c.args.iter)[c.ph]
Shortened  == {"nth", "check_nth"}

(* start and end in the loop c is in. *)
Reach(c, me) ==
    LET r == Region(c.args.fn, c.j, me)
    IN  IF LoopOf(c) \in Shortened THEN [r EXCEPT !.end = @ - MOD_SZ] ELSE r

(* movinv32's pattern and place in it before the sweep down. *)
Turn(c) ==
    LET k == IF c.k - 1 < 0 THEN W - 1 ELSE c.k - 1
    IN  [c EXCEPT !.k = k + 1,
                  !.pat = ((c.args.lb * 2^k) + (c.args.sval * (2^k - 1))) % 2^W]

(* The loops of addr_tst1, and all whose body comes before their first tick.*)
Walking  == {"global", "bank"}
Unticked == Walking \cup {"move", "sleep"}

(* The start of segment c.j in loop c.ph; the CPU then waits in do_tick(),  *)
(* or in s_barrier().                                                       *)
AtSegment(c, me) ==
    LET loop == LoopOf(c)
        r    == Reach(c, me)
        from == IF loop \in Downward THEN r.end ELSE r.start
        c1   == [c EXCEPT !.pe = from, !.done = 0, !.rep = 0, !.wait = loop \notin Unticked,
                          !.p = IF loop \in Shortened THEN from + c.args.off ELSE from]
    IN  CASE loop \in {"fill32", "up32"} -> [c1 EXCEPT !.k = c.args.off, !.pat = c.args.p1]
          [] loop = "down32" /\ c.j = segs -> Turn(c1)
          [] loop = "rest" -> [c1 EXCEPT !.k = 0]
          [] loop = "global" -> [c1 EXCEPT !.p = RoundUp(from, GRAIN) % Top]
          [] loop = "bank" -> [c1 EXCEPT !.p = RoundUp(from, BANK) % Top]
          [] OTHER -> c1

(* Loop ph of the call, or the way back to do_test() after the last. *)
AtLoop(c, ph, me) ==
    IF ph > Len(Loops(c.args.fn, c.args.iter))
    THEN [c EXCEPT !.at = "do_test", !.wait = FALSE]
    ELSE LET loop == Loops(c.args.fn, c.args.iter)[ph]
             c1   == [c EXCEPT !.at = "test", !.ph = ph,
                               !.j = IF loop \in Downward THEN segs ELSE 1]
         IN  CASE loop = "sync"  -> [c1 EXCEPT !.wait = TRUE]
               [] loop = "sleep" -> [c1 EXCEPT !.k = 0, !.wait = FALSE]
               [] OTHER          -> AtSegment(c1, me)

(* The next segment of the loop, or the next loop. *)
NextSegment(c, me) ==
    IF LoopOf(c) \in Downward
    THEN IF c.j = 1 THEN AtLoop(c, c.ph + 1, me) ELSE AtSegment([c EXCEPT !.j = @ - 1], me)
    ELSE IF c.j = segs THEN AtLoop(c, c.ph + 1, me) ELSE AtSegment([c EXCEPT !.j = @ + 1], me)

(* The next section of the segment, if there is one. *)
NextSection(c, me) ==
    IF c.done > 0 THEN NextSegment(c, me)
    ELSE [c EXCEPT !.wait = LoopOf(c) \notin Unticked]

(* Mutant: done at the end of the share, but pe is beyond it. *)
AdvanceUpMutant(c, r) ==
    LET pe == IF (c.pe + SPINSZ) % Top > c.pe /\ c.pe # 0 THEN c.pe + SPINSZ ELSE r.end
    IN  [c EXCEPT !.pe = pe % Top, !.done = IF pe >= r.end THEN @ + 1 ELSE @]

(* Mutant: without the look at whether pe has wrapped (test.c:198). *)
AdvanceUpWrapsMutant(c, r) ==
    LET pe == (c.pe + SPINSZ) % Top
    IN  IF pe >= r.end THEN [c EXCEPT !.pe = r.end, !.done = @ + 1] ELSE [c EXCEPT !.pe = pe]

(* pe moves by SPINSZ, but not over the end of the share nor over the end   *)
(* of the address space.                                                    *)
AdvanceUp(c, r) ==
    LET pe == IF (c.pe + SPINSZ) % Top > c.pe /\ c.pe # 0 THEN c.pe + SPINSZ ELSE r.end
    IN  IF pe >= r.end THEN [c EXCEPT !.pe = r.end, !.done = @ + 1] ELSE [c EXCEPT !.pe = pe]

AdvanceDown(c, r) ==
    LET fits == (c.pe - SPINSZ) % Top < c.pe /\ c.pe # 0
        pe   == IF fits THEN (c.pe - SPINSZ) % Top ELSE r.start
    IN  IF ~fits \/ pe < r.start \/ pe > r.end
        THEN [c EXCEPT !.pe = r.start, !.done = @ + 1] ELSE [c EXCEPT !.pe = pe]

Advance(c, me) ==
    IF LoopOf(c) \in Downward THEN AdvanceDown(c, Reach(c, me)) ELSE AdvanceUp(c, Reach(c, me))

----------------------------------------------------------------------------
(* Ends of blocks; block_move takes a pe that is a multiple of a block for  *)
(* the word beyond the last.                                                *)
BlockEnd(pe) == IF pe % BLOCK = 0 THEN pe ELSE pe + 1
LastPair(pe) == IF pe % BLOCK = 0 THEN pe - 1 ELSE pe - 2

(* The words a loop visits from p to pe, in its order. *)
Visited(c) ==
    LET loop == LoopOf(c)
    IN  CASE loop = "down"      -> DownUntil(c.p, c.pe)
          [] loop = "down32"    -> DownWhile(c.p, c.pe)
          [] loop \in Shortened -> Every(c.p, c.pe)
          [] loop = "init"      -> Blocks(c.p, BlockEnd(c.pe) - BLOCK)
          [] loop = "pairs"     -> Upwards(c.p, LastPair(c.pe), 2)
          [] loop \in Fading    -> Below(c.p, c.pe)
          [] OTHER              -> Upwards(c.p, c.pe, 1)

(* What a loop, entered at c, does at word x. *)
AtWord(loop, c, r, x) ==
    LET a == c.args
    IN  CASE loop = "own_fill"   -> Write(r, x, x)
          [] loop = "own_check"  -> Check(r, x, x)
          [] loop \in {"fill", "nth", "fade_fill"}  -> Write(r, x, a.p1)
          [] loop \in {"check_nth", "fade_chk"}     -> Check(r, x, a.p1)
          [] loop = "up"         -> Invert(r, x, a.p1, a.p2)
          [] loop = "down"       -> Invert(r, x, a.p2, a.p1)
          [] loop = "fill32"     -> ShiftUp(Write(r, x, r.pat), a)
          [] loop = "up32"       -> ShiftUp(Invert(r, x, r.pat, Not(r.pat)), a)
          [] loop = "down32"     -> ShiftDown(Invert(r, x, Not(r.pat), r.pat), a)
          [] loop = "fillr"      -> WriteRandom(r, x)
          [] loop = "checkr"     -> InvertRandom(r, x, 0)
          [] loop = "checkr_inv" -> InvertRandom(r, x, 1)
          [] loop = "rest"       -> WriteRest(r, x, a)
          [] loop = "init"       -> WriteBlock(r, x, c.p)
          [] loop = "pairs"      -> CheckPair(r, x)

(* What a CPU does to a section from p to pe: acc is the memory, the errors,*)
(* the words written and the pattern's state, before and after.             *)
Swept(c, acc) ==
    LET loop == LoopOf(c)
    IN  FoldLeft(LAMBDA r, x : AtWord(loop, c, r, x), acc, Visited(c))

(* p and pe after the section: most loops end with p = pe + 1, or pe - 1;   *)
(* some take p from their last instruction, and block_move's check lets pe  *)
(* drift.                                                                   *)
Behind(c) ==
    LET loop == LoopOf(c)
        as   == Every(c.p, c.pe)
        ps   == Upwards(c.p, LastPair(c.pe), 2)
    IN  CASE loop \in Downward  -> [c EXCEPT !.p = (c.pe - 1) % Top]
          [] loop \in Shortened -> [c EXCEPT !.p = as[Len(as)] + MOD_SZ]
          [] loop = "init"      -> [c EXCEPT !.p = BlockEnd(c.pe) % Top]
          [] loop = "pairs"     -> [c EXCEPT !.p = ps[Len(ps)], !.pe = LastPair(c.pe)]
          [] OTHER              -> [c EXCEPT !.p = (c.pe + 1) % Top]

----------------------------------------------------------------------------
(* The steps of a CPU.                                                      *)

(* rand_seed() at the head of a loop of movinvr; only this CPU uses it.     *)
SeedFor(c, me) ==
    IF LoopOf(c) \in {"fillr", "checkr", "checkr_inv"} /\ c.j = 1 /\ c.p = Reach(c, me).start
    THEN <<sc.rnd[me], sc.rnd[me] + 1>>
    ELSE seed[SeedIndex(me)]

(* do_test() goes on to its next call.  In pat 6 the master draws the       *)
(* pattern the others are to read, whose complement is ~p1, and p1 is 0.    *)
Call(me) ==
    LET c  == cpu[me]
        to == c.call + 1
    IN
    /\ c.at = "do_test" /\ ~c.wait /\ c.errs = <<>>
    /\ IF to > Len(Calls(sc.pat, me))
       THEN cpu' = [cpu EXCEPT ![me].at = "done"] /\ UNCHANGED sp
       ELSE /\ cpu' = [cpu EXCEPT ![me] =
                         AtLoop([c EXCEPT !.call = to, !.args = Calls(sc.pat, me)[to]], 1, me)]
            /\ IF me = mstr /\ Calls(sc.pat, me)[to].fn = "random"
               THEN \E x \in sc.draws : sp' = <<x, Not(0)>>
               ELSE UNCHANGED sp
    /\ UNCHANGED <<sc, mem, seed, log, hist>>

(* From an s_barrier() on; what the pattern of pat 6 is, is read after it. *)
Synced(me) ==
    LET c == cpu[me]
        a == IF c.args.fn = "random" THEN [c.args EXCEPT !.p1 = sp[1], !.p2 = sp[2]] ELSE c.args
    IN
    /\ c.at = "test" /\ ~c.wait /\ c.errs = <<>> /\ LoopOf(c) = "sync"
    /\ cpu' = [cpu EXCEPT ![me] = AtLoop([c EXCEPT !.args = a], c.ph + 1, me)]
    /\ UNCHANGED <<sc, mem, sp, seed, log, hist>>

(* After a tick: the next section, unless it is empty.                      *)
Section(me) ==
    LET c   == Advance(cpu[me], me)
        acc == [m |-> mem, errs |-> <<>>, wrote |-> {}, k |-> c.k,
                pat |-> IF LoopOf(c) = "init" THEN 1 ELSE c.pat, seed |-> SeedFor(cpu[me], me)]
        out == Swept(c, acc)
    IN
    /\ cpu[me].at = "test" /\ ~cpu[me].wait /\ cpu[me].errs = <<>>
    /\ LoopOf(c) \notin Unticked \cup {"sync"}
    /\ IF c.p = c.pe
       THEN cpu' = [cpu EXCEPT ![me] = NextSegment(c, me)] /\ UNCHANGED <<mem, seed, hist>>
       ELSE /\ mem' = out.m
            /\ seed' = [seed EXCEPT ![SeedIndex(me)] = out.seed]
            /\ cpu' = [cpu EXCEPT ![me] =
                  NextSection([Behind(c) EXCEPT !.k = out.k, !.pat = out.pat,
                                                !.errs = out.errs], me)]
            /\ hist' = [hist EXCEPT !.strays =
                           @ \cup (out.wrote \ WordsOf(Region(c.args.fn, c.j, me)))]
    /\ UNCHANGED <<sc, sp, log>>

(* The moves of block_move: iter times within a section, each after a tick. *)
Move(me) ==
    LET c   == cpu[me]
        a   == Advance(c, me)
        len == (BlockEnd(c.pe) - c.p) \div 2
    IN
    /\ c.at = "test" /\ ~c.wait /\ LoopOf(c) = "move"
    /\ IF c.rep = 0
       THEN /\ cpu' = [cpu EXCEPT ![me] =
                         IF a.p = a.pe THEN NextSegment(a, me)
                         ELSE [a EXCEPT !.rep = 1, !.wait = TRUE]]
            /\ UNCHANGED <<mem, hist>>
       ELSE /\ mem' = MoveHalves(mem, c.p, len)
            /\ hist' = [hist EXCEPT !.strays = @ \cup
                  ((c.p .. c.p + (2 * len) - 1) \ WordsOf(Region(c.args.fn, c.j, me)))]
            /\ cpu' = [cpu EXCEPT ![me] =
                         IF c.rep < c.args.iter THEN [c EXCEPT !.rep = @ + 1, !.wait = TRUE]
                         ELSE NextSection([c EXCEPT !.rep = 0, !.p = c.pe], me)]
    /\ UNCHANGED <<sc, sp, seed, log>>

----------------------------------------------------------------------------
(* addr_tst1, which one CPU runs: for an address p, a pattern at p and its  *)
(* complement at each p | mask, up to the end.  A pass that finds an error  *)
(* is the last; those that find none are the same.  p points to words, so   *)
(* that p += bank goes four banks on.                                       *)
Walk(me) ==
    LET c    == cpu[me]
        loop == LoopOf(c)
        x    == IF c.ph % 2 = 1 THEN 0 ELSE Mask
        end  == IF loop = "global" THEN sc.map[segs].end ELSE sc.map[c.j].end
        pt   == c.p + 2^c.k
        m    == Store(mem, pt, Not(x))
        bad  == Load(m, c.p)
        over(p) == loop = "bank" /\ ~(p < end /\ p > sc.map[c.j].start)
        tick    == [c EXCEPT !.rep = 2, !.wait = TRUE]
    IN
    /\ c.at = "test" /\ ~c.wait /\ loop \in Walking /\ c.errs = <<>>
    /\ \/ /\ c.rep = 0 /\ ~over(c.p)
          /\ mem' = Store(mem, c.p, x)
          /\ cpu' = [cpu EXCEPT ![me].rep = 1, ![me].k = 0]
       \/ /\ c.rep = 0 /\ over(c.p)
          /\ cpu' = [cpu EXCEPT ![me] = IF c.j = segs THEN tick
                                        ELSE AtSegment([c EXCEPT !.j = @ + 1], me)]
          /\ UNCHANGED mem
       \/ /\ c.rep = 1 /\ c.k < A /\ (c.p \div 2^c.k) % 2 = 1
          /\ cpu' = [cpu EXCEPT ![me].k = @ + 1]
          /\ UNCHANGED mem
       \/ /\ c.rep = 1 /\ c.k < A /\ (c.p \div 2^c.k) % 2 = 0 /\ pt < end
          /\ mem' = m
          /\ cpu' = [cpu EXCEPT ![me].k = @ + 1,
                                ![me].errs = IF bad = x THEN <<>>
                                             ELSE <<AddressError(c.p, c.k, x, bad)>>]
       \/ /\ c.rep = 1 /\ (c.k < A => (c.p \div 2^c.k) % 2 = 0 /\ pt >= end)
          /\ cpu' = [cpu EXCEPT ![me] =
                IF loop = "global" THEN tick
                ELSE [c EXCEPT !.rep = 0, !.p = IF @ + (4 * BANK) < Top THEN @ + (4 * BANK)
                                                ELSE end]]
          /\ UNCHANGED mem
       \/ /\ c.rep = 2
          /\ cpu' = [cpu EXCEPT ![me] = AtLoop(c, c.ph + 1, me)]
          /\ UNCHANGED mem
    /\ UNCHANGED <<sc, sp, seed, log, hist>>

(* sleep(): a tick for each second that it sees go by, and it may miss some.*)
(* The charge of weak cells is gone when it ends.                           *)
Sleep(me) ==
    LET c == cpu[me]
        drain(m, s) == [m EXCEPT ![s.at] = SetBit(@, s.bit, s.val)]
    IN
    /\ c.at = "test" /\ ~c.wait /\ LoopOf(c) = "sleep"
    /\ \E t \in c.k + 1 .. Iter :
          IF t = Iter
          THEN /\ cpu' = [cpu EXCEPT ![me] = AtLoop(c, c.ph + 1, me)]
               /\ mem' = FoldLeft(drain, mem, SetToSeq(sc.fade))
          ELSE /\ cpu' = [cpu EXCEPT ![me].k = t, ![me].wait = TRUE]
               /\ UNCHANGED mem
    /\ UNCHANGED <<sc, sp, seed, log, hist>>

(* error(), ad_err1() or ad_err2(), with barr->mutex held. *)
Report(me) ==
    LET e == Head(cpu[me].errs)
    IN
    /\ cpu[me].errs # <<>>
    /\ log' = CommonErr(log, e, TestNo)
    /\ hist' = [hist EXCEPT !.n = @ + 1, !.reported = @ \cup {<<e.adr, Differ(e.good, e.bad)>>}]
    /\ cpu' = [cpu EXCEPT ![me].errs = Tail(@)]
    /\ UNCHANGED <<sc, mem, sp, seed>>

(* s_barrier(), also that of do_tick(): all go on when all have come.       *)
Meet ==
    /\ \A me \in CPUs : cpu[me].wait /\ cpu[me].errs = <<>>
    /\ cpu' = [me \in CPUs |-> [cpu[me] EXCEPT !.wait = FALSE]]
    /\ UNCHANGED <<sc, mem, sp, seed, log, hist>>

Finished == \A me \in CPUs : cpu[me].at = "done"

Init ==
    /\ sc \in Scenarios
    /\ mem = [a \in 0 .. Top - 1 |-> Top - 1]
    /\ sp = <<0, 0>>
    /\ seed = [me \in CPUs |-> <<0, 0>>]
    /\ cpu = [me \in CPUs |->
               [at |-> "do_test", wait |-> FALSE, call |-> 0, args |-> NoArgs, ph |-> 1,
                j |-> 1, p |-> 0, pe |-> 0, done |-> 0, rep |-> 0, k |-> 0, pat |-> 0,
                errs |-> <<>>]]
    /\ log = SetPrintMode(NoErrors(SUMMARY), sc.mode)
    /\ hist = [n |-> 0, reported |-> {}, strays |-> {}]

Next ==
    \/ \E me \in CPUs : Call(me) \/ Synced(me) \/ Section(me) \/ Move(me) \/ Walk(me)
                         \/ Sleep(me) \/ Report(me)
    \/ Meet
    \/ Finished /\ UNCHANGED vars

Spec == Init /\ [][Next]_vars

----------------------------------------------------------------------------
(* Properties.                                                              *)

Address == 0 .. Top - 1
Healthy == sc.stuck = {} /\ sc.line = {} /\ sc.fade = {}

(* What a test can find: only the test of addresses knows which line failed.*)
CanFind(e) == IsError(e) /\ (e.type = 1 => sc.pat = 0)

(* Addresses and words keep their width, the CPUs their places, and the     *)
(* error to be reported next is one that error.c expects.                   *)
TypeOK ==
    /\ sc \in Scenarios
    /\ mem \in [Address -> Address]
    /\ \A me \in CPUs :
          /\ cpu[me].at \in {"do_test", "test", "done"} /\ cpu[me].wait \in BOOLEAN
          /\ cpu[me].p \in Address /\ cpu[me].pe \in Address
          /\ cpu[me].k \in 0 .. Greater(A, Iter) /\ cpu[me].pat \in 0 .. (2^(W + 1)) - 1
          /\ cpu[me].errs # <<>> => CanFind(Head(cpu[me].errs))
    /\ log.printmode \in Modes /\ log.ecount \in 0 .. MAX_ERRORS

(* On memory without a fault no test reports an error: the shares do not    *)
(* overlap, a loop checks for what the loop before it has left there, and   *)
(* the patterns meet where sections and segments do (test.c:54, 693-980).   *)
(* Nor does a fault make other words look bad, but to the pats that move    *)
(* data or test addresses, which can only tell that there is one.           *)
NoFalseErrors ==
    /\ Healthy => hist.n = 0
    /\ sc.line = {} /\ sc.pat \notin {0, 7} =>
          \A r \in hist.reported : r[1] \in {s.at : s \in sc.stuck \cup sc.fade}

(* A CPU writes to no word but those of its share (test.c:54); addr_tst1    *)
(* writes where it likes.                                                   *)
StaysInShare == hist.strays = {}

(* All that wait for each other wait in the same loop of the same call: a   *)
(* tick of one is not taken for another's s_barrier() (main.c:886,          *)
(* test.c:49).                                                              *)
InStep == \A a, b \in CPUs :
             cpu[a].wait /\ cpu[b].wait => cpu[a].call = cpu[b].call /\ cpu[a].ph = cpu[b].ph

(* How far into a share its sections begin; in block_move's check they fall *)
(* short by two more words with each.                                       *)
Beginnings(m) ==
    {n * SPINSZ : n \in 0 .. Top}
        \cup (IF m = BLOCK THEN {n * (SPINSZ - 2) + 1 : n \in 1 .. Top} ELSE {})

(* All shares of a segment have as many sections as each other: one that    *)
(* begins so far into the shares is the last of all of them or of none.     *)
SameSections(s) ==
    \A j \in DOMAIN s.map, m \in {1, ALIGN, BLOCK}, me \in 0 .. s.run_cpus - 1 :
        \A o \in Beginnings(m), short \in (IF m = 1 THEN {0, MOD_SZ} ELSE {0}) :
            LET Size(i) == LET c == Chunk(s.map[j], i, s.run_cpus - 1, s.run_cpus, m)
                           IN  c.end - c.start - short
            IN  o + SPINSZ >= Size(me) <=> o + SPINSZ >= Size(0)

(* What a pat is sure to find: moving inversions write each bit of each     *)
(* word as 0 and as 1 and look after both.  The words modtst looks at end   *)
(* MOD_SZ before the share does, those of the fade test one before each     *)
(* section does.                                                            *)
InModtst(a) == \E j \in 1 .. segs, me \in CPUs :
                  a \in sc.map[j].start .. Region("modtst", j, me).end - MOD_SZ - 1
                  /\ a \in WordsOf(Region("modtst", j, me))
InFade(a) == \E j \in 1 .. segs : /\ a \in WordsOf(sc.map[j]) /\ a # sc.map[j].end
                                  /\ \/ a = sc.map[j].start
                                     \/ (a - sc.map[j].start) % SPINSZ # 0

Sure(pat) ==
    CASE pat \in {3, 5, 8, 9} -> {s.at : s \in sc.stuck}
      [] pat = 10              -> {s.at : s \in {x \in sc.stuck : InModtst(x.at)}}
      [] pat = 11              -> {s.at : s \in {x \in sc.fade : InFade(x.at)}}
      [] OTHER                 -> {}

(* Each faulty word a test is sure to find has been reported when it ends,  *)
(* wherever in a share or a section the word lies.  The own-address test    *)
(* finds an address line that is stuck, and walking ones finds it if it     *)
(* gets from one of its bases to another word on this line (test.c:179, 97).*)
Walked(b) == \E p \in {RoundUp(sc.map[1].start, GRAIN)} : /\ (p \div 2^b) % 2 = 0
                                                         /\ p + 2^b < sc.map[segs].end

FaultFound ==
    Finished =>
        /\ \A a \in Sure(sc.pat) : \E r \in hist.reported : r[1] = a
        /\ sc.line # {} /\ sc.pat \in {1, 2} => hist.n > 0
        /\ sc.pat = 0 /\ (\E b \in sc.line : Walked(b)) => hist.n > 0

----------------------------------------------------------------------------
(* Properties of the log.                                                   *)

(* The summary holds all errors between its bounds, counts them up to       *)
(* MAX_ERRORS, and its mask has the bits of them all.  Their average number *)
(* of bits, tbits / ecount, lies between the extremes, but for the error at *)
(* which the counter stops: its bits are no longer added (error.c:166-232). *)
SummaryRight ==
    LET counted == IF log.ecount = MAX_ERRORS THEN MAX_ERRORS - 1 ELSE log.ecount
    IN  log.printmode = SUMMARY =>
            /\ log.ecount = Lesser(hist.n, MAX_ERRORS)
            /\ log.ebits = UNION {r[2] : r \in hist.reported}
            /\ \A r \in hist.reported :
                  /\ (log.low_page * PAGE) + log.low_offset <= r[1]
                  /\ (log.high_page * PAGE) + log.high_offset >= r[1]
                  /\ log.min_bits <= Cardinality(r[2]) /\ log.max_bits >= Cardinality(r[2])
            /\ counted > 0 => /\ log.tbits >= counted * log.min_bits
                              /\ log.tbits <= counted * log.max_bits

(* A run of contiguous errors needs two neighbours that are bad: errors of  *)
(* one word in sweep after sweep make no run (error.c:208).  How long it is *)
(* says little: two neighbours that fail in turn count on and on.           *)
RunNeedsNeighbours ==
    log.printmode = SUMMARY /\ log.maxl > 1 =>
        \E r, s \in hist.reported : s[1] = r[1] + (IF TestNo = 7 THEN 2 ELSE 1)

(* Each different error of data has a line of its own, and a word with one  *)
(* bad bit has one line for as long as no other fails (error.c:261).  The patterns  *)
(* are made of all words found bad by a test of data, and of none other     *)
(* (error.c:383).                                                           *)
ErrorsShown ==
    /\ log.printmode = ADDRESSES /\ sc.pat # 0 =>
          /\ log.shown >= Cardinality(hist.reported)
          /\ Cardinality(hist.reported) = 1 => log.shown = 1
    /\ log.printmode = PATTERNS =>
          log.patn = IF TestNo \in {0, 5} THEN {} ELSE {r[1] : r \in hist.reported}

=============================================================================
