--------------------------- MODULE Sweeps_proofs ---------------------------
(***************************************************************************)
(* The shares of the CPUs and what the tests do in them, for every segment,*)
(* number of CPUs, fault and size of a section: shares are disjoint and    *)
(* cover the segment (calculate_chunk, test.c:36-73), and a CPU writes     *)
(* nowhere else, whatever it sweeps and however its sections end.          *)
(***************************************************************************)
EXTENDS MemTest, TLAPS, WellFoundedInduction

(* A segment has at least one word. *)
Segments == {seg \in [start : Nat, end : Nat] : seg.start <= seg.end}

LEMMA DivBounds ==
    ASSUME NEW x \in Nat, NEW k \in Nat \ {0}
    PROVE  /\ x \div k \in Nat
           /\ (x \div k) * k <= x
           /\ x < (x \div k + 1) * k
  OBVIOUS

LEMMA MultMono ==
    ASSUME NEW s \in Nat, NEW a \in Nat, NEW b \in Nat, a <= b
    PROVE  s * a \in Nat /\ s * b \in Nat /\ s * a <= s * b
  OBVIOUS

(* All shares together are no longer than the segment. *)
LEMMA ShareFits ==
    ASSUME NEW seg \in Segments, NEW n \in Nat \ {0}, NEW m \in Nat \ {0}
    PROVE  /\ Share(seg, n, m) \in Nat
           /\ Share(seg, n, m) * n <= seg.end - seg.start + 1
  <1> DEFINE len  == seg.end - seg.start + 1
             each == len \div n
  <1>1. len \in Nat
    BY DEF Segments
  <1>2. each \in Nat /\ each * n <= len
    BY <1>1, DivBounds
  <1>3. (each \div m) * m \in Nat /\ (each \div m) * m <= each
    <2>1. each \div m \in Nat /\ (each \div m) * m <= each
      BY <1>2, DivBounds
    <2>2. (each \div m) * m \in Nat
      BY <2>1, MultMono
    <2> QED BY <2>1, <2>2
  <1>4. ((each \div m) * m) * n <= each * n
    <2> DEFINE s == (each \div m) * m
    <2>1. s \in Nat /\ s <= each
      BY <1>3
    <2> HIDE DEF s, each
    <2>2. n * s <= n * each
      BY <1>2, <2>1, MultMono
    <2>3. n * s = s * n /\ n * each = each * n
      BY <1>2, <2>1
    <2>4. s * n <= each * n
      BY <2>2, <2>3
    <2> QED BY <2>4 DEF s
  <1>5. Share(seg, n, m) = (each \div m) * m
    BY DEF Share, RoundDown
  <1>6. (each \div m) * m * n \in Nat
    <2> DEFINE s == (each \div m) * m
    <2>1. s \in Nat
      BY <1>3
    <2> HIDE DEF s
    <2>2. s * n \in Nat
      BY <2>1
    <2> QED BY <2>2 DEF s
  <1> QED BY <1>1, <1>2, <1>3, <1>4, <1>5, <1>6

(* Where a share lies in the segment. *)
LEMMA ShareBounds ==
    ASSUME NEW seg \in Segments, NEW n \in Nat \ {0}, NEW m \in Nat \ {0},
           NEW me \in 0 .. n - 1
    PROVE  LET s == Share(seg, n, m)
           IN  /\ s * me \in Nat /\ s * (me + 1) \in Nat
               /\ s * (me + 1) = s * me + s
               /\ seg.start + s * (me + 1) <= seg.end + 1
  <1> DEFINE s == Share(seg, n, m)
  <1>1. s \in Nat /\ s * n <= seg.end - seg.start + 1
    BY ShareFits
  <1> HIDE DEF s
  <1>2. me \in Nat /\ me + 1 \in Nat /\ me + 1 <= n /\ n \in Nat
    OBVIOUS
  <1>3. s * me \in Nat /\ s * (me + 1) \in Nat /\ s * (me + 1) <= s * n
    BY <1>1, <1>2, MultMono
  <1>4. s * (me + 1) = s * me + s
    BY <1>1, <1>2
  <1>5. seg.start + s * (me + 1) <= seg.end + 1
    <2>1. s * n \in Nat
      BY <1>1, <1>2, MultMono
    <2>2. seg.start \in Nat /\ seg.end \in Nat
      BY DEF Segments
    <2> QED BY <1>1, <1>3, <2>1, <2>2
  <1> QED BY <1>3, <1>4, <1>5 DEF s

(* No CPU's share has words outside the segment (test.c:54): what StaysInShare *)
(* says of the writes of a CPU is so said of the segment.                   *)
THEOREM ChunkInside ==
    ASSUME NEW seg \in Segments, NEW n \in Nat \ {0}, NEW m \in Nat \ {0},
           NEW me \in 0 .. n - 1
    PROVE  WordsOf(Chunk(seg, me, n - 1, n, m)) \subseteq WordsOf(seg)
  <1> DEFINE s == Share(seg, n, m)
             c == Chunk(seg, me, n - 1, n, m)
  <1>1. /\ s * me \in Nat /\ s * (me + 1) \in Nat
        /\ seg.start + s * (me + 1) <= seg.end + 1
    BY ShareBounds
  <1>2. seg.start \in Nat /\ seg.end \in Nat
    BY DEF Segments
  <1>3. CASE n = 1
    BY <1>3 DEF Chunk, WordsOf
  <1>4. CASE n # 1
    <2>1. c.start = seg.start + s * me
      BY <1>4 DEF Chunk
    <2>2. c.end = seg.end \/ c.end = seg.start + s * (me + 1) - 1
      BY <1>4 DEF Chunk
    <2> HIDE DEF s, c
    <2>3. c.start .. c.end \subseteq seg.start .. seg.end
      BY <1>1, <1>2, <2>1, <2>2
    <2> QED BY <2>3 DEF c, WordsOf
  <1> QED BY <1>3, <1>4

(* The shares of two CPUs have no word in common (test.c:54), so that no    *)
(* CPU finds what another has written.                                      *)
THEOREM ChunksDisjoint ==
    ASSUME NEW seg \in Segments, NEW n \in Nat \ {0}, NEW m \in Nat \ {0},
           NEW me \in 0 .. n - 1, NEW you \in 0 .. n - 1, me < you
    PROVE  WordsOf(Chunk(seg, me, n - 1, n, m)) \cap WordsOf(Chunk(seg, you, n - 1, n, m)) = {}
  <1> DEFINE s == Share(seg, n, m)
             c == Chunk(seg, me, n - 1, n, m)
             d == Chunk(seg, you, n - 1, n, m)
  <1>1. s \in Nat
    BY ShareFits
  <1>2. n # 1 /\ me # n - 1
    OBVIOUS
  <1>3. c.end = seg.start + s * (me + 1) - 1 /\ d.start = seg.start + s * you
    BY <1>2 DEF Chunk
  <1>4. c.start = seg.start + s * me
    BY <1>2 DEF Chunk
  <1>5. d.end \in Int
    <2>1. d.end = seg.end \/ d.end = seg.start + s * (you + 1) - 1
      BY <1>2 DEF Chunk
    <2>2. s * (you + 1) \in Nat /\ seg.end \in Nat /\ seg.start \in Nat
      BY ShareBounds DEF Segments
    <2> HIDE DEF s, d
    <2> QED BY <2>1, <2>2
  <1> HIDE DEF s, c, d
  <1>6. me + 1 \in Nat /\ you \in Nat /\ me + 1 <= you /\ me \in Nat
    OBVIOUS
  <1>7. s * (me + 1) \in Nat /\ s * you \in Nat /\ s * (me + 1) <= s * you
    BY <1>1, <1>6, MultMono
  <1>8. s * me \in Nat /\ seg.start \in Nat
    BY <1>1, <1>6, MultMono DEF Segments
  <1>9. (c.start .. c.end) \cap (d.start .. d.end) = {}
    BY <1>3, <1>4, <1>5, <1>7, <1>8
  <1> QED BY <1>9 DEF WordsOf, c, d

(* Every word of the segment is in the share of some CPU, whatever the      *)
(* remainder of the divisions (test.c:57-70).                               *)
THEOREM ChunksCover ==
    ASSUME NEW seg \in Segments, NEW n \in Nat \ {0}, NEW m \in Nat \ {0},
           NEW w \in WordsOf(seg)
    PROVE  \E me \in 0 .. n - 1 : w \in WordsOf(Chunk(seg, me, n - 1, n, m))
  <1> DEFINE s == Share(seg, n, m)
             off == w - seg.start
  <1>1. s \in Nat
    BY ShareFits
  <1>2. seg.start \in Nat /\ seg.end \in Nat /\ w \in Nat /\ w <= seg.end /\ off \in Nat
    BY DEF Segments, WordsOf
  <1>3. n - 1 \in 0 .. n - 1
    OBVIOUS
  <1>4. CASE n = 1
    BY <1>3, <1>4 DEF Chunk, WordsOf
  <1>5. CASE n # 1 /\ s * (n - 1) <= off
    <2> DEFINE c == Chunk(seg, n - 1, n - 1, n, m)
    <2>1. c.start = seg.start + s * (n - 1) /\ c.end = seg.end
      BY <1>5 DEF Chunk
    <2>2. s * (n - 1) \in Nat
      BY <1>1, MultMono
    <2> HIDE DEF s, c
    <2>3. w \in c.start .. c.end
      BY <1>2, <1>5, <2>1, <2>2
    <2> QED BY <1>3, <2>3 DEF WordsOf, c
  <1>6. CASE n # 1 /\ off < s * (n - 1)
    <2> DEFINE me == off \div s
               c == Chunk(seg, me, n - 1, n, m)
    <2>1. s # 0
      BY <1>1, <1>2, <1>6
    <2> HIDE DEF s, off
    <2>2. me \in Nat /\ me * s <= off /\ off < (me + 1) * s
      BY <1>1, <1>2, <2>1, DivBounds
    <2> HIDE DEF me
    <2>3. me < n - 1
      <3>1. SUFFICES ASSUME n - 1 <= me PROVE FALSE
        BY <2>2
      <3>2. s * (n - 1) <= s * me
        BY <1>1, <2>2, <3>1, MultMono
      <3>3. s * me = me * s /\ s * (n - 1) \in Nat
        BY <1>1, <2>2
      <3>4. me * s \in Nat
        BY <1>1, <2>2
      <3> QED BY <1>2, <1>6, <2>2, <3>2, <3>3, <3>4
    <2>4. me \in 0 .. n - 1 /\ me # n - 1
      BY <2>2, <2>3
    <2>5. c.start = seg.start + s * me /\ c.end = seg.start + s * (me + 1) - 1
      BY <1>6, <2>4 DEF Chunk, s
    <2>6. s * me = me * s /\ s * (me + 1) = (me + 1) * s /\ s * me \in Nat /\ s * (me + 1) \in Nat
      BY <1>1, <2>2
    <2> HIDE DEF c
    <2>7. w = seg.start + off
      BY <1>2 DEF off
    <2>8. w \in c.start .. c.end
      BY <1>2, <2>2, <2>5, <2>6, <2>7
    <2> QED BY <2>4, <2>8 DEF WordsOf, c
  <1> QED
    <2>1. s * (n - 1) \in Nat
      BY <1>1, MultMono
    <2> HIDE DEF s
    <2> QED BY <1>2, <1>4, <1>5, <1>6, <2>1

----------------------------------------------------------------------------
(* Multiples.                                                               *)

LEMMA DivExact ==
    ASSUME NEW x \in Nat, NEW m \in Nat \ {0}, x % m = 0
    PROVE  x \div m \in Nat /\ x = m * (x \div m)
  OBVIOUS

LEMMA ProductExact ==
    ASSUME NEW x \in Nat, NEW m \in Nat \ {0}
    PROVE  m * x \in Nat /\ (m * x) % m = 0
  <1> DEFINE y == m * x
             q == y \div m
             r == y % m
  <1>1. y \in Nat /\ m \in Nat
    OBVIOUS
  <1>2. q \in Nat /\ r \in Nat /\ r < m /\ y = m * q + r
    BY <1>1
  <1>3. y = m * x
    OBVIOUS
  <1> HIDE DEF y, q, r
  <1>4. ~(q < x)
    <2> SUFFICES ASSUME q + 1 <= x PROVE FALSE
      BY <1>2
    <2>1. m * (q + 1) <= m * x /\ m * (q + 1) \in Nat
      BY <1>2, MultMono
    <2>2. m * (q + 1) = m * q + m /\ m * q \in Nat
      BY <1>2
    <2> QED BY <1>1, <1>2, <1>3, <2>1, <2>2
  <1>5. ~(x < q)
    <2> SUFFICES ASSUME x + 1 <= q PROVE FALSE
      BY <1>2
    <2>1. m * (x + 1) <= m * q /\ m * (x + 1) \in Nat /\ m * q \in Nat
      BY <1>2, MultMono
    <2>2. m * (x + 1) = m * x + m
      OBVIOUS
    <2> QED BY <1>1, <1>2, <1>3, <2>1, <2>2
  <1>6. q = x
    BY <1>2, <1>4, <1>5
  <1>7. r = 0
    <2>1. m * q = y
      BY <1>3, <1>6
    <2> QED BY <1>1, <1>2, <2>1
  <1> QED BY <1>1, <1>7 DEF y, r

LEMMA SumExact ==
    ASSUME NEW a \in Nat, NEW b \in Nat, NEW m \in Nat \ {0}, a % m = 0, b % m = 0
    PROVE  (a + b) % m = 0
  <1> DEFINE q == a \div m
             r == b \div m
  <1>1. q \in Nat /\ r \in Nat /\ a = m * q /\ b = m * r
    BY DivExact
  <1> HIDE DEF q, r
  <1>2. a + b = m * (q + r) /\ q + r \in Nat
    BY <1>1
  <1> QED BY <1>2, ProductExact

LEMMA LessExact ==
    ASSUME NEW a \in Nat, NEW m \in Nat \ {0}, (a + m) % m = 0
    PROVE  a % m = 0
  <1> DEFINE q == (a + m) \div m
  <1>1. q \in Nat /\ a + m = m * q
    BY DivExact
  <1> HIDE DEF q
  <1>2. q # 0
    BY <1>1
  <1>3. a = m * (q - 1) /\ q - 1 \in Nat
    BY <1>1, <1>2
  <1> QED BY <1>3, ProductExact

LEMMA TimesExact ==
    ASSUME NEW a \in Nat, NEW b \in Nat, NEW m \in Nat \ {0}, a % m = 0
    PROVE  a * b \in Nat /\ (a * b) % m = 0
  <1> DEFINE q == a \div m
  <1>1. q \in Nat /\ a = m * q
    BY DivExact
  <1> HIDE DEF q
  <1>2. a * b = m * (q * b) /\ q * b \in Nat
    BY <1>1
  <1> QED BY <1>2, ProductExact

(* Multiples of m are at least m apart. *)
LEMMA NextMultiple ==
    ASSUME NEW a \in Nat, NEW b \in Nat, NEW m \in Nat \ {0}, a % m = 0, b % m = 0, a < b
    PROVE  a + m <= b
  <1> DEFINE q == a \div m
             r == b \div m
  <1>1. q \in Nat /\ r \in Nat /\ a = m * q /\ b = m * r
    BY DivExact
  <1> HIDE DEF q, r
  <1>2. ~(r <= q)
    <2> SUFFICES ASSUME r <= q PROVE FALSE
      OBVIOUS
    <2>1. m * r <= m * q
      BY <1>1, MultMono
    <2> QED BY <1>1, <2>1
  <1>3. m * (q + 1) <= m * r
    BY <1>1, <1>2, MultMono
  <1>4. m * (q + 1) = m * q + m
    BY <1>1
  <1> QED BY <1>1, <1>3, <1>4

----------------------------------------------------------------------------
(* Sizes and segments.                                                      *)

LEMMA Sizes ==
    /\ A \in Nat \ {0} /\ SPINSZ \in Nat \ {0} /\ ALIGN \in Nat \ {0} /\ BLOCK \in Nat \ {0}
    /\ MOD_SZ \in Nat \ {0} /\ GRAIN \in Nat \ {0} /\ BANK \in Nat \ {0} /\ Iter \in Nat \ {0}
    /\ W \in Nat \ {0} /\ Top \in Nat \ {0} /\ BLOCK % 2 = 0 /\ BLOCK > 1
    /\ PAGE % BLOCK = 0 /\ SPINSZ % PAGE = 0 /\ MOD_SZ < PAGE /\ PAGE \in Nat \ {0}
    /\ SPINSZ <= Top
  BY SizesAssumption, LogAssumption

LEMMA Sections ==
    SPINSZ % BLOCK = 0 /\ SPINSZ >= BLOCK /\ SPINSZ >= PAGE /\ SPINSZ > MOD_SZ /\ SPINSZ > 1
  <1> DEFINE k == SPINSZ \div PAGE
  <1>1. k \in Nat /\ SPINSZ = PAGE * k
    BY Sizes, DivExact
  <1> HIDE DEF k
  <1>2. (PAGE * k) % BLOCK = 0
    <2>1. PAGE \in Nat /\ BLOCK \in Nat \ {0} /\ PAGE % BLOCK = 0 /\ k \in Nat
      BY <1>1, Sizes
    <2> QED BY <2>1, TimesExact, Zenon
  <1>3. SPINSZ % BLOCK = 0
    BY <1>1, <1>2
  <1>4. 0 % BLOCK = 0 /\ 0 % PAGE = 0
    BY Sizes
  <1> QED BY <1>3, <1>4, Sizes, NextMultiple

Units == {1, ALIGN, BLOCK}

(* What the scenario says of a segment. *)
LEMMA SegmentFacts ==
    ASSUME sc \in Scenarios, NEW j \in 1 .. segs, NEW seg, seg = sc.map[j]
    PROVE  /\ seg \in Segments /\ sc.run_cpus \in Nat \ {0}
           /\ DOMAIN seg = {"start", "end"}
           /\ seg.start \in 3 .. Top - 1 /\ seg.end \in 3 .. Top - 1 /\ seg.start <= seg.end
           /\ seg.start % BLOCK = 0 /\ (seg.end + 1) % BLOCK = 0
           /\ Share(seg, sc.run_cpus, 1) > MOD_SZ
           /\ \A m \in Units : m \in Nat \ {0} /\ Share(seg, sc.run_cpus, m) > 0
  <1>1. j \in DOMAIN sc.map
    BY ScenariosAssumption DEF segs
  <1>2. /\ seg \in [start : 3 .. Top - 1, end : 3 .. Top - 1] /\ seg.start <= seg.end
        /\ seg.start % BLOCK = 0 /\ (seg.end + 1) % BLOCK = 0
        /\ Share(seg, sc.run_cpus, 1) > MOD_SZ
        /\ Share(seg, sc.run_cpus, ALIGN) > 0 /\ Share(seg, sc.run_cpus, BLOCK) > 0
        /\ sc.run_cpus \in Nat \ {0}
    BY <1>1, ScenariosAssumption
  <1>3. seg \in Segments
    BY <1>2 DEF Segments
  <1>4. Share(seg, sc.run_cpus, 1) \in Nat
    <2>1. 1 \in Nat \ {0} /\ sc.run_cpus \in Nat \ {0}
      BY <1>2
    <2> QED BY <1>3, <2>1, ShareFits
  <1> QED BY <1>2, <1>3, <1>4, Sizes DEF Units

(* Where a share begins and ends, and that it is not empty. *)
LEMMA ChunkFacts ==
    ASSUME NEW seg \in Segments, DOMAIN seg = {"start", "end"}, NEW n \in Nat \ {0},
           NEW m \in Nat \ {0}, NEW me \in 0 .. n - 1,
           NEW r, r = Chunk(seg, me, n - 1, n, m)
    PROVE  /\ DOMAIN r = {"start", "end"} /\ r.start \in Nat /\ r.end \in Int
           /\ seg.start <= r.start /\ r.end <= seg.end
           /\ r.start + Share(seg, n, m) <= r.end + 1
           /\ r.start = seg.start \/ r.start = seg.start + Share(seg, n, m) * me
           /\ \/ r.end = seg.end
              \/ r.end + 1 = r.start + Share(seg, n, m)
  <1> DEFINE s == Share(seg, n, m)
  <1>0. seg.start \in Nat /\ seg.end \in Nat /\ seg.start <= seg.end
    BY DEF Segments
  <1>1. /\ s \in Nat /\ s * me \in Nat /\ s * (me + 1) \in Nat /\ s * (me + 1) = s * me + s
        /\ seg.start + s * (me + 1) <= seg.end + 1
    BY ShareBounds, ShareFits
  <1>2. n = 1 => me = 0
    OBVIOUS
  <1>3. n = 1 => s * me = 0
    BY <1>1, <1>2
  <1>4. r = IF n = 1 THEN [start |-> seg.start, end |-> seg.end]
            ELSE [start |-> seg.start + s * me,
                  end |-> IF me = n - 1 THEN seg.end ELSE seg.start + s * (me + 1) - 1]
    BY DEF Chunk
  <1> HIDE DEF s
  <1>5. CASE n = 1
    <2>1. r.start = seg.start /\ r.end = seg.end /\ DOMAIN r = {"start", "end"}
      BY <1>4, <1>5
    <2>2. s <= seg.end - seg.start + 1
      BY <1>0, <1>1, <1>3, <1>5
    <2> QED BY <1>0, <1>1, <2>1, <2>2 DEF s
  <1>6. CASE n # 1
    <2>1. /\ r.start = seg.start + s * me /\ DOMAIN r = {"start", "end"}
          /\ r.end = IF me = n - 1 THEN seg.end ELSE seg.start + s * (me + 1) - 1
      BY <1>4, <1>6
    <2> QED BY <1>0, <1>1, <2>1 DEF s
  <1> QED BY <1>5, <1>6

(* What a CPU is to test of segment j. *)
LEMMA RegionFacts ==
    ASSUME sc \in Scenarios, NEW me \in CPUs, NEW j \in 1 .. segs, NEW fn,
           NEW r, r = Region(fn, j, me)
    PROVE  /\ DOMAIN r = {"start", "end"}
           /\ r.start \in 3 .. Top - 1 /\ r.end \in 3 .. Top - 1 /\ r.start <= r.end
           /\ fn = "modtst" => r.start + MOD_SZ <= r.end
           /\ fn = "block_move" => r.start % BLOCK = 0 /\ (r.end + 1) % BLOCK = 0
  <1> DEFINE seg == sc.map[j]
             n == sc.run_cpus
             m == Unit(fn)
             s == Share(seg, n, m)
  <1>1. m \in Units
    BY DEF Unit, Units
  <1>2. /\ seg \in Segments /\ n \in Nat \ {0} /\ DOMAIN seg = {"start", "end"}
        /\ seg.start \in 3 .. Top - 1 /\ seg.end \in 3 .. Top - 1 /\ seg.start <= seg.end
        /\ seg.start % BLOCK = 0 /\ (seg.end + 1) % BLOCK = 0
        /\ Share(seg, n, 1) > MOD_SZ /\ m \in Nat \ {0} /\ s > 0
    BY <1>1, SegmentFacts
  <1>3. s \in Nat
    BY <1>2, ShareFits
  <1>4. CASE fn \in Whole
    <2>1. r = seg /\ fn # "modtst" /\ fn # "block_move"
      BY <1>4 DEF Region, Whole
    <2> QED BY <1>2, <2>1
  <1>5. CASE fn \notin Whole
    <2>1. r = Chunk(seg, me, n - 1, n, m) /\ me \in 0 .. n - 1
      BY <1>5 DEF Region, CPUs, mstr
    <2>2. /\ DOMAIN r = {"start", "end"} /\ r.start \in Nat /\ r.end \in Int
          /\ seg.start <= r.start /\ r.end <= seg.end
          /\ r.start + s <= r.end + 1
          /\ r.start = seg.start \/ r.start = seg.start + s * me
          /\ r.end = seg.end \/ r.end + 1 = r.start + s
      <3>1. seg \in Segments /\ DOMAIN seg = {"start", "end"} /\ n \in Nat \ {0} /\ m \in Nat \ {0}
        BY <1>2
      <3> HIDE DEF seg, n, m
      <3> QED BY <2>1, <3>1, ChunkFacts
    <2> HIDE DEF seg, n, m, s
    <2>3. r.start \in 3 .. Top - 1 /\ r.end \in 3 .. Top - 1 /\ r.start <= r.end
      BY <1>2, <1>3, <2>2, Sizes
    <2>4. fn = "modtst" => r.start + MOD_SZ <= r.end
      <3>1. fn = "modtst" => m = 1
        BY DEF m, Unit
      <3>2. m = 1 => s > MOD_SZ
        BY <1>2 DEF s
      <3> QED BY <1>3, <2>2, <2>3, <3>1, <3>2, Sizes
    <2>5. fn = "block_move" => r.start % BLOCK = 0 /\ (r.end + 1) % BLOCK = 0
      <3> SUFFICES ASSUME fn = "block_move"
                   PROVE  r.start % BLOCK = 0 /\ (r.end + 1) % BLOCK = 0
        OBVIOUS
      <3>1. m = BLOCK
        BY DEF m, Unit
      <3>2. s % BLOCK = 0
        <4> DEFINE q == ((seg.end - seg.start + 1) \div n) \div m
        <4>1. q \in Nat
          <5>1. seg.end - seg.start + 1 \in Nat
            BY <1>2
          <5> QED BY <1>2, <5>1
        <4>2. s = q * m
          BY DEF s, Share, RoundDown
        <4> HIDE DEF q
        <4>3. s = m * q
          BY <1>2, <4>1, <4>2
        <4> QED BY <1>2, <3>1, <4>1, <4>3, ProductExact
      <3>3. me \in Nat
        BY <1>2, <2>1
      <3>4. s * me \in Nat /\ (s * me) % BLOCK = 0
        BY <1>3, <3>2, <3>3, Sizes, TimesExact
      <3>5. (seg.start + s * me) % BLOCK = 0
        BY <1>2, <3>4, Sizes, SumExact
      <3>6. r.start % BLOCK = 0
        BY <1>2, <2>2, <3>5
      <3>7. (r.start + s) % BLOCK = 0
        BY <1>3, <2>2, <3>2, <3>6, Sizes, SumExact
      <3> QED BY <1>2, <2>2, <3>6, <3>7
    <2> QED BY <2>2, <2>3, <2>4, <2>5
  <1> QED BY <1>4, <1>5

----------------------------------------------------------------------------
(* The words a loop visits.                                                 *)

(* A list of words from a to b. *)
IsListOf(s, a, b) ==
    /\ Len(s) \in Nat /\ DOMAIN s = 1 .. Len(s)
    /\ \A i \in 1 .. Len(s) : s[i] \in a .. b

LEMMA ModWithin ==
    ASSUME NEW x \in 0 .. Top - 1
    PROVE  x % Top = x
  BY Sizes

LEMMA UpwardsWithin ==
    ASSUME NEW p \in 0 .. Top - 1, NEW pe \in Int, NEW step \in Nat \ {0},
           NEW last \in 0 .. Top - 1, p <= last, pe + step - 1 <= last
    PROVE  IsListOf(Upwards(p, pe, step), p, last) /\ Len(Upwards(p, pe, step)) >= 1
  <1> DEFINE k == (pe - p + step - 1) \div step
             n == IF p < pe THEN k + 1 ELSE 1
  <1>1. p < pe => k \in Nat /\ k * step <= pe - p + step - 1
    <2> SUFFICES ASSUME p < pe PROVE k \in Nat /\ k * step <= pe - p + step - 1
      OBVIOUS
    <2>1. pe - p + step - 1 \in Nat
      OBVIOUS
    <2> QED BY <2>1, DivBounds
  <1>2. Upwards(p, pe, step) = [i \in 1 .. n |-> (p + (i - 1) * step) % Top]
    BY DEF Upwards
  <1> HIDE DEF k
  <1>3. n \in Nat /\ n >= 1
    BY <1>1
  <1>4. ASSUME NEW i \in 1 .. n
        PROVE  (i - 1) * step \in Nat /\ p + (i - 1) * step <= last
    <2>1. i - 1 \in Nat
      OBVIOUS
    <2>2. (i - 1) * step = step * (i - 1) /\ step * (i - 1) \in Nat
      BY <2>1
    <2>3. CASE p < pe
      <3>1. i - 1 <= k /\ k \in Nat
        BY <1>1, <2>3
      <3>2. step * (i - 1) <= step * k
        BY <2>1, <3>1, MultMono
      <3>3. step * k = k * step /\ step * k \in Nat
        BY <3>1
      <3> QED BY <1>1, <2>2, <2>3, <3>2, <3>3
    <2>4. CASE ~(p < pe)
      <3>1. i - 1 = 0
        BY <2>4
      <3>2. (i - 1) * step = 0
        BY <3>1
      <3> QED BY <3>2
    <2> QED BY <2>3, <2>4
  <1> HIDE DEF n
  <1>5. ASSUME NEW i \in 1 .. n
        PROVE  (p + (i - 1) * step) % Top \in p .. last
    <2> DEFINE d == (i - 1) * step
               x == p + d
    <2>1. d \in Nat /\ p + d <= last
      BY <1>4
    <2> HIDE DEF d
    <2>2. x \in p .. last /\ x \in 0 .. Top - 1
      BY <2>1, Sizes
    <2> HIDE DEF x
    <2>3. x % Top = x
      BY <2>2, ModWithin
    <2> QED BY <2>2, <2>3 DEF x, d
  <1> QED BY <1>2, <1>3, <1>5 DEF IsListOf

LEMMA BlocksWithin ==
    ASSUME NEW p \in 0 .. Top - 1, NEW pe \in Nat, p <= pe, p % BLOCK = 0, pe % BLOCK = 0,
           pe + BLOCK - 1 <= Top - 1
    PROVE  IsListOf(Blocks(p, pe), p, pe + BLOCK - 1)
  <1> DEFINE k == (pe - p + BLOCK - 1) \div BLOCK
             n == IF p < pe THEN k + 1 ELSE 1
  <1>1. p < pe => k \in Nat /\ BLOCK * k \in Nat /\ BLOCK * k <= pe - p + BLOCK - 1
    <2> SUFFICES ASSUME p < pe
                 PROVE  k \in Nat /\ BLOCK * k \in Nat /\ BLOCK * k <= pe - p + BLOCK - 1
      OBVIOUS
    <2>1. pe - p + BLOCK - 1 \in Nat
      BY Sizes
    <2>2. k \in Nat /\ k * BLOCK <= pe - p + BLOCK - 1
      BY <2>1, Sizes, DivBounds
    <2> HIDE DEF k
    <2>3. k * BLOCK = BLOCK * k /\ BLOCK * k \in Nat
      BY <2>2, Sizes
    <2> QED BY <2>2, <2>3
  <1>2. Len(Upwards(p, pe, BLOCK)) = n
    <2>1. n \in Nat
      BY <1>1
    <2> HIDE DEF n
    <2>2. Upwards(p, pe, BLOCK) = [i \in 1 .. n |-> (p + (i - 1) * BLOCK) % Top]
      BY DEF Upwards, n
    <2> QED BY <2>1, <2>2
  <1>3. BLOCK * n \in Nat /\ p + BLOCK * n <= pe + BLOCK
    <2>1. CASE p < pe
      <3> HIDE DEF k
      <3>1. k \in Nat /\ BLOCK * k \in Nat /\ BLOCK * k <= pe - p + BLOCK - 1 /\ n = k + 1
        BY <1>1, <2>1
      <3>2. BLOCK * n = BLOCK * k + BLOCK
        BY <3>1, Sizes
      <3> DEFINE all == BLOCK * k
      <3>3. all \in Nat /\ all % BLOCK = 0
        BY <3>1, Sizes, ProductExact
      <3>4. all <= pe - p + BLOCK - 1 /\ BLOCK * n = all + BLOCK
        BY <3>1, <3>2
      <3> HIDE DEF all, n
      <3>5. p \in Nat /\ BLOCK \in Nat \ {0} /\ p + all \in Nat
        BY <3>3, Sizes
      <3>6. (p + all) % BLOCK = 0
        BY <3>3, <3>5, SumExact, Zenon
      <3>7. ~(pe < p + all)
        <4> SUFFICES ASSUME pe < p + all PROVE FALSE
          OBVIOUS
        <4>1. pe + BLOCK <= p + all
          BY <3>5, <3>6, NextMultiple, Zenon
        <4> QED BY <3>3, <3>4, <3>5, <4>1
      <3> QED BY <3>3, <3>4, <3>5, <3>7
    <2>2. CASE ~(p < pe)
      <3>1. n = 1 /\ BLOCK * n = BLOCK
        BY <2>2, Sizes
      <3> QED BY <3>1, Sizes
    <2> QED BY <2>1, <2>2
  <1> DEFINE len == BLOCK * n
  <1>4. Blocks(p, pe) = [i \in 1 .. len |-> (p + i - 1) % Top]
    BY <1>2 DEF Blocks
  <1>5. len \in Nat /\ p + len <= pe + BLOCK
    BY <1>3
  <1> HIDE DEF len, n
  <1>6. ASSUME NEW i \in 1 .. len
        PROVE  (p + i - 1) % Top \in p .. pe + BLOCK - 1
    <2> DEFINE x == p + i - 1
    <2>1. x \in p .. pe + BLOCK - 1 /\ x \in 0 .. Top - 1
      BY <1>5, Sizes
    <2> HIDE DEF x
    <2>2. x % Top = x
      BY <2>1, ModWithin
    <2> QED BY <2>1, <2>2 DEF x
  <1> QED BY <1>4, <1>5, <1>6 DEF IsListOf

LEMMA DownWithin ==
    ASSUME NEW p \in 0 .. Top - 1, NEW pe \in 0 .. Top - 1, pe <= p
    PROVE  /\ IsListOf(DownUntil(p, pe), pe, p)
           /\ IsListOf(DownWhile(p, pe), pe, p)
  <1> DEFINE n == p - pe + 1
  <1>1. (p - pe) % Top = p - pe
    <2>1. p - pe \in 0 .. Top - 1
      BY Sizes
    <2> QED BY <2>1, ModWithin
  <1>2. DownUntil(p, pe) = [i \in 1 .. n |-> (p - i + 1) % Top]
    BY <1>1 DEF DownUntil
  <1>3. n \in Nat
    OBVIOUS
  <1>4. ASSUME NEW i \in 1 .. n
        PROVE  (p - i + 1) % Top \in pe .. p
    <2> DEFINE x == p - i + 1
    <2>1. x \in pe .. p /\ x \in 0 .. Top - 1
      BY Sizes
    <2> HIDE DEF x
    <2>2. x % Top = x
      BY <2>1, ModWithin
    <2> QED BY <2>1, <2>2 DEF x
  <1> HIDE DEF n
  <1>5. IsListOf(DownUntil(p, pe), pe, p)
    BY <1>2, <1>3, <1>4 DEF IsListOf
  <1>6. IsListOf(<<p>>, pe, p)
    BY DEF IsListOf
  <1> QED BY <1>5, <1>6 DEF DownWhile

(* The words modtst looks at, and where the last one is. *)
LEMMA EveryWithin ==
    ASSUME NEW p \in 0 .. Top - 1, NEW pe \in 0 .. Top - 1, NEW last \in 0 .. Top - 1,
           p <= last, pe - 1 <= last, NEW s, s = Every(p, pe)
    PROVE  /\ IsListOf(s, p, last)
           /\ Len(s) >= 1
           /\ s[Len(s)] = p \/ s[Len(s)] <= pe - 1
  <1> DEFINE k == (pe - p + MOD_SZ - 1) \div MOD_SZ
             n == IF p + MOD_SZ < pe THEN k ELSE 1
  <1>1. p + MOD_SZ < pe => k \in Nat /\ k >= 1 /\ k * MOD_SZ <= pe - p + MOD_SZ - 1
    <2> SUFFICES ASSUME p + MOD_SZ < pe
                 PROVE  k \in Nat /\ k >= 1 /\ k * MOD_SZ <= pe - p + MOD_SZ - 1
      OBVIOUS
    <2>1. pe - p + MOD_SZ - 1 \in Nat /\ pe - p + MOD_SZ - 1 >= MOD_SZ
      BY Sizes
    <2>2. k \in Nat /\ k * MOD_SZ <= pe - p + MOD_SZ - 1 /\ pe - p + MOD_SZ - 1 < (k + 1) * MOD_SZ
      BY <2>1, Sizes, DivBounds
    <2> HIDE DEF k
    <2>3. k # 0
      BY <2>1, <2>2, Sizes
    <2> QED BY <2>2, <2>3
  <1>2. s = [i \in 1 .. n |-> (p + (i - 1) * MOD_SZ) % Top]
    BY DEF Every
  <1> HIDE DEF k
  <1>3. n \in Nat /\ n >= 1
    BY <1>1
  <1>4. ASSUME NEW i \in 1 .. n
        PROVE  /\ (i - 1) * MOD_SZ \in Nat
               /\ p + (i - 1) * MOD_SZ = p \/ p + (i - 1) * MOD_SZ <= pe - 1
    <2>1. i - 1 \in Nat
      OBVIOUS
    <2>2. (i - 1) * MOD_SZ = MOD_SZ * (i - 1) /\ MOD_SZ * (i - 1) \in Nat
      BY <2>1, Sizes
    <2>3. CASE p + MOD_SZ < pe
      <3>1. i - 1 <= k - 1 /\ k - 1 \in Nat
        BY <1>1, <2>3
      <3>2. MOD_SZ * (i - 1) <= MOD_SZ * (k - 1)
        BY <2>1, <3>1, Sizes, MultMono
      <3>3. MOD_SZ * (k - 1) = k * MOD_SZ - MOD_SZ /\ k * MOD_SZ \in Nat
        <4>1. k \in Nat /\ MOD_SZ \in Nat
          BY <1>1, <2>3, Sizes
        <4>2. k * MOD_SZ \in Nat /\ k * MOD_SZ = MOD_SZ * k
          BY <4>1
        <4>3. MOD_SZ * (k - 1) = MOD_SZ * k - MOD_SZ
          BY <4>1
        <4> QED BY <4>2, <4>3
      <3> QED BY <1>1, <2>2, <2>3, <3>2, <3>3, Sizes
    <2>4. CASE ~(p + MOD_SZ < pe)
      <3>1. i - 1 = 0
        BY <2>4
      <3>2. (i - 1) * MOD_SZ = 0
        BY <3>1, Sizes
      <3> QED BY <3>2
    <2> QED BY <2>3, <2>4
  <1> HIDE DEF n
  <1>5. ASSUME NEW i \in 1 .. n
        PROVE  /\ (p + (i - 1) * MOD_SZ) % Top \in p .. last
               /\ \/ (p + (i - 1) * MOD_SZ) % Top = p
                  \/ (p + (i - 1) * MOD_SZ) % Top <= pe - 1
    <2> DEFINE d == (i - 1) * MOD_SZ
               x == p + d
    <2>1. d \in Nat /\ (p + d = p \/ p + d <= pe - 1)
      BY <1>4
    <2> HIDE DEF d
    <2>2. x \in p .. last /\ x \in 0 .. Top - 1 /\ (x = p \/ x <= pe - 1)
      BY <2>1, Sizes
    <2> HIDE DEF x
    <2>3. x % Top = x
      BY <2>2, ModWithin
    <2> QED BY <2>2, <2>3 DEF x, d
  <1>6. Len(s) = n /\ DOMAIN s = 1 .. n
    BY <1>2, <1>3
  <1>7. n \in 1 .. n
    BY <1>3
  <1>8. s[n] = p \/ s[n] <= pe - 1
    BY <1>2, <1>5, <1>7
  <1> QED BY <1>2, <1>3, <1>5, <1>6, <1>8 DEF IsListOf

LEMMA BelowWithin ==
    ASSUME NEW p \in Nat, NEW pe \in Nat
    PROVE  IsListOf(Below(p, pe), p, pe - 1)
  <1> DEFINE n == IF p < pe THEN pe - p ELSE 0
  <1>1. n \in Nat
    OBVIOUS
  <1>2. Below(p, pe) = [i \in 1 .. n |-> p + i - 1]
    BY DEF Below
  <1>3. ASSUME NEW i \in 1 .. n PROVE p + i - 1 \in p .. pe - 1
    OBVIOUS
  <1> HIDE DEF n
  <1> QED BY <1>1, <1>2, <1>3 DEF IsListOf

----------------------------------------------------------------------------
(* What a loop does at a word: it may write there, and find an error there. *)

IsErrs(s) == \E T : s \in Seq(T) /\ \A e \in T : CanFind(e)

LEMMA NoErrs == IsErrs(<<>>)
  <1> DEFINE T == {}
  <1>1. <<>> \in Seq(T) /\ \A e \in T : CanFind(e)
    OBVIOUS
  <1> HIDE DEF T
  <1> QED BY <1>1 DEF IsErrs

LEMMA MoreErrs ==
    ASSUME NEW s, IsErrs(s), NEW e, CanFind(e)
    PROVE  IsErrs(Append(s, e)) /\ IsErrs(<<e>>)
  <1>1. PICK T : s \in Seq(T) /\ \A x \in T : CanFind(x)
    BY DEF IsErrs
  <1> DEFINE U == T \cup {e}
  <1>2. \A x \in U : CanFind(x)
    BY <1>1
  <1>3. e \in U /\ s \in Seq(U)
    <2>1. Len(s) \in Nat /\ DOMAIN s = 1 .. Len(s) /\ \A i \in 1 .. Len(s) : s[i] \in T
      BY <1>1
    <2>2. s = [i \in 1 .. Len(s) |-> s[i]]
      BY <1>1
    <2>3. \A i \in 1 .. Len(s) : s[i] \in U
      BY <2>1
    <2> QED BY <2>1, <2>2, <2>3
  <1>4. Append(s, e) \in Seq(U) /\ <<e>> \in Seq(U)
    BY <1>3
  <1> HIDE DEF U
  <1> QED BY <1>2, <1>4 DEF IsErrs

LEMMA FirstErr ==
    ASSUME NEW s, IsErrs(s), s # <<>>
    PROVE  CanFind(Head(s)) /\ IsErrs(Tail(s))
  <1>1. PICK T : s \in Seq(T) /\ \A x \in T : CanFind(x)
    BY DEF IsErrs
  <1>2. Head(s) \in T /\ Tail(s) \in Seq(T)
    BY <1>1
  <1> QED BY <1>1, <1>2 DEF IsErrs

(* What a sweep carries along, with writes to words of S only.              *)
IsAcc(r, S) ==
    /\ DOMAIN r = {"m", "errs", "wrote", "k", "pat", "seed"}
    /\ r.wrote \subseteq S /\ IsErrs(r.errs)

IsWord(x) == x \in Nat /\ x > 2

LEMMA FindsData ==
    ASSUME NEW a, IsWord(a), NEW good, NEW bad
    PROVE  CanFind(DataError(a, good, bad))
  BY DEF CanFind, IsError, DataError, Differ, IsWord

LEMMA CheckKeeps ==
    ASSUME NEW S, NEW r, IsAcc(r, S), NEW a, IsWord(a), NEW good
    PROVE  IsAcc(Check(r, a, good), S)
  <1> DEFINE e == DataError(a, good, Load(r.m, a))
  <1>1. IsErrs(Append(r.errs, e))
    BY FindsData, MoreErrs DEF IsAcc
  <1> HIDE DEF e
  <1>2. IsAcc([r EXCEPT !.errs = Append(@, e)], S)
    BY <1>1 DEF IsAcc
  <1> QED BY <1>2 DEF Check, e

LEMMA PairKeeps ==
    ASSUME NEW S, NEW r, IsAcc(r, S), NEW a, IsWord(a)
    PROVE  IsAcc(CheckPair(r, a), S)
  <1> DEFINE e == DataError(a, Load(r.m, a), Load(r.m, a + 1))
  <1>1. IsErrs(Append(r.errs, e))
    BY FindsData, MoreErrs DEF IsAcc
  <1> HIDE DEF e
  <1>2. IsAcc([r EXCEPT !.errs = Append(@, e)], S)
    BY <1>1 DEF IsAcc
  <1> QED BY <1>2 DEF CheckPair, e

LEMMA WriteKeeps ==
    ASSUME NEW S, NEW r, IsAcc(r, S), NEW a \in S, NEW x
    PROVE  IsAcc(Write(r, a, x), S)
  <1> DEFINE m == Store(r.m, a, x)
  <1> HIDE DEF m
  <1>1. IsAcc([r EXCEPT !.m = m, !.wrote = @ \cup {a}], S)
    BY DEF IsAcc
  <1> QED BY <1>1 DEF Write, m

LEMMA InvertKeeps ==
    ASSUME NEW S, NEW r, IsAcc(r, S), NEW a \in S, IsWord(a), NEW from, NEW to
    PROVE  IsAcc(Invert(r, a, from, to), S)
  BY CheckKeeps, WriteKeeps DEF Invert

LEMMA PatternKeeps ==
    ASSUME NEW S, NEW r, IsAcc(r, S)
    PROVE  /\ \A x : IsAcc([r EXCEPT !.seed = x], S) /\ IsAcc([r EXCEPT !.pat = x], S)
                     /\ IsAcc([r EXCEPT !.k = x], S)
           /\ \A x, y : IsAcc([r EXCEPT !.k = x, !.pat = y], S)
  BY DEF IsAcc

LEMMA ShiftKeeps ==
    ASSUME NEW S, NEW r, IsAcc(r, S), NEW c
    PROVE  IsAcc(ShiftUp(r, c), S) /\ IsAcc(ShiftDown(r, c), S)
  BY PatternKeeps DEF ShiftUp, ShiftDown

LEMMA RandomKeeps ==
    ASSUME NEW S, NEW r, IsAcc(r, S), NEW a \in S, IsWord(a)
    PROVE  /\ IsAcc(WriteRandom(r, a), S)
           /\ IsAcc(InvertRandom(r, a, 0), S) /\ IsAcc(InvertRandom(r, a, 1), S)
  BY WriteKeeps, InvertKeeps, PatternKeeps DEF WriteRandom, InvertRandom

LEMMA RestKeeps ==
    ASSUME NEW S, NEW r, IsAcc(r, S), NEW a \in S, NEW c
    PROVE  IsAcc(WriteRest(r, a, c), S)
  BY WriteKeeps, PatternKeeps DEF WriteRest

LEMMA BlockKeeps ==
    ASSUME NEW S, NEW r, IsAcc(r, S), NEW a \in S, NEW p
    PROVE  IsAcc(WriteBlock(r, a, p), S)
  BY WriteKeeps, PatternKeeps DEF WriteBlock

Rising ==
    {"own_fill", "own_check", "fill", "up", "fill32", "up32", "fillr", "checkr", "checkr_inv",
     "rest"} \cup Fading
Sweeping == Rising \cup Downward \cup Shortened \cup {"init", "pairs"}

LEMMA WordKeeps ==
    ASSUME NEW S, NEW r, IsAcc(r, S), NEW x \in S, IsWord(x), NEW c, NEW loop \in Sweeping
    PROVE  IsAcc(AtWord(loop, c, r, x), S)
  <1> USE CheckKeeps, WriteKeeps, InvertKeeps, ShiftKeeps, RandomKeeps, RestKeeps, BlockKeeps,
          PairKeeps
  <1>1. CASE loop \in {"own_fill", "own_check", "fill", "nth", "fade_fill", "check_nth", "fade_chk"}
    BY <1>1 DEF AtWord
  <1>2. CASE loop \in {"up", "down", "fill32", "up32", "down32"}
    BY <1>2 DEF AtWord
  <1>3. CASE loop \in {"fillr", "checkr", "checkr_inv", "rest", "init", "pairs"}
    BY <1>3 DEF AtWord
  <1> QED BY <1>1, <1>2, <1>3 DEF Sweeping, Rising, Downward, Shortened, Fading

----------------------------------------------------------------------------
(* A sweep, which is a fold over the words: a function on sets of positions,*)
(* of which each takes its value from the set without its greatest.         *)

LEMMA LeastNumber ==
    ASSUME NEW S, S \subseteq Nat, S # {}
    PROVE  \E x \in S : \A y \in S : x <= y
  <1> DEFINE Less == {ss \in Nat \X Nat : ss[1] < ss[2]}
  <1>1. IsWellFoundedOn(Less, Nat)
    BY NatLessThanWellFounded DEF OpToRel
  <1>2. PICK x \in S : \A y \in S : <<y, x>> \notin Less
    BY <1>1, WFMin
  <1>3. ASSUME NEW y \in S PROVE x <= y
    <2>1. <<y, x>> \in Nat \X Nat /\ <<y, x>>[1] = y /\ <<y, x>>[2] = x
      OBVIOUS
    <2>2. ~(y < x)
      BY <1>2, <2>1
    <2> QED BY <2>1, <2>2
  <1> QED BY <1>3

LEMMA LastPosition ==
    ASSUME NEW n \in Nat, NEW s \in SUBSET (1 .. n), s # {}
    PROVE  Max(s) \in s /\ \A i \in s : i <= Max(s)
  <1> DEFINE Left == {n - i : i \in s}
  <1>1. Left \subseteq Nat /\ Left # {}
    <2>1. \A i \in s : i \in 1 .. n /\ n - i \in Nat
      OBVIOUS
    <2> QED BY <2>1
  <1>2. PICK x \in Left : \A y \in Left : x <= y
    BY <1>1, LeastNumber
  <1>3. PICK i \in s : x = n - i
    BY <1>2
  <1>4. \A j \in s : i >= j
    <2> TAKE j \in s
    <2>1. x <= n - j
      BY <1>2
    <2> QED BY <1>3, <2>1
  <1> QED BY <1>4 DEF Max

(* What a sweep over n words makes of acc, for each set of their positions. *)
SweepOver(f, loop, c, acc, as, n) ==
    [s \in SUBSET (1 .. n) |-> IF s = {} THEN acc
                               ELSE AtWord(loop, c, f[s \ {Max(s)}], as[Max(s)])]
Sweep(loop, c, acc, as, n) == CHOOSE f : f = SweepOver(f, loop, c, acc, as, n)

LEMMA SweepExists ==
    ASSUME NEW loop, NEW c, NEW acc, NEW as, NEW n \in Nat
    PROVE  Sweep(loop, c, acc, as, n) = SweepOver(Sweep(loop, c, acc, as, n), loop, c, acc, as, n)
  <1> DEFINE Sets == SUBSET (1 .. n)
             Fold(g) == [s \in Sets |-> IF s = {} THEN acc
                                        ELSE AtWord(loop, c, g[s \ {Max(s)}], as[Max(s)])]
             UpTo(g, k) == \A s \in SUBSET (1 .. k) : g[s] = Fold(g)[s]
             Bad == {k \in 0 .. n : ~\E g : UpTo(g, k)}
  <1>0. 0 .. n \subseteq Nat /\ Bad \subseteq 0 .. n
    <2> HIDE DEF UpTo
    <2> QED OBVIOUS
  <1>1. Bad = {}
    <2> SUFFICES ASSUME Bad # {} PROVE FALSE
      OBVIOUS
    <2>1. PICK k \in Bad : \A i \in Bad : k <= i
      <3> HIDE DEF Bad
      <3>1. Bad \subseteq Nat
        BY <1>0
      <3> QED BY <3>1, LeastNumber
    <2>2. k # 0
      <3> SUFFICES ASSUME k = 0 PROVE FALSE
        OBVIOUS
      <3> DEFINE g == [s \in Sets |-> acc]
      <3>1. \A s \in SUBSET (1 .. 0) : s = {} /\ s \in Sets
        OBVIOUS
      <3>2. UpTo(g, 0)
        BY <3>1
      <3> HIDE DEF g
      <3> QED BY <2>1, <3>2
    <2>3. k \in 0 .. n /\ k - 1 \in 0 .. n /\ k - 1 \notin Bad
      <3>1. k \in 0 .. n /\ (k - 1 \in Bad => k <= k - 1)
        BY <2>1
      <3> HIDE DEF Bad
      <3> QED BY <2>2, <3>1
    <2>4. PICK g : UpTo(g, k - 1)
      BY <2>3
    <2>5. ASSUME NEW s \in SUBSET (1 .. k)
          PROVE  Fold(g)[s] = Fold(Fold(g))[s]
      <3>1. s \in Sets
        BY <2>3
      <3>2. CASE s = {}
        BY <3>1, <3>2
      <3>3. CASE s # {}
        <4> DEFINE t == s \ {Max(s)}
        <4>0. k \in Nat
          BY <1>0, <2>3
        <4>1. Max(s) \in s /\ \A i \in s : i <= Max(s)
          BY <3>3, <4>0, LastPosition
        <4>2. \A i \in t : i \in 1 .. k - 1
          <5> TAKE i \in t
          <5> HIDE DEF Fold, UpTo, Sets, Bad
          <5>1. i \in s /\ i # Max(s) /\ i <= Max(s) /\ Max(s) \in 1 .. k /\ i \in 1 .. k
            BY <4>1
          <5> QED BY <4>0, <5>1
        <4>3. t \in SUBSET (1 .. k - 1) /\ t \in Sets
          BY <3>1, <4>2
        <4>4. g[t] = Fold(g)[t]
          BY <2>4, <4>3
        <4>5. Fold(g)[s] = AtWord(loop, c, g[t], as[Max(s)])
          BY <3>1, <3>3
        <4>6. Fold(Fold(g))[s] = AtWord(loop, c, Fold(g)[t], as[Max(s)])
          BY <3>1, <3>3
        <4> QED BY <4>4, <4>5, <4>6
      <3> QED BY <3>2, <3>3
    <2>6. UpTo(Fold(g), k)
      BY <2>5
    <2> HIDE DEF Fold
    <2> QED BY <2>1, <2>6
  <1>2. PICK f : UpTo(f, n)
    <2>1. n \in 0 .. n /\ n \notin Bad
      <3> HIDE DEF Bad
      <3> QED BY <1>1
    <2> HIDE DEF UpTo
    <2> QED BY <2>1
  <1>3. \A s \in Sets : f[s] = Fold(f)[s]
    BY <1>2
  <1> DEFINE h == Fold(f)
  <1>4. \A s \in Sets : h[s] = f[s]
    BY <1>3
  <1>5. ASSUME NEW s \in Sets PROVE h[s] = Fold(h)[s]
    <2>1. CASE s = {}
      BY <2>1
    <2>2. CASE s # {}
      <3> DEFINE t == s \ {Max(s)}
      <3>1. t \in Sets
        OBVIOUS
      <3>2. h[t] = f[t]
        BY <1>4, <3>1
      <3>3. h[s] = AtWord(loop, c, f[t], as[Max(s)])
        BY <2>2
      <3>4. Fold(h)[s] = AtWord(loop, c, h[t], as[Max(s)])
        BY <2>2
      <3> QED BY <3>2, <3>3, <3>4
    <2> QED BY <2>1, <2>2
  <1>6. h = Fold(h)
    BY <1>5
  <1>7. h = SweepOver(h, loop, c, acc, as, n)
    BY <1>6 DEF SweepOver
  <1> HIDE DEF h
  <1> QED BY <1>7 DEF Sweep

LEMMA SweepKeeps ==
    ASSUME NEW c, LoopOf(c) \in Sweeping, NEW S, NEW acc, IsAcc(acc, S), NEW a \in Nat, NEW b \in Nat,
           IsListOf(Visited(c), a, b), a > 2, a .. b \subseteq S
    PROVE  IsAcc(Swept(c, acc), S)
  <1> DEFINE loop == LoopOf(c)
             as == Visited(c)
             n == Len(as)
             D == DOMAIN as
             Is(f) == f = [s \in SUBSET D |->
                             IF s = {} THEN acc
                             ELSE AtWord(loop, c, f[s \ {Max(s)}], as[Max(s)])]
             iter == CHOOSE f : Is(f)
  <1>1. n \in Nat /\ D = 1 .. n /\ \A i \in D : as[i] \in a .. b
    BY DEF IsListOf
  <1>2. \E f : Is(f)
    <2>0. n \in Nat
      BY <1>1
    <2> DEFINE f == Sweep(loop, c, acc, as, n)
    <2> HIDE DEF as, loop, n
    <2>1. f = SweepOver(f, loop, c, acc, as, n)
      BY <2>0, SweepExists
    <2> HIDE DEF f
    <2>2. f = [s \in SUBSET D |-> IF s = {} THEN acc
                                  ELSE AtWord(loop, c, f[s \ {Max(s)}], as[Max(s)])]
      BY <1>1, <2>1 DEF SweepOver
    <2> QED BY <2>2 DEF Is
  <1>3. Is(iter)
    BY <1>2
  <1>4. Swept(c, acc) = iter[D]
    BY DEF Swept, FoldLeft, MapThenFoldSet
  <1> HIDE DEF iter
  <1>5. iter[{}] = acc
    BY <1>3
  <1>6. \A s \in SUBSET D : s # {} =>
            iter[s] = AtWord(loop, c, iter[s \ {Max(s)}], as[Max(s)])
    BY <1>3
  <1> DEFINE Bad == {k \in 0 .. n : \E s \in SUBSET (1 .. k) : ~IsAcc(iter[s], S)}
  <1> HIDE DEF loop, as, n, D
  <1>7. Bad = {}
    <2> SUFFICES ASSUME Bad # {} PROVE FALSE
      OBVIOUS
    <2>1. PICK k \in Bad : \A i \in Bad : k <= i
      <3>1. Bad \subseteq Nat
        OBVIOUS
      <3> HIDE DEF Bad
      <3> QED BY <3>1, LeastNumber
    <2>2. PICK s \in SUBSET (1 .. k) : ~IsAcc(iter[s], S)
      BY <2>1
    <2>3. s # {}
      BY <1>5, <2>2
    <2>4. k \in 0 .. n /\ k # 0
      <3>1. 1 .. 0 = {}
        OBVIOUS
      <3> QED BY <2>1, <2>3, <3>1
    <2>5. s \in SUBSET D /\ k \in Nat
      <3>1. k \in Nat /\ 1 .. k \subseteq 1 .. n
        BY <1>1, <2>4
      <3> QED BY <1>1, <3>1
    <2> DEFINE t == s \ {Max(s)}
    <2>6. Max(s) \in s /\ \A i \in s : i <= Max(s)
      BY <2>3, <2>5, LastPosition
    <2>7. t \in SUBSET (1 .. k - 1)
      <3> SUFFICES ASSUME NEW i \in t PROVE i \in 1 .. k - 1
        OBVIOUS
      <3>1. i \in s /\ i # Max(s) /\ i <= Max(s) /\ Max(s) \in 1 .. k /\ i \in 1 .. k
        BY <2>6
      <3> QED BY <2>5, <3>1
    <2>8. k - 1 \in 0 .. n /\ k - 1 \notin Bad
      <3>1. k - 1 \in Bad => k <= k - 1
        BY <2>1
      <3> HIDE DEF Bad
      <3> QED BY <1>1, <2>4, <3>1
    <2>9. IsAcc(iter[t], S)
      BY <2>7, <2>8
    <2>10. as[Max(s)] \in S /\ IsWord(as[Max(s)])
      <3>1. as[Max(s)] \in a .. b /\ as[Max(s)] \in S
        BY <1>1, <2>5, <2>6
      <3>2. \A x \in a .. b : x \in Nat /\ x > 2
        OBVIOUS
      <3> QED BY <3>1, <3>2 DEF IsWord
    <2>11. IsAcc(AtWord(loop, c, iter[t], as[Max(s)]), S)
      BY <2>9, <2>10, WordKeeps DEF loop
    <2>12. iter[s] = AtWord(loop, c, iter[t], as[Max(s)])
      BY <1>6, <2>3, <2>5
    <2> QED BY <2>2, <2>11, <2>12
  <1>8. n \notin Bad /\ n \in 0 .. n
    <2> HIDE DEF Bad
    <2> QED BY <1>1, <1>7
  <1>9. IsAcc(iter[D], S)
    <2>1. D \in SUBSET (1 .. n)
      BY <1>1
    <2> QED BY <1>8, <2>1
  <1> QED BY <1>4, <1>9


----------------------------------------------------------------------------
(* Where a CPU is in a loop.  r is what it is to test, and loop the loop.    *)

CpuFields == {"at", "wait", "call", "args", "ph", "j", "p", "pe", "done", "rep", "k", "pat",
              "errs"}

(* a is c but for the fields in diff.                                       *)
Alike(a, c, diff) ==
    /\ DOMAIN a = CpuFields /\ DOMAIN c = CpuFields
    /\ \A x \in CpuFields \ diff : a[x] = c[x]

LEMMA Fields ==
    {"at", "wait", "call", "args", "ph", "j", "p", "pe", "done", "rep", "k", "pat", "errs"}
        \subseteq CpuFields
  BY DEF CpuFields

(* Between two ticks: p lies in r, and what is left of r lies beyond it.  A *)
(* sweep down gets to the start of r with its last section only.            *)
InSpan(c, r, loop) ==
    /\ c.p \in Nat /\ c.pe \in Nat /\ c.done \in Nat
    /\ r.start <= c.p /\ c.p <= r.end /\ c.pe <= r.end
    /\ loop \in Rising => c.done = 0 /\ r.start <= c.pe /\ c.p <= c.pe + 1
    /\ loop \in Downward =>
          c.done = 0 /\ r.start <= c.pe /\ c.pe <= c.p + 1 /\ (r.end - c.pe) % SPINSZ = 0
    /\ loop \in Shortened =>
          c.done = 0 /\ r.start <= c.pe /\ c.pe + MOD_SZ <= r.end /\ c.p <= c.pe + MOD_SZ - 1
    /\ loop = "init" => c.done = 0 /\ c.p = c.pe /\ c.p % BLOCK = 0
    /\ loop = "move" =>
          /\ c.p % BLOCK = 0 /\ c.rep \in Nat
          /\ c.rep = 0 => c.done = 0 /\ c.p = c.pe
          /\ c.rep > 0 => /\ c.p < c.pe
                          /\ \/ c.done > 0 /\ c.pe = r.end
                             \/ c.done = 0 /\ c.pe % BLOCK = 0
    /\ loop = "pairs" => r.start <= c.pe + 2 /\ c.p <= c.pe + 1

(* A segment or share as RegionFacts describes it. *)
IsRegion(r) ==
    /\ DOMAIN r = {"start", "end"} /\ r.start \in 3 .. Top - 1 /\ r.end \in 3 .. Top - 1
    /\ r.start <= r.end

LEMMA UpFacts ==
    ASSUME NEW c, DOMAIN c = CpuFields, c.pe \in Nat, c.done \in Nat, NEW r, r.end \in Int,
           NEW a, a = AdvanceUp(c, r)
    PROVE  /\ Alike(a, c, {"pe", "done"})
           /\ \/ a.pe = r.end /\ a.done = c.done + 1
              \/ a.pe = c.pe + SPINSZ /\ a.pe < r.end /\ a.done = c.done
  <1> DEFINE pe == IF (c.pe + SPINSZ) % Top > c.pe /\ c.pe # 0 THEN c.pe + SPINSZ ELSE r.end
  <1>1. pe = c.pe + SPINSZ \/ pe = r.end
    OBVIOUS
  <1>2. c.pe + SPINSZ \in Int
    BY Sizes
  <1>3. a = IF pe >= r.end THEN [c EXCEPT !.pe = r.end, !.done = @ + 1] ELSE [c EXCEPT !.pe = pe]
    BY DEF AdvanceUp
  <1> HIDE DEF pe
  <1>4. CASE pe >= r.end
    <2>1. a = [c EXCEPT !.pe = r.end, !.done = @ + 1]
      BY <1>3, <1>4
    <2> QED BY <2>1 DEF Alike, CpuFields
  <1>5. CASE ~(pe >= r.end)
    <2>1. a = [c EXCEPT !.pe = pe]
      BY <1>3, <1>5
    <2>2. pe = c.pe + SPINSZ /\ pe < r.end
      BY <1>1, <1>2, <1>5
    <2> QED BY <2>1, <2>2 DEF Alike, CpuFields
  <1> QED BY <1>4, <1>5

LEMMA DownFacts ==
    ASSUME NEW c, DOMAIN c = CpuFields, c.pe \in Nat, c.done \in Nat, c.pe < Top,
           NEW r, r.start \in Int, r.end \in Int, NEW a, a = AdvanceDown(c, r)
    PROVE  /\ Alike(a, c, {"pe", "done"})
           /\ \/ a.pe = r.start /\ a.done = c.done + 1
              \/ a.pe = c.pe - SPINSZ /\ a.pe >= r.start /\ a.done = c.done
  <1> DEFINE d == (c.pe - SPINSZ) % Top
             fits == d < c.pe /\ c.pe # 0
             pe == IF fits THEN d ELSE r.start
  <1>1. fits => d = c.pe - SPINSZ
    <2> SUFFICES ASSUME d < c.pe PROVE d = c.pe - SPINSZ
      OBVIOUS
    <2> DEFINE x == c.pe - SPINSZ
    <2>1. x \in Int /\ Top \in Nat \ {0} /\ SPINSZ <= Top /\ SPINSZ \in Nat \ {0}
      BY Sizes
    <2>2. CASE x \in Nat
      <3>1. x < Top
        BY <2>1
      <3> HIDE DEF x
      <3>2. x % Top = x
        BY <2>1, <2>2, <3>1
      <3> QED BY <3>2 DEF x
    <2>3. CASE x \notin Nat
      <3>1. x + Top \in 0 .. Top - 1 /\ x + Top >= c.pe
        BY <2>1, <2>3
      <3> HIDE DEF x
      <3>2. x % Top = x + Top
        BY <2>1, <3>1
      <3> QED BY <3>1, <3>2 DEF x
    <2> QED BY <2>2, <2>3
  <1>2. a = IF ~fits \/ pe < r.start \/ pe > r.end
            THEN [c EXCEPT !.pe = r.start, !.done = @ + 1] ELSE [c EXCEPT !.pe = pe]
    BY DEF AdvanceDown
  <1>3. fits => pe = d
    OBVIOUS
  <1> HIDE DEF fits, pe, d
  <1>4. CASE ~fits \/ pe < r.start \/ pe > r.end
    <2>1. a = [c EXCEPT !.pe = r.start, !.done = @ + 1]
      BY <1>2, <1>4
    <2> QED BY <2>1 DEF Alike, CpuFields
  <1>5. CASE ~(~fits \/ pe < r.start \/ pe > r.end)
    <2>1. a = [c EXCEPT !.pe = pe]
      BY <1>2, <1>5
    <2>2. pe = c.pe - SPINSZ
      BY <1>1, <1>3, <1>5
    <2>3. pe >= r.start
      BY <1>5, <2>2, Sizes
    <2> QED BY <2>1, <2>2, <2>3 DEF Alike, CpuFields
  <1> QED BY <1>4, <1>5

LEMMA ListWithin ==
    ASSUME NEW s, NEW a \in Int, NEW b \in Int, IsListOf(s, a, b), NEW x \in Int, NEW y \in Int,
           x <= a, b <= y
    PROVE  IsListOf(s, x, y)
  BY DEF IsListOf

(* A section: c is where the CPU was at the tick, a the place with the end  *)
(* of the section.                                                          *)
Behaved(a, r, loop) ==
    /\ IsListOf(Visited(a), r.start, r.end)
    /\ Alike(Behind(a), a, {"p", "pe"})
    /\ ~(a.done > 0) => InSpan(Behind(a), r, loop)

(* What a section starts from. *)
Starts(c, r, loop, a, me) ==
    /\ loop = LoopOf(c) /\ loop = LoopOf(a) /\ IsRegion(r) /\ r = Region(c.args.fn, c.j, me)
    /\ InSpan(c, r, loop) /\ DOMAIN c = CpuFields /\ a = Advance(c, me) /\ a.p # a.pe

LEMMA RisingSection ==
    ASSUME NEW c, NEW r, NEW loop \in Rising, NEW a, NEW me, Starts(c, r, loop, a, me)
    PROVE  Behaved(a, r, loop)
  <1>1. loop \notin Downward /\ loop \notin Shortened /\ loop \notin {"init", "pairs", "move"}
    BY DEF Rising, Downward, Shortened, Fading
  <1>2. a = AdvanceUp(c, r) /\ IsRegion(r) /\ InSpan(c, r, loop) /\ DOMAIN c = CpuFields
        /\ a.p # a.pe /\ loop = LoopOf(a)
    BY <1>1 DEF Starts, Advance, Reach
  <1>3. /\ c.p \in Nat /\ c.pe \in Nat /\ c.done = 0 /\ r.start <= c.p /\ c.p <= r.end
        /\ c.pe <= r.end /\ r.start <= c.pe /\ c.p <= c.pe + 1
        /\ r.start \in Nat /\ r.start >= 3 /\ r.end \in Nat /\ r.end < Top
        /\ SPINSZ \in Nat /\ SPINSZ > 1 /\ Top \in Nat
    BY <1>2, Sizes, Sections DEF InSpan, IsRegion
  <1>4. /\ Alike(a, c, {"pe", "done"})
        /\ \/ a.pe = r.end /\ a.done = 1
           \/ a.pe = c.pe + SPINSZ /\ a.pe < r.end /\ a.done = 0
    BY <1>2, <1>3, UpFacts
  <1>5. a.p = c.p /\ DOMAIN a = CpuFields
    BY <1>4, Fields DEF Alike
  <1>6. a.pe \in Nat /\ a.pe <= r.end /\ a.p < a.pe /\ r.start <= a.p
    BY <1>2, <1>3, <1>4, <1>5
  <1>7. IsListOf(Visited(a), r.start, r.end)
    <2>1. CASE loop \in Fading
      <3>1. Visited(a) = Below(a.p, a.pe)
        BY <1>1, <1>2, <2>1 DEF Visited, Downward, Shortened
      <3>2. IsListOf(Below(a.p, a.pe), a.p, a.pe - 1)
        BY <1>3, <1>5, <1>6, BelowWithin
      <3> QED BY <1>3, <1>5, <1>6, <3>1, <3>2, ListWithin
    <2>2. CASE loop \notin Fading
      <3>1. Visited(a) = Upwards(a.p, a.pe, 1)
        BY <1>1, <1>2, <2>2 DEF Visited, Downward, Shortened
      <3>2. a.p \in 0 .. Top - 1 /\ a.pe \in 0 .. Top - 1 /\ 1 \in Nat \ {0} /\ a.pe \in Int
            /\ a.p <= a.pe /\ a.pe + 1 - 1 <= a.pe
        BY <1>3, <1>5, <1>6
      <3>3. IsListOf(Upwards(a.p, a.pe, 1), a.p, a.pe)
        BY <3>2, UpwardsWithin, Zenon
      <3> QED BY <1>3, <1>5, <1>6, <3>1, <3>3, ListWithin
    <2> QED BY <2>1, <2>2
  <1>8. Behind(a) = [a EXCEPT !.p = (a.pe + 1) % Top]
    BY <1>1, <1>2 DEF Behind
  <1>9. ~(a.done > 0) => (a.pe + 1) % Top = a.pe + 1 /\ a.pe + 1 <= r.end
    <2> SUFFICES ASSUME ~(a.done > 0) PROVE (a.pe + 1) % Top = a.pe + 1 /\ a.pe + 1 <= r.end
      OBVIOUS
    <2>1. a.pe < r.end
      BY <1>4
    <2> DEFINE x == a.pe + 1
    <2>2. x \in 0 .. Top - 1 /\ x <= r.end
      BY <1>3, <1>6, <2>1
    <2> HIDE DEF x
    <2>3. x % Top = x
      BY <2>2, ModWithin
    <2> QED BY <2>2, <2>3 DEF x
  <1>10. Alike(Behind(a), a, {"p", "pe"})
    BY <1>5, <1>8 DEF Alike, CpuFields
  <1>11. ~(a.done > 0) => InSpan(Behind(a), r, loop)
    <2> SUFFICES ASSUME ~(a.done > 0) PROVE InSpan(Behind(a), r, loop)
      OBVIOUS
    <2>1. Behind(a).p = a.pe + 1 /\ Behind(a).pe = a.pe /\ Behind(a).done = 0
      BY <1>4, <1>5, <1>8, <1>9, Fields
    <2>2. r.start <= a.pe
      BY <1>3, <1>4
    <2> QED BY <1>1, <1>3, <1>6, <1>9, <2>1, <2>2 DEF InSpan
  <1> QED BY <1>7, <1>10, <1>11 DEF Behaved

LEMMA DownSection ==
    ASSUME NEW c, NEW r, NEW loop \in Downward, NEW a, NEW me, Starts(c, r, loop, a, me),
           (r.end - r.start) % SPINSZ # 0
    PROVE  Behaved(a, r, loop)
  <1>1. loop \notin Rising /\ loop \notin Shortened /\ loop \notin {"init", "pairs", "move"}
    BY DEF Rising, Downward, Shortened, Fading
  <1>2. a = AdvanceDown(c, r) /\ IsRegion(r) /\ InSpan(c, r, loop) /\ DOMAIN c = CpuFields
        /\ a.p # a.pe /\ loop = LoopOf(a)
    BY <1>1 DEF Starts, Advance, Reach
  <1>3. /\ c.p \in Nat /\ c.pe \in Nat /\ c.done = 0 /\ r.start <= c.p /\ c.p <= r.end
        /\ c.pe <= r.end /\ r.start <= c.pe /\ c.pe <= c.p + 1
        /\ r.start \in Nat /\ r.start >= 3 /\ r.end \in Nat /\ r.end < Top
        /\ SPINSZ \in Nat \ {0} /\ SPINSZ > 1 /\ Top \in Nat
    BY <1>2, Sizes, Sections DEF InSpan, IsRegion
  <1>0. (r.end - c.pe) % SPINSZ = 0
    BY <1>2 DEF InSpan
  <1>4. /\ Alike(a, c, {"pe", "done"})
        /\ \/ a.pe = r.start /\ a.done = 1
           \/ a.pe = c.pe - SPINSZ /\ a.pe >= r.start /\ a.done = 0
    BY <1>2, <1>3, DownFacts
  <1>5. a.p = c.p /\ DOMAIN a = CpuFields
    BY <1>4, Fields DEF Alike
  <1>6. a.pe \in Nat /\ a.pe < a.p /\ r.start <= a.pe /\ a.p <= r.end
    BY <1>2, <1>3, <1>4, <1>5
  <1>7. IsListOf(Visited(a), r.start, r.end)
    <2>0. /\ loop = "down" \/ loop = "down32"
          /\ loop \notin Shortened /\ loop \notin {"init", "pairs"} /\ loop \notin Fading
      BY <1>1 DEF Downward, Rising
    <2>1. LoopOf(a) = loop
      BY <1>2
    <2>2. Visited(a) = DownUntil(a.p, a.pe) \/ Visited(a) = DownWhile(a.p, a.pe)
      BY <2>0, <2>1 DEF Visited
    <2>3. a.p \in 0 .. Top - 1 /\ a.pe \in 0 .. Top - 1 /\ a.pe <= a.p
      BY <1>3, <1>5, <1>6
    <2>4. IsListOf(Visited(a), a.pe, a.p)
      BY <2>2, <2>3, DownWithin
    <2>5. a.p \in Int /\ a.pe \in Int
      BY <2>3
    <2> QED BY <1>3, <1>6, <2>4, <2>5, ListWithin
  <1>8. Behind(a) = [a EXCEPT !.p = (a.pe - 1) % Top]
    BY <1>1, <1>2 DEF Behind
  <1>9. Alike(Behind(a), a, {"p", "pe"})
    BY <1>5, <1>8 DEF Alike, CpuFields
  <1>10. ~(a.done > 0) => InSpan(Behind(a), r, loop)
    <2> SUFFICES ASSUME ~(a.done > 0) PROVE InSpan(Behind(a), r, loop)
      OBVIOUS
    <2>1. a.pe = c.pe - SPINSZ /\ a.done = 0
      BY <1>4
    <2>2. (r.end - a.pe) % SPINSZ = 0
      <3> DEFINE x == r.end - c.pe
      <3>1. x \in Nat /\ x % SPINSZ = 0 /\ SPINSZ % SPINSZ = 0
        BY <1>0, <1>3
      <3>2. r.end - a.pe = x + SPINSZ
        BY <1>3, <2>1
      <3> HIDE DEF x
      <3>3. (x + SPINSZ) % SPINSZ = 0
        BY <1>0, <1>3, <3>1, SumExact
      <3> QED BY <3>2, <3>3
    <2>3. a.pe # r.start
      BY <2>2, Zenon
    <2>4. (a.pe - 1) % Top = a.pe - 1 /\ r.start <= a.pe - 1
      <3> DEFINE x == a.pe - 1
      <3>1. x \in 0 .. Top - 1 /\ r.start <= x
        BY <1>3, <1>5, <1>6, <2>3
      <3> HIDE DEF x
      <3>2. x % Top = x
        BY <3>1, ModWithin
      <3> QED BY <3>1, <3>2 DEF x
    <2>5. Behind(a).p = a.pe - 1 /\ Behind(a).pe = a.pe /\ Behind(a).done = 0
      BY <1>5, <1>8, <2>1, <2>4, Fields
    <2>6. a.pe - 1 \in Nat /\ a.pe - 1 <= r.end /\ a.pe <= r.end /\ a.pe <= (a.pe - 1) + 1
      BY <1>3, <1>5, <1>6, <2>4
    <2> QED BY <1>1, <1>6, <2>2, <2>4, <2>5, <2>6 DEF InSpan
  <1> QED BY <1>7, <1>9, <1>10 DEF Behaved

LEMMA ShortSection ==
    ASSUME NEW c, NEW r, NEW loop \in Shortened, NEW a, NEW me, Starts(c, r, loop, a, me)
    PROVE  Behaved(a, r, loop)
  <1> DEFINE rr == [r EXCEPT !.end = @ - MOD_SZ]
  <1>1. loop \notin Rising /\ loop \notin Downward /\ loop \notin {"init", "pairs", "move"}
    BY DEF Rising, Downward, Shortened, Fading
  <1>2. a = AdvanceUp(c, rr) /\ IsRegion(r) /\ InSpan(c, r, loop) /\ DOMAIN c = CpuFields
        /\ a.p # a.pe /\ loop = LoopOf(a)
    BY <1>1 DEF Starts, Advance, Reach
  <1>3. /\ c.p \in Nat /\ c.pe \in Nat /\ c.done = 0 /\ r.start <= c.p /\ c.p <= r.end
        /\ c.pe + MOD_SZ <= r.end /\ r.start <= c.pe /\ c.p <= c.pe + MOD_SZ - 1
        /\ r.start \in Nat /\ r.start >= 3 /\ r.end \in Nat /\ r.end < Top
        /\ SPINSZ \in Nat /\ SPINSZ > MOD_SZ /\ Top \in Nat /\ MOD_SZ \in Nat \ {0}
        /\ rr.end = r.end - MOD_SZ
    BY <1>2, Sizes, Sections DEF InSpan, IsRegion
  <1> HIDE DEF rr
  <1>4. /\ Alike(a, c, {"pe", "done"})
        /\ \/ a.pe = r.end - MOD_SZ /\ a.done = 1
           \/ a.pe = c.pe + SPINSZ /\ a.pe < r.end - MOD_SZ /\ a.done = 0
    BY <1>2, <1>3, UpFacts
  <1>5. a.p = c.p /\ DOMAIN a = CpuFields
    BY <1>4, Fields DEF Alike
  <1>6. a.pe \in Nat /\ a.pe <= r.end - MOD_SZ /\ r.start <= a.p
    BY <1>2, <1>3, <1>4, <1>5
  <1> DEFINE s == Every(a.p, a.pe)
  <1>7. IsListOf(s, a.p, r.end) /\ Len(s) >= 1 /\ (s[Len(s)] = a.p \/ s[Len(s)] <= a.pe - 1)
    <2>1. a.p \in 0 .. Top - 1 /\ a.pe \in 0 .. Top - 1 /\ r.end \in 0 .. Top - 1 /\ a.p <= r.end
          /\ a.pe - 1 <= r.end
      BY <1>3, <1>5, <1>6
    <2> QED BY <2>1, EveryWithin
  <1>8. Visited(a) = s
    <2>1. loop \notin {"down", "down32", "init", "pairs"} /\ loop \notin Fading
      BY <1>1 DEF Downward, Rising
    <2>2. LoopOf(a) = loop
      BY <1>2
    <2> QED BY <2>1, <2>2 DEF Visited
  <1> HIDE DEF s
  <1>9. IsListOf(Visited(a), r.start, r.end)
    BY <1>3, <1>5, <1>6, <1>7, <1>8, ListWithin
  <1>10. Behind(a) = [a EXCEPT !.p = s[Len(s)] + MOD_SZ]
    BY <1>1, <1>2 DEF Behind, s
  <1>11. Alike(Behind(a), a, {"p", "pe"})
    BY <1>5, <1>10 DEF Alike, CpuFields
  <1>12. ~(a.done > 0) => InSpan(Behind(a), r, loop)
    <2> SUFFICES ASSUME ~(a.done > 0) PROVE InSpan(Behind(a), r, loop)
      OBVIOUS
    <2>1. a.pe = c.pe + SPINSZ /\ a.pe < r.end - MOD_SZ /\ a.done = 0
      BY <1>4
    <2>2. s[Len(s)] \in Nat /\ s[Len(s)] >= a.p
      <3>1. Len(s) \in 1 .. Len(s) /\ s[Len(s)] \in a.p .. r.end
        BY <1>7 DEF IsListOf
      <3> QED BY <1>3, <1>5, <3>1
    <2>3. s[Len(s)] <= a.pe - 1
      BY <1>3, <1>5, <1>7, <2>1, <2>2
    <2>4. Behind(a).p = s[Len(s)] + MOD_SZ /\ Behind(a).pe = a.pe /\ Behind(a).done = 0
      BY <1>5, <1>10, <2>1, Fields
    <2> DEFINE x == s[Len(s)]
               p == x + MOD_SZ
    <2>7. x \in Nat /\ x >= a.p /\ x <= a.pe - 1
      BY <2>2, <2>3
    <2> HIDE DEF x
    <2>5. /\ p \in Nat /\ r.start <= p /\ p <= r.end /\ p <= a.pe + MOD_SZ - 1
          /\ a.pe <= r.end /\ r.start <= a.pe /\ a.pe + MOD_SZ <= r.end
      BY <1>3, <1>5, <1>6, <2>1, <2>7
    <2>6. Behind(a).p = p
      BY <2>4 DEF x
    <2> HIDE DEF p
    <2> QED BY <1>1, <1>6, <2>4, <2>5, <2>6 DEF InSpan
  <1> QED BY <1>8, <1>9, <1>11, <1>12 DEF Behaved

(* Blocks end where the next begins, or at the end of the share.            *)
LEMMA EndOfBlock ==
    ASSUME NEW r, IsRegion(r), (r.end + 1) % BLOCK = 0, NEW pe \in Nat,
           pe = r.end \/ (pe % BLOCK = 0 /\ pe < r.end)
    PROVE  /\ BlockEnd(pe) \in Nat /\ BlockEnd(pe) % BLOCK = 0 /\ BlockEnd(pe) <= r.end + 1
           /\ pe <= BlockEnd(pe)
  <1>1. r.end \in Nat /\ BLOCK \in Nat \ {0} /\ BLOCK > 1
    BY Sizes DEF IsRegion
  <1>2. CASE pe % BLOCK = 0
    <2>1. BlockEnd(pe) = pe
      BY <1>2 DEF BlockEnd
    <2> QED BY <1>1, <1>2, <2>1
  <1>3. CASE pe % BLOCK # 0
    <2>1. BlockEnd(pe) = pe + 1 /\ pe = r.end
      BY <1>3 DEF BlockEnd
    <2> QED BY <1>1, <2>1
  <1> QED BY <1>2, <1>3

(* Where block_move's sections of whole blocks end.                         *)
LEMMA BlockSection ==
    ASSUME NEW c, DOMAIN c = CpuFields, NEW r, IsRegion(r), (r.end + 1) % BLOCK = 0,
           c.p \in Nat, c.pe \in Nat, r.start <= c.p, c.p <= r.end,
           c.done = 0, c.p = c.pe, c.p % BLOCK = 0, NEW a, a = AdvanceUp(c, r), a.p # a.pe
    PROVE  /\ Alike(a, c, {"pe", "done"}) /\ a.p = c.p /\ a.pe \in Nat /\ a.p < a.pe
           /\ \/ a.pe = r.end /\ a.done = 1
              \/ a.pe % BLOCK = 0 /\ a.pe < r.end /\ a.done = 0
  <1>1. /\ Alike(a, c, {"pe", "done"})
        /\ \/ a.pe = r.end /\ a.done = 1
           \/ a.pe = c.pe + SPINSZ /\ a.pe < r.end /\ a.done = 0
    BY UpFacts DEF IsRegion
  <1>2. a.p = c.p
    BY <1>1, Fields DEF Alike
  <1>3. SPINSZ \in Nat /\ SPINSZ > 1 /\ SPINSZ % BLOCK = 0 /\ BLOCK \in Nat \ {0} /\ r.end \in Nat
    BY Sizes, Sections DEF IsRegion
  <1>4. (c.pe + SPINSZ) % BLOCK = 0
    BY <1>3, SumExact
  <1> QED BY <1>1, <1>2, <1>3, <1>4

LEMMA InitSection ==
    ASSUME NEW c, NEW r, NEW a, NEW me, Starts(c, r, "init", a, me), (r.end + 1) % BLOCK = 0
    PROVE  Behaved(a, r, "init")
  <1> DEFINE loop == "init"
  <1>1. loop \notin Rising /\ loop \notin Downward /\ loop \notin Shortened /\ loop \notin Fading
    BY DEF Rising, Downward, Shortened, Fading
  <1>2. a = AdvanceUp(c, r) /\ IsRegion(r) /\ InSpan(c, r, loop) /\ DOMAIN c = CpuFields
        /\ a.p # a.pe /\ loop = LoopOf(a)
    BY <1>1 DEF Starts, Advance, Reach
  <1>3. /\ c.p \in Nat /\ c.pe \in Nat /\ c.done = 0 /\ r.start <= c.p /\ c.p <= r.end
        /\ c.p = c.pe /\ c.p % BLOCK = 0
        /\ r.start \in Nat /\ r.start >= 3 /\ r.end \in Nat /\ r.end < Top
        /\ Top \in Nat /\ BLOCK \in Nat \ {0}
    BY <1>2, Sizes DEF InSpan, IsRegion
  <1>4. /\ Alike(a, c, {"pe", "done"}) /\ a.p = c.p /\ a.pe \in Nat /\ a.p < a.pe
        /\ \/ a.pe = r.end /\ a.done = 1
           \/ a.pe % BLOCK = 0 /\ a.pe < r.end /\ a.done = 0
    BY <1>2, <1>3, BlockSection
  <1> DEFINE e == BlockEnd(a.pe)
  <1>5. e \in Nat /\ e % BLOCK = 0 /\ e <= r.end + 1 /\ a.pe <= e
    <2>1. IsRegion(r) /\ a.pe \in Nat /\ (a.pe = r.end \/ (a.pe % BLOCK = 0 /\ a.pe < r.end))
      BY <1>2, <1>4
    <2> QED BY <2>1, EndOfBlock, Zenon
  <1> HIDE DEF e
  <1>6. a.p + BLOCK <= e
    BY <1>3, <1>4, <1>5, NextMultiple
  <1>7. IsListOf(Visited(a), r.start, r.end)
    <2> DEFINE last == e - BLOCK
    <2>1. Visited(a) = Blocks(a.p, last)
      BY <1>1, <1>2 DEF Visited, e
    <2>2. last \in Nat /\ a.p <= last /\ last + BLOCK - 1 <= r.end /\ e = last + BLOCK
      BY <1>3, <1>4, <1>5, <1>6
    <2>3. last % BLOCK = 0
      <3>1. last \in Nat /\ BLOCK \in Nat \ {0} /\ (last + BLOCK) % BLOCK = 0
        BY <1>3, <1>5, <2>2
      <3> HIDE DEF last
      <3> QED BY <3>1, LessExact
    <2> HIDE DEF last
    <2>4. a.p \in 0 .. Top - 1 /\ a.p % BLOCK = 0 /\ last + BLOCK - 1 <= Top - 1
      BY <1>3, <1>4, <2>2
    <2>5. IsListOf(Blocks(a.p, last), a.p, last + BLOCK - 1)
      BY <2>2, <2>3, <2>4, BlocksWithin
    <2>6. last + BLOCK - 1 \in Int /\ a.p \in Int /\ r.start <= a.p
      BY <1>3, <1>4, <2>2
    <2> QED BY <1>3, <2>1, <2>2, <2>5, <2>6, ListWithin
  <1>8. Behind(a) = [a EXCEPT !.p = e % Top]
    BY <1>1, <1>2 DEF Behind, e
  <1>9. Alike(Behind(a), a, {"p", "pe"})
    BY <1>4, <1>8 DEF Alike, CpuFields
  <1>10. ~(a.done > 0) => InSpan(Behind(a), r, loop)
    <2> SUFFICES ASSUME ~(a.done > 0) PROVE InSpan(Behind(a), r, loop)
      OBVIOUS
    <2>1. a.pe % BLOCK = 0 /\ a.pe < r.end /\ a.done = 0
      BY <1>4
    <2>2. e = a.pe
      BY <2>1 DEF e, BlockEnd
    <2>3. a.pe % Top = a.pe
      BY <1>3, <1>4, <2>1, ModWithin
    <2>4. Behind(a).p = a.pe /\ Behind(a).pe = a.pe /\ Behind(a).done = 0
      BY <1>4, <1>8, <2>1, <2>2, <2>3, Fields DEF Alike
    <2> QED BY <1>1, <1>3, <1>4, <2>1, <2>4 DEF InSpan
  <1> QED BY <1>7, <1>9, <1>10 DEF Behaved

LEMMA PairSection ==
    ASSUME NEW c, NEW r, NEW a, NEW me, Starts(c, r, "pairs", a, me)
    PROVE  Behaved(a, r, "pairs")
  <1> DEFINE loop == "pairs"
  <1>1. loop \notin Rising /\ loop \notin Downward /\ loop \notin Shortened /\ loop \notin Fading
    BY DEF Rising, Downward, Shortened, Fading
  <1>2. a = AdvanceUp(c, r) /\ IsRegion(r) /\ InSpan(c, r, loop) /\ DOMAIN c = CpuFields
        /\ a.p # a.pe /\ loop = LoopOf(a)
    BY <1>1 DEF Starts, Advance, Reach
  <1>3. /\ c.p \in Nat /\ c.pe \in Nat /\ c.done \in Nat /\ r.start <= c.p /\ c.p <= r.end
        /\ c.pe <= r.end /\ r.start <= c.pe + 2 /\ c.p <= c.pe + 1
        /\ r.start \in Nat /\ r.start >= 3 /\ r.end \in Nat /\ r.end < Top /\ r.start <= r.end
        /\ Top \in Nat /\ SPINSZ \in Nat /\ SPINSZ > 1
    BY <1>2, Sizes, Sections DEF InSpan, IsRegion
  <1>4. /\ Alike(a, c, {"pe", "done"})
        /\ \/ a.pe = r.end /\ a.done = c.done + 1
           \/ a.pe = c.pe + SPINSZ /\ a.pe < r.end /\ a.done = c.done
    BY <1>2, <1>3, UpFacts
  <1>5. a.p = c.p /\ DOMAIN a = CpuFields
    BY <1>4, Fields DEF Alike
  <1>6. a.pe \in Nat /\ r.start <= a.pe /\ a.pe <= r.end /\ a.done \in Nat
    BY <1>3, <1>4
  <1> DEFINE e == LastPair(a.pe)
             s == Upwards(a.p, e, 2)
  <1>7. e \in Nat /\ e + 2 - 1 <= r.end /\ r.start <= e + 2 /\ e >= a.pe - 2
    BY <1>3, <1>6 DEF LastPair
  <1>8. Visited(a) = s
    BY <1>1, <1>2 DEF Visited
  <1>9. Behind(a) = [a EXCEPT !.p = s[Len(s)], !.pe = e]
    BY <1>1, <1>2 DEF Behind
  <1> HIDE DEF e
  <1>10. IsListOf(s, a.p, r.end) /\ Len(s) >= 1
    <2>1. a.p \in 0 .. Top - 1 /\ e \in Int /\ 2 \in Nat \ {0} /\ r.end \in 0 .. Top - 1
          /\ a.p <= r.end /\ e + 2 - 1 <= r.end
      BY <1>3, <1>5, <1>7
    <2> QED BY <2>1, UpwardsWithin, Zenon
  <1> HIDE DEF s
  <1>11. IsListOf(Visited(a), r.start, r.end)
    BY <1>3, <1>5, <1>8, <1>10, ListWithin
  <1>12. Alike(Behind(a), a, {"p", "pe"})
    BY <1>5, <1>9 DEF Alike, CpuFields
  <1>13. ASSUME ~(a.done > 0) PROVE InSpan(Behind(a), r, loop)
    <2>1. s[Len(s)] \in Nat /\ s[Len(s)] >= a.p /\ s[Len(s)] <= r.end
      <3>1. Len(s) \in 1 .. Len(s) /\ s[Len(s)] \in a.p .. r.end
        BY <1>10 DEF IsListOf
      <3> QED BY <1>3, <1>5, <3>1
    <2>2. Behind(a).p = s[Len(s)] /\ Behind(a).pe = e /\ Behind(a).done = a.done
      BY <1>5, <1>9, Fields
    <2>3. Behind(a).p \in Nat /\ r.start <= Behind(a).p /\ Behind(a).p <= r.end
      BY <1>3, <1>5, <1>6, <2>1, <2>2
    <2>4. /\ Behind(a).pe \in Nat /\ Behind(a).pe <= r.end /\ Behind(a).done \in Nat
          /\ r.start <= Behind(a).pe + 2
      BY <1>3, <1>6, <1>7, <2>2
    <2>5. s[Len(s)] <= e + 1
      <3>1. a.p <= e + 1 /\ e + 1 \in 0 .. Top - 1
        BY <1>3, <1>4, <1>5, <1>6, <1>7, <1>13
      <3>2. IsListOf(Upwards(a.p, e, 2), a.p, e + 1)
        <4>1. a.p \in 0 .. Top - 1 /\ e \in Int /\ 2 \in Nat \ {0} /\ e + 2 - 1 <= e + 1
          BY <1>3, <1>5, <1>7
        <4> QED BY <3>1, <4>1, UpwardsWithin, Zenon
      <3>3. Len(s) \in 1 .. Len(s) /\ s[Len(s)] \in a.p .. e + 1
        BY <1>10, <3>2 DEF IsListOf, s
      <3> QED BY <1>3, <1>5, <1>7, <3>3
    <2> QED BY <1>1, <2>2, <2>3, <2>4, <2>5 DEF InSpan
  <1> QED BY <1>11, <1>12, <1>13 DEF Behaved

----------------------------------------------------------------------------
(* The calls of do_test() and the loops they consist of.                    *)

ArgFields == {"fn", "p1", "p2", "iter", "lb", "hb", "sval", "off"}

LoopNames(fn) ==
    CASE fn = "s_barrier"     -> {"sync"}
      [] fn = "addr_tst1"     -> Walking
      [] fn = "addr_tst2"     -> {"own_fill", "own_check"}
      [] fn = "movinv1"       -> {"sync", "fill", "up", "down"}
      [] fn = "random"        -> {"sync", "fill", "up", "down"}
      [] fn = "movinv32"      -> {"sync", "fill32", "up32", "down32"}
      [] fn = "movinvr"       -> {"sync", "fillr", "checkr", "checkr_inv"}
      [] fn = "modtst"        -> {"sync", "rest"} \cup Shortened
      [] fn = "block_move"    -> {"init", "sync", "move", "pairs"}
      [] fn = "bit_fade_fill" -> {"fade_fill"}
      [] fn = "bit_fade_chk"  -> {"fade_chk"}
      [] fn = "sleep"         -> {"sleep"}
      [] OTHER                -> {}

Fns == {"s_barrier", "addr_tst1", "addr_tst2", "movinv1", "random", "movinv32", "movinvr",
        "modtst", "block_move", "bit_fade_fill", "bit_fade_chk", "sleep"}

(* A call that pat makes. *)
IsCall(a, pat) ==
    /\ DOMAIN a = ArgFields /\ a.fn \in Fns /\ a.iter \in Nat
    /\ a.fn = "addr_tst1" => pat = 0
    /\ a.fn = "sleep" => pat = 11
    /\ a.fn = "modtst" => a.off \in 0 .. MOD_SZ - 1

AreCalls(s, pat) == \E T : s \in Seq(T) /\ \A a \in T : IsCall(a, pat)

LEMMA ListIsSeq ==
    ASSUME NEW n \in Nat, NEW s, DOMAIN s = 1 .. n, s = [i \in 1 .. n |-> s[i]], NEW T,
           \A i \in 1 .. n : s[i] \in T
    PROVE  s \in Seq(T)
  OBVIOUS

LEMMA CallsFrom ==
    ASSUME NEW n \in Nat, NEW s, DOMAIN s = 1 .. n, s = [i \in 1 .. n |-> s[i]], NEW pat,
           \A i \in 1 .. n : IsCall(s[i], pat)
    PROVE  AreCalls(s, pat)
  <1> DEFINE T == {s[i] : i \in 1 .. n}
  <1>1. s \in Seq(T)
    BY ListIsSeq
  <1>2. \A a \in T : IsCall(a, pat)
    OBVIOUS
  <1> HIDE DEF T
  <1> QED BY <1>1, <1>2 DEF AreCalls

LEMMA CallsJoin ==
    ASSUME NEW pat, NEW s, AreCalls(s, pat), NEW t, AreCalls(t, pat)
    PROVE  AreCalls(s \o t, pat)
  <1>1. PICK S : s \in Seq(S) /\ \A a \in S : IsCall(a, pat)
    BY DEF AreCalls
  <1>2. PICK T : t \in Seq(T) /\ \A a \in T : IsCall(a, pat)
    BY DEF AreCalls
  <1> DEFINE U == S \cup T
  <1>3. \A a \in U : IsCall(a, pat)
    BY <1>1, <1>2
  <1>4. s \in Seq(U) /\ t \in Seq(U)
    <2>1. /\ Len(s) \in Nat /\ DOMAIN s = 1 .. Len(s) /\ s = [i \in 1 .. Len(s) |-> s[i]]
          /\ \A i \in 1 .. Len(s) : s[i] \in U
      BY <1>1
    <2>2. /\ Len(t) \in Nat /\ DOMAIN t = 1 .. Len(t) /\ t = [i \in 1 .. Len(t) |-> t[i]]
          /\ \A i \in 1 .. Len(t) : t[i] \in U
      BY <1>2
    <2> HIDE DEF U
    <2> QED BY <2>1, <2>2, ListIsSeq
  <1> HIDE DEF U
  <1>5. s \o t \in Seq(U)
    BY <1>4
  <1> QED BY <1>3, <1>5 DEF AreCalls

LEMMA CallAt ==
    ASSUME NEW pat, NEW s, AreCalls(s, pat)
    PROVE  Len(s) \in Nat /\ \A i \in 1 .. Len(s) : IsCall(s[i], pat)
  <1>1. PICK S : s \in Seq(S) /\ \A a \in S : IsCall(a, pat)
    BY DEF AreCalls
  <1> QED BY <1>1

LEMMA KindsOfCall ==
    ASSUME NEW pat
    PROVE  /\ pat = 0 => IsCall([NoArgs EXCEPT !.fn = "addr_tst1"], pat)
           /\ \A fn \in {"addr_tst2", "s_barrier", "block_move", "movinvr"} :
                 IsCall([NoArgs EXCEPT !.fn = fn], pat)
           /\ IsCall([NoArgs EXCEPT !.fn = "random", !.iter = 2], pat)
           /\ \A p1, p2 : \A iter \in Nat : IsCall(Movinv1(iter, p1, p2), pat)
           /\ \A p1, lb, hb, sval, off : IsCall(Movinv32(p1, lb, hb, sval, off), pat)
           /\ \A p1 : \A off \in 0 .. MOD_SZ - 1 : IsCall(Modtst(p1, off), pat)
           /\ \A p1 : \A fn \in {"bit_fade_fill", "bit_fade_chk"} : IsCall(Fade(fn, p1), pat)
           /\ \A p1 : pat = 11 => IsCall(Fade("sleep", p1), pat)
  <1> USE DEF IsCall, NoArgs, ArgFields, Fns
  <1>0. Iter \in Nat
    BY Sizes
  <1>1. pat = 0 => IsCall([NoArgs EXCEPT !.fn = "addr_tst1"], pat)
    BY <1>0
  <1>2. \A fn \in {"addr_tst2", "s_barrier", "block_move", "movinvr"} :
            IsCall([NoArgs EXCEPT !.fn = fn], pat)
    BY <1>0
  <1>3. IsCall([NoArgs EXCEPT !.fn = "random", !.iter = 2], pat)
    BY <1>0
  <1>4. ASSUME NEW p1, NEW p2, NEW iter \in Nat PROVE IsCall(Movinv1(iter, p1, p2), pat)
    BY <1>0 DEF Movinv1
  <1>5. ASSUME NEW p1, NEW lb, NEW hb, NEW sval, NEW off
        PROVE  IsCall(Movinv32(p1, lb, hb, sval, off), pat)
    BY <1>0 DEF Movinv32
  <1>6. ASSUME NEW p1, NEW off \in 0 .. MOD_SZ - 1 PROVE IsCall(Modtst(p1, off), pat)
    BY <1>0 DEF Modtst
  <1>7. ASSUME NEW p1, NEW fn \in {"bit_fade_fill", "bit_fade_chk"}
        PROVE  IsCall(Fade(fn, p1), pat)
    BY <1>0 DEF Fade
  <1>8. ASSUME NEW p1, pat = 11 PROVE IsCall(Fade("sleep", p1), pat)
    BY <1>0, <1>8 DEF Fade
  <1> QED BY <1>1, <1>2, <1>3, <1>4, <1>5, <1>6, <1>7, <1>8

LEMMA CallsOfPat ==
    ASSUME NEW pat \in 0 .. 11, NEW me
    PROVE  AreCalls(Calls(pat, me), pat)
  <1>1. Iter \in Nat /\ MOD_SZ \in Nat \ {0} /\ W \div 2 \in Nat /\ W \in Nat
    BY Sizes
  <1>2. ASSUME NEW call, IsCall(call, pat) PROVE AreCalls(<<call>>, pat)
    <2> DEFINE T == {call}
    <2>1. <<call>> \in Seq(T) /\ \A a \in T : IsCall(a, pat)
      BY <1>2
    <2> HIDE DEF T
    <2> QED BY <2>1 DEF AreCalls
  <1>3. ASSUME NEW call, IsCall(call, pat) PROVE AreCalls(Again(call), pat)
    BY <1>1, <1>3, CallsFrom DEF Again
  <1>4. CASE pat = 0
    BY <1>2, <1>4, KindsOfCall DEF Calls, Both, InTurn
  <1>5. CASE pat \in {1, 2}
    BY <1>2, <1>5, KindsOfCall DEF Calls, Both, InTurn
  <1>6. CASE pat \in {3, 4}
    <2> DEFINE s == Both(1, LAMBDA i : 0)
    <2>1. s = [i \in 1 .. 2 |-> IF i % 2 = 1 THEN Movinv1(Iter, 0, Not(0))
                               ELSE Movinv1(Iter, Not(0), 0)]
      BY DEF Both, InTurn
    <2>2. IsCall(Movinv1(Iter, 0, Not(0)), pat) /\ IsCall(Movinv1(Iter, Not(0), 0), pat)
      BY <1>1, KindsOfCall
    <2>3. \A i \in 1 .. 2 : IsCall(s[i], pat)
      BY <2>1, <2>2
    <2>4. DOMAIN s = 1 .. 2 /\ s = [i \in 1 .. 2 |-> s[i]] /\ 2 \in Nat
      BY <2>1
    <2>5. Calls(pat, me) = s
      BY <1>6 DEF Calls, Both, InTurn
    <2> HIDE DEF s
    <2> QED BY <2>3, <2>4, <2>5, CallsFrom
  <1>7. CASE pat = 5
    <2> DEFINE n == 2 * (W \div 2)
               p(i) == 2^((W \div 2) - i) * (1 + Half)
               one(i) == Movinv1(Iter, p(i), Not(p(i)))
               other(i) == Movinv1(Iter, Not(p(i)), p(i))
    <2>1. n \in Nat
      BY <1>1
    <2>2. EightBit = [i \in 1 .. n |-> IF i % 2 = 1 THEN one((i + 1) \div 2)
                                      ELSE other(i \div 2)]
      BY DEF EightBit, Both, InTurn
    <2>3. \A i : IsCall(one(i), pat) /\ IsCall(other(i), pat)
      BY <1>1, KindsOfCall
    <2> HIDE DEF n, one, other
    <2>4. AreCalls(EightBit, pat)
      BY <2>1, <2>2, <2>3, CallsFrom
    <2> QED BY <1>7, <2>4 DEF Calls, Both, InTurn
  <1>8. CASE pat = 6
    <2> DEFINE x == [NoArgs EXCEPT !.fn = "s_barrier"]
               y == [NoArgs EXCEPT !.fn = "random", !.iter = 2]
    <2>1. IsCall(x, pat) /\ IsCall(y, pat)
      BY KindsOfCall
    <2>2. Calls(pat, me) = <<x>> \o Again(y)
      BY <1>8 DEF Calls, Both, InTurn
    <2> HIDE DEF x, y
    <2> QED BY <1>2, <1>3, <2>1, <2>2, CallsJoin
  <1>9. CASE pat = 7
    BY <1>2, <1>9, KindsOfCall DEF Calls, Both, InTurn
  <1>10. CASE pat = 8
    <2> DEFINE n == 2 * W
               one(i) == Movinv32(2^(i - 1), 1, 2^(W - 1), 0, i - 1)
               other(i) == Movinv32(Not(2^(i - 1)), Not(1), Not(2^(W - 1)), 1, i - 1)
    <2>1. n \in Nat
      BY <1>1
    <2>2. Shifting = [i \in 1 .. n |-> IF i % 2 = 1 THEN one((i + 1) \div 2)
                                      ELSE other(i \div 2)]
      BY DEF Shifting, InTurn
    <2>3. \A i : IsCall(one(i), pat) /\ IsCall(other(i), pat)
      BY KindsOfCall
    <2> HIDE DEF n, one, other
    <2>4. AreCalls(Shifting, pat)
      BY <2>1, <2>2, <2>3, CallsFrom
    <2> QED BY <1>10, <2>4 DEF Calls, Both, InTurn
  <1>11. CASE pat = 9
    <2>1. IsCall([NoArgs EXCEPT !.fn = "movinvr"], pat)
      BY KindsOfCall
    <2> QED BY <1>3, <1>11, <2>1 DEF Calls, Both, InTurn
  <1>12. CASE pat = 10
    <2> DEFINE p1 == sc.rnd[me]
               n == 2 * (Iter * MOD_SZ)
               one(i) == Modtst(p1, (i - 1) % MOD_SZ)
               other(i) == Modtst(Not(p1), (i - 1) % MOD_SZ)
    <2>1. n \in Nat
      BY <1>1
    <2>2. Modulo(p1) = [i \in 1 .. n |-> IF i % 2 = 1 THEN one((i + 1) \div 2)
                                        ELSE other(i \div 2)]
      BY DEF Modulo, InTurn
    <2>3. \A i \in Int : (i - 1) % MOD_SZ \in 0 .. MOD_SZ - 1
      BY <1>1
    <2>4. \A i \in Int : IsCall(one(i), pat) /\ IsCall(other(i), pat)
      BY <2>3, KindsOfCall
    <2>5. \A i \in 1 .. n : (i + 1) \div 2 \in Int /\ i \div 2 \in Int
      BY <2>1
    <2>6. Calls(pat, me) = Modulo(p1)
      BY <1>12 DEF Calls, Both, InTurn
    <2> HIDE DEF n, one, other, p1
    <2>7. AreCalls(Modulo(p1), pat)
      BY <2>1, <2>2, <2>4, <2>5, CallsFrom
    <2> QED BY <2>6, <2>7
  <1>13. CASE pat = 11
    <2> DEFINE fill == Fade("bit_fade_fill", 0)
               sleep == Fade("sleep", 0)
               chk == Fade("bit_fade_chk", 0)
               fill1 == Fade("bit_fade_fill", Mask)
               chk1 == Fade("bit_fade_chk", Mask)
               T == {fill, sleep, chk, fill1, chk1}
    <2>1. \A a \in T : IsCall(a, pat)
      BY <1>13, KindsOfCall
    <2>2. Calls(pat, me) = <<fill, sleep, chk, fill1, sleep, chk1>>
      BY <1>13 DEF Calls, Both, InTurn
    <2>3. <<fill, sleep, chk, fill1, sleep, chk1>> \in Seq(T)
      <3> HIDE DEF fill, sleep, chk, fill1, chk1
      <3> QED OBVIOUS
    <2> HIDE DEF T
    <2> QED BY <2>1, <2>2, <2>3 DEF AreCalls
  <1> QED BY <1>4, <1>5, <1>6, <1>7, <1>8, <1>9, <1>10, <1>11, <1>12, <1>13

LEMMA JoinIsSeq ==
    ASSUME NEW T, NEW s \in Seq(T), NEW t \in Seq(T)
    PROVE  s \o t \in Seq(T)
  OBVIOUS

LEMMA LoopsOf ==
    ASSUME NEW fn \in Fns, NEW iter \in Nat
    PROVE  Loops(fn, iter) \in Seq(LoopNames(fn))
  <1>1. CASE fn \in {"movinv1", "random"}
    <2> DEFINE T == {"sync", "fill", "up", "down"}
               turns == InTurn(iter, LAMBDA i : "up", LAMBDA i : "down")
    <2>1. turns \in Seq(T)
      BY DEF InTurn
    <2>2. <<"sync", "fill">> \in Seq(T)
      OBVIOUS
    <2>3. Loops(fn, iter) = <<"sync", "fill">> \o turns
      BY <1>1 DEF Loops, InTurn
    <2>4. LoopNames(fn) = T
      BY <1>1 DEF LoopNames
    <2> HIDE DEF T, turns
    <2> QED BY <2>1, <2>2, <2>3, <2>4, JoinIsSeq
  <1>2. CASE fn = "movinv32"
    <2> DEFINE T == {"sync", "fill32", "up32", "down32"}
               turns == InTurn(iter, LAMBDA i : "up32", LAMBDA i : "down32")
    <2>1. turns \in Seq(T)
      BY DEF InTurn
    <2>2. <<"sync", "fill32">> \in Seq(T)
      OBVIOUS
    <2>3. Loops(fn, iter) = <<"sync", "fill32">> \o turns
      BY <1>2 DEF Loops, InTurn
    <2>4. LoopNames(fn) = T
      BY <1>2 DEF LoopNames
    <2> HIDE DEF T, turns
    <2> QED BY <2>1, <2>2, <2>3, <2>4, JoinIsSeq
  <1>3. CASE fn = "modtst"
    <2> DEFINE T == {"sync", "rest"} \cup Shortened
               rests == [i \in 1 .. iter |-> "rest"]
    <2>1. rests \in Seq(T)
      OBVIOUS
    <2>2. <<"sync", "nth">> \in Seq(T) /\ <<"check_nth">> \in Seq(T)
      BY DEF Shortened
    <2>3. Loops(fn, iter) = <<"sync", "nth">> \o rests \o <<"check_nth">>
      BY <1>3 DEF Loops, InTurn
    <2>4. LoopNames(fn) = T
      BY <1>3 DEF LoopNames
    <2> HIDE DEF T, rests
    <2>5. <<"sync", "nth">> \o rests \in Seq(T)
      BY <2>1, <2>2, JoinIsSeq
    <2> QED BY <2>2, <2>3, <2>4, <2>5, JoinIsSeq
  <1>4. CASE fn \in {"s_barrier", "addr_tst1", "addr_tst2"}
    <2>1. CASE fn = "s_barrier"
      BY <2>1 DEF Loops, InTurn, LoopNames
    <2>2. CASE fn = "addr_tst1"
      BY <2>2 DEF Loops, InTurn, LoopNames, Walking
    <2>3. CASE fn = "addr_tst2"
      BY <2>3 DEF Loops, InTurn, LoopNames
    <2> QED BY <1>4, <2>1, <2>2, <2>3
  <1>5. CASE fn \in {"movinvr", "block_move"}
    <2>1. CASE fn = "movinvr"
      BY <2>1 DEF Loops, InTurn, LoopNames
    <2>2. CASE fn = "block_move"
      BY <2>2 DEF Loops, InTurn, LoopNames
    <2> QED BY <1>5, <2>1, <2>2
  <1>6. CASE fn \in {"bit_fade_fill", "bit_fade_chk", "sleep"}
    <2>1. CASE fn = "bit_fade_fill"
      BY <2>1 DEF Loops, InTurn, LoopNames
    <2>2. CASE fn = "bit_fade_chk"
      BY <2>2 DEF Loops, InTurn, LoopNames
    <2>3. CASE fn = "sleep"
      BY <2>3 DEF Loops, InTurn, LoopNames
    <2> QED BY <1>6, <2>1, <2>2, <2>3
  <1> QED BY <1>1, <1>2, <1>3, <1>4, <1>5, <1>6 DEF Fns

(* Which functions a loop is of. *)
LEMMA LoopKinds ==
    ASSUME NEW fn \in Fns, NEW loop \in LoopNames(fn)
    PROVE  /\ loop \in {"sync", "sleep", "move"} \cup Walking \cup Sweeping
           /\ loop \in Shortened => fn = "modtst"
           /\ loop \in Walking => fn = "addr_tst1"
           /\ loop \in {"init", "move", "pairs"} => fn = "block_move"
           /\ loop \in Downward => fn \in {"movinv1", "random", "movinv32"}
  <1> USE DEF Walking, Sweeping, Rising, Downward, Shortened, Fading
  <1>1. CASE fn \in {"s_barrier", "addr_tst1", "addr_tst2"}
    BY <1>1 DEF LoopNames
  <1>2. CASE fn \in {"movinv1", "random", "movinv32"}
    BY <1>2 DEF LoopNames
  <1>3. CASE fn \in {"movinvr", "modtst"}
    BY <1>3 DEF LoopNames
  <1>4. CASE fn \in {"block_move", "bit_fade_fill", "bit_fade_chk", "sleep"}
    BY <1>4 DEF LoopNames
  <1> QED BY <1>1, <1>2, <1>3, <1>4 DEF Fns

(* No share is one word longer than whole sections. *)
LEMMA NotOneOver ==
    ASSUME sc \in Scenarios, NEW me \in CPUs, NEW j \in 1 .. segs,
           NEW fn \in {"movinv1", "random", "movinv32"}, NEW r, r = Region(fn, j, me)
    PROVE  (r.end - r.start) % SPINSZ # 0
  <1>1. j \in DOMAIN sc.map
    BY ScenariosAssumption DEF segs
  <1>2. fn \notin Whole /\ Unit(fn) \in {1, ALIGN}
    BY DEF Whole, Unit
  <1>3. r = Chunk(sc.map[j], me, sc.run_cpus - 1, sc.run_cpus, Unit(fn))
    BY <1>2 DEF Region, mstr
  <1>4. me \in 0 .. sc.run_cpus - 1
    BY DEF CPUs
  <1> HIDE DEF Unit
  <1> QED BY <1>1, <1>2, <1>3, <1>4, ScenariosAssumption

----------------------------------------------------------------------------
(* Where a CPU is in do_test().                                             *)

InWalk(c, loop) ==
    /\ c.p \in Nat /\ c.rep \in 0 .. 2
    /\ c.rep = 1 => c.k \in Nat
    /\ c.rep = 1 \/ loop = "global" => c.p > 2

Known(c) == DOMAIN c = CpuFields /\ c.call \in Nat /\ IsErrs(c.errs)

InCall(c) ==
    /\ Known(c) /\ IsCall(c.args, sc.pat)
    /\ c.ph \in 1 .. Len(Loops(c.args.fn, c.args.iter))

InLoop(c, me) ==
    /\ c.j \in 1 .. segs
    /\ IF LoopOf(c) \in Walking THEN InWalk(c, LoopOf(c))
       ELSE InSpan(c, Region(c.args.fn, c.j, me), LoopOf(c))

Placed(c, me) ==
    /\ Known(c)
    /\ c.at = "test" => InCall(c) /\ (LoopOf(c) \notin {"sync", "sleep"} => InLoop(c, me))

LEMMA LoopIsOfCall ==
    ASSUME NEW c, InCall(c)
    PROVE  /\ c.args.fn \in Fns /\ LoopOf(c) \in LoopNames(c.args.fn)
           /\ Len(Loops(c.args.fn, c.args.iter)) \in Nat /\ c.ph \in Nat
  <1>1. c.args.fn \in Fns /\ c.args.iter \in Nat
    BY DEF InCall, IsCall
  <1>2. Loops(c.args.fn, c.args.iter) \in Seq(LoopNames(c.args.fn))
    BY <1>1, LoopsOf
  <1>3. c.ph \in 1 .. Len(Loops(c.args.fn, c.args.iter))
    BY DEF InCall
  <1> QED BY <1>1, <1>2, <1>3 DEF LoopOf

Places == {"p", "pe", "done", "rep", "k", "pat", "wait", "at"}

(* Fields that a call has nothing to do with. *)
LEMMA SameCall ==
    ASSUME NEW c, NEW x, NEW diff \in SUBSET Places, Alike(x, c, diff)
    PROVE  /\ x.args = c.args /\ x.ph = c.ph /\ x.j = c.j /\ LoopOf(x) = LoopOf(c)
           /\ Known(c) => Known(x)
           /\ InCall(c) => InCall(x)
           /\ "at" \notin diff => x.at = c.at
  <1>1. {"args", "ph", "j", "call", "errs"} \subseteq CpuFields \ diff
    BY DEF CpuFields, Places
  <1>2. x.args = c.args /\ x.ph = c.ph /\ x.j = c.j /\ x.call = c.call /\ x.errs = c.errs
        /\ DOMAIN x = CpuFields
    BY <1>1 DEF Alike
  <1>3. LoopOf(x) = LoopOf(c)
    BY <1>2 DEF LoopOf
  <1>4. Known(c) => Known(x)
    BY <1>2 DEF Known
  <1>5. InCall(c) => InCall(x)
    BY <1>2, <1>4 DEF InCall
  <1>6. "at" \notin diff => x.at = c.at
    BY Fields DEF Alike
  <1> QED BY <1>2, <1>3, <1>4, <1>5, <1>6

LEMMA AlikeTwice ==
    ASSUME NEW a, NEW b, NEW c, NEW d \in SUBSET Places, NEW e \in SUBSET Places,
           Alike(a, b, d), Alike(b, c, e)
    PROVE  Alike(a, c, Places) /\ ("at" \notin d \cup e => a.at = c.at)
  BY Fields DEF Alike

(* The start of a segment. *)
LEMMA SegmentStart ==
    ASSUME NEW c, DOMAIN c = CpuFields, NEW me, NEW loop, loop = LoopOf(c),
           NEW r, r = Region(c.args.fn, c.j, me), DOMAIN r = {"start", "end"},
           NEW x, x = AtSegment(c, me)
    PROVE  /\ Alike(x, c, Places) /\ x.at = c.at /\ x.done = 0 /\ x.rep = 0
           /\ x.wait = (loop \notin Unticked)
           /\ x.pe = IF loop \in Downward THEN r.end ELSE r.start
           /\ loop \notin Walking =>
                 x.p = IF loop \in Shortened THEN x.pe + c.args.off ELSE x.pe
           /\ loop = "global" => x.p = RoundUp(x.pe, GRAIN) % Top
           /\ loop = "bank" => x.p = RoundUp(x.pe, BANK) % Top
  <1> DEFINE rr == Reach(c, me)
             from == IF loop \in Downward THEN rr.end ELSE rr.start
             at == IF loop \in Shortened THEN from + c.args.off ELSE from
             wait == loop \notin Unticked
             c1 == [c EXCEPT !.pe = from, !.done = 0, !.rep = 0, !.wait = wait, !.p = at]
  <1>1. from = IF loop \in Downward THEN r.end ELSE r.start
    <2>1. rr = r \/ (rr = [r EXCEPT !.end = @ - MOD_SZ] /\ loop \in Shortened)
      BY DEF Reach
    <2>2. ~(loop \in Downward /\ loop \in Shortened)
      BY DEF Downward, Shortened
    <2> HIDE DEF rr
    <2> QED BY <2>1, <2>2
  <1>2. /\ Alike(c1, c, Places) /\ c1.at = c.at /\ c1.done = 0 /\ c1.rep = 0 /\ c1.pe = from
        /\ c1.p = at /\ c1.wait = wait
    <2> HIDE DEF from, at, wait
    <2> QED BY DEF Alike, CpuFields, Places
  <1>3. at = IF loop \in Shortened THEN from + c.args.off ELSE from
    OBVIOUS
  <1>4. x = CASE loop \in {"fill32", "up32"} -> [c1 EXCEPT !.k = c.args.off, !.pat = c.args.p1]
              [] loop = "down32" /\ c.j = segs -> Turn(c1)
              [] loop = "rest" -> [c1 EXCEPT !.k = 0]
              [] loop = "global" -> [c1 EXCEPT !.p = RoundUp(from, GRAIN) % Top]
              [] loop = "bank" -> [c1 EXCEPT !.p = RoundUp(from, BANK) % Top]
              [] OTHER -> c1
    BY DEF AtSegment
  <1>0. wait = (loop \notin Unticked)
    OBVIOUS
  <1> HIDE DEF from, at, wait, rr, c1
  <1>5. ASSUME NEW k, NEW pat, x = [c1 EXCEPT !.k = k, !.pat = pat] \/ x = [c1 EXCEPT !.k = k] \/ x = c1
        PROVE  Alike(x, c1, {"k", "pat"})
    BY <1>2, <1>5 DEF Alike, CpuFields
  <1>6. CASE loop \notin Walking
    <2>1. Alike(x, c1, {"k", "pat"})
      <3>1. CASE loop \in {"fill32", "up32"}
        <4>1. x = [c1 EXCEPT !.k = c.args.off, !.pat = c.args.p1]
          BY <1>4, <3>1
        <4> QED BY <1>5, <4>1
      <3>2. CASE loop = "down32" /\ c.j = segs
        <4>1. x = Turn(c1)
          BY <1>4, <3>2
        <4> QED BY <1>5, <4>1 DEF Turn
      <3>3. CASE loop = "rest"
        <4>1. x = [c1 EXCEPT !.k = 0]
          BY <1>4, <3>3
        <4> QED BY <1>5, <4>1
      <3>4. CASE loop \notin {"fill32", "up32", "rest"} /\ ~(loop = "down32" /\ c.j = segs)
        <4>1. x = c1
          BY <1>4, <1>6, <3>4 DEF Walking
        <4> QED BY <1>5, <4>1
      <3> QED BY <3>1, <3>2, <3>3, <3>4
    <2>2. Alike(x, c, Places)
      <3>1. {"k", "pat"} \in SUBSET Places /\ Places \in SUBSET Places
        BY DEF Places
      <3> QED BY <1>2, <2>1, <3>1, AlikeTwice
    <2>3. x.at = c1.at /\ x.done = c1.done /\ x.rep = c1.rep /\ x.pe = c1.pe /\ x.p = c1.p
          /\ x.wait = c1.wait
      BY <2>1, Fields DEF Alike
    <2> QED BY <1>1, <1>2, <1>3, <1>6, <1>0, <2>2, <2>3 DEF Walking
  <1>7. CASE loop \in Walking
    <2>1. PICK p : /\ x = [c1 EXCEPT !.p = p]
                   /\ loop = "global" => p = RoundUp(from, GRAIN) % Top
                   /\ loop = "bank" => p = RoundUp(from, BANK) % Top
      <3>1. CASE loop = "global"
        BY <1>4, <3>1
      <3>2. CASE loop = "bank"
        BY <1>4, <3>2
      <3> QED BY <1>7, <3>1, <3>2 DEF Walking
    <2>2. Alike(x, c1, {"p"}) /\ x.p = p
      BY <1>2, <2>1, Fields DEF Alike, CpuFields
    <2>3. Alike(x, c, Places)
      <3>1. {"p"} \in SUBSET Places /\ Places \in SUBSET Places
        BY DEF Places
      <3> QED BY <1>2, <2>2, <3>1, AlikeTwice
    <2>4. x.at = c1.at /\ x.done = c1.done /\ x.rep = c1.rep /\ x.pe = c1.pe
          /\ x.wait = c1.wait
      BY <2>2, Fields DEF Alike
    <2> QED BY <1>1, <1>2, <1>7, <1>0, <2>1, <2>2, <2>3, <2>4
  <1> QED BY <1>6, <1>7

LEMMA EnterSegment ==
    ASSUME sc \in Scenarios, NEW me \in CPUs, NEW c, InCall(c), LoopOf(c) \notin {"sync", "sleep"},
           c.j \in 1 .. segs, LoopOf(c) = "global" => c.j = 1
    PROVE  Placed(AtSegment(c, me), me)
  <1> DEFINE loop == LoopOf(c)
             fn == c.args.fn
             r == Region(fn, c.j, me)
             x == AtSegment(c, me)
  <1>1. fn \in Fns /\ loop \in LoopNames(fn)
    BY LoopIsOfCall
  <1>2. /\ DOMAIN r = {"start", "end"}
        /\ r.start \in 3 .. Top - 1 /\ r.end \in 3 .. Top - 1 /\ r.start <= r.end
        /\ fn = "modtst" => r.start + MOD_SZ <= r.end
        /\ fn = "block_move" => r.start % BLOCK = 0 /\ (r.end + 1) % BLOCK = 0
    BY RegionFacts
  <1>3. DOMAIN c = CpuFields /\ IsCall(c.args, sc.pat)
    BY DEF InCall, Known
  <1>4. /\ Alike(x, c, Places) /\ x.at = c.at /\ x.done = 0 /\ x.rep = 0
        /\ x.pe = IF loop \in Downward THEN r.end ELSE r.start
        /\ loop \notin Walking =>
               x.p = IF loop \in Shortened THEN x.pe + c.args.off ELSE x.pe
        /\ loop = "global" => x.p = RoundUp(x.pe, GRAIN) % Top
        /\ loop = "bank" => x.p = RoundUp(x.pe, BANK) % Top
    BY <1>2, <1>3, SegmentStart
  <1>5. InCall(x) /\ Known(x) /\ LoopOf(x) = loop /\ x.j = c.j /\ x.args = c.args
    BY <1>4, SameCall DEF InCall
  <1>6. CASE loop \in Walking
    <2>1. fn = "addr_tst1"
      BY <1>1, <1>6, LoopKinds
    <2>2. sc.pat = 0
      BY <1>3, <2>1 DEF IsCall
    <2>3. x.pe = r.start
      BY <1>4, <1>6 DEF Walking, Downward
    <2>4. ASSUME NEW m \in Nat \ {0} PROVE RoundUp(r.start, m) \in Nat /\ RoundUp(r.start, m) >= r.start
      <3> DEFINE v == r.start + m - 1
                 q == v \div m
      <3>1. v \in Nat
        BY <1>2
      <3> HIDE DEF v
      <3>2. q \in Nat /\ q * m \in Nat /\ v < (q + 1) * m
        BY <3>1, DivBounds
      <3> HIDE DEF q
      <3>3. (q + 1) * m = q * m + m
        BY <3>2
      <3>4. RoundUp(r.start, m) = q * m
        BY DEF RoundUp, RoundDown, q, v
      <3> QED BY <1>2, <3>2, <3>3, <3>4 DEF v
    <2>5. ASSUME loop = "global" PROVE x.p \in Nat /\ x.p > 2
      <3>1. c.j = 1 /\ sc.run_cpus = 1 /\ RoundUp(sc.map[1].start, GRAIN) < Top
        BY <2>2, <2>5, ScenariosAssumption
      <3>2. r.start = sc.map[1].start
        BY <2>1, <3>1 DEF Region, Whole, Chunk
      <3> DEFINE v == RoundUp(r.start, GRAIN)
      <3>3. v \in Nat /\ v >= r.start /\ v < Top
        BY <2>4, <3>1, <3>2, Sizes
      <3> HIDE DEF v
      <3>4. v % Top = v
        BY <3>3, ModWithin, Sizes
      <3> QED BY <1>2, <1>4, <2>3, <2>5, <3>3, <3>4 DEF v
    <2>6. ASSUME loop = "bank" PROVE x.p \in Nat
      <3> DEFINE v == RoundUp(r.start, BANK)
      <3>1. v \in Nat
        BY <2>4, Sizes
      <3> HIDE DEF v
      <3>2. v % Top \in Nat
        BY <3>1, Sizes
      <3> QED BY <1>4, <2>3, <2>6, <3>2 DEF v
    <2>7. InWalk(x, loop)
      BY <1>4, <1>6, <2>5, <2>6 DEF InWalk, Walking
    <2> QED BY <1>5, <1>6, <2>7 DEF Placed, InLoop
  <1>7. CASE loop \notin Walking
    <2>1. loop \in {"move"} \cup Sweeping
      BY <1>1, <1>7, LoopKinds
    <2>2. InSpan(x, r, loop)
      <3>1. CASE loop \in Shortened
        <4>1. loop \notin Rising /\ loop \notin Downward /\ loop \notin {"init", "pairs", "move"}
          BY <3>1 DEF Rising, Downward, Shortened, Fading
        <4>2. x.pe = r.start /\ x.p = r.start + c.args.off
          BY <1>4, <1>7, <3>1, <4>1
        <4>3. fn = "modtst" /\ c.args.off \in 0 .. MOD_SZ - 1
          BY <1>1, <1>3, <3>1, LoopKinds DEF IsCall
        <4> QED BY <1>2, <1>4, <4>1, <4>2, <4>3, Sizes DEF InSpan
      <3>2. CASE loop \in Downward
        <4>1. loop \notin Rising /\ loop \notin Shortened /\ loop \notin {"init", "pairs", "move"}
          BY <3>2 DEF Rising, Downward, Shortened, Fading
        <4>2. x.pe = r.end /\ x.p = r.end
          BY <1>4, <1>7, <3>2, <4>1
        <4>3. (r.end - x.pe) % SPINSZ = 0
          <5>1. r.end - x.pe = 0
            BY <1>2, <4>2
          <5> QED BY <5>1, Sizes
        <4> QED BY <1>2, <1>4, <4>1, <4>2, <4>3 DEF InSpan
      <3>3. CASE loop \notin Shortened /\ loop \notin Downward
        <4>1. x.pe = r.start /\ x.p = r.start
          BY <1>4, <1>7, <3>3
        <4>2. loop \in {"init", "move", "pairs"} => r.start % BLOCK = 0
          BY <1>1, <1>2, LoopKinds
        <4> QED BY <1>2, <1>4, <3>3, <4>1, <4>2 DEF InSpan
      <3> QED BY <3>1, <3>2, <3>3
    <2> QED BY <1>5, <1>7, <2>2 DEF Placed, InLoop
  <1> QED BY <1>6, <1>7

LEMMA Counts ==
    ASSUME sc \in Scenarios
    PROVE  segs \in Nat \ {0} /\ sc.run_cpus \in Nat \ {0} /\ sc.pat \in 0 .. 11
  BY ScenariosAssumption DEF segs

(* The next loop, or none. *)
LEMMA EnterLoop ==
    ASSUME sc \in Scenarios, NEW me \in CPUs, NEW c, Known(c), IsCall(c.args, sc.pat),
           NEW ph \in Nat \ {0}
    PROVE  Placed(AtLoop(c, ph, me), me)
  <1> DEFINE n == Len(Loops(c.args.fn, c.args.iter))
             loop == Loops(c.args.fn, c.args.iter)[ph]
             j == IF loop \in Downward THEN segs ELSE 1
             c1 == [c EXCEPT !.at = "test", !.ph = ph, !.j = j]
             x == AtLoop(c, ph, me)
  <1>0. DOMAIN c = CpuFields /\ c.call \in Nat /\ IsErrs(c.errs)
    BY DEF Known
  <1>1. CASE ph > n
    <2>1. x = [c EXCEPT !.at = "do_test", !.wait = FALSE]
      BY <1>1 DEF AtLoop
    <2> HIDE DEF x, n, loop
    <2>2. x.at = "do_test" /\ DOMAIN x = CpuFields /\ x.call = c.call /\ x.errs = c.errs
      BY <1>0, <2>1, Fields
    <2>3. Known(x) /\ x.at # "test"
      BY <1>0, <2>2 DEF Known
    <2> QED BY <2>3 DEF Placed, x
  <1>2. CASE ~(ph > n)
    <2>1. x = CASE loop = "sync"  -> [c1 EXCEPT !.wait = TRUE]
                [] loop = "sleep" -> [c1 EXCEPT !.k = 0, !.wait = FALSE]
                [] OTHER          -> AtSegment(c1, me)
      BY <1>2 DEF AtLoop
    <2>2. n \in Nat
      <3>1. Loops(c.args.fn, c.args.iter) \in Seq(LoopNames(c.args.fn))
        BY LoopsOf DEF IsCall
      <3> QED BY <3>1
    <2>3. ph \in 1 .. n
      BY <1>2, <2>2
    <2> HIDE DEF x, n, loop, j
    <2>4. /\ DOMAIN c1 = CpuFields /\ c1.call = c.call /\ c1.errs = c.errs /\ c1.args = c.args
          /\ c1.ph = ph /\ c1.j = j /\ c1.at = "test"
      BY <1>0, Fields
    <2> HIDE DEF c1
    <2>5. InCall(c1) /\ LoopOf(c1) = loop
      BY <1>0, <2>3, <2>4 DEF InCall, Known, LoopOf, n, loop
    <2>6. CASE loop \in {"sync", "sleep"}
      <3>1. x = [c1 EXCEPT !.wait = TRUE] \/ x = [c1 EXCEPT !.k = 0, !.wait = FALSE]
        BY <2>1, <2>6
      <3>2. Alike(x, c1, {"k", "wait"})
        BY <2>4, <3>1 DEF Alike, CpuFields
      <3>3. InCall(x) /\ LoopOf(x) = loop /\ Known(x)
        BY <2>5, <3>2, SameCall DEF Places, InCall
      <3> QED BY <2>6, <3>3 DEF Placed, x
    <2>7. CASE loop \notin {"sync", "sleep"}
      <3>1. x = AtSegment(c1, me)
        BY <2>1, <2>7
      <3>2. j \in 1 .. segs /\ (loop = "global" => j = 1)
        BY Counts DEF j, Downward
      <3> QED BY <2>4, <2>5, <2>7, <3>1, <3>2, EnterSegment DEF x
    <2> QED BY <2>6, <2>7
  <1> QED BY <1>1, <1>2

(* The next segment, or the next loop. *)
LEMMA EnterNext ==
    ASSUME sc \in Scenarios, NEW me \in CPUs, NEW c, InCall(c), c.at = "test", c.j \in 1 .. segs,
           LoopOf(c) \notin {"sync", "sleep", "global"}
    PROVE  Placed(NextSegment(c, me), me)
  <1>1. Known(c) /\ IsCall(c.args, sc.pat) /\ c.ph \in Nat /\ c.ph + 1 \in Nat \ {0}
    BY LoopIsOfCall DEF InCall
  <1>2. Placed(AtLoop(c, c.ph + 1, me), me)
    BY <1>1, EnterLoop
  <1>3. ASSUME NEW j \in 1 .. segs PROVE Placed(AtSegment([c EXCEPT !.j = j], me), me)
    <2> DEFINE c1 == [c EXCEPT !.j = j]
    <2>1. /\ DOMAIN c1 = CpuFields /\ c1.call = c.call /\ c1.errs = c.errs /\ c1.args = c.args
          /\ c1.ph = c.ph /\ c1.j = j /\ c1.at = "test"
      BY <1>1, Fields DEF Known
    <2> HIDE DEF c1
    <2>2. InCall(c1) /\ LoopOf(c1) = LoopOf(c)
      BY <1>1, <2>1 DEF InCall, Known, LoopOf
    <2> QED BY <2>1, <2>2, EnterSegment DEF c1
  <1>4. segs \in Nat \ {0}
    BY Counts
  <1>5. CASE LoopOf(c) \in Downward
    <2>1. CASE c.j = 1
      BY <1>2, <1>5, <2>1 DEF NextSegment
    <2>2. CASE c.j # 1
      <3>1. c.j - 1 \in 1 .. segs
        BY <1>4, <2>2
      <3> QED BY <1>3, <1>5, <2>2, <3>1 DEF NextSegment
    <2> QED BY <2>1, <2>2
  <1>6. CASE LoopOf(c) \notin Downward
    <2>1. CASE c.j = segs
      BY <1>2, <1>6, <2>1 DEF NextSegment
    <2>2. CASE c.j # segs
      <3>1. c.j + 1 \in 1 .. segs
        BY <1>4, <2>2
      <3> QED BY <1>3, <1>6, <2>2, <3>1 DEF NextSegment
    <2> QED BY <2>1, <2>2
  <1> QED BY <1>5, <1>6

(* The next section, or the next segment. *)
LEMMA EnterSection ==
    ASSUME sc \in Scenarios, NEW me \in CPUs, NEW c, InCall(c), c.at = "test", c.j \in 1 .. segs,
           LoopOf(c) \notin {"sync", "sleep"} \cup Walking,
           ~(c.done > 0) => InSpan(c, Region(c.args.fn, c.j, me), LoopOf(c))
    PROVE  Placed(NextSection(c, me), me)
  <1>1. CASE c.done > 0
    BY <1>1, EnterNext DEF NextSection, Walking
  <1>2. CASE ~(c.done > 0)
    <2> DEFINE w == LoopOf(c) \notin Unticked
               x == [c EXCEPT !.wait = w]
    <2>1. NextSection(c, me) = x
      BY <1>2 DEF NextSection
    <2> HIDE DEF w
    <2>2. Alike(x, c, {"wait"})
      BY Fields DEF InCall, Known, Alike, CpuFields
    <2> HIDE DEF x
    <2>3. InCall(x) /\ LoopOf(x) = LoopOf(c) /\ Known(x) /\ x.j = c.j /\ x.args = c.args
      BY <2>2, SameCall DEF Places, InCall
    <2>4. x.p = c.p /\ x.pe = c.pe /\ x.done = c.done /\ x.rep = c.rep
      BY <2>2, Fields DEF Alike
    <2>5. InSpan(x, Region(x.args.fn, x.j, me), LoopOf(x))
      BY <1>2, <2>3, <2>4 DEF InSpan
    <2> QED BY <2>1, <2>3, <2>5 DEF Placed, InLoop
  <1> QED BY <1>1, <1>2

----------------------------------------------------------------------------
(* Every step keeps the CPUs within their shares.                           *)

SweepInv ==
    /\ sc \in Scenarios
    /\ DOMAIN cpu = CPUs /\ \A me \in CPUs : Placed(cpu[me], me)
    /\ DOMAIN hist = {"n", "reported", "strays"} /\ hist.strays = {}

LEMMA PlacedStill ==
    ASSUME sc' = sc, NEW x, NEW me, Placed(x, me)
    PROVE  Placed(x, me)'
  <1>1. segs' = segs
    BY DEF segs
  <1>2. mstr' = mstr
    BY DEF mstr
  <1>3. Region(x.args.fn, x.j, me)' = Region(x.args.fn, x.j, me)
    BY <1>2 DEF Region
  <1>6. Known(x)' <=> Known(x)
    BY DEF Known, IsErrs, CanFind
  <1>4. InCall(x)' <=> InCall(x)
    BY <1>6 DEF InCall
  <1>5. InLoop(x, me)' <=> InLoop(x, me)
    BY <1>1, <1>3 DEF InLoop
  <1> QED BY <1>4, <1>5, <1>6 DEF Placed

(* A CPU that gets to x. *)
GetsTo(me, x) == Placed(x, me) /\ cpu' = [cpu EXCEPT ![me] = x]

LEMMA StepKeeps ==
    ASSUME SweepInv, sc' = sc, NEW me \in CPUs, NEW x, GetsTo(me, x),
           DOMAIN hist' = {"n", "reported", "strays"}, hist'.strays = {}
    PROVE  SweepInv'
  <1>1. CPUs' = CPUs /\ sc \in Scenarios /\ DOMAIN cpu = CPUs
    BY DEF SweepInv, CPUs
  <1>2. cpu' = [cpu EXCEPT ![me] = x] /\ Placed(x, me)
    BY DEF GetsTo
  <1>3. DOMAIN cpu' = CPUs
    BY <1>1, <1>2
  <1>4. ASSUME NEW i \in CPUs PROVE Placed(cpu[i], i)'
    <2>1. PICK y : y = cpu'[i] /\ Placed(y, i)
      <3>1. CASE i = me
        BY <1>1, <1>2, <3>1
      <3>2. CASE i # me
        BY <1>1, <1>2, <3>2 DEF SweepInv
      <3> QED BY <3>1, <3>2
    <2>2. Placed(y, i)'
      BY <2>1, PlacedStill
    <2> QED BY <2>1, <2>2
  <1> QED BY <1>1, <1>3, <1>4 DEF SweepInv

(* wait and errs have nothing to do with the place. *)
LEMMA PlacedAlike ==
    ASSUME NEW me, NEW c, Placed(c, me), NEW x, Alike(x, c, {"wait", "errs"}), IsErrs(x.errs)
    PROVE  Placed(x, me)
  <1>1. /\ x.at = c.at /\ x.call = c.call /\ x.args = c.args /\ x.ph = c.ph /\ x.j = c.j
        /\ x.p = c.p /\ x.pe = c.pe /\ x.done = c.done /\ x.rep = c.rep /\ x.k = c.k
        /\ DOMAIN x = CpuFields
    BY Fields DEF Alike
  <1>2. Known(x)
    BY <1>1 DEF Placed, Known
  <1>3. LoopOf(x) = LoopOf(c)
    BY <1>1 DEF LoopOf
  <1>4. InCall(c) => InCall(x)
    BY <1>1, <1>2 DEF InCall
  <1>5. InLoop(c, me) => InLoop(x, me)
    BY <1>1, <1>3 DEF InLoop, InWalk, InSpan
  <1> QED BY <1>1, <1>2, <1>3, <1>4, <1>5 DEF Placed

(* What a CPU in a test is. *)
LEMMA InTest ==
    ASSUME SweepInv, NEW me \in CPUs, NEW c, c = cpu[me], c.at = "test"
    PROVE  /\ InCall(c) /\ Known(c) /\ DOMAIN c = CpuFields /\ IsCall(c.args, sc.pat)
           /\ LoopOf(c) \in {"sync", "sleep", "move"} \cup Walking \cup Sweeping
           /\ LoopOf(c) \notin {"sync", "sleep"} => c.j \in 1 .. segs
           /\ LoopOf(c) \in Walking => InWalk(c, LoopOf(c)) /\ c.args.fn = "addr_tst1"
           /\ LoopOf(c) \in {"move"} \cup Sweeping =>
                 /\ InSpan(c, Region(c.args.fn, c.j, me), LoopOf(c))
                 /\ IsRegion(Region(c.args.fn, c.j, me))
           /\ LoopOf(c) \in {"init", "move", "pairs"} =>
                 (Region(c.args.fn, c.j, me).end + 1) % BLOCK = 0
  <1>1. Placed(c, me) /\ sc \in Scenarios
    BY DEF SweepInv
  <1>2. InCall(c) /\ Known(c) /\ DOMAIN c = CpuFields /\ IsCall(c.args, sc.pat)
    BY <1>1 DEF Placed, InCall, Known
  <1>3. c.args.fn \in Fns /\ LoopOf(c) \in LoopNames(c.args.fn)
    BY <1>2, LoopIsOfCall
  <1>4. /\ LoopOf(c) \in {"sync", "sleep", "move"} \cup Walking \cup Sweeping
        /\ LoopOf(c) \in Walking => c.args.fn = "addr_tst1"
        /\ LoopOf(c) \in {"init", "move", "pairs"} => c.args.fn = "block_move"
    BY <1>3, LoopKinds
  <1>5. LoopOf(c) \notin {"sync", "sleep"} => InLoop(c, me)
    BY <1>1 DEF Placed
  <1>6. /\ LoopOf(c) \in Walking => LoopOf(c) \notin {"sync", "sleep"}
        /\ LoopOf(c) \in {"move"} \cup Sweeping => LoopOf(c) \notin {"sync", "sleep"} \cup Walking
    BY DEF Walking, Sweeping, Rising, Downward, Shortened, Fading
  <1>7. LoopOf(c) \notin {"sync", "sleep"} =>
           LET r == Region(c.args.fn, c.j, me)
           IN  IsRegion(r) /\ (c.args.fn = "block_move" => (r.end + 1) % BLOCK = 0)
    BY <1>1, <1>5, RegionFacts DEF InLoop, IsRegion
  <1>8. LoopOf(c) \in {"init", "move", "pairs"} => LoopOf(c) \notin {"sync", "sleep"}
    OBVIOUS
  <1> QED BY <1>2, <1>4, <1>5, <1>6, <1>7, <1>8 DEF InLoop

LEMMA AdvanceAlike ==
    ASSUME NEW c, DOMAIN c = CpuFields, NEW me
    PROVE  Alike(Advance(c, me), c, {"pe", "done"})
  <1>1. ASSUME NEW r PROVE Alike(AdvanceUp(c, r), c, {"pe", "done"})
    <2> DEFINE pe == IF (c.pe + SPINSZ) % Top > c.pe /\ c.pe # 0 THEN c.pe + SPINSZ ELSE r.end
               d == c.done + 1
    <2>1. \/ AdvanceUp(c, r) = [c EXCEPT !.pe = r.end, !.done = d]
          \/ AdvanceUp(c, r) = [c EXCEPT !.pe = pe]
      BY DEF AdvanceUp
    <2> HIDE DEF pe, d
    <2> QED BY <2>1 DEF Alike, CpuFields
  <1>2. ASSUME NEW r PROVE Alike(AdvanceDown(c, r), c, {"pe", "done"})
    <2> DEFINE fits == (c.pe - SPINSZ) % Top < c.pe /\ c.pe # 0
               pe == IF fits THEN (c.pe - SPINSZ) % Top ELSE r.start
               d == c.done + 1
    <2>1. \/ AdvanceDown(c, r) = [c EXCEPT !.pe = r.start, !.done = d]
          \/ AdvanceDown(c, r) = [c EXCEPT !.pe = pe]
      BY DEF AdvanceDown
    <2> HIDE DEF pe, d
    <2> QED BY <2>1 DEF Alike, CpuFields
  <1> QED BY <1>1, <1>2 DEF Advance

LEMMA CallKeeps ==
    ASSUME SweepInv, NEW me \in CPUs, Call(me)
    PROVE  \E x : GetsTo(me, x)
  <1> DEFINE c == cpu[me]
             to == c.call + 1
             s == Calls(sc.pat, me)
  <1>1. sc \in Scenarios /\ Known(c) /\ DOMAIN c = CpuFields
    BY DEF SweepInv, Placed, Known
  <1>2. \/ to > Len(s) /\ cpu' = [cpu EXCEPT ![me] = [c EXCEPT !.at = "done"]]
        \/ /\ ~(to > Len(s))
           /\ cpu' = [cpu EXCEPT ![me] = AtLoop([c EXCEPT !.call = to, !.args = s[to]], 1, me)]
    BY DEF Call
  <1>3. Len(s) \in Nat /\ \A i \in 1 .. Len(s) : IsCall(s[i], sc.pat)
    <2>1. AreCalls(s, sc.pat)
      BY <1>1, Counts, CallsOfPat
    <2> HIDE DEF s
    <2> QED BY <2>1, CallAt
  <1>4. CASE to > Len(s)
    <2> DEFINE x == [c EXCEPT !.at = "done"]
    <2>1. Alike(x, c, {"at"}) /\ x.at = "done"
      BY <1>1 DEF Alike, CpuFields
    <2> HIDE DEF x
    <2>2. Known(x)
      BY <1>1, <2>1, SameCall DEF Places
    <2>3. Placed(x, me)
      BY <2>1, <2>2 DEF Placed
    <2> QED BY <1>2, <1>4, <2>3 DEF GetsTo, x
  <1>5. CASE ~(to > Len(s))
    <2> DEFINE a == s[to]
               c1 == [c EXCEPT !.call = to, !.args = a]
    <2>1. to \in 1 .. Len(s) /\ to \in Nat
      BY <1>1, <1>3, <1>5 DEF Known
    <2>2. IsCall(a, sc.pat)
      BY <1>3, <2>1
    <2> HIDE DEF to, s, a
    <2>3. DOMAIN c1 = CpuFields /\ c1.call = to /\ c1.args = a /\ c1.errs = c.errs
      BY <1>1, Fields
    <2>4. Known(c1) /\ IsCall(c1.args, sc.pat)
      BY <1>1, <2>1, <2>2, <2>3 DEF Known
    <2> HIDE DEF c1
    <2>5. Placed(AtLoop(c1, 1, me), me)
      BY <1>1, <2>4, EnterLoop
    <2> QED BY <1>2, <1>5, <2>5 DEF GetsTo, a, c1
  <1> QED BY <1>4, <1>5

LEMMA SyncedKeeps ==
    ASSUME SweepInv, NEW me \in CPUs, Synced(me)
    PROVE  \E x : GetsTo(me, x)
  <1> DEFINE c == cpu[me]
             a == IF c.args.fn = "random" THEN [c.args EXCEPT !.p1 = sp[1], !.p2 = sp[2]]
                  ELSE c.args
             c1 == [c EXCEPT !.args = a]
  <1>1. cpu' = [cpu EXCEPT ![me] = AtLoop(c1, c.ph + 1, me)] /\ c.at = "test"
    BY DEF Synced
  <1>2. sc \in Scenarios /\ InCall(c) /\ Known(c) /\ DOMAIN c = CpuFields /\ IsCall(c.args, sc.pat)
    BY <1>1, InTest DEF SweepInv
  <1>3. c.ph + 1 \in Nat \ {0}
    BY <1>2, LoopIsOfCall
  <1>4. IsCall(a, sc.pat)
    <2>1. ASSUME NEW x, NEW y PROVE IsCall([c.args EXCEPT !.p1 = x, !.p2 = y], sc.pat)
      BY <1>2 DEF IsCall, ArgFields
    <2> QED BY <1>2, <2>1
  <1> HIDE DEF a
  <1>5. DOMAIN c1 = CpuFields /\ c1.call = c.call /\ c1.args = a /\ c1.errs = c.errs
    BY <1>2, Fields
  <1> HIDE DEF c1
  <1>6. Known(c1) /\ IsCall(c1.args, sc.pat)
    BY <1>2, <1>4, <1>5 DEF Known
  <1> HIDE DEF c
  <1>7. Placed(AtLoop(c1, c.ph + 1, me), me)
    BY <1>2, <1>3, <1>6, EnterLoop
  <1> QED BY <1>1, <1>7 DEF GetsTo

LEMMA SectionBehaves ==
    ASSUME SweepInv, NEW me \in CPUs, NEW c, c = cpu[me], c.at = "test", NEW a, a = Advance(c, me),
           a.p # a.pe, NEW loop \in Sweeping, loop = LoopOf(c),
           NEW r, r = Region(c.args.fn, c.j, me)
    PROVE  Behaved(a, r, loop)
  <1>1. /\ InCall(c) /\ DOMAIN c = CpuFields /\ InSpan(c, r, loop) /\ IsRegion(r)
        /\ loop \in {"init", "pairs"} => (r.end + 1) % BLOCK = 0
    BY InTest
  <1>2. LoopOf(a) = loop
    <2>1. Alike(a, c, {"pe", "done"})
      BY <1>1, AdvanceAlike
    <2> QED BY <2>1, SameCall DEF Places
  <1>3. Starts(c, r, loop, a, me)
    BY <1>1, <1>2 DEF Starts
  <1>4. CASE loop \in Rising
    BY <1>3, <1>4, RisingSection
  <1>5. CASE loop \in Downward
    <2>1. c.args.fn \in {"movinv1", "random", "movinv32"}
      BY <1>1, <1>5, LoopIsOfCall, LoopKinds
    <2>2. sc \in Scenarios /\ c.j \in 1 .. segs
      <3>1. loop \notin {"sync", "sleep"}
        BY <1>5 DEF Downward
      <3> QED BY <3>1, InTest DEF SweepInv
    <2>3. (r.end - r.start) % SPINSZ # 0
      BY <2>1, <2>2, NotOneOver
    <2> QED BY <1>3, <1>5, <2>3, DownSection
  <1>6. CASE loop \in Shortened
    BY <1>3, <1>6, ShortSection
  <1>7. CASE loop = "init"
    BY <1>1, <1>3, <1>7, InitSection
  <1>8. CASE loop = "pairs"
    BY <1>3, <1>8, PairSection
  <1> QED BY <1>4, <1>5, <1>6, <1>7, <1>8 DEF Sweeping

(* What a section leaves behind, if it begins so. *)
LEMMA SectionSweeps ==
    ASSUME SweepInv, NEW me \in CPUs, NEW c, c = cpu[me], c.at = "test", NEW a, a = Advance(c, me),
           a.p # a.pe, LoopOf(c) \in Sweeping, NEW r, r = Region(c.args.fn, c.j, me),
           NEW acc, IsAcc(acc, WordsOf(r))
    PROVE  IsAcc(Swept(a, acc), WordsOf(r))
  <1>1. DOMAIN c = CpuFields /\ IsRegion(r)
    BY InTest
  <1>2. LoopOf(a) = LoopOf(c)
    <2>1. Alike(a, c, {"pe", "done"})
      BY <1>1, AdvanceAlike
    <2> QED BY <2>1, SameCall DEF Places
  <1>3. r.start \in Nat /\ r.end \in Nat /\ r.start > 2 /\ r.start .. r.end \subseteq WordsOf(r)
    BY <1>1 DEF IsRegion, WordsOf
  <1>4. IsListOf(Visited(a), r.start, r.end)
    BY SectionBehaves DEF Behaved
  <1> QED BY <1>2, <1>3, <1>4, SweepKeeps

LEMMA SectionKeeps ==
    ASSUME SweepInv, NEW me \in CPUs, Section(me)
    PROVE  /\ \E x : GetsTo(me, x)
           /\ DOMAIN hist' = {"n", "reported", "strays"} /\ hist'.strays = {}
  <1> DEFINE c0 == cpu[me]
             c == Advance(c0, me)
             k0 == c.k
             pat0 == IF LoopOf(c) = "init" THEN 1 ELSE c.pat
             seed0 == SeedFor(cpu[me], me)
             acc == [m |-> mem, errs |-> <<>>, wrote |-> {}, k |-> k0, pat |-> pat0, seed |-> seed0]
             out == Swept(c, acc)
             loop == LoopOf(c0)
             r == Region(c0.args.fn, c0.j, me)
             b == [Behind(c) EXCEPT !.k = out.k, !.pat = out.pat, !.errs = out.errs]
  <1>1. /\ c0.at = "test" /\ LoopOf(c) \notin Unticked \cup {"sync"}
        /\ c.p = c.pe => cpu' = [cpu EXCEPT ![me] = NextSegment(c, me)] /\ UNCHANGED hist
        /\ c.p # c.pe =>
              /\ cpu' = [cpu EXCEPT ![me] = NextSection(b, me)]
              /\ hist' = [hist EXCEPT !.strays =
                             @ \cup (out.wrote \ WordsOf(Region(c.args.fn, c.j, me)))]
    BY DEF Section
  <1>2. IsAcc(acc, WordsOf(r))
    <2> HIDE DEF k0, pat0, seed0, r
    <2> QED BY NoErrs DEF IsAcc
  <1> HIDE DEF acc
  <1>3. /\ sc \in Scenarios /\ DOMAIN hist = {"n", "reported", "strays"} /\ hist.strays = {}
        /\ InCall(c0) /\ Known(c0) /\ DOMAIN c0 = CpuFields
    BY <1>1, InTest DEF SweepInv
  <1>4. Alike(c, c0, {"pe", "done"})
    BY <1>3, AdvanceAlike
  <1> HIDE DEF c
  <1>5. LoopOf(c) = loop /\ c.args = c0.args /\ c.j = c0.j /\ InCall(c) /\ c.at = "test" /\ Known(c)
    BY <1>1, <1>3, <1>4, SameCall DEF Places
  <1>6. loop \notin {"sync", "sleep", "move"} \cup Walking
    BY <1>1, <1>5 DEF Unticked
  <1>7. loop \in Sweeping /\ c0.j \in 1 .. segs /\ IsRegion(r)
    BY <1>1, <1>6, InTest
  <1> HIDE DEF loop, r
  <1>8. CASE c.p = c.pe
    <2>1. Placed(NextSegment(c, me), me)
      <3>1. LoopOf(c) \notin {"sync", "sleep", "global"}
        BY <1>5, <1>6 DEF Walking
      <3> HIDE DEF c0
      <3> QED BY <1>3, <1>5, <1>7, <3>1, EnterNext
    <2> QED BY <1>1, <1>3, <1>8, <2>1 DEF GetsTo
  <1>9. CASE c.p # c.pe
    <2>1. Behaved(c, r, loop)
      BY <1>1, <1>7, <1>9, SectionBehaves DEF c, loop, r
    <2>2. IsAcc(out, WordsOf(r))
      BY <1>1, <1>2, <1>7, <1>9, SectionSweeps DEF c, loop, r
    <2> HIDE DEF out
    <2>3. out.wrote \ WordsOf(Region(c.args.fn, c.j, me)) = {}
      BY <1>5, <2>2 DEF IsAcc, r
    <2>4. DOMAIN hist' = {"n", "reported", "strays"} /\ hist'.strays = {}
      BY <1>1, <1>3, <1>9, <2>3
    <2>5. /\ Alike(Behind(c), c, {"p", "pe"})
          /\ ~(Behind(c).done > 0) => InSpan(Behind(c), r, loop)
      <3>1. Alike(Behind(c), c, {"p", "pe"}) /\ (~(c.done > 0) => InSpan(Behind(c), r, loop))
        BY <2>1 DEF Behaved
      <3>2. Behind(c).done = c.done
        BY <3>1, Fields DEF Alike
      <3> QED BY <3>1, <3>2
    <2> DEFINE h == Behind(c)
    <2>6. /\ InCall(h) /\ Known(h) /\ h.at = "test" /\ h.args = c0.args /\ h.j = c0.j
          /\ LoopOf(h) = loop
      BY <1>3, <1>5, <2>5, SameCall DEF Places
    <2> HIDE DEF h
    <2>7. b = [h EXCEPT !.k = out.k, !.pat = out.pat, !.errs = out.errs]
      BY DEF h
    <2> HIDE DEF b
    <2>8. /\ Alike(b, h, {"k", "pat", "errs"}) /\ b.errs = out.errs
      <3>1. DOMAIN h = CpuFields
        BY <2>6 DEF Known
      <3> QED BY <2>7, <3>1 DEF Alike, CpuFields
    <2>9. /\ b.at = h.at /\ b.call = h.call /\ b.args = h.args /\ b.ph = h.ph /\ b.j = h.j
          /\ b.p = h.p /\ b.pe = h.pe /\ b.done = h.done /\ b.rep = h.rep
          /\ DOMAIN b = CpuFields
      BY <2>8, Fields DEF Alike
    <2>10. InCall(b) /\ LoopOf(b) = loop
      <3>1. IsErrs(b.errs)
        BY <2>2, <2>8 DEF IsAcc
      <3> QED BY <2>6, <2>9, <3>1 DEF InCall, Known, LoopOf
    <2>11. ~(b.done > 0) => InSpan(b, Region(b.args.fn, b.j, me), LoopOf(b))
      <3>1. Region(b.args.fn, b.j, me) = r
        BY <2>6, <2>9 DEF r
      <3> QED BY <2>5, <2>9, <2>10, <3>1 DEF InSpan, h
    <2>12. Placed(NextSection(b, me), me)
      <3>1. b.at = "test" /\ b.j \in 1 .. segs /\ LoopOf(b) \notin {"sync", "sleep"} \cup Walking
        BY <1>6, <1>7, <2>6, <2>9, <2>10
      <3> QED BY <1>3, <2>10, <2>11, <3>1, EnterSection
    <2> QED BY <1>1, <1>9, <2>4, <2>12 DEF GetsTo
  <1> QED BY <1>8, <1>9

LEMMA MoveKeeps ==
    ASSUME SweepInv, NEW me \in CPUs, Move(me)
    PROVE  /\ \E x : GetsTo(me, x)
           /\ DOMAIN hist' = {"n", "reported", "strays"} /\ hist'.strays = {}
  <1> DEFINE c == cpu[me]
             a == Advance(c, me)
             r == Region(c.args.fn, c.j, me)
             len == (BlockEnd(c.pe) - c.p) \div 2
             moved == c.p .. c.p + (2 * len) - 1
  <1>1. /\ c.at = "test" /\ LoopOf(c) = "move"
        /\ c.rep = 0 =>
              /\ cpu' = [cpu EXCEPT ![me] = IF a.p = a.pe THEN NextSegment(a, me)
                                            ELSE [a EXCEPT !.rep = 1, !.wait = TRUE]]
              /\ UNCHANGED hist
        /\ c.rep # 0 =>
              /\ hist' = [hist EXCEPT !.strays = @ \cup (moved \ WordsOf(r))]
              /\ cpu' = [cpu EXCEPT ![me] =
                           IF c.rep < c.args.iter THEN [c EXCEPT !.rep = @ + 1, !.wait = TRUE]
                           ELSE NextSection([c EXCEPT !.rep = 0, !.p = c.pe], me)]
    BY DEF Move
  <1>2. /\ sc \in Scenarios /\ DOMAIN hist = {"n", "reported", "strays"} /\ hist.strays = {}
        /\ InCall(c) /\ Known(c) /\ DOMAIN c = CpuFields /\ c.j \in 1 .. segs
        /\ InSpan(c, r, "move") /\ IsRegion(r) /\ (r.end + 1) % BLOCK = 0
    BY <1>1, InTest DEF SweepInv
  <1> HIDE DEF r
  <1>3. /\ c.p \in Nat /\ c.pe \in Nat /\ c.done \in Nat /\ r.start <= c.p /\ c.p <= r.end
        /\ c.pe <= r.end /\ c.p % BLOCK = 0 /\ c.rep \in Nat
        /\ c.rep = 0 => c.done = 0 /\ c.p = c.pe
        /\ c.rep > 0 => /\ c.p < c.pe
                        /\ \/ c.done > 0 /\ c.pe = r.end
                           \/ c.done = 0 /\ c.pe % BLOCK = 0
    BY <1>2 DEF InSpan
  <1>0. "move" \notin Rising \cup Downward \cup Shortened \cup {"init", "pairs"}
    BY DEF Rising, Downward, Shortened, Fading
  <1>4. CASE c.rep = 0
    <2>1. Alike(a, c, {"pe", "done"})
      BY <1>2, AdvanceAlike
    <2>2. LoopOf(a) = "move" /\ InCall(a) /\ Known(a) /\ a.at = "test" /\ a.j = c.j
          /\ a.args = c.args
      BY <1>1, <1>2, <2>1, SameCall DEF Places
    <2>3. CASE a.p = a.pe
      <3>1. Placed(NextSegment(a, me), me)
        <4> HIDE DEF a
        <4>1. LoopOf(a) \notin {"sync", "sleep", "global"} /\ a.j \in 1 .. segs
          BY <1>2, <2>2
        <4> HIDE DEF c
        <4> QED BY <1>2, <2>2, <4>1, EnterNext
      <3> QED BY <1>1, <1>2, <1>4, <2>3, <3>1 DEF GetsTo
    <2>4. CASE a.p # a.pe
      <3>1. a = AdvanceUp(c, r)
        BY <1>0, <1>1 DEF Advance, Reach, r
      <3>2. /\ a.p = c.p /\ a.pe \in Nat /\ a.p < a.pe
            /\ \/ a.pe = r.end /\ a.done = 1
               \/ a.pe % BLOCK = 0 /\ a.pe < r.end /\ a.done = 0
        BY <1>2, <1>3, <1>4, <2>4, <3>1, BlockSection
      <3> HIDE DEF a
      <3> DEFINE x == [a EXCEPT !.rep = 1, !.wait = TRUE]
      <3>3. Alike(x, a, {"rep", "wait"}) /\ x.rep = 1
        BY <2>2, Fields DEF Alike, CpuFields, Known
      <3> HIDE DEF x
      <3>4. InCall(x) /\ Known(x) /\ LoopOf(x) = "move" /\ x.args = c.args /\ x.j = c.j
        BY <2>2, <3>3, SameCall DEF Places
      <3>5. x.p = a.p /\ x.pe = a.pe /\ x.done = a.done
        BY <3>3, Fields DEF Alike
      <3>6. InSpan(x, r, "move")
        <4> HIDE DEF c
        <4>1. r.end \in Nat
          BY <1>2 DEF IsRegion
        <4> QED BY <1>0, <1>3, <3>2, <3>3, <3>5, <4>1 DEF InSpan
      <3>7. Placed(x, me)
        <4>1. "move" \notin Walking
          BY DEF Walking
        <4> QED BY <1>2, <3>4, <3>6, <4>1 DEF Placed, InLoop, r
      <3> QED BY <1>1, <1>2, <1>4, <2>4, <3>7 DEF GetsTo, x
    <2> QED BY <2>3, <2>4
  <1>5. CASE c.rep # 0
    <2>1. moved \subseteq WordsOf(r)
      <3> DEFINE e == BlockEnd(c.pe)
      <3>1. c.pe = r.end \/ (c.pe % BLOCK = 0 /\ c.pe < r.end)
        BY <1>2, <1>3, <1>5 DEF IsRegion
      <3>2. e \in Nat /\ e <= r.end + 1 /\ c.pe <= e
        BY <1>2, <1>3, <3>1, EndOfBlock
      <3> HIDE DEF e
      <3>3. e - c.p \in Nat
        BY <1>3, <1>5, <3>2
      <3> DEFINE d == e - c.p
      <3>4. 2 * len <= d /\ len \in Nat
        <4>1. d \in Nat /\ len = d \div 2
          BY <3>3 DEF e
        <4> HIDE DEF d, len
        <4> QED BY <4>1
      <3>5. c.p + (2 * len) - 1 <= r.end
        <4> HIDE DEF len
        <4> QED BY <1>2, <1>3, <3>2, <3>4 DEF IsRegion
      <3> HIDE DEF len
      <3> QED BY <1>2, <1>3, <3>4, <3>5 DEF WordsOf, IsRegion
    <2>2. DOMAIN hist' = {"n", "reported", "strays"} /\ hist'.strays = {}
      <3> HIDE DEF moved
      <3> QED BY <1>1, <1>2, <1>5, <2>1
    <2> HIDE DEF moved, len, a
    <2>3. CASE c.rep < c.args.iter
      <3> DEFINE n == c.rep + 1
                 x == [c EXCEPT !.rep = n, !.wait = TRUE]
      <3>1. Alike(x, c, {"rep", "wait"}) /\ x.rep = c.rep + 1
        BY <1>2, Fields DEF Alike, CpuFields
      <3> HIDE DEF x
      <3>2. InCall(x) /\ Known(x) /\ LoopOf(x) = "move" /\ x.args = c.args /\ x.j = c.j
        BY <1>1, <1>2, <3>1, SameCall DEF Places
      <3>3. x.p = c.p /\ x.pe = c.pe /\ x.done = c.done
        BY <3>1, Fields DEF Alike
      <3>4. InSpan(x, r, "move")
        BY <1>0, <1>3, <1>5, <3>1, <3>3 DEF InSpan
      <3>5. Placed(x, me)
        <4>1. "move" \notin Walking
          BY DEF Walking
        <4> QED BY <1>2, <3>2, <3>4, <4>1 DEF Placed, InLoop, r
      <3> QED BY <1>1, <1>5, <2>2, <2>3, <3>5 DEF GetsTo, x
    <2>4. CASE ~(c.rep < c.args.iter)
      <3> DEFINE x == [c EXCEPT !.rep = 0, !.p = c.pe]
      <3>1. Alike(x, c, {"rep", "p"}) /\ x.rep = 0 /\ x.p = c.pe
        BY <1>2, Fields DEF Alike, CpuFields
      <3> HIDE DEF x
      <3>2. InCall(x) /\ Known(x) /\ LoopOf(x) = "move" /\ x.args = c.args /\ x.j = c.j
            /\ x.at = "test"
        BY <1>1, <1>2, <3>1, SameCall DEF Places
      <3>3. x.pe = c.pe /\ x.done = c.done
        BY <3>1, Fields DEF Alike
      <3>4. ~(x.done > 0) => InSpan(x, r, "move")
        <4>1. r.end \in Nat /\ r.start \in Nat
          BY <1>2 DEF IsRegion
        <4> QED BY <1>0, <1>3, <1>5, <3>1, <3>3, <4>1 DEF InSpan
      <3>5. Placed(NextSection(x, me), me)
        <4>1. LoopOf(x) \notin {"sync", "sleep"} \cup Walking /\ x.j \in 1 .. segs
          BY <1>2, <3>2 DEF Walking
        <4>2. Region(x.args.fn, x.j, me) = r
          BY <3>2 DEF r
        <4> QED BY <1>2, <3>2, <3>4, <4>1, <4>2, EnterSection
      <3> QED BY <1>1, <1>5, <2>2, <2>4, <3>5 DEF GetsTo, x
    <2> QED BY <2>3, <2>4
  <1> QED BY <1>4, <1>5

LEMMA WalkKeeps ==
    ASSUME SweepInv, NEW me \in CPUs, Walk(me)
    PROVE  \E x : GetsTo(me, x)
  <1> DEFINE c == cpu[me]
             loop == LoopOf(c)
             x0 == IF c.ph % 2 = 1 THEN 0 ELSE Mask
             end == IF loop = "global" THEN sc.map[segs].end ELSE sc.map[c.j].end
             pt == c.p + 2^c.k
             bad == Load(Store(mem, pt, Not(x0)), c.p)
             over == loop = "bank" /\ ~(c.p < end /\ c.p > sc.map[c.j].start)
             tick == [c EXCEPT !.rep = 2, !.wait = TRUE]
             found == IF bad = x0 THEN <<>> ELSE <<AddressError(c.p, c.k, x0, bad)>>
             on == IF c.p + (4 * BANK) < Top THEN c.p + (4 * BANK) ELSE end
  <1>1. c.at = "test" /\ loop \in Walking
    BY DEF Walk
  <1>2. \/ /\ c.rep = 0 /\ ~over
           /\ cpu' = [cpu EXCEPT ![me].rep = 1, ![me].k = 0]
        \/ /\ c.rep = 0 /\ over
           /\ cpu' = [cpu EXCEPT ![me] = IF c.j = segs THEN tick
                                         ELSE AtSegment([c EXCEPT !.j = @ + 1], me)]
        \/ /\ c.rep = 1 /\ c.k < A
           /\ cpu' = [cpu EXCEPT ![me].k = @ + 1]
        \/ /\ c.rep = 1 /\ c.k < A
           /\ cpu' = [cpu EXCEPT ![me].k = @ + 1, ![me].errs = found]
        \/ /\ c.rep = 1
           /\ cpu' = [cpu EXCEPT ![me] = IF loop = "global" THEN tick
                                         ELSE [c EXCEPT !.rep = 0, !.p = on]]
        \/ /\ c.rep = 2
           /\ cpu' = [cpu EXCEPT ![me] = AtLoop(c, c.ph + 1, me)]
    BY DEF Walk
  <1>3. /\ sc \in Scenarios /\ DOMAIN cpu = CPUs
        /\ InCall(c) /\ Known(c) /\ DOMAIN c = CpuFields /\ IsCall(c.args, sc.pat)
        /\ c.j \in 1 .. segs /\ InWalk(c, loop) /\ c.args.fn = "addr_tst1"
    <2>1. loop \notin {"sync", "sleep"}
      BY <1>1 DEF Walking
    <2> QED BY <1>1, <2>1, InTest DEF SweepInv
  <1>4. /\ c.p \in Nat /\ c.rep \in 0 .. 2
        /\ c.rep = 1 => c.k \in Nat
        /\ c.rep = 1 \/ loop = "global" => c.p > 2
    BY <1>3 DEF InWalk
  (* What changes the place within a loop only. *)
  <1>5. ASSUME NEW x, NEW diff \in SUBSET (Places \ {"at"}), Alike(x, c, diff), InWalk(x, loop)
        PROVE  Placed(x, me)
    <2>1. InCall(x) /\ Known(x) /\ LoopOf(x) = loop /\ x.j = c.j
      BY <1>3, <1>5, SameCall
    <2> QED BY <1>1, <1>3, <1>5, <2>1 DEF Placed, InLoop
  <1>6. CASE /\ c.rep = 0 /\ ~over
             /\ cpu' = [cpu EXCEPT ![me].rep = 1, ![me].k = 0]
    <2> DEFINE x == [c EXCEPT !.rep = 1, !.k = 0]
    <2>1. cpu' = [cpu EXCEPT ![me] = x]
      BY <1>6
    <2>2. Alike(x, c, {"rep", "k"}) /\ x.rep = 1 /\ x.k = 0
      BY <1>3, Fields DEF Alike, CpuFields
    <2>3. x.p = c.p
      BY <2>2, Fields DEF Alike
    <2>4. c.p > 2
      <3>1. CASE loop = "global"
        BY <1>4, <3>1
      <3>2. CASE loop = "bank"
        <4>1. c.p > sc.map[c.j].start
          BY <1>6, <3>2
        <4>2. sc.map[c.j].start \in 3 .. Top - 1
          BY <1>3, ScenariosAssumption DEF segs
        <4> QED BY <1>4, <4>1, <4>2
      <3> QED BY <1>1, <3>1, <3>2 DEF Walking
    <2> HIDE DEF x
    <2>5. InWalk(x, loop)
      BY <1>4, <2>2, <2>3, <2>4 DEF InWalk
    <2>6. Placed(x, me)
      BY <1>5, <2>2, <2>5 DEF Places
    <2> QED BY <2>1, <2>6 DEF GetsTo
  <1>7. Placed(tick, me)
    <2>1. Alike(tick, c, {"rep", "wait"}) /\ tick.rep = 2 /\ tick.p = c.p
      BY <1>3, Fields DEF Alike, CpuFields
    <2> HIDE DEF tick
    <2>2. InWalk(tick, loop)
      BY <1>4, <2>1 DEF InWalk
    <2> QED BY <1>5, <2>1, <2>2 DEF Places
  <1>8. CASE /\ c.rep = 0 /\ over
             /\ cpu' = [cpu EXCEPT ![me] = IF c.j = segs THEN tick
                                           ELSE AtSegment([c EXCEPT !.j = @ + 1], me)]
    <2>1. CASE c.j = segs
      BY <1>7, <1>8, <2>1 DEF GetsTo
    <2>2. CASE c.j # segs
      <3> DEFINE n == c.j + 1
                 x == [c EXCEPT !.j = n]
      <3>1. cpu' = [cpu EXCEPT ![me] = AtSegment(x, me)]
        BY <1>8, <2>2
      <3>2. n \in 1 .. segs
        BY <1>3, <2>2, Counts
      <3> HIDE DEF n
      <3>3. /\ DOMAIN x = CpuFields /\ x.call = c.call /\ x.errs = c.errs /\ x.args = c.args
            /\ x.ph = c.ph /\ x.j = n
        BY <1>3, Fields
      <3> HIDE DEF x
      <3>4. InCall(x) /\ LoopOf(x) = loop
        BY <1>3, <3>3 DEF InCall, Known, LoopOf
      <3>5. Placed(AtSegment(x, me), me)
        <4>1. LoopOf(x) \notin {"sync", "sleep"} /\ LoopOf(x) # "global"
          BY <1>8, <3>4
        <4> QED BY <1>3, <3>2, <3>3, <3>4, <4>1, EnterSegment
      <3> QED BY <3>1, <3>5 DEF GetsTo
    <2> QED BY <2>1, <2>2
  <1>9. CASE /\ c.rep = 1 /\ c.k < A
             /\ cpu' = [cpu EXCEPT ![me].k = @ + 1]
    <2> DEFINE n == c.k + 1
               x == [c EXCEPT !.k = n]
    <2>1. cpu' = [cpu EXCEPT ![me] = x]
      BY <1>9
    <2>2. Alike(x, c, {"k"}) /\ x.k = n /\ n \in Nat
      BY <1>3, <1>4, <1>9, Fields DEF Alike, CpuFields
    <2> HIDE DEF x
    <2>3. x.p = c.p /\ x.rep = c.rep
      BY <2>2, Fields DEF Alike
    <2>4. InWalk(x, loop)
      BY <1>4, <2>2, <2>3 DEF InWalk
    <2>5. Placed(x, me)
      BY <1>5, <2>2, <2>4 DEF Places
    <2> QED BY <2>1, <2>5 DEF GetsTo
  <1>10. CASE /\ c.rep = 1 /\ c.k < A
              /\ cpu' = [cpu EXCEPT ![me].k = @ + 1, ![me].errs = found]
    <2> DEFINE n == c.k + 1
               y == [c EXCEPT !.k = n]
               x == [y EXCEPT !.errs = found]
    <2>1. cpu' = [cpu EXCEPT ![me] = x]
      BY <1>10
    <2>2. IsErrs(found)
      <3>1. CanFind(AddressError(c.p, c.k, x0, bad))
        <4>1. c.k \in Bits /\ c.p \in Nat /\ c.p > 2
          BY <1>4, <1>10, SizesAssumption
        <4>2. sc.pat = 0
          BY <1>3 DEF IsCall
        <4> HIDE DEF bad, x0
        <4> QED BY <4>1, <4>2 DEF CanFind, IsError, AddressError, Differ, IsWord
      <3>2. IsErrs(<<AddressError(c.p, c.k, x0, bad)>>)
        BY <3>1, NoErrs, MoreErrs
      <3> QED BY <3>2, NoErrs
    <2> HIDE DEF found
    <2>3. Alike(y, c, {"k"}) /\ y.k = n /\ n \in Nat
      BY <1>3, <1>4, <1>10, Fields DEF Alike, CpuFields
    <2>4. Alike(x, y, {"wait", "errs"}) /\ x.errs = found
      BY <1>3, Fields DEF Alike, CpuFields
    <2> HIDE DEF x, y
    <2>5. y.p = c.p /\ y.rep = c.rep
      BY <2>3, Fields DEF Alike
    <2>6. InWalk(y, loop)
      BY <1>4, <2>3, <2>5 DEF InWalk
    <2>7. Placed(y, me)
      BY <1>5, <2>3, <2>6 DEF Places
    <2>8. Placed(x, me)
      BY <2>2, <2>4, <2>7, PlacedAlike
    <2> QED BY <2>1, <2>8 DEF GetsTo
  <1>11. CASE /\ c.rep = 1
              /\ cpu' = [cpu EXCEPT ![me] = IF loop = "global" THEN tick
                                            ELSE [c EXCEPT !.rep = 0, !.p = on]]
    <2>1. CASE loop = "global"
      BY <1>7, <1>11, <2>1 DEF GetsTo
    <2>2. CASE loop # "global"
      <3> DEFINE x == [c EXCEPT !.rep = 0, !.p = on]
      <3>1. on \in Nat
        <4>1. sc.map[c.j].end \in 3 .. Top - 1 /\ BANK \in Nat
          BY <1>3, ScenariosAssumption, Sizes DEF segs
        <4> QED BY <1>4, <2>2, <4>1
      <3> HIDE DEF on
      <3>2. Alike(x, c, {"rep", "p"}) /\ x.rep = 0 /\ x.p = on
        BY <1>3, Fields DEF Alike, CpuFields
      <3> HIDE DEF x
      <3>3. InWalk(x, loop)
        BY <2>2, <3>1, <3>2 DEF InWalk
      <3>4. Placed(x, me)
        BY <1>5, <3>2, <3>3 DEF Places
      <3> QED BY <1>11, <2>2, <3>4 DEF GetsTo, x
    <2> QED BY <2>1, <2>2
  <1>12. CASE /\ c.rep = 2
              /\ cpu' = [cpu EXCEPT ![me] = AtLoop(c, c.ph + 1, me)]
    <2>1. c.ph + 1 \in Nat \ {0}
      BY <1>3, LoopIsOfCall
    <2> HIDE DEF c
    <2>2. Placed(AtLoop(c, c.ph + 1, me), me)
      BY <1>3, <2>1, EnterLoop
    <2> QED BY <1>12, <2>2 DEF GetsTo
  <1> HIDE DEF tick, found, on, over
  <1> QED BY <1>2, <1>6, <1>8, <1>9, <1>10, <1>11, <1>12

LEMMA SleepKeeps ==
    ASSUME SweepInv, NEW me \in CPUs, Sleep(me)
    PROVE  \E x : GetsTo(me, x)
  <1> DEFINE c == cpu[me]
  <1>1. c.at = "test" /\ LoopOf(c) = "sleep"
    BY DEF Sleep
  <1>2. \/ cpu' = [cpu EXCEPT ![me] = AtLoop(c, c.ph + 1, me)]
        \/ \E t : cpu' = [cpu EXCEPT ![me].k = t, ![me].wait = TRUE]
    BY DEF Sleep
  <1>3. sc \in Scenarios /\ InCall(c) /\ Known(c) /\ DOMAIN c = CpuFields /\ IsCall(c.args, sc.pat)
    BY <1>1, InTest DEF SweepInv
  <1>4. CASE cpu' = [cpu EXCEPT ![me] = AtLoop(c, c.ph + 1, me)]
    <2>1. c.ph + 1 \in Nat \ {0}
      BY <1>3, LoopIsOfCall
    <2> HIDE DEF c
    <2>2. Placed(AtLoop(c, c.ph + 1, me), me)
      BY <1>3, <2>1, EnterLoop
    <2> QED BY <1>4, <2>2 DEF GetsTo
  <1>5. CASE \E t : cpu' = [cpu EXCEPT ![me].k = t, ![me].wait = TRUE]
    <2>1. PICK t : cpu' = [cpu EXCEPT ![me].k = t, ![me].wait = TRUE]
      BY <1>5
    <2> DEFINE x == [c EXCEPT !.k = t, !.wait = TRUE]
    <2>2. cpu' = [cpu EXCEPT ![me] = x]
      BY <2>1
    <2>3. Alike(x, c, {"k", "wait"})
      BY <1>3 DEF Alike, CpuFields
    <2> HIDE DEF x
    <2>4. InCall(x) /\ Known(x) /\ LoopOf(x) = "sleep"
      BY <1>1, <1>3, <2>3, SameCall DEF Places
    <2>5. Placed(x, me)
      BY <2>4 DEF Placed
    <2> QED BY <2>2, <2>5 DEF GetsTo
  <1> QED BY <1>2, <1>4, <1>5

LEMMA ReportKeeps ==
    ASSUME SweepInv, NEW me \in CPUs, Report(me)
    PROVE  /\ \E x : GetsTo(me, x)
           /\ DOMAIN hist' = {"n", "reported", "strays"} /\ hist'.strays = {}
  <1> DEFINE c == cpu[me]
             tail == Tail(c.errs)
             x == [c EXCEPT !.errs = tail]
             e == Head(cpu[me].errs)
             n == hist.n + 1
             reported == hist.reported \cup {<<e.adr, Differ(e.good, e.bad)>>}
  <1>1. /\ c.errs # <<>> /\ cpu' = [cpu EXCEPT ![me] = x]
        /\ hist' = [hist EXCEPT !.n = n, !.reported = reported]
    BY DEF Report
  <1>2. /\ Placed(c, me) /\ DOMAIN c = CpuFields /\ IsErrs(c.errs)
        /\ DOMAIN hist = {"n", "reported", "strays"} /\ hist.strays = {}
    BY DEF SweepInv, Placed, Known
  <1>3. IsErrs(tail)
    BY <1>1, <1>2, FirstErr
  <1> HIDE DEF tail, n, reported
  <1>4. Alike(x, c, {"wait", "errs"}) /\ x.errs = tail
    BY <1>2, Fields DEF Alike, CpuFields
  <1> HIDE DEF x
  <1>5. Placed(x, me)
    BY <1>2, <1>3, <1>4, PlacedAlike
  <1> QED BY <1>1, <1>2, <1>5 DEF GetsTo

LEMMA MeetKeeps ==
    ASSUME SweepInv, Meet
    PROVE  SweepInv'
  <1>1. /\ cpu' = [me \in CPUs |-> [cpu[me] EXCEPT !.wait = FALSE]]
        /\ sc' = sc /\ hist' = hist
    BY DEF Meet
  <1>2. CPUs' = CPUs
    BY <1>1 DEF CPUs
  <1>3. ASSUME NEW i \in CPUs PROVE Placed(cpu[i], i)'
    <2>1. PICK y : y = cpu'[i] /\ Placed(y, i)
      <3> DEFINE c == cpu[i]
                 x == [c EXCEPT !.wait = FALSE]
      <3>1. Placed(c, i) /\ DOMAIN c = CpuFields /\ IsErrs(c.errs)
        BY DEF SweepInv, Placed, Known
      <3>2. Alike(x, c, {"wait", "errs"}) /\ x.errs = c.errs
        BY <3>1, Fields DEF Alike, CpuFields
      <3>3. cpu'[i] = x
        BY <1>1
      <3> HIDE DEF x
      <3>4. Placed(x, i)
        BY <3>1, <3>2, PlacedAlike
      <3> QED BY <3>3, <3>4
    <2>2. Placed(y, i)'
      BY <1>1, <2>1, PlacedStill
    <2> QED BY <2>1, <2>2
  <1> QED BY <1>1, <1>2, <1>3 DEF SweepInv

LEMMA InitPlaces == ASSUME Init PROVE SweepInv
  <1>1. ASSUME NEW i \in CPUs PROVE Placed(cpu[i], i)
    <2>1. cpu[i].at = "do_test" /\ DOMAIN cpu[i] = CpuFields /\ cpu[i].call = 0
          /\ cpu[i].errs = <<>>
      BY DEF Init, CpuFields
    <2> QED BY <2>1, NoErrs DEF Placed, Known
  <1>2. hist = [n |-> 0, reported |-> {}, strays |-> {}]
    BY DEF Init
  <1>3. DOMAIN hist = {"n", "reported", "strays"} /\ hist.strays = {}
    BY <1>2
  <1> QED BY <1>1, <1>3 DEF Init, SweepInv

LEMMA SweepStep ==
    ASSUME SweepInv, [Next]_vars
    PROVE  SweepInv'
  <1>1. DOMAIN hist = {"n", "reported", "strays"} /\ hist.strays = {}
    BY DEF SweepInv
  <1>2. CASE UNCHANGED vars
    <2>1. sc' = sc /\ cpu' = cpu /\ hist' = hist
      BY <1>2 DEF vars
    <2>2. CPUs' = CPUs
      BY <2>1 DEF CPUs
    <2>3. ASSUME NEW i \in CPUs PROVE Placed(cpu[i], i)'
      <3>1. PICK y : y = cpu'[i] /\ Placed(y, i)
        BY <2>1 DEF SweepInv
      <3>2. Placed(y, i)'
        BY <2>1, <3>1, PlacedStill
      <3> QED BY <3>1, <3>2
    <2> QED BY <2>1, <2>2, <2>3 DEF SweepInv
  <1>3. CASE Meet
    BY <1>3, MeetKeeps
  <1>4. ASSUME NEW me \in CPUs, Call(me) \/ Synced(me) \/ Walk(me) \/ Sleep(me)
        PROVE  SweepInv'
    <2>1. sc' = sc /\ hist' = hist
      BY <1>4 DEF Call, Synced, Walk, Sleep
    <2>2. \E x : GetsTo(me, x)
      BY <1>4, CallKeeps, SyncedKeeps, WalkKeeps, SleepKeeps
    <2> QED BY <1>1, <2>1, <2>2, StepKeeps
  <1>5. ASSUME NEW me \in CPUs, Section(me) \/ Move(me) \/ Report(me)
        PROVE  SweepInv'
    <2>1. sc' = sc
      BY <1>5 DEF Section, Move, Report
    <2>2. /\ \E x : GetsTo(me, x)
          /\ DOMAIN hist' = {"n", "reported", "strays"} /\ hist'.strays = {}
      BY <1>5, SectionKeeps, MoveKeeps, ReportKeeps
    <2> QED BY <2>1, <2>2, StepKeeps
  <1> QED BY <1>2, <1>3, <1>4, <1>5 DEF Next

(* In every loop of every test a CPU stands within the part of a segment it *)
(* is to test, with what is left of it ahead (test.c).                      *)
THEOREM CpusArePlaced == Spec => []SweepInv
  <1>1. SweepInv /\ [Next]_vars => SweepInv'
    BY SweepStep
  <1> QED BY <1>1, InitPlaces, PTL DEF Spec

(* No CPU writes to a word that is not of its share (test.c:54), whatever   *)
(* the memory map, the sizes, the CPUs and the faults of the memory are.    *)
THEOREM CpusStayInShares == Spec => []StaysInShare
  <1>1. SweepInv => StaysInShare
    BY DEF SweepInv, StaysInShare
  <1> QED BY <1>1, CpusArePlaced, PTL

(* An error that waits to be reported is one that error.c expects. *)
LEMMA ErrorsAreKnown ==
    ASSUME SweepInv, NEW me \in CPUs, cpu[me].errs # <<>>
    PROVE  CanFind(Head(cpu[me].errs))
  BY FirstErr DEF SweepInv, Placed, Known
=============================================================================
