---------------------- MODULE SchedulerWindows_proofs -----------------------
(***************************************************************************)
(* Windows: the program never tests the copy of itself that it executes,   *)
(* and a test that nobody interrupts leaves no memory out; for every number*)
(* of CPUs, every memory map and every input but one.                      *)
(***************************************************************************)
EXTENDS Scheduler_proofs

----------------------------------------------------------------------------
(* The memory of a window.                                                  *)

LEMMA LeastNumber ==
    ASSUME NEW S, S \subseteq Nat, S # {}
    PROVE  \E x \in S : \A y \in S : x <= y
  <1> DEFINE Less == {ss \in Nat \X Nat : ss[1] < ss[2]}
  <1>1. IsWellFoundedOn(Less, Nat)
    BY NatLessThanWellFounded DEF OpToRel
  <1>2. PICK x \in S : \A y \in S : <<y, x>> \notin Less
    BY <1>1, WFMin
  <1>3. ASSUME NEW y \in S PROVE x <= y
    <2>1. <<y, x>> \in Nat \X Nat /\ <<y, x>>[1] = y /\ <<y, x>>[2] = x
      OBVIOUS
    <2>2. ~(y < x)
      BY <1>2, <2>1
    <2> QED BY <2>1, <2>2
  <1> QED BY <1>3

(* A finite set of numbers has a first element, a second and so on.         *)
LEMMA Numbering ==
    ASSUME NEW S, S \subseteq Nat, IsFiniteSet(S), NEW k \in 1 .. Cardinality(S)
    PROVE  \E i \in S : Cardinality({j \in S : j <= i}) = k
  <1> DEFINE UpTo(i) == {j \in S : j <= i}
             Bad == {n \in 1 .. Cardinality(S) : ~\E i \in S : Cardinality(UpTo(i)) = n}
  <1>0. Cardinality(S) \in Nat
    BY FS_CardinalityType
  <1> SUFFICES ASSUME Bad # {} PROVE FALSE
    OBVIOUS
  <1>1. PICK n \in Bad : \A m \in Bad : n <= m
    <2>1. Bad \subseteq Nat
      BY <1>0
    <2> HIDE DEF Bad
    <2> QED BY <2>1, LeastNumber
  <1>2. PICK Below \in SUBSET S : /\ Cardinality(Below) = n - 1
                                 /\ \A i \in S \ Below : \A j \in Below : j < i
    <2>1. CASE n = 1
      BY <2>1, FS_EmptySet
    <2>2. CASE n # 1
      <3>1. n - 1 \in 1 .. Cardinality(S) /\ n - 1 \notin Bad
        BY <1>0, <1>1, <2>2
      <3>2. PICK i \in S : Cardinality(UpTo(i)) = n - 1
        BY <3>1
      <3>3. UpTo(i) \in SUBSET S /\ \A a \in S \ UpTo(i) : \A b \in UpTo(i) : b < a
        <4>1. \A a, b \in S : a \in Nat /\ b \in Nat
          OBVIOUS
        <4> QED BY <4>1
      <3> HIDE DEF UpTo
      <3> QED BY <3>2, <3>3
    <2> QED BY <2>1, <2>2
  <1>3. S \ Below # {} /\ S \ Below \subseteq Nat
    <2>1. n - 1 # Cardinality(S)
      <3>1. n \in 1 .. Cardinality(S)
        BY <1>1
      <3> QED BY <1>0, <3>1
    <2>2. Below # S
      BY <1>2, <2>1
    <2> QED BY <2>2
  <1>4. PICK i \in S \ Below : \A j \in S \ Below : i <= j
    <2> DEFINE R == S \ Below
    <2>1. R # {} /\ R \subseteq Nat
      BY <1>3
    <2> HIDE DEF R
    <2>2. \E i \in R : \A j \in R : i <= j
      BY <2>1, LeastNumber
    <2> QED BY <2>2 DEF R
  <1>5. UpTo(i) = Below \cup {i}
    <2>1. \A a \in S : a \in Nat
      OBVIOUS
    <2>2. ASSUME NEW j \in UpTo(i), j \notin Below PROVE j = i
      BY <1>4, <2>1, <2>2
    <2>3. ASSUME NEW j \in Below PROVE j \in UpTo(i)
      BY <1>2, <1>4, <2>1, <2>3
    <2>4. i \in UpTo(i)
      BY <2>1
    <2> QED BY <2>2, <2>3, <2>4
  <1>6. Cardinality(Below \cup {i}) = n
    <2>1. IsFiniteSet(Below)
      BY FS_Subset
    <2>2. Cardinality(Below \cup {i}) = Cardinality(Below) + 1
      BY <1>4, <2>1, FS_AddElement
    <2>3. n \in Nat
      BY <1>0
    <2> HIDE DEF Bad
    <2> QED BY <1>2, <2>2, <2>3
  <1> QED BY <1>1, <1>5, <1>6

LEMMA PmapEntry ==
    ASSUME NEW i \in DOMAIN Pmap
    PROVE  Pmap[i].start \in Nat /\ Pmap[i].end \in Nat /\ Pmap[i].end <= MemEnd
  <1> DEFINE S == [start : Nat, end : Nat]
  <1>1. Pmap \in Seq(S)
    BY SchedulerAssumption
  <1> HIDE DEF S
  <1>2. Pmap[i] \in S
    BY <1>1
  <1> QED BY <1>2, PlacesAssumption DEF S

(* compute_segments() lists parts of pmap that lie in the window and in the *)
(* limits (main.c:1264-1321).                                               *)
(* An entry for a part of a window within the limits.                       *)
IsPart(entry, win, plim) ==
    \E start, end \in Nat :
        /\ start < end /\ end <= win.end /\ end <= MemEnd
        /\ LargerOf(win.start, plim.lower) <= start
        /\ entry = [base  |-> start,
                    start |-> IF start = 0 THEN 1 ELSE Mapping(start),
                    end   |-> Mapping(end - 1) + 1]

LEMMA SegmentsFound ==
    ASSUME NEW win \in [start : Nat, end : Nat], NEW plim,
           plim.lower \in Nat, plim.upper \in Nat
    PROVE  LET entries == Segments(win, plim)
           IN  /\ Len(entries) \in Nat /\ DOMAIN entries = 1 .. Len(entries)
               /\ \A k \in 1 .. Len(entries) : IsPart(entries[k], win, plim)
  <1> DEFINE lo == LargerOf(win.start, plim.lower)
             hi == SmallerOf(win.end, plim.upper)
             part(i) == [start |-> LargerOf(Pmap[i].start, lo),
                         end   |-> SmallerOf(Pmap[i].end, hi)]
             kept == {i \in DOMAIN Pmap : part(i).start < part(i).end}
             Nth(k) == CHOOSE i \in kept : Cardinality({j \in kept : j <= i}) = k
             n == Cardinality(kept)
             entry(k) == [base  |-> part(Nth(k)).start,
                          start |-> IF part(Nth(k)).start = 0 THEN 1
                                    ELSE Mapping(part(Nth(k)).start),
                          end   |-> Mapping(part(Nth(k)).end - 1) + 1]
             entries == [k \in 1 .. n |-> entry(k)]
  <1>1. Segments(win, plim) = entries
    BY DEF Segments
  <1>2. IsFiniteSet(kept) /\ kept \subseteq Nat /\ n \in Nat
    <2>1. Len(Pmap) \in Nat /\ DOMAIN Pmap = 1 .. Len(Pmap)
      <3> DEFINE S == [start : Nat, end : Nat]
      <3>1. Pmap \in Seq(S)
        BY SchedulerAssumption
      <3> HIDE DEF S
      <3> QED BY <3>1
    <2>2. IsFiniteSet(1 .. Len(Pmap))
      BY <2>1, FS_Interval
    <2>3. kept \subseteq 1 .. Len(Pmap)
      BY <2>1
    <2>4. 1 .. Len(Pmap) \subseteq Nat
      BY <2>1
    <2> HIDE DEF kept
    <2> QED BY <2>2, <2>3, <2>4, FS_Subset, FS_CardinalityType
  <1>3. ASSUME NEW k \in 1 .. n
        PROVE  Nth(k) \in kept
    <2> HIDE DEF kept
    <2>1. \E i \in kept : Cardinality({j \in kept : j <= i}) = k
      BY <1>2, Numbering
    <2> QED BY <2>1
  <1>4. ASSUME NEW k \in 1 .. n
        PROVE  LET p == part(Nth(k))
               IN  /\ p.start \in Nat /\ p.end \in Nat /\ p.start < p.end
                   /\ p.end <= win.end /\ p.end <= MemEnd /\ lo <= p.start
    <2> DEFINE i == Nth(k)
    <2>1. i \in DOMAIN Pmap /\ part(i).start < part(i).end
      BY <1>3
    <2> HIDE DEF i
    <2>2. Pmap[i].start \in Nat /\ Pmap[i].end \in Nat /\ Pmap[i].end <= MemEnd
      BY <2>1, PmapEntry
    <2>3. /\ part(i).start = LargerOf(Pmap[i].start, lo)
          /\ part(i).end = SmallerOf(Pmap[i].end, hi)
      OBVIOUS
    <2>4. lo \in Nat /\ hi \in Nat /\ hi <= win.end
      BY DEF LargerOf, SmallerOf
    <2> HIDE DEF part, lo, hi
    <2>5. /\ part(i).start \in Nat /\ part(i).end \in Nat
          /\ part(i).end <= win.end /\ part(i).end <= MemEnd /\ lo <= part(i).start
      BY <2>2, <2>3, <2>4, ZeroCpu DEF LargerOf, SmallerOf
    <2> QED BY <2>1, <2>5 DEF i
  <1> HIDE DEF kept, part, n, Nth, lo, hi
  <1>5. Len(entries) = n /\ DOMAIN entries = 1 .. n
    BY <1>2
  <1>6. ASSUME NEW k \in 1 .. n
        PROVE  IsPart(entries[k], win, plim)
    <2>1. entries[k] = entry(k)
      OBVIOUS
    <2> QED BY <1>4, <2>1 DEF IsPart, lo
  <1> HIDE DEF entries
  <1> QED BY <1>1, <1>2, <1>5, <1>6

----------------------------------------------------------------------------
(* The window loop goes on.                                                 *)
InLoop == g.win_next <= MemEnd + WIN_SZ

(* The CPUs that test a window: one, all, or (after the last test) none.    *)
OneRuns  == g.run_cpus = 1 /\ \A d \in CPUs : cpu[d].run => Master(d)
AllRun   == /\ N > 1 /\ g.run_cpus = N /\ g.mstr_cpu = N - 1 /\ g.mstr_cpu \in CPUs
            /\ \A d \in CPUs : cpu[d].run
NoneRuns == \A d \in CPUs : ~cpu[d].run
Team     == OneRuns \/ AllRun \/ NoneRuns

(* What is known of their master before the barrier after the choice, and   *)
(* of all of them after it.                                                 *)
Chosen ==
    \A c \in CPUs : pc[c] = "picked" /\ at[c] = "arrived" =>
        IF Lone THEN c = g.cpu_sel => g.mstr_cpu = c
        ELSE g.mstr_cpu = SmallerOf(N, T(g.test).cpu_sel) - 1

Teamed == \A c \in CPUs : InTest(c) => Team

(* Windows above the first begin where the first ends, or (when two CPUs    *)
(* have skipped window 0 at the same time) nothing below 1 MB is tested.    *)
Above1MB == g.window < 2 \/ g.win_next >= WIN_SZ
Numbered == Above1MB \/ g.plim.lower >= win0_start

(* The master makes the sub barrier before any CPU can use it.              *)
Readying ==
    /\ Here(LOW) => g.window # 0
    /\ \A c \in CPUs : Master(c) /\ pc[c] \in {"sub_ready", "ready"} =>
           sub = [max |-> g.run_cpus, in |-> {}, out |-> {}]

(* The master has yet to take the window, or to list the memory in it.      *)
ToTake(c)    == Master(c) /\ ((pc[c] = "ready" /\ cpu[c].run) \/ pc[c] = "window")
ToCompute(c) == ToTake(c) \/ (Master(c) /\ pc[c] = "compute")

(* Meanwhile the other CPUs of the team gather at the sub barrier.          *)
Gathering ==
    /\ sub.max = N /\ sub.out = {} /\ {"max", "in", "out"} \subseteq DOMAIN sub
    /\ sub.in \subseteq {d \in CPUs : pc[d] = "segments_bar"}
    /\ \A d \in CPUs : pc[d] \in {"ready", "window", "compute", "segments",
                                  "segments_bar"}

(* No window reaches into two.                                              *)
AlignedWindow == \E n \in Nat : /\ n * WIN_SZ <= g.winx.start
                               /\ g.winx.end <= (n + 1) * WIN_SZ

(* Windows, entries of v->map, mapped windows and areas that do not include *)
(* the copy of the program at l.                                            *)
WindowAvoids(l) ==
    /\ g.winx \in [start : Nat, end : Nat] /\ AlignedWindow
    /\ IF l = LOW THEN LargerOf(g.winx.start, g.plim.lower) >= win0_start
       ELSE g.winx.end = win1_end
EntryAvoids(l, e) ==
    /\ e \in [base : Nat, start : Nat, end : Nat]
    /\ IF l = LOW THEN e.start >= win0_start /\ e.start <= e.end
       ELSE e.end <= win1_end /\ e.base < WIN_SZ
MapAvoids(l) == /\ g.segs \in Nat /\ 1 .. g.segs \subseteq DOMAIN g.map
                /\ \A i \in 1 .. g.segs : EntryAvoids(l, g.map[i])
MappedAvoids(l, w) == w \in Nat /\ (l = HIGH => w = 0)
AreaAvoids(l, area) == (IF l = LOW THEN LowBlock ELSE HighBlock) \notin area

(* The places at which a CPU tests, and those at which it knows what.       *)
Testers == {"prepare", "prepared", "sync", "synced", "load", "tick", "tick_bar",
            "ticked", "bailr", "access"}
Holding == {"tick", "tick_bar", "ticked", "bailr"}

(* A window that is tested from the copy at l.  Once a menu entry has       *)
(* changed v->map, bail keeps everybody from using it.                      *)
TestFrom(l) ==
    /\ \A c \in CPUs : /\ pc[c] \in {"ready", "while", "sched"} \cup InWindow
                       /\ pc[c] \in {"window", "compute"} => Master(c)
    /\ l = LOW => g.window # 0
    /\ AllRun /\ (\E c \in CPUs : ToCompute(c)) => Gathering
    /\ (\E c \in CPUs : pc[c] = "compute") => WindowAvoids(l)
    /\ ~NoneRuns /\ ~(\E c \in CPUs : ToTake(c)) => Above1MB
    /\ ~NoneRuns /\ ~(\E c \in CPUs : ToCompute(c)) /\ ~g.bail => MapAvoids(l)
    /\ \A c \in CPUs :
          /\ pc[c] \in Testers /\ ~g.bail => MappedAvoids(l, cpu[c].win)
          /\ pc[c] \in Holding /\ ~g.bail => AreaAvoids(l, cpu[c].area)
          /\ pc[c] = "access" => AreaAvoids(l, cpu[c].area)

(* After the last window: a CPU may leave the loop as soon as the master    *)
(* has taken a window beyond the memory, in which nobody tests anything.    *)
PastEnd ==
    /\ \A c \in CPUs :
          /\ pc[c] \in {"first", "ready", "sched", "compute", "segments",
                        "segments_bar"} \cup Returning \cup Ending
          /\ ~ToTake(c)
          /\ pc[c] = "compute" => Master(c)
          /\ pc[c] = "house" => g.window = 0
    /\ (\E c \in CPUs : pc[c] = "compute") =>
           /\ g.winx \in [start : Nat, end : Nat] /\ g.winx.start >= MemEnd
           /\ AllRun => Gathering
    /\ ~(\E c \in CPUs : pc[c] = "compute") /\ (\E c \in CPUs :
           pc[c] \in {"segments", "segments_bar"} \/ (pc[c] = "ready" /\ cpu[c].run))
           => g.segs = 0
    /\ InLoop \/ \E c \in CPUs : pc[c] \in {"compute", "segments", "segments_bar",
                                           "while", "end_win", "end_bar"}

Inner ==
    \/ InLoop /\ (ChooseLow \/ ChooseHigh \/ Moving(LOW, HIGH) \/ Moving(HIGH, LOW)
                     \/ ReturnHigh)
    \/ InLoop /\ Picking /\ Readying
    \/ InLoop /\ TestHigh /\ TestFrom(HIGH)
    \/ InLoop /\ WorkLow /\ TestFrom(LOW)
    \/ WorkLow /\ PastEnd

----------------------------------------------------------------------------
(* What compute_segments() lists of a window that avoids a copy avoids it.  *)
LEMMA MappingType ==
    ASSUME NEW b \in Nat
    PROVE  /\ Mapping(b) \in Nat
           /\ b < WIN_SZ => Mapping(b) = b
           /\ b >= win0_start => Mapping(b) >= win0_start
  <1>1. b % WIN_SZ \in Nat /\ WIN_SZ \in Nat /\ win0_start \in Nat
    BY Euclid, WindowSize, SchedulerAssumption
  <1> QED BY <1>1, PlacesAssumption DEF Mapping

(* Within a window, mapping() keeps the order.                              *)
LEMMA MappingAscends ==
    ASSUME NEW n \in Nat, NEW x \in Nat, NEW y \in Nat, x <= y,
           n * WIN_SZ <= x, y < (n + 1) * WIN_SZ
    PROVE  Mapping(x) <= Mapping(y)
  <1> DEFINE base == n * WIN_SZ
  <1>0. WIN_SZ \in Nat \ {0} /\ base \in Nat /\ (n + 1) * WIN_SZ = base + WIN_SZ
    BY WindowSize
  <1>1. CASE n = 0
    <2>1. base = 0
      BY <1>0, <1>1
    <2>2. x < WIN_SZ /\ y < WIN_SZ
      <3> HIDE DEF base
      <3> QED BY <1>0, <2>1
    <2> QED BY <2>2 DEF Mapping
  <1>2. CASE n # 0
    <2>1. base >= WIN_SZ
      BY <1>0, <1>2
    <2>2. ASSUME NEW z \in Nat, base <= z, z < base + WIN_SZ
          PROVE  z % WIN_SZ = z - base
      <3> DEFINE r == z - base
      <3>1. r \in Nat /\ r < WIN_SZ /\ z = n * WIN_SZ + r
        BY <1>0, <2>2
      <3> DEFINE q == z \div WIN_SZ
      <3>2. /\ q \in Nat /\ z % WIN_SZ \in Nat /\ z % WIN_SZ < WIN_SZ
            /\ z = WIN_SZ * q + (z % WIN_SZ)
        BY Euclid
      <3> HIDE DEF r, base, q
      <3>3. ASSUME NEW x1 \in Nat, NEW x2 \in Nat, x1 < x2
            PROVE  WIN_SZ * x1 + WIN_SZ <= WIN_SZ * x2
        <4>1. x1 + 1 <= x2 /\ x1 + 1 \in Nat
          BY <3>3
        <4>2. \A a, b, d \in Nat : a <= b => d * a <= d * b
          OBVIOUS
        <4>3. WIN_SZ * (x1 + 1) = WIN_SZ * x1 + WIN_SZ
          BY <1>0
        <4> QED BY <1>0, <4>1, <4>2, <4>3
      <3>4. WIN_SZ * n = n * WIN_SZ /\ WIN_SZ * n \in Nat /\ WIN_SZ * q \in Nat
        BY <1>0, <3>2
      <3>5. q = n
        <4>1. ~(q < n)
          <5> SUFFICES ASSUME q < n PROVE FALSE
            OBVIOUS
          <5>1. WIN_SZ * q + WIN_SZ <= WIN_SZ * n
            BY <3>2, <3>3
          <5> QED BY <1>0, <3>1, <3>2, <3>4, <5>1
        <4>2. ~(n < q)
          <5> SUFFICES ASSUME n < q PROVE FALSE
            OBVIOUS
          <5>1. WIN_SZ * n + WIN_SZ <= WIN_SZ * q
            BY <3>2, <3>3
          <5> QED BY <1>0, <3>1, <3>2, <3>4, <5>1
        <4> QED BY <3>2, <4>1, <4>2
      <3>6. z % WIN_SZ = r
        BY <3>1, <3>2, <3>4, <3>5
      <3> QED BY <3>6 DEF r
    <2> HIDE DEF base
    <2>3. base <= x /\ y < base + WIN_SZ /\ base <= y /\ x < base + WIN_SZ
      BY <1>0 DEF base
    <2>4. x % WIN_SZ = x - base /\ y % WIN_SZ = y - base
      BY <2>2, <2>3
    <2>5. ~(x < WIN_SZ) /\ ~(y < WIN_SZ)
      BY <1>0, <2>1, <2>3
    <2> QED BY <1>0, <2>4, <2>5 DEF Mapping
  <1> QED BY <1>1, <1>2

LEMMA SegmentsAvoid ==
    ASSUME NEW l \in {LOW, HIGH}, WindowAvoids(l),
           g.plim.lower \in Nat, g.plim.upper \in Nat
    PROVE  LET entries == Segments(g.winx, g.plim)
           IN  /\ Len(entries) \in Nat /\ DOMAIN entries = 1 .. Len(entries)
               /\ \A k \in 1 .. Len(entries) : EntryAvoids(l, entries[k])
  <1> DEFINE entries == Segments(g.winx, g.plim)
  <1>1. /\ Len(entries) \in Nat /\ DOMAIN entries = 1 .. Len(entries)
        /\ \A k \in 1 .. Len(entries) : IsPart(entries[k], g.winx, g.plim)
    <2>1. g.winx \in [start : Nat, end : Nat]
      BY DEF WindowAvoids
    <2> QED BY <2>1, SegmentsFound
  <1> HIDE DEF entries
  <1>2. ASSUME NEW k \in 1 .. Len(entries)
        PROVE  EntryAvoids(l, entries[k])
    <2>1. PICK start \in Nat, end \in Nat :
                      /\ start < end /\ end <= g.winx.end
                      /\ LargerOf(g.winx.start, g.plim.lower) <= start
                      /\ entries[k] = [base  |-> start,
                                       start |-> IF start = 0 THEN 1 ELSE Mapping(start),
                                       end   |-> Mapping(end - 1) + 1]
      BY <1>1 DEF IsPart
    <2>2. end - 1 \in Nat /\ Mapping(start) \in Nat /\ Mapping(end - 1) \in Nat
      <3>1. end - 1 \in Nat
        BY <2>1
      <3> QED BY <3>1, MappingType
    <2>3. entries[k] \in [base : Nat, start : Nat, end : Nat]
      BY <2>1, <2>2
    <2>4. CASE l = LOW
      <3>1. LargerOf(g.winx.start, g.plim.lower) \in Nat /\ win0_start \in Nat \ {0}
        BY SchedulerAssumption DEF WindowAvoids, LargerOf
      <3>2. start >= win0_start
        BY <2>1, <2>4, <3>1 DEF WindowAvoids
      <3>3. Mapping(start) >= win0_start
        BY <3>2, MappingType
      <3>4. start # 0
        <4> HIDE DEF entries
        <4> QED BY <3>1, <3>2
      <3>5. Mapping(start) <= Mapping(end - 1)
        <4>1. PICK n \in Nat : n * WIN_SZ <= g.winx.start /\ g.winx.end <= (n + 1) * WIN_SZ
          BY DEF WindowAvoids, AlignedWindow
        <4>2. /\ n * WIN_SZ \in Nat /\ (n + 1) * WIN_SZ \in Nat
              /\ g.winx.start \in Nat /\ g.winx.end \in Nat
          BY <4>1, WindowSize DEF WindowAvoids
        <4> DEFINE left == n * WIN_SZ
                   right == (n + 1) * WIN_SZ
        <4>3. left <= g.winx.start /\ g.winx.end <= right /\ left \in Nat /\ right \in Nat
          BY <4>1, <4>2
        <4> DEFINE from == g.winx.start
                   to == g.winx.end
        <4> HIDE DEF left, right, entries
        <4>4. g.winx.start <= start /\ start < end /\ end <= g.winx.end
          BY <2>1, <4>2 DEF LargerOf
        <4>8. /\ from <= start /\ start < end /\ end <= to /\ left <= from /\ to <= right
              /\ from \in Nat /\ to \in Nat /\ left \in Nat /\ right \in Nat
          BY <4>2, <4>3, <4>4
        <4> HIDE DEF from, to
        <4>5. left <= start /\ end - 1 < right /\ start <= end - 1
          BY <4>8
        <4>6. n * WIN_SZ <= start /\ end - 1 < (n + 1) * WIN_SZ /\ start <= end - 1
          BY <4>5 DEF left, right
        <4>7. n \in Nat /\ start \in Nat /\ end - 1 \in Nat
          BY <2>2
        <4> QED BY <4>6, <4>7, MappingAscends
      <3>6. entries[k].start = Mapping(start) /\ entries[k].end = Mapping(end - 1) + 1
        BY <2>1, <3>4
      <3>7. entries[k].start <= entries[k].end
        BY <2>2, <3>5, <3>6
      <3> QED BY <2>3, <2>4, <3>3, <3>6, <3>7 DEF EntryAvoids
    <2>5. CASE l = HIGH
      <3>1. g.winx.end = win1_end /\ LOW # HIGH
        BY <2>5 DEF WindowAvoids, LOW, HIGH
      <3>2. end <= win1_end /\ start < WIN_SZ /\ end - 1 < WIN_SZ
        BY <2>1, <3>1, PlacesAssumption, WindowSize
      <3>3. Mapping(end - 1) = end - 1
        BY <2>2, <3>2, MappingType
      <3> QED BY <2>1, <2>3, <2>5, <3>1, <3>2, <3>3 DEF EntryAvoids
    <2> QED BY <2>4, <2>5
  <1> QED BY <1>1, <1>2 DEF entries

(* A window beyond the memory has no segments.                              *)
LEMMA SegmentsBeyond ==
    ASSUME g.winx \in [start : Nat, end : Nat], g.winx.start >= MemEnd,
           g.plim.lower \in Nat, g.plim.upper \in Nat
    PROVE  Len(Segments(g.winx, g.plim)) = 0
  <1> DEFINE entries == Segments(g.winx, g.plim)
             n == Len(entries)
  <1>1. /\ n \in Nat
        /\ \A k \in 1 .. n : IsPart(entries[k], g.winx, g.plim)
    BY SegmentsFound
  <1> HIDE DEF n
  <1> SUFFICES ASSUME n # 0 PROVE FALSE
    BY DEF n
  <1>2. 1 \in 1 .. n
    BY <1>1
  <1>3. PICK start \in Nat, end \in Nat :
              /\ start < end /\ end <= MemEnd
              /\ LargerOf(g.winx.start, g.plim.lower) <= start
    BY <1>1, <1>2 DEF IsPart
  <1>4. g.winx.start \in Nat
    OBVIOUS
  <1> QED BY <1>3, <1>4, ZeroCpu DEF LargerOf

(* calculate_chunk() gives a CPU of the team a part of the segment, all of  *)
(* it if the CPU is alone.                                                  *)
LEMMA ChunkIn ==
    ASSUME NEW l \in {LOW, HIGH}, NEW seg, EntryAvoids(l, seg), NEW c \in CPUs,
           OneRuns \/ AllRun, NEW a \in Chunk(seg, c)
    PROVE  /\ a \in Int /\ a < seg.end
           /\ l = LOW => seg.start <= a
  <1> DEFINE size  == (seg.end - seg.start) \div g.run_cpus
             first == seg.start + size * c
             last  == IF Master(c) THEN seg.end ELSE first + size
  <1>0. seg.start \in Nat /\ seg.end \in Nat /\ (l = LOW => seg.start <= seg.end)
    BY DEF EntryAvoids
  <1>1. CASE Whole
    BY <1>0, <1>1 DEF Chunk
  <1>2. CASE ~Whole
    <2>1. AllRun /\ g.run_cpus = N
      BY <1>2 DEF OneRuns, AllRun, Whole
    <2>2. c \in Nat /\ c < N /\ N \in Nat \ {0}
      BY SchedulerAssumption DEF CPUs
    <2>3. a \in first .. last - 1
      BY <1>2 DEF Chunk
    <2>4. size \in Int
      BY <1>0, <2>1, <2>2
    <2>5. first \in Int
      <3>1. size * c \in Int
        BY <2>2, <2>4
      <3> HIDE DEF size
      <3> QED BY <1>0, <2>4, <3>1
    <2>6. seg.start <= seg.end => size \in Nat /\ size * N <= seg.end - seg.start
      <3> DEFINE n == seg.end - seg.start
      <3> SUFFICES ASSUME seg.start <= seg.end
                   PROVE  size \in Nat /\ size * N <= n
        OBVIOUS
      <3>1. n \in Nat /\ size = n \div N
        BY <1>0, <2>1
      <3> HIDE DEF n, size
      <3>2. n \div N \in Nat /\ N * (n \div N) <= n
        BY <2>2, <3>1
      <3> QED BY <2>2, <3>1, <3>2
    <2>7. seg.start > seg.end => size < 0
      <3> DEFINE n == seg.end - seg.start
      <3> SUFFICES ASSUME seg.start > seg.end
                   PROVE  size < 0
        OBVIOUS
      <3>1. n \in Int /\ n < 0 /\ size = n \div N
        BY <1>0, <2>1
      <3> HIDE DEF n, size
      <3>2. n \div N < 0
        BY <2>2, <3>1
      <3> QED BY <3>1, <3>2
    <2>8. CASE seg.start <= seg.end
      <3>1. size \in Nat /\ size * N <= seg.end - seg.start
        BY <2>6, <2>8
      <3>2. size * c \in Nat /\ size * c + size = size * (c + 1) /\ size * (c + 1) <= size * N
        <4> HIDE DEF size
        <4>1. c + 1 <= N /\ c + 1 \in Nat
          BY <2>2
        <4>2. size * c \in Nat /\ size * c + size = size * (c + 1)
          BY <2>2, <3>1
        <4>3. \A x, y, z \in Nat : x <= y => z * x <= z * y
          OBVIOUS
        <4> QED BY <2>2, <3>1, <4>1, <4>2, <4>3
      <3>3. first >= seg.start /\ last <= seg.end
        <4> DEFINE off == size * c
                   all == size * N
        <4>1. off \in Nat /\ off + size <= all /\ all <= seg.end - seg.start /\ all \in Int
          BY <2>2, <3>1, <3>2
        <4>2. first = seg.start + off
          OBVIOUS
        <4>3. last = IF Master(c) THEN seg.end ELSE first + size
          OBVIOUS
        <4> HIDE DEF off, all, size, first, last
        <4> QED BY <1>0, <3>1, <4>1, <4>2, <4>3
      <3>4. last \in Int
        BY <1>0, <2>4, <2>5
      <3> HIDE DEF first, last, size
      <3> QED BY <1>0, <2>3, <2>5, <3>3, <3>4
    <2>9. CASE seg.start > seg.end
      <3>1. l # LOW
        BY <1>0, <2>9
      <3>2. size < 0
        BY <2>7, <2>9
      <3>3. last = seg.end \/ last = first + size
        OBVIOUS
      <3> HIDE DEF first, last, size
      <3> QED BY <1>0, <2>3, <2>4, <2>5, <3>1, <3>2, <3>3
    <2> QED BY <1>0, <2>8, <2>9
  <1> QED BY <1>1, <1>2

(* A test does not touch a copy that the entries avoid.                     *)
LEMMA AreaOfMap ==
    ASSUME NEW l \in {LOW, HIGH}, MapAvoids(l), NEW c \in CPUs, OneRuns \/ AllRun,
           MappedAvoids(l, cpu[c].win)
    PROVE  AreaAvoids(l, Area(c))
  <1> DEFINE w == cpu[c].win
  <1> SUFFICES ASSUME NEW i \in 1 .. g.segs,
                      NEW a \in Chunk(g.map[i], c)
               PROVE  Reaches(a, w) # (IF l = LOW THEN LowBlock ELSE HighBlock)
    BY DEF Area, AreaAvoids
  <1>1. /\ EntryAvoids(l, g.map[i]) /\ WIN_SZ \in Nat /\ win0_start \in Nat
        /\ w \in Nat /\ (l = HIGH => w = 0)
    BY WindowSize, SchedulerAssumption DEF MapAvoids, MappedAvoids
  <1> HIDE DEF w
  <1>2. a \in Int /\ a < g.map[i].end /\ (l = LOW => g.map[i].start <= a)
    BY <1>1, ChunkIn
  <1>3. CASE l = LOW
    <2>1. a >= win0_start
      <3>1. g.map[i].start \in Nat /\ g.map[i].start >= win0_start
        BY <1>1, <1>3 DEF EntryAvoids
      <3> QED BY <1>1, <1>2, <1>3, <3>1
    <2>2. CASE a < WIN_SZ \/ w = 0
      BY <1>1, <1>2, <1>3, <2>1, <2>2, PlacesAssumption DEF Reaches
    <2>3. CASE ~(a < WIN_SZ \/ w = 0)
      <3>1. w * WIN_SZ \in Nat /\ w * WIN_SZ >= WIN_SZ
        <4>1. w >= 1
          BY <1>1, <2>3
        <4> QED BY <1>1, <4>1
      <3>2. Reaches(a, w) = w * WIN_SZ + a - WIN_SZ
        BY <2>3 DEF Reaches
      <3> DEFINE base == w * WIN_SZ
      <3> HIDE DEF base
      <3>3. base \in Nat /\ base >= WIN_SZ /\ Reaches(a, w) = base + a - WIN_SZ
        BY <3>1, <3>2 DEF base
      <3> QED BY <1>1, <1>2, <1>3, <2>3, <3>3, PlacesAssumption
    <2> QED BY <2>2, <2>3
  <1>4. CASE l = HIGH
    <2>1. w = 0 /\ LOW # HIGH /\ g.map[i].end \in Nat /\ g.map[i].end <= win1_end
      BY <1>1, <1>4 DEF EntryAvoids, LOW, HIGH
    <2>2. Reaches(a, w) = a
      BY <2>1 DEF Reaches
    <2> QED BY <1>2, <1>4, <2>1, <2>2, PlacesAssumption
  <1> QED BY <1>3, <1>4

----------------------------------------------------------------------------
(* What steps leave alone.                                                  *)

(* Windows follow each other.                                               *)
Aligned == \E n \in Nat : g.win_next = n * WIN_SZ

(* The fields that the window speaks of are there.                          *)
Fields == /\ {"bail", "segs", "map", "winx"} \subseteq DOMAIN g
          /\ \A c \in CPUs : {"win", "area", "k"} \subseteq DOMAIN cpu[c]
          /\ g.plim.upper \in Nat
          /\ Aligned

(* The menu without the entry for the default list of tests, which writes   *)
(* to v->map and lets the test go on (config.c:103).                        *)
NoDefault == \A entry \in Inputs : entry[1] # "default"

(* What such a menu leaves alone if it lets the test go on.                 *)
LeavesWindow(h) == /\ h.segs = g.segs /\ h.winx = g.winx /\ h.plim.upper \in Nat
                   /\ ~h.bail => ~g.bail /\ h.map = g.map

LEMMA QuietMenu ==
    ASSUME Shape, Globals, Fields, NoDefault, NEW entry \in Inputs
    PROVE  LeavesWindow(Menu(entry))
  <1> DEFINE e == entry[1]
  <1>0. /\ e \in {"skip", "select", "list", "lower", "upper", "all",
                 "mode", "restart"}
        /\ e \in {"select", "lower", "upper"} => entry[2] \in Nat
    BY InputsAssumption DEF NoDefault
  <1> USE DEF Shape, Fields, LeavesWindow
  <1>a. ASSUME NEW lower \in Nat, NEW upper \in Nat
        PROVE  LeavesWindow(Limit(lower, upper))
    BY DEF Limit
  <1>2. CASE e = "skip" BY <1>2 DEF Menu
  <1>3. CASE e = "select" BY <1>3 DEF Menu
  <1>4. CASE e = "list" BY <1>4 DEF Menu
  <1>5. CASE e = "lower"
    <2>1. Menu(entry) \in {g, Limit(entry[2], g.plim.upper)}
      BY <1>5 DEF Menu
    <2> QED BY <1>0, <1>5, <1>a, <2>1
  <1>6. CASE e = "upper"
    <2>1. Menu(entry) \in {g, Limit(g.plim.lower, entry[2])}
      BY <1>6 DEF Menu
    <2> QED BY <1>0, <1>6, <1>a, <2>1 DEF Globals
  <1>7. CASE e = "all"
    <2>1. Menu(entry) = Limit(0, MemEnd)
      BY <1>7 DEF Menu
    <2> QED BY <2>1, <1>a, ZeroCpu
  <1>8. CASE e = "mode" BY <1>8 DEF Menu
  <1>9. CASE e = "restart" BY <1>9 DEF Menu
  <1> QED BY <1>0, <1>2, <1>3, <1>4, <1>5, <1>6, <1>7, <1>8, <1>9

LEMMA QuietInput ==
    ASSUME Shape, Globals, Fields, NoDefault, CheckInput
    PROVE  Kept(g') /\ LeavesWindow(g')
  <1>1. Kept(g')
    BY InputFrame
  <1>2. LeavesWindow(g)
    BY DEF LeavesWindow, Fields
  <1>3. LeavesWindow(g')
    BY <1>2, QuietMenu DEF CheckInput
  <1> QED BY <1>1, <1>3

(* The upper limit is always a number.                                      *)
LEMMA FieldsStep ==
    ASSUME Typed, Fields, NoDefault, NEW c \in CPUs, Step(c)
    PROVE  Fields'
  <1>1. DOMAIN g' = DOMAIN g /\ \A d \in CPUs : DOMAIN cpu'[d] = DOMAIN cpu[d]
    BY ShapeStep DEF Typed
  <1>2. g'.plim.upper \in Nat
    <2>1. CASE ~Changes(c)
      BY <2>1, SettledStep DEF Settled, Typed, Fields
    <2>2. CASE Tick(c) \/ HouseInput(c)
      BY <2>2, QuietInput DEF Tick, HouseInput, LeavesWindow, Typed, Fields
    <2>3. CASE Defaults(c)
      BY <2>3, ZeroCpu DEF Defaults, SetDefaults, AllOf, Typed, Shape
    <2>4. CASE FadeWindow(c) \/ NextWindow(c)
      BY <2>4 DEF Typed, Shape, Fields, FadeWindow, NextWindow
    <2>5. CASE TakeWindow(c)
      BY <2>5, TakeFrame DEF Typed, Fields
    <2>6. CASE ResetWindows(c)
      BY <2>6 DEF Typed, Shape, Fields, ResetWindows
    <2>7. CASE RestartTest(c) \/ Advance(c)
      BY <2>7 DEF Typed, Shape, Fields, RestartTest, Advance
    <2>8. CASE NextTest(c) \/ Scan(c) \/ Rescan(c)
      BY <2>8 DEF Typed, Shape, Fields, NextTest, Scan, Rescan
    <2> QED BY <2>1, <2>2, <2>3, <2>4, <2>5, <2>6, <2>7, <2>8 DEF Changes
  <1>3. CPUs' = CPUs
    BY DEF CPUs
  <1>4. Aligned'
    <2> USE DEF Typed, Shape, Fields, Aligned
    <2>1. g'.win_next \in {0, WIN_SZ, g.win_next, g.win_next + WIN_SZ}
      <3>1. CASE ~Changes(c)
        BY <3>1, SettledStep DEF Settled
      <3>2. CASE Tick(c) \/ HouseInput(c)
        <4>1. CASE CheckInput
          BY <4>1, InputFrame DEF Kept
        <4> QED BY <3>2, <4>1 DEF Tick, HouseInput
      <3>3. CASE Defaults(c)
        BY <3>3, DefaultsFrame DEF Defaults
      <3>4. CASE FadeWindow(c) \/ NextWindow(c)
        BY <3>4 DEF FadeWindow, NextWindow
      <3>5. CASE TakeWindow(c)
        <4>1. CASE g.window = 0
          BY <3>5, <4>1 DEF TakeWindow
        <4>2. CASE g.window = 1
          BY <3>5, <4>2 DEF TakeWindow
        <4>3. CASE g.window # 0 /\ g.window # 1
          BY <3>5, <4>3 DEF TakeWindow
        <4> QED BY <4>1, <4>2, <4>3
      <3>6. CASE ResetWindows(c)
        BY <3>6 DEF ResetWindows
      <3>7. CASE RestartTest(c) \/ Advance(c)
        BY <3>7 DEF RestartTest, Advance
      <3>8. CASE NextTest(c) \/ Scan(c) \/ Rescan(c)
        BY <3>8 DEF NextTest, Scan, Rescan
      <3> QED BY <3>1, <3>2, <3>3, <3>4, <3>5, <3>6, <3>7, <3>8 DEF Changes
    <2>2. PICK n \in Nat : g.win_next = n * WIN_SZ
      OBVIOUS
    <2>3. /\ 0 = 0 * WIN_SZ /\ WIN_SZ = 1 * WIN_SZ
          /\ n * WIN_SZ + WIN_SZ = (n + 1) * WIN_SZ /\ 1 \in Nat /\ n + 1 \in Nat
      BY WindowSize
    <2> QED BY <2>1, <2>2, <2>3
  <1> QED BY <1>1, <1>2, <1>3, <1>4 DEF Fields

(* A CPU changes nobody else's registers.                                   *)
LEMMA CpuFrame ==
    ASSUME Typed, NEW c \in CPUs, Step(c), NEW d \in CPUs \ {c}
    PROVE  cpu'[d] = cpu[d]
  <1> USE DEF Typed, Shape
  <1>1. CASE LoadIters(c) BY <1>1 DEF LoadIters
  <1>2. CASE Jump(c) BY <1>2 DEF Jump
  <1>3. CASE MapWindow(c) BY <1>3 DEF MapWindow
  <1>4. CASE Load(c) BY <1>4 DEF Load
  <1>5. CASE Access(c) BY <1>5 DEF Access
  <1>6. CASE Done(c) BY <1>6 DEF Done
  <1>7. CASE PickCpu(c) BY <1>7 DEF PickCpu
  <1>8. CASE UNCHANGED cpu BY <1>8
  <1> QED BY <1>1, <1>2, <1>3, <1>4, <1>5, <1>6, <1>7, <1>8
   DEF Step, Top, Defaults, Restarted, NewTest, SetIters, WindowLoop, FadeWindow,
          RelocLow, SkipLow, NextWindow, RelocHigh, Copy, TakeMutex, Startup,
          FirstBarrier, SubInit, SubReady, Selected, TakeWindow, Compute,
          WaitSegments, Prepare, Prepared, Tick, Sync, Synced, WaitTick, TickDone, Bail,
          EndWindows, ResetWindows, HouseInput, RestartTest, NextStage, Advance,
          NextTest, Scan, Rescan, EndPass, NewPass, Unbail

----------------------------------------------------------------------------
(* The team.                                                                *)

(* The choice is complete before the barrier that follows it.               *)
LEMMA ChosenStep ==
    ASSUME Typed, Chosen, ChooseLow \/ ChooseHigh, NEW c \in CPUs, Step(c)
    PROVE  Chosen'
  <1>0. \/ FadeWindow(c) \/ RelocLow(c) \/ SkipLow(c) \/ NextWindow(c) \/ RelocHigh(c)
        \/ Copy(c) \/ PickCpu(c)
    <2>1. Between({"sched"}, Choosing, {"copied", "picked"})
      BY DEF ChooseLow, ChooseHigh, Between
    <2> QED BY <2>1, ChoosingActions
  <1>1. g'.test = g.test /\ g'.cpu_mode = g.cpu_mode /\ g'.cpu_sel = g.cpu_sel
    <2>1. CASE FadeWindow(c) \/ NextWindow(c)
      BY <2>1 DEF FadeWindow, NextWindow, Typed, Shape
    <2>2. CASE ~FadeWindow(c) /\ ~NextWindow(c)
      <3>1. ~Changes(c)
        BY <1>0, <2>2, Origins DEF Changes
      <3> QED BY <3>1, SettledStep DEF Settled, Typed
    <2> QED BY <2>1, <2>2
  <1>2. Lone' = Lone /\ T(g.test)' = T(g.test)
    BY <1>1 DEF Lone, T
  <1>3. ASSUME NEW d \in CPUs, pc'[d] = "picked", at'[d] = "arrived"
        PROVE  IF Lone THEN d = g.cpu_sel => g'.mstr_cpu = d
               ELSE g'.mstr_cpu = SmallerOf(N, T(g.test).cpu_sel) - 1
    <2>1. CASE PickCpu(c)
      <3>1. d # c => pc[d] = "picked" /\ at[d] = "arrived"
        BY <1>3, EntersTest
      <3>2. /\ Lone /\ c = g.cpu_sel => g'.mstr_cpu = c
            /\ Lone /\ c # g.cpu_sel => g'.mstr_cpu = g.mstr_cpu
            /\ ~Lone => g'.mstr_cpu = SmallerOf(N, T(g.test).cpu_sel) - 1
        BY <2>1 DEF PickCpu, Lone, Typed, Shape
      <3> QED BY <3>1, <3>2 DEF Chosen
    <2>2. CASE ~PickCpu(c)
      <3>1. d # c
        BY <1>0, <1>3, <2>2 DEF FadeWindow, RelocLow, SkipLow, NextWindow,
               RelocHigh, Copy, Goto, Typed, Located
      <3>2. pc[d] = "picked" /\ at[d] = "arrived"
        BY <1>3, <3>1, EntersTest
      <3>3. g'.mstr_cpu = g.mstr_cpu
        BY <2>2, RunFrame DEF Typed
      <3> QED BY <3>2, <3>3 DEF Chosen
    <2> QED BY <2>1, <2>2
  <1> QED BY <1>1, <1>2, <1>3 DEF Chosen

(* Every test is for one CPU or for all; past the last there is none.       *)
LEMMA TestTeam == ASSUME NEW t \in Nat
                  PROVE  LET sel == T(t).cpu_sel
                         IN  sel \in {-1, 0, 1} \/ (sel \in Nat /\ sel >= N)
  <1>1. CASE t < End
    BY <1>1, TestAsks
  <1>2. CASE ~(t < End)
    BY <1>2 DEF T, Terminator
  <1> QED BY <1>1, <1>2

LEMMA ChosenTeam ==
    ASSUME Typed, Selection, Chosen, \A c \in CPUs : pc[c] = "picked" /\ at[c] = "arrived"
    PROVE  Team
  <1>1. CASE Lone
    <2>1. g.cpu_sel \in CPUs
      BY DEF Typed, Globals
    <2> QED BY <1>1, <2>1 DEF Selection, Chosen, Team, OneRuns, Master
  <1>2. CASE ~Lone
    <2> DEFINE sel == T(g.test).cpu_sel
    <2>1. sel \in {0, 1} \/ (sel \in Nat /\ sel >= N)
      BY <1>2, TestTeam DEF Lone, Typed, Globals
    <2>2. /\ \A d \in CPUs : cpu[d].run <=> d < sel
          /\ g.run_cpus = SmallerOf(N, sel) /\ g.mstr_cpu = SmallerOf(N, sel) - 1
      BY <1>2, ZeroCpu DEF Selection, Chosen
    <2> HIDE DEF sel
    <2>3. N \in Nat \ {0} /\ \A d \in CPUs : d \in Nat /\ d < N
      BY SchedulerAssumption DEF CPUs
    <2>4. CASE sel = 0
      BY <2>2, <2>3, <2>4 DEF Team, NoneRuns
    <2>5. CASE sel = 1 \/ N = 1
      <3>1. (g.run_cpus = 1 /\ g.mstr_cpu = 0) \/ sel = 0
        BY <2>1, <2>2, <2>3, <2>5 DEF SmallerOf
      <3>2. sel # 0 => \A d \in CPUs : cpu[d].run => d = 0
        BY <2>1, <2>2, <2>3, <2>5
      <3> QED BY <2>4, <3>1, <3>2 DEF Team, OneRuns, Master
    <2>6. CASE sel \in Nat /\ sel >= N /\ N # 1
      <3>1. SmallerOf(N, sel) = N
        BY <2>3, <2>6 DEF SmallerOf
      <3>2. N > 1 /\ N - 1 \in CPUs
        BY <2>3, <2>6 DEF CPUs
      <3>3. \A d \in CPUs : cpu[d].run
        BY <2>2, <2>3, <2>6
      <3> QED BY <2>2, <3>1, <3>2, <3>3 DEF Team, AllRun
    <2> QED BY <2>1, <2>4, <2>5, <2>6
  <1> QED BY <1>1, <1>2

LEMMA TeamKept ==
    ASSUME Typed, NEW c \in CPUs, Step(c), ~PickCpu(c)
    PROVE  /\ (OneRuns <=> OneRuns') /\ (AllRun <=> AllRun')
           /\ (NoneRuns <=> NoneRuns')
           /\ \A d \in CPUs : cpu'[d].run = cpu[d].run
           /\ g'.mstr_cpu = g.mstr_cpu /\ g'.run_cpus = g.run_cpus
  <1>1. /\ \A d \in CPUs : cpu'[d].run = cpu[d].run
        /\ g'.mstr_cpu = g.mstr_cpu /\ g'.run_cpus = g.run_cpus
    BY RunFrame DEF Typed
  <1>2. CPUs' = CPUs
    BY DEF CPUs
  <1> QED BY <1>1, <1>2 DEF OneRuns, AllRun, NoneRuns, Master

LEMMA TeamInv ==
    ASSUME StagesInv, Teamed, Chosen, [Next]_vars
    PROVE  Teamed' /\ Chosen'
  <1>0. CPUs' = CPUs
    BY DEF CPUs
  <1>1. CASE MeetOpens
    <2>0. /\ UNCHANGED <<g, pc, cpu>>
          /\ \A c \in CPUs : at[c] = "arrived" /\ at'[c] = "released"
      BY <1>1 DEF MeetOpens, Meet!Open
    <2>1. Chosen'
      BY <2>0, <1>0 DEF Chosen
    <2>2. ASSUME NEW c \in CPUs, InTest(c)' PROVE Team
      <3>1. CASE pc[c] = "picked"
        <4>1. ChooseLow \/ ChooseHigh
          BY <2>0, <3>1 DEF StagesInv, Stages, Moving, ReturnHigh, Picking, TestHigh,
                 WorkLow, Between, Returning, InWindow, Ending
        <4>2. \A d \in CPUs : pc[d] = "picked"
          BY <2>0, <3>1, <4>1 DEF ChooseLow, ChooseHigh, Between, LowPath, HighPath
        <4> QED BY <2>0, <4>2, ChosenTeam DEF StagesInv, RunInv
      <3>2. CASE pc[c] # "picked"
        <4>1. InTest(c)
          BY <2>0, <2>2, <3>2 DEF InTest
        <4> QED BY <4>1 DEF Teamed
      <3> QED BY <3>1, <3>2
    <2>3. Team' = Team
      BY <2>0 DEF Team, OneRuns, AllRun, NoneRuns, Master
    <2>4. Teamed'
      BY <2>2, <2>3, <1>0 DEF Teamed
    <2> QED BY <2>1, <2>4
  <1>2. ASSUME NEW c \in CPUs, Step(c) PROVE Teamed' /\ Chosen'
    <2>0. Typed
      BY DEF StagesInv
    <2>1. CASE ChooseLow \/ ChooseHigh
      <3>1. Chosen'
        BY <1>2, <2>0, <2>1, ChosenStep
      <3>2. ChooseLow' \/ ChooseHigh'
        BY <1>2, <2>0, <2>1, LowStep, HighStep
      <3>3. ASSUME NEW d \in CPUs PROVE ~InTest(d)'
        BY <3>2 DEF ChooseLow, ChooseHigh, Between, InTest, InWindow, Choosing
      <3> QED BY <1>0, <3>1, <3>3 DEF Teamed
    <2>2. CASE ~(ChooseLow \/ ChooseHigh)
      <3>1. \/ Moving(LOW, HIGH) \/ Moving(HIGH, LOW) \/ ReturnHigh \/ Picking
            \/ TestHigh \/ WorkLow
        BY <2>2 DEF StagesInv, Stages
      <3>2. pc[c] # "pick"
        BY <3>1 DEF Moving, ReturnHigh, Picking, TestHigh, WorkLow, Between, Returning,
               InWindow, Ending
      <3>3. ~PickCpu(c)
        BY <3>2, Origins, <1>2
      <3>4. ASSUME NEW d \in CPUs PROVE ~(pc'[d] = "picked" /\ at'[d] = "arrived")
        <4>1. \/ Moving(LOW, HIGH)' \/ Moving(HIGH, LOW)' \/ ReturnHigh' \/ Picking'
              \/ TestHigh' \/ WorkLow'
          BY <1>2, <2>0, <3>1, MovingStep, ReturnStep, PickingStep, TestHighStep, WorkStep
        <4> QED BY <4>1 DEF Moving, ReturnHigh, Picking, TestHigh, WorkLow, Between,
               Returning, InWindow, Ending
      <3>5. Team => Team'
        BY <1>2, <2>0, <3>3, TeamKept DEF Team
      <3>6. ASSUME NEW d \in CPUs PROVE InTest(d)' => InTest(d)
        <4>1. InTest(c)' => InTest(c)
          BY <1>2, <2>0, EntersTest
        <4>2. d # c => pc'[d] = pc[d] /\ at'[d] = at[d]
          BY <1>2, <2>0, EntersTest
        <4> QED BY <4>1, <4>2 DEF InTest
      <3> QED BY <1>0, <3>4, <3>5, <3>6 DEF Teamed, Chosen
    <2> QED BY <2>1, <2>2
  <1>3. CASE UNCHANGED vars
    <2>1. Team' = Team
      BY <1>3 DEF vars, Team, OneRuns, AllRun, NoneRuns, Master
    <2>2. Lone' = Lone /\ UNCHANGED <<g, pc, at>>
      BY <1>3 DEF vars, Lone
    <2>3. Chosen'
      BY <2>2 DEF Chosen
    <2>4. Teamed'
      BY <2>1, <2>2, <1>0 DEF Teamed, InTest
    <2> QED BY <2>3, <2>4
  <1> QED BY <1>1, <1>2, <1>3 DEF Next

----------------------------------------------------------------------------
(* A window that is tested.                                                 *)

GatheringPlaces == {"ready", "window", "compute", "segments", "segments_bar"}
GatherFirst == AllRun /\ (\E c \in CPUs : ToCompute(c)) => Gathering

(* Nobody leaves the sub barrier, or works, while the list of segments is   *)
(* missing.                                                                 *)
LEMMA Busy ==
    ASSUME RunInv, Teamed, GatherFirst, NEW c \in CPUs, pc[c] \in InWindow,
           ~ToCompute(c), pc[c] \notin GatheringPlaces \/ c \in sub.out
    PROVE  ~NoneRuns /\ ~\E d \in CPUs : ToCompute(d)
  <1>1. cpu[c].run /\ Team
    BY DEF RunInv, Teamed, InTest
  <1>2. ~Gathering
    BY DEF Gathering, GatheringPlaces
  <1>3. ASSUME NEW d \in CPUs, ToCompute(d) PROVE FALSE
    <2>1. Master(d) /\ ~AllRun
      BY <1>2, <1>3 DEF GatherFirst, ToCompute, ToTake
    <2>2. OneRuns
      BY <1>1, <2>1 DEF Team, NoneRuns
    <2>3. c = d
      BY <1>1, <2>1, <2>2 DEF OneRuns, Master
    <2> QED BY <1>3, <2>3
  <1> QED BY <1>1, <1>3 DEF NoneRuns

(* A CPU on its way to the sub barrier does not disturb the gathering.      *)
LEMMA GatheringKept ==
    ASSUME Gathering, NEW c \in CPUs, \A d \in CPUs \ {c} : pc'[d] = pc[d],
           pc[c] # "segments_bar", pc'[c] \in GatheringPlaces, sub' = sub
    PROVE  Gathering'
  <1>1. CPUs' = CPUs
    BY DEF CPUs
  <1> QED BY <1>1 DEF Gathering, GatheringPlaces

LEMMA GatheringGrows ==
    ASSUME Gathering, AllRun, NEW c \in CPUs, WaitSegments(c), Typed,
           NEW m \in CPUs, ToCompute(m)
    PROVE  Gathering'
  <1>1. pc[c] = "segments" /\ m # c /\ pc[m] # "segments_bar"
    BY DEF WaitSegments, Goto, ToCompute, ToTake
  <1>2. pc' = [pc EXCEPT ![c] = "segments_bar"]
    BY DEF WaitSegments, Goto
  <1>3. IsFiniteSet(CPUs) /\ Cardinality(CPUs) = N
    <2>1. N \in Nat \ {0} /\ 0 \in Int /\ N - 1 \in Int
      BY SchedulerAssumption
    <2>2. IsFiniteSet(0 .. N - 1)
      BY <2>1, FS_Interval
    <2>3. Cardinality(0 .. N - 1) = IF 0 > N - 1 THEN 0 ELSE (N - 1) - 0 + 1
      BY <2>1, FS_Interval
    <2> QED BY <2>1, <2>2, <2>3 DEF CPUs
  <1>4. Cardinality(sub.in) + 1 # N
    <2> DEFINE Rest == (CPUs \ {c}) \ {m}
    <2>1. IsFiniteSet(CPUs \ {c}) /\ Cardinality(CPUs \ {c}) = N - 1
      BY <1>3, FS_RemoveElement
    <2>2. IsFiniteSet(Rest) /\ Cardinality(Rest) = N - 1 - 1
      BY <1>1, <2>1, FS_RemoveElement
    <2>3. sub.in \subseteq Rest
      BY <1>1 DEF Gathering
    <2> HIDE DEF Rest
    <2>4. Cardinality(sub.in) <= N - 1 - 1 /\ Cardinality(sub.in) \in Nat
      BY <2>2, <2>3, FS_Subset, FS_CardinalityType
    <2> QED BY <2>4, SchedulerAssumption
  <1>5. sub' = [sub EXCEPT !.in = @ \cup {c}]
    <2>1. g.run_cpus # 1 /\ sub.max = N /\ SubArrive(c)
      BY SchedulerAssumption DEF AllRun, WaitSegments, Gathering
    <2> QED BY <1>4, <2>1 DEF SubArrive
  <1>6. CPUs' = CPUs
    BY DEF CPUs
  <1> QED BY <1>1, <1>2, <1>5, <1>6 DEF Gathering, Typed, Located

(* What the steps of a window that is known leave alone.                    *)
SameWindow == /\ g'.window = g.window /\ g'.win_next = g.win_next /\ g'.winx = g.winx
              /\ g'.segs = g.segs /\ g'.map = g.map /\ g'.plim = g.plim
              /\ g'.bail = g.bail

(* A step by which a CPU goes on in the window keeps what is known of it,   *)
(* if the CPU goes to a place that it may be at.                            *)
LEMMA QuietTest ==
    ASSUME NEW l \in {LOW, HIGH}, Typed, TestFrom(l), NEW c \in CPUs, Step(c),
           ~PickCpu(c), SameWindow,
           pc'[c] \in {"ready", "while", "sched"} \cup InWindow, pc'[c] # "compute",
           pc'[c] = "window" => Master(c),
           ToTake(c)' <=> ToTake(c), ToCompute(c)' <=> ToCompute(c),
           AllRun /\ (\E d \in CPUs : ToCompute(d)) => Gathering',
           pc'[c] \in Testers /\ ~g.bail => MappedAvoids(l, cpu'[c].win),
           pc'[c] \in Holding /\ ~g.bail => AreaAvoids(l, cpu'[c].area),
           pc'[c] = "access" => AreaAvoids(l, cpu'[c].area)
    PROVE  TestFrom(l)'
  <1>0. CPUs' = CPUs
    BY DEF CPUs
  <1>1. /\ AllRun' <=> AllRun
        /\ NoneRuns' <=> NoneRuns
        /\ \A d \in CPUs : cpu'[d].run = cpu[d].run
        /\ g'.mstr_cpu = g.mstr_cpu
    BY TeamKept
  <1>2. \A d \in CPUs \ {c} : pc'[d] = pc[d] /\ cpu'[d] = cpu[d]
    BY EntersTest, CpuFrame
  <1>3. \A d \in CPUs : /\ Master(d)' <=> Master(d)
                        /\ ToTake(d)' <=> ToTake(d)
                        /\ ToCompute(d)' <=> ToCompute(d)
    BY <1>1, <1>2 DEF Master, ToTake, ToCompute
  <1>4. /\ WindowAvoids(l)' <=> WindowAvoids(l)
        /\ MapAvoids(l)' <=> MapAvoids(l)
        /\ Above1MB' <=> Above1MB
        /\ g'.window = g.window /\ g'.bail = g.bail
    BY DEF SameWindow, WindowAvoids, AlignedWindow, MapAvoids, EntryAvoids, Above1MB
  <1> USE DEF TestFrom
  <1>5. \A d \in CPUs : /\ pc'[d] \in {"ready", "while", "sched"} \cup InWindow
                        /\ pc'[d] \in {"window", "compute"} => Master(d)'
    BY <1>2, <1>3
  <1>6. /\ AllRun' /\ (\E d \in CPUs : ToCompute(d)') => Gathering'
        /\ (\E d \in CPUs : pc'[d] = "compute") => WindowAvoids(l)'
        /\ ~NoneRuns' /\ ~(\E d \in CPUs : ToTake(d)') => Above1MB'
        /\ ~NoneRuns' /\ ~(\E d \in CPUs : ToCompute(d)') /\ ~g'.bail => MapAvoids(l)'
        /\ l = LOW => g'.window # 0
    BY <1>1, <1>2, <1>3, <1>4
  <1>7. \A d \in CPUs :
          /\ pc'[d] \in Testers /\ ~g'.bail => MappedAvoids(l, cpu'[d].win)
          /\ pc'[d] \in Holding /\ ~g'.bail => AreaAvoids(l, cpu'[d].area)
          /\ pc'[d] = "access" => AreaAvoids(l, cpu'[d].area)
    BY <1>2, <1>4
  <1> QED BY <1>0, <1>5, <1>6, <1>7 DEF MappedAvoids, AreaAvoids

(* What is known while a window is tested from the copy at l.               *)
Playing(l) == /\ Typed /\ Fields /\ RunInv /\ Teamed
              /\ InLoop /\ Here(l) /\ TestFrom(l)

LEMMA PlayingBusy ==
    ASSUME NEW l \in {LOW, HIGH}, Playing(l), NEW c \in CPUs, pc[c] \in InWindow,
           ~ToCompute(c), pc[c] \notin GatheringPlaces \/ c \in sub.out
    PROVE  /\ ~NoneRuns /\ (~\E d \in CPUs : ToCompute(d))
           /\ Above1MB
           /\ ~g.bail => MapAvoids(l)
  <1>1. ~NoneRuns /\ ~\E d \in CPUs : ToCompute(d)
    BY Busy DEF Playing, TestFrom, GatherFirst
  <1> QED BY <1>1 DEF Playing, TestFrom, ToCompute

LEMMA SelectedTest ==
    ASSUME NEW l \in {LOW, HIGH}, Playing(l), NEW c \in CPUs, Step(c), Selected(c)
    PROVE  TestFrom(l)'
  <1>1. /\ pc[c] = "ready" /\ ~PickCpu(c) /\ Typed /\ TestFrom(l) /\ SameWindow
        /\ sub' = sub /\ cpu' = cpu /\ g' = g
        /\ pc'[c] = IF ~cpu[c].run THEN "while"
                    ELSE IF Master(c) THEN "window" ELSE "segments"
    BY Origins DEF Selected, Goto, Typed, Located, Playing, SameWindow
  <1>2. \A d \in CPUs \ {c} : pc'[d] = pc[d]
    BY <1>1, EntersTest
  <1>3. /\ ToTake(c)' <=> ToTake(c)
        /\ ToCompute(c)' <=> ToCompute(c)
    BY <1>1 DEF ToTake, ToCompute, Master
  <1>4. ASSUME AllRun, \E d \in CPUs : ToCompute(d) PROVE Gathering'
    <2>1. Gathering /\ cpu[c].run
      BY <1>1, <1>4 DEF TestFrom, AllRun
    <2> QED BY <1>1, <1>2, <2>1, GatheringKept DEF GatheringPlaces
  <1>5. pc'[c] \in {"while", "window", "segments"}
    BY <1>1
  <1> QED BY <1>1, <1>3, <1>4, <1>5, QuietTest DEF InWindow, Testers, Holding

LEMMA LoopTest ==
    ASSUME NEW l \in {LOW, HIGH}, Playing(l), NEW c \in CPUs, Step(c), WindowLoop(c)
    PROVE  TestFrom(l)'
  <1>0. MemEnd \in Nat /\ WIN_SZ \in Nat /\ g.win_next \in Nat
    BY ZeroCpu, WindowSize DEF Playing, Typed, Globals
  <1>1. /\ pc[c] = "while" /\ ~PickCpu(c) /\ Typed /\ TestFrom(l) /\ SameWindow
        /\ pc'[c] = "sched"
    BY <1>0, Origins DEF WindowLoop, Goto, Typed, Located, Playing, SameWindow, InLoop
  <1>2. ~ToTake(c) /\ ~ToCompute(c) /\ ~ToTake(c)' /\ ~ToCompute(c)'
    BY <1>1 DEF ToTake, ToCompute
  <1>3. ~Gathering
    BY <1>1 DEF Gathering
  <1>4. ~(AllRun /\ \E d \in CPUs : ToCompute(d))
    BY <1>1, <1>3 DEF TestFrom
  <1> QED BY <1>1, <1>2, <1>4, QuietTest DEF Testers, Holding

LEMMA WaitTest ==
    ASSUME NEW l \in {LOW, HIGH}, Playing(l), NEW c \in CPUs, Step(c),
           WaitSegments(c)
    PROVE  TestFrom(l)'
  <1>1. /\ pc[c] = "segments" /\ ~PickCpu(c) /\ Typed /\ TestFrom(l) /\ SameWindow
        /\ pc'[c] = "segments_bar"
    BY Origins DEF WaitSegments, Goto, Typed, Located, Playing, SameWindow
  <1>2. ~ToTake(c) /\ ~ToCompute(c) /\ ~ToTake(c)' /\ ~ToCompute(c)'
    BY <1>1 DEF ToTake, ToCompute
  <1>3. ASSUME AllRun, \E d \in CPUs : ToCompute(d) PROVE Gathering'
    BY <1>1, <1>3, GatheringGrows DEF TestFrom
  <1> QED BY <1>1, <1>2, <1>3, QuietTest DEF Testers, Holding, InWindow

LEMMA MapTest ==
    ASSUME NEW l \in {LOW, HIGH}, Playing(l), NEW c \in CPUs, Step(c), MapWindow(c)
    PROVE  TestFrom(l)'
  <1>1. /\ pc[c] = "segments_bar" /\ c \in sub.out /\ ~PickCpu(c) /\ Typed
        /\ TestFrom(l) /\ SameWindow
        /\ pc'[c] \in {"while", "prepare", "sync", "load"}
        /\ cpu'[c].win = IF g.segs = 0 THEN 0 ELSE g.map[1].base \div WIN_SZ
    BY Origins DEF MapWindow, Begin, SubDepart, Goto, Typed, Located, Shape, Playing,
           Fields, SameWindow
  <1>2. ~ToTake(c) /\ ~ToCompute(c) /\ ~ToTake(c)' /\ ~ToCompute(c)'
    BY <1>1 DEF ToTake, ToCompute
  <1>3. (~\E d \in CPUs : ToCompute(d)) /\ (~g.bail => MapAvoids(l))
    BY <1>1, <1>2, PlayingBusy DEF InWindow
  <1>4. ASSUME MapAvoids(l) PROVE MappedAvoids(l, cpu'[c].win)
    <2>1. CASE g.segs = 0
      BY <1>1, <2>1 DEF MappedAvoids
    <2>2. CASE g.segs # 0
      <3>1. EntryAvoids(l, g.map[1])
        BY <1>4, <2>2 DEF MapAvoids
      <3> DEFINE b == g.map[1].base
      <3>2. b \in Nat /\ (l = HIGH => b < WIN_SZ)
        BY <3>1 DEF EntryAvoids, LOW, HIGH
      <3>3. cpu'[c].win = b \div WIN_SZ
        BY <1>1, <2>2
      <3> HIDE DEF b
      <3>4. b \div WIN_SZ \in Nat /\ (b < WIN_SZ => b \div WIN_SZ = 0)
        BY <3>2, Euclid, FirstWindow
      <3> QED BY <3>2, <3>3, <3>4 DEF MappedAvoids
    <2> QED BY <2>1, <2>2
  <1> QED BY <1>1, <1>2, <1>3, <1>4, QuietTest DEF Holding, InWindow

LEMMA LoadTest ==
    ASSUME NEW l \in {LOW, HIGH}, Playing(l), NEW c \in CPUs, Step(c), Load(c)
    PROVE  TestFrom(l)'
  <1>1. /\ pc[c] = "load" /\ ~PickCpu(c) /\ Typed /\ TestFrom(l) /\ SameWindow
        /\ cpu'[c].win = cpu[c].win
        /\ \/ pc'[c] = "tick" /\ cpu'[c].area \in {{}, Area(c)}
           \/ pc'[c] = "done"
    BY Origins DEF Load, Goto, Typed, Located, Shape, Playing, Fields, SameWindow
  <1>6. OneRuns \/ AllRun
    BY <1>1 DEF Playing, RunInv, Teamed, Team, NoneRuns, InTest, InWindow
  <1>2. ~ToTake(c) /\ ~ToCompute(c) /\ ~ToTake(c)' /\ ~ToCompute(c)'
    BY <1>1 DEF ToTake, ToCompute
  <1>3. (~\E d \in CPUs : ToCompute(d)) /\ (~g.bail => MapAvoids(l))
    BY <1>1, <1>2, PlayingBusy DEF InWindow, GatheringPlaces
  <1>4. ~g.bail => MappedAvoids(l, cpu[c].win)
    BY <1>1 DEF TestFrom, Testers
  <1>5. pc'[c] = "tick" /\ ~g.bail => AreaAvoids(l, cpu'[c].area)
    <2>1. AreaAvoids(l, {})
      BY DEF AreaAvoids
    <2> QED BY <1>1, <1>3, <1>4, <1>6, <2>1, AreaOfMap
  <1> QED BY <1>1, <1>2, <1>3, <1>4, <1>5, QuietTest DEF Holding, Testers, InWindow

(* The rest of a round of the test.                                         *)
LEMMA RoundTest ==
    ASSUME NEW l \in {LOW, HIGH}, Playing(l), NEW c \in CPUs, Step(c),
           \/ Sync(c) \/ Synced(c) \/ WaitTick(c) \/ TickDone(c) \/ Bail(c)
           \/ Access(c) \/ Done(c)
    PROVE  TestFrom(l)'
  <1>1. /\ pc[c] \in {"sync", "synced", "tick_bar", "ticked", "bailr", "access", "done"}
        /\ ~PickCpu(c) /\ Typed /\ TestFrom(l)
    BY Origins DEF Playing
  <1>2. SameWindow
    BY DEF Sync, Synced, WaitTick, TickDone, Bail, Access, Done, Playing, Typed, Shape, Fields,
           SameWindow
  <1>3. /\ cpu'[c].win = cpu[c].win \/ pc[c] = "done"
        /\ cpu'[c].area = cpu[c].area \/ pc[c] = "done"
    <2>1. CASE Sync(c) \/ Synced(c) \/ WaitTick(c) \/ TickDone(c) \/ Bail(c)
      BY <2>1 DEF Sync, Synced, WaitTick, TickDone, Bail
    <2>2. CASE Access(c)
      BY <2>2 DEF Access, Playing, Typed, Shape, Fields
    <2>3. CASE Done(c)
      BY <2>3, Origins
    <2> QED BY <2>1, <2>2, <2>3
  <1>4. \/ pc[c] = "sync" /\ pc'[c] = "synced"
        \/ pc[c] = "synced" /\ pc'[c] = "load"
        \/ pc[c] = "tick_bar" /\ pc'[c] = "ticked"
        \/ pc[c] = "ticked" /\ pc'[c] = "bailr"
        \/ pc[c] = "bailr" /\ pc'[c] = "done"
        \/ pc[c] = "bailr" /\ ~g.bail /\ pc'[c] = "access"
        \/ pc[c] = "access" /\ pc'[c] = "load"
        \/ pc[c] = "done" /\ pc'[c] = "while"
    BY DEF Sync, Synced, WaitTick, TickDone, Bail, Access, Done, Goto, Playing, Typed, Located
  <1>5. ~ToTake(c) /\ ~ToCompute(c) /\ ~ToTake(c)' /\ ~ToCompute(c)'
    BY <1>4 DEF ToTake, ToCompute
  <1>6. ~\E d \in CPUs : ToCompute(d)
    BY <1>1, <1>5, PlayingBusy DEF InWindow, GatheringPlaces
  <1>7. /\ pc[c] \in Testers /\ ~g.bail => MappedAvoids(l, cpu[c].win)
        /\ pc[c] \in Holding /\ ~g.bail => AreaAvoids(l, cpu[c].area)
    BY <1>1 DEF TestFrom
  <1>8. /\ pc'[c] \in {"ready", "while", "sched"} \cup InWindow
        /\ pc'[c] \notin {"compute", "window"}
        /\ pc'[c] \in Testers /\ ~g.bail => MappedAvoids(l, cpu'[c].win)
        /\ pc'[c] \in Holding /\ ~g.bail => AreaAvoids(l, cpu'[c].area)
        /\ pc'[c] = "access" => AreaAvoids(l, cpu'[c].area)
    BY <1>3, <1>4, <1>7 DEF Testers, Holding, InWindow
  <1> QED BY <1>1, <1>2, <1>5, <1>6, <1>8, QuietTest

(* The window that the master takes.                                        *)
LEMMA TakenWindow ==
    ASSUME Typed, Fields, NEW c \in CPUs, TakeWindow(c)
    PROVE  /\ g'.segs = g.segs /\ g'.map = g.map /\ g'.plim = g.plim
           /\ g'.bail = g.bail
           /\ \/ /\ g.window = 0 /\ g'.window = 1 /\ g'.win_next = g.win_next
                 /\ g'.winx = [start |-> 0, end |-> win1_end]
              \/ /\ g.window = 1 /\ g'.window = 2 /\ g'.win_next = WIN_SZ
                 /\ g'.winx = [start |-> win0_start, end |-> WIN_SZ]
              \/ /\ g.window \notin {0, 1} /\ g'.window = g.window
                 /\ g'.win_next = g.win_next + WIN_SZ
                 /\ g'.winx = [start |-> g.win_next, end |-> g.win_next + WIN_SZ]
  <1> USE DEF Typed, Shape, Fields
  <1>1. CASE g.window = 0
    <2>1. g' = [g EXCEPT !.winx = [start |-> 0, end |-> win1_end], !.window = 1]
      BY <1>1 DEF TakeWindow
    <2> QED BY <1>1, <2>1
  <1>2. CASE g.window = 1
    <2>1. g' = [g EXCEPT !.winx = [start |-> win0_start, end |-> WIN_SZ],
                              !.win_next = WIN_SZ, !.window = 2]
      BY <1>2 DEF TakeWindow
    <2> QED BY <1>2, <2>1
  <1>3. CASE g.window # 0 /\ g.window # 1
    <2>1. g' = [g EXCEPT !.winx = [start |-> g.win_next,
                                        end   |-> g.win_next + WIN_SZ],
                              !.win_next = @ + WIN_SZ]
      BY <1>3 DEF TakeWindow
    <2> QED BY <1>3, <2>1
  <1> QED BY <1>1, <1>2, <1>3

LEMMA TakenAbove ==
    ASSUME Typed, Fields, NEW c \in CPUs, TakeWindow(c)
    PROVE  Above1MB'
  <1>1. WIN_SZ \in Nat /\ g.window \in Nat /\ g.win_next \in Nat
    BY WindowSize DEF Typed, Globals
  <1>2. \/ g'.window = 1
        \/ g'.win_next = WIN_SZ
        \/ g'.win_next = g.win_next + WIN_SZ
    BY TakenWindow
  <1> QED BY <1>1, <1>2 DEF Above1MB

LEMMA TakeTest ==
    ASSUME NEW l \in {LOW, HIGH}, Playing(l), Numbered, l = HIGH => TestHigh,
           NEW c \in CPUs, Step(c), TakeWindow(c)
    PROVE  IF InLoop' THEN TestFrom(l)' ELSE l = LOW /\ PastEnd'
  <1>0. CPUs' = CPUs
    BY DEF CPUs
  <1>1. /\ pc[c] = "window" /\ pc' = [pc EXCEPT ![c] = "compute"] /\ pc'[c] = "compute"
        /\ cpu' = cpu /\ sub' = sub /\ at' = at /\ ~PickCpu(c)
        /\ \A d \in CPUs \ {c} : pc'[d] = pc[d]
    BY Origins DEF TakeWindow, Goto, bars, Playing, Typed, Located
  <1>2. Master(c) /\ cpu[c].run /\ Team
    BY <1>1 DEF Playing, TestFrom, RunInv, Teamed, InTest, InWindow
  <1>3. /\ AllRun' <=> AllRun
        /\ NoneRuns' <=> NoneRuns
        /\ g'.mstr_cpu = g.mstr_cpu
    BY <1>1, TeamKept DEF Playing
  <1>4. /\ \A d \in CPUs : Master(d)' <=> Master(d)
        /\ \A d \in CPUs : Master(d) => d = c
    BY <1>2, <1>3 DEF Master
  <1>5. ToTake(c) /\ ToCompute(c) /\ ToCompute(c)' /\ \A d \in CPUs : ~ToTake(d)'
    BY <1>1, <1>2, <1>4 DEF ToTake, ToCompute
  <1>6. g'.window # 0
    BY TakeFrame DEF Playing, Typed
  <1>7. AllRun => Gathering'
    <2> SUFFICES ASSUME AllRun PROVE Gathering'
      OBVIOUS
    <2>1. Gathering
      BY <1>5 DEF Playing, TestFrom
    <2> QED BY <1>1, <2>1, GatheringKept DEF GatheringPlaces
  <1>8. Typed /\ Fields /\ TestFrom(l)
    BY DEF Playing
  <1>a. CASE InLoop'
    <2>9. 0 * WIN_SZ = 0 /\ (0 + 1) * WIN_SZ = WIN_SZ
      BY WindowSize
    <2>1. WindowAvoids(l)'
      <3>0. /\ WIN_SZ \in Nat /\ win0_start \in Nat /\ win1_end \in Nat
            /\ g.win_next \in Nat /\ g.plim.lower \in Nat /\ g.window \in Nat
            /\ win0_start <= WIN_SZ /\ win1_end <= WIN_SZ
        BY SchedulerAssumption, PlacesAssumption DEF Playing, Typed, Globals
      <3>1. CASE l = HIGH
        <4>1. g.window = 0
          BY <1>1, <1>2, <3>1 DEF TestHigh
        <4>2. g'.winx = [start |-> 0, end |-> win1_end]
          BY <1>8, <4>1, TakenWindow
        <4>3. AlignedWindow'
          BY <2>9, <3>0, <4>2 DEF AlignedWindow
        <4> QED BY <3>0, <3>1, <4>2, <4>3 DEF WindowAvoids, LOW, HIGH
      <3>2. CASE l = LOW
        <4>1. g.window # 0
          BY <3>2 DEF Playing, TestFrom
        <4>2. g'.plim = g.plim
          BY <1>8, TakenWindow
        <4>3. CASE g.window = 1
          <5>1. g'.winx = [start |-> win0_start, end |-> WIN_SZ]
            BY <1>8, <4>3, TakenWindow
          <5>2. AlignedWindow'
            BY <2>9, <3>0, <5>1 DEF AlignedWindow
          <5> QED BY <3>0, <3>2, <4>2, <5>1, <5>2 DEF WindowAvoids, LargerOf
        <4>4. CASE g.window # 1
          <5>1. g'.winx = [start |-> g.win_next, end |-> g.win_next + WIN_SZ]
            BY <1>8, <4>1, <4>4, TakenWindow
          <5>2. g.win_next >= win0_start \/ g.plim.lower >= win0_start
            BY <3>0, <4>1, <4>4 DEF Numbered, Above1MB
          <5>3. AlignedWindow'
            <6>1. PICK n \in Nat : g.win_next = n * WIN_SZ
              BY DEF Playing, Fields, Aligned
            <6>2. n * WIN_SZ + WIN_SZ = (n + 1) * WIN_SZ
              BY <3>0
            <6> QED BY <3>0, <5>1, <6>1, <6>2 DEF AlignedWindow
          <5> QED BY <3>0, <3>2, <4>2, <5>1, <5>2, <5>3 DEF WindowAvoids, LargerOf
        <4> QED BY <4>3, <4>4
      <3> QED BY <3>1, <3>2
    <2>2. Above1MB'
      BY TakenAbove DEF Playing
    <2>3. \A d \in CPUs : /\ pc'[d] \in {"ready", "while", "sched"} \cup InWindow
                          /\ pc'[d] \in {"window", "compute"} => Master(d)'
      BY <1>1, <1>2, <1>4, <1>8 DEF TestFrom, InWindow
    <2>4. g'.bail = g.bail
      BY <1>8, TakenWindow
    <2>5. \A d \in CPUs :
          /\ pc'[d] \in Testers /\ ~g'.bail => MappedAvoids(l, cpu'[d].win)
          /\ pc'[d] \in Holding /\ ~g'.bail => AreaAvoids(l, cpu'[d].area)
          /\ pc'[d] = "access" => AreaAvoids(l, cpu'[d].area)
      BY <1>1, <1>8, <2>4 DEF TestFrom, Testers, Holding
    <2> QED BY <1>a, <1>0, <1>5, <1>6, <1>7, <1>3, <2>1, <2>2, <2>3, <2>5
         DEF TestFrom, MappedAvoids, AreaAvoids
  <1>b. CASE ~InLoop'
    <2>0. /\ WIN_SZ \in Nat /\ MemEnd \in Nat /\ g.win_next \in Nat
          /\ g.win_next <= MemEnd + WIN_SZ
      BY WindowSize, ZeroCpu DEF Playing, Typed, Globals, InLoop
    <2>1. /\ g'.win_next = g.win_next + WIN_SZ /\ g.window \notin {0, 1}
          /\ g'.winx = [start |-> g.win_next, end |-> g.win_next + WIN_SZ]
      <3>1. g'.win_next # g.win_next /\ g'.win_next # WIN_SZ
        BY <1>b, <2>0 DEF InLoop
      <3> QED BY <1>8, <3>1, TakenWindow
    <2>2. l = LOW
      <3>1. l = HIGH => g.window = 0
        BY <1>1, <1>2 DEF TestHigh
      <3> QED BY <2>1, <3>1
    <2>3. g'.winx \in [start : Nat, end : Nat] /\ g'.winx.start >= MemEnd
      <3>1. g.win_next >= MemEnd
        BY <1>b, <2>0, <2>1 DEF InLoop
      <3> QED BY <2>0, <2>1, <3>1
    <2>4. ASSUME NEW d \in CPUs
          PROVE  pc'[d] \in (GatheringPlaces \ {"window"}) \cup {"while", "sched"}
      <3>1. d = c \/ pc[d] \notin InWindow \/ pc[d] \in GatheringPlaces \ {"window"}
        <4>1. CASE AllRun
          <5>1. pc[d] \in GatheringPlaces /\ (pc[d] = "window" => d = c)
            BY <1>4, <1>5, <1>8, <4>1 DEF TestFrom, Gathering, GatheringPlaces
          <5> QED BY <5>1
        <4>2. CASE OneRuns
          BY <1>4, <4>2 DEF OneRuns, Playing, RunInv
        <4>3. CASE NoneRuns
          BY <1>2, <4>3 DEF NoneRuns
        <4> QED BY <1>2, <4>1, <4>2, <4>3 DEF Team
      <3>2. d = c \/ pc[d] \in {"ready", "while", "sched"}
                \/ pc[d] \in GatheringPlaces \ {"window"}
        BY <1>8, <3>1 DEF TestFrom
      <3> QED BY <1>1, <3>2 DEF GatheringPlaces
    <2>5. \A d \in CPUs : /\ pc'[d] \in {"first", "ready", "sched", "compute", "segments",
                                      "segments_bar"} \cup Returning \cup Ending
                          /\ pc'[d] # "house"
                          /\ pc'[d] = "compute" => Master(d)'
      <3>1. \A d \in CPUs : pc'[d] = "compute" => Master(d)'
        BY <1>1, <1>2, <1>4, <1>8 DEF TestFrom
      <3> QED BY <2>4, <3>1 DEF GatheringPlaces, Returning
    <2>6. \A d \in CPUs : ~ToTake(d)'
      BY <1>5
    <2>7. /\ \E d \in CPUs : pc'[d] = "compute"
          /\ AllRun' => Gathering'
      BY <1>1, <1>3, <1>7
    <2>8. PastEnd'
      BY <1>0, <2>3, <2>5, <2>6, <2>7 DEF PastEnd
    <2> QED BY <1>b, <2>2, <2>8
  <1> QED BY <1>a, <1>b

LEMMA ComputeTest ==
    ASSUME NEW l \in {LOW, HIGH}, Playing(l), NEW c \in CPUs, Step(c), Compute(c)
    PROVE  TestFrom(l)'
  <1> DEFINE entries == Segments(g.winx, g.plim)
  <1>0. CPUs' = CPUs /\ Typed /\ Fields /\ TestFrom(l)
    BY DEF CPUs, Playing
  <1>1. /\ pc[c] = "compute" /\ pc'[c] = "segments" /\ cpu' = cpu /\ ~PickCpu(c)
        /\ \A d \in CPUs \ {c} : pc'[d] = pc[d]
    BY Origins DEF Compute, Goto, Playing, Typed, Located
  <1>2. Master(c) /\ cpu[c].run /\ Team
    BY <1>1 DEF Playing, TestFrom, RunInv, Teamed, InTest, InWindow
  <1>3. g'.mstr_cpu = g.mstr_cpu
    BY <1>0, <1>1, TeamKept
  <1>4. /\ \A d \in CPUs : Master(d)' <=> Master(d)
        /\ \A d \in CPUs : Master(d) => d = c
    BY <1>2, <1>3 DEF Master
  <1>5. \A d \in CPUs : ~ToTake(d) /\ ~ToTake(d)' /\ ~ToCompute(d)'
    BY <1>1, <1>4 DEF ToTake, ToCompute
  <1>6. \A d \in CPUs : pc'[d] # "compute"
    BY <1>0, <1>1, <1>4 DEF TestFrom
  <1>7. /\ g'.segs = Len(entries) /\ g'.map = Overwrite(g.map, entries)
        /\ g'.bail = g.bail /\ g'.window = g.window /\ g'.win_next = g.win_next
    BY <1>0 DEF Compute, Typed, Shape, Fields
  <1>8. MapAvoids(l)'
    <2>1. WindowAvoids(l)
      BY <1>0, <1>1 DEF TestFrom
    <2>2. /\ Len(entries) \in Nat /\ DOMAIN entries = 1 .. Len(entries)
          /\ \A k \in 1 .. Len(entries) : EntryAvoids(l, entries[k])
      BY <1>0, <2>1, SegmentsAvoid DEF Typed, Globals, Fields
    <2> HIDE DEF entries
    <2>3. /\ 1 .. Len(entries) \subseteq DOMAIN g'.map
          /\ \A k \in 1 .. Len(entries) : g'.map[k] = entries[k]
      BY <1>7, <2>2 DEF Overwrite
    <2> QED BY <1>7, <2>2, <2>3 DEF MapAvoids, EntryAvoids
  <1> HIDE DEF entries
  <1>9. Above1MB'
    <2>1. ~NoneRuns
      BY <1>2 DEF NoneRuns
    <2>2. Above1MB
      BY <1>0, <1>5, <2>1 DEF TestFrom
    <2> QED BY <1>7, <2>2 DEF Above1MB
  <1>10. \A d \in CPUs :
          /\ pc'[d] \in {"ready", "while", "sched"} \cup InWindow
          /\ pc'[d] \in {"window", "compute"} => Master(d)'
          /\ pc'[d] \in Testers /\ ~g'.bail => MappedAvoids(l, cpu'[d].win)
          /\ pc'[d] \in Holding /\ ~g'.bail => AreaAvoids(l, cpu'[d].area)
          /\ pc'[d] = "access" => AreaAvoids(l, cpu'[d].area)
    BY <1>0, <1>1, <1>4, <1>7 DEF TestFrom, Testers, Holding, InWindow
  <1>11. l = LOW => g'.window # 0
    BY <1>0, <1>7 DEF TestFrom
  <1> QED BY <1>0, <1>5, <1>6, <1>8, <1>9, <1>10, <1>11
       DEF TestFrom, MappedAvoids, AreaAvoids

(* Moving the start of the first segment.                                   *)
LEMMA FirstSegment ==
    ASSUME NEW l \in {LOW, HIGH}, MapAvoids(l), NEW v,
           g'.segs = g.segs, g'.map = [g.map EXCEPT ![1].start = v],
           g.segs # 0 => v \in Nat /\ (l = LOW => v = g.map[1].start)
    PROVE  MapAvoids(l)'
  <1>1. ASSUME NEW i \in 1 .. g.segs PROVE EntryAvoids(l, g'.map[i])
    <2>1. EntryAvoids(l, g.map[i]) /\ i \in DOMAIN g.map /\ g.segs # 0
      BY DEF MapAvoids
    <2>2. CASE i # 1
      BY <2>1, <2>2
    <2>3. CASE i = 1
      <3>1. g'.map[i] = [g.map[i] EXCEPT !.start = v]
        BY <2>1, <2>3
      <3>2. g.map[i] \in [base : Nat, start : Nat, end : Nat]
        BY <2>1 DEF EntryAvoids
      <3>3. /\ g'.map[i] \in [base : Nat, start : Nat, end : Nat]
            /\ g'.map[i].start = v /\ g'.map[i].end = g.map[i].end
            /\ g'.map[i].base = g.map[i].base
        BY <2>1, <3>1, <3>2
      <3> QED BY <2>1, <3>3 DEF EntryAvoids
    <2> QED BY <2>2, <2>3
  <1>2. DOMAIN g'.map = DOMAIN g.map
    OBVIOUS
  <1> QED BY <1>1, <1>2 DEF MapAvoids, EntryAvoids

(* do_test() moves it from the high copy only, and never below 0.           *)
LEMMA PrepareTest ==
    ASSUME NEW l \in {LOW, HIGH}, Playing(l), NEW c \in CPUs, Step(c),
           Prepare(c) \/ Prepared(c)
    PROVE  TestFrom(l)'
  <1> DEFINE v == IF Prepare(c) THEN IF l = HIGH THEN Mapping(g.plim.lower)
                                     ELSE g.map[1].start
                  ELSE IF g.map[1].start < 1 THEN 1 ELSE g.map[1].start
  <1>0. CPUs' = CPUs /\ Typed /\ Fields /\ TestFrom(l)
    BY DEF CPUs, Playing
  <1>1. /\ pc[c] \in {"prepare", "prepared"} /\ pc'[c] \in {"prepared", "sync", "load"}
        /\ cpu' = cpu /\ ~PickCpu(c)
        /\ \A d \in CPUs \ {c} : pc'[d] = pc[d]
    BY Origins DEF Prepare, Prepared, Begin, Goto, Playing, Typed, Located
  <1>2. /\ g'.window = g.window /\ g'.win_next = g.win_next /\ g'.bail = g.bail
        /\ g'.segs = g.segs /\ g'.map = [g.map EXCEPT ![1].start = v]
        /\ g'.mstr_cpu = g.mstr_cpu
    <2>1. CASE Prepare(c)
      BY <1>0, <2>1 DEF Prepare, Typed, Shape, Fields, Playing, Here
    <2>2. CASE ~Prepare(c)
      BY <1>0, <2>2 DEF Prepared, Typed, Shape, Fields
    <2> QED BY <2>1, <2>2
  <1>3. ~ToTake(c) /\ ~ToCompute(c) /\ ~ToTake(c)' /\ ~ToCompute(c)'
    BY <1>1 DEF ToTake, ToCompute
  <1>4. /\ ~\E d \in CPUs : ToCompute(d)
        /\ Above1MB /\ (~g.bail => MapAvoids(l))
    BY <1>1, <1>3, PlayingBusy DEF InWindow, GatheringPlaces
  <1>5. ~\E d \in CPUs : ToCompute(d)'
    BY <1>1, <1>2, <1>4 DEF ToCompute, ToTake, Master
  <1>6. ASSUME MapAvoids(l) PROVE MapAvoids(l)'
    <2>1. g.segs # 0 => v \in Nat /\ (l = LOW => v = g.map[1].start)
      <3> SUFFICES ASSUME g.segs # 0 PROVE v \in Nat /\ (l = LOW => v = g.map[1].start)
        OBVIOUS
      <3>1. EntryAvoids(l, g.map[1])
        BY <1>6 DEF MapAvoids
      <3>2. /\ g.map[1].start \in Nat
            /\ l = LOW => g.map[1].start >= win0_start
        BY <3>1 DEF EntryAvoids
      <3>3. Mapping(g.plim.lower) \in Nat /\ LOW # HIGH /\ win0_start \in Nat \ {0}
        BY <1>0, MappingType, SchedulerAssumption DEF Typed, Globals, LOW, HIGH
      <3> QED BY <3>2, <3>3
    <2> HIDE DEF v
    <2> QED BY <1>2, <1>6, <2>1, FirstSegment
  <1> HIDE DEF v
  <1>7. \A d \in CPUs :
          /\ pc'[d] \in {"ready", "while", "sched"} \cup InWindow
          /\ pc'[d] \in {"window", "compute"} => Master(d)'
          /\ pc'[d] \in Testers /\ ~g'.bail => MappedAvoids(l, cpu'[d].win)
          /\ pc'[d] \in Holding /\ ~g'.bail => AreaAvoids(l, cpu'[d].area)
          /\ pc'[d] = "access" => AreaAvoids(l, cpu'[d].area)
    <2>1. CASE Prepare(c)
      <3>1. pc[c] = "prepare"
        BY <2>1, Origins
      <3> QED BY <1>0, <1>1, <1>2, <3>1 DEF TestFrom, Testers, Holding, InWindow, Master
    <2>2. CASE ~Prepare(c)
      BY <1>0, <1>1, <1>2, <2>2 DEF TestFrom, Testers, Holding, InWindow, Master
    <2> QED BY <2>1, <2>2
  <1>8. (l = LOW => g'.window # 0) /\ Above1MB'
    BY <1>0, <1>2, <1>4 DEF TestFrom, Above1MB
  <1>9. \A d \in CPUs : pc'[d] # "compute"
    <2>1. \A d \in CPUs : pc[d] # "compute"
      BY <1>0, <1>4 DEF TestFrom, ToCompute
    <2> QED BY <1>1, <2>1
  <1>10. ~g'.bail => MapAvoids(l)'
    BY <1>2, <1>4, <1>6
  <1> QED BY <1>0, <1>5, <1>7, <1>8, <1>9, <1>10
       DEF TestFrom, MappedAvoids, AreaAvoids

(* The menu may change the list of segments or the limits while CPUs test,  *)
(* but not without bail.                                                    *)
LEMMA TickTest ==
    ASSUME NEW l \in {LOW, HIGH}, Playing(l), NoDefault, NEW c \in CPUs, Step(c),
           Tick(c)
    PROVE  TestFrom(l)' /\ Above1MB'
  <1>0. CPUs' = CPUs /\ Typed /\ Fields /\ TestFrom(l)
    BY DEF CPUs, Playing
  <1>1. /\ pc[c] = "tick" /\ pc'[c] = "tick_bar" /\ cpu' = cpu /\ ~PickCpu(c)
        /\ \A d \in CPUs \ {c} : pc'[d] = pc[d]
    BY Origins DEF Tick, Goto, Playing, Typed, Located
  <1>2. Kept(g') /\ LeavesWindow(g')
    <2>1. CASE Master(c)
      BY <1>0, <2>1, QuietInput DEF Tick, Typed
    <2>2. CASE ~Master(c)
      <3>1. g' = g
        BY <2>2 DEF Tick
      <3> QED BY <1>0, <3>1 DEF Kept, LeavesWindow, Fields
    <2> QED BY <2>1, <2>2
  <1>3. ~ToTake(c) /\ ~ToCompute(c) /\ ~ToTake(c)' /\ ~ToCompute(c)'
    BY <1>1 DEF ToTake, ToCompute
  <1>4. /\ ~\E d \in CPUs : ToCompute(d)
        /\ Above1MB /\ (~g.bail => MapAvoids(l))
    BY <1>1, <1>3, PlayingBusy DEF InWindow, GatheringPlaces
  <1>5. ~\E d \in CPUs : ToCompute(d)'
    BY <1>1, <1>2, <1>4 DEF ToCompute, ToTake, Master, Kept
  <1>6. ~g'.bail => ~g.bail /\ MapAvoids(l)'
    BY <1>2, <1>4 DEF LeavesWindow, MapAvoids, EntryAvoids
  <1>7. \A d \in CPUs :
          /\ pc'[d] \in {"ready", "while", "sched"} \cup InWindow
          /\ pc'[d] \in {"window", "compute"} => Master(d)'
          /\ pc'[d] \in Testers /\ ~g'.bail => MappedAvoids(l, cpu'[d].win)
          /\ pc'[d] \in Holding /\ ~g'.bail => AreaAvoids(l, cpu'[d].area)
          /\ pc'[d] = "access" => AreaAvoids(l, cpu'[d].area)
    BY <1>0, <1>1, <1>2, <1>6 DEF TestFrom, Testers, Holding, InWindow, Master, Kept
  <1>8. (l = LOW => g'.window # 0) /\ Above1MB'
    BY <1>0, <1>2, <1>4 DEF TestFrom, Above1MB, Kept
  <1>9. \A d \in CPUs : pc'[d] # "compute"
    <2>1. \A d \in CPUs : pc[d] # "compute"
      BY <1>0, <1>4 DEF TestFrom, ToCompute
    <2> QED BY <1>1, <2>1
  <1> QED BY <1>0, <1>5, <1>6, <1>7, <1>8, <1>9
       DEF TestFrom, MappedAvoids, AreaAvoids

LEMMA TestStep ==
    ASSUME NEW l \in {LOW, HIGH}, Playing(l), Numbered, NoDefault,
           IF l = HIGH THEN TestHigh ELSE WorkLow, NEW c \in CPUs, Step(c)
    PROVE  /\ IF InLoop' THEN TestFrom(l)' ELSE l = LOW /\ PastEnd'
           /\ Numbered'
  <1>0. \/ Selected(c) \/ WindowLoop(c) \/ TakeWindow(c) \/ Compute(c)
        \/ WaitSegments(c) \/ MapWindow(c) \/ Prepare(c) \/ Prepared(c)
        \/ Sync(c) \/ Synced(c) \/ Load(c) \/ Tick(c) \/ WaitTick(c) \/ TickDone(c) \/ Bail(c) \/ Access(c)
        \/ Done(c)
    <2>1. ~FadeWindow(c)
      BY DEF TestHigh, WorkLow, Between, FadeWindow, Meet!Depart, Goto, InWindow,
             Returning, Ending
    <2>2. pc[c] \in {"ready", "while", "sched"} \cup InWindow
      BY DEF Playing, TestFrom
    <2>3. CASE pc[c] = "sched"
      BY <2>1, <2>3, Origins DEF Step
    <2> QED BY <2>2, <2>3, InWindowActions
  <1>1. CASE TakeWindow(c)
    <2>1. Numbered'
      BY <1>1, TakenAbove DEF Playing, Numbered
    <2>2. l = HIGH => TestHigh
      OBVIOUS
    <2> QED BY <1>1, <2>1, <2>2, TakeTest
  <1>2. CASE ~TakeWindow(c)
    <2>1. g'.win_next = g.win_next /\ Numbered'
      <3>1. CASE Tick(c)
        <4>1. g'.win_next = g.win_next
          <5>1. CASE Master(c)
            BY <3>1, <5>1, InputFrame DEF Tick, Kept, Playing, Typed
          <5>2. CASE ~Master(c)
            BY <3>1, <5>2 DEF Tick
          <5> QED BY <5>1, <5>2
        <4> QED BY <3>1, <4>1, TickTest DEF Numbered
      <3>2. CASE ~Tick(c)
        <4>1. ~Changes(c)
          BY <1>0, <1>2, <3>2, Origins DEF Changes
        <4> QED BY <4>1, SettledStep DEF Settled, Playing, Typed, Numbered, Above1MB
      <3> QED BY <3>1, <3>2
    <2>2. InLoop'
      BY <2>1 DEF Playing, InLoop
    <2>3. TestFrom(l)'
      BY <1>0, <1>2, SelectedTest, LoopTest, ComputeTest, WaitTest, MapTest, LoadTest,
         RoundTest, PrepareTest, TickTest
    <2> QED BY <2>1, <2>2, <2>3
  <1> QED BY <1>1, <1>2

----------------------------------------------------------------------------
(* After the last window.                                                   *)

Housekeeping(c) ==
    \/ FirstBarrier(c) \/ Top(c) \/ Defaults(c) \/ Restarted(c) \/ NewTest(c)
    \/ LoadIters(c) \/ SetIters(c) \/ WindowLoop(c) \/ EndWindows(c) \/ ResetWindows(c)
    \/ HouseInput(c) \/ RestartTest(c) \/ NextStage(c) \/ Advance(c)
    \/ NextTest(c) \/ Scan(c) \/ Rescan(c) \/ EndPass(c) \/ NewPass(c) \/ Unbail(c)

PastActions(c) == Housekeeping(c) \/ Selected(c) \/ Compute(c) \/ WaitSegments(c)
                  \/ MapWindow(c)

LEMMA PastOnly ==
    ASSUME WorkLow, PastEnd, NEW c \in CPUs, Step(c)
    PROVE  PastActions(c)
  <1>1. ~FadeWindow(c)
    BY DEF WorkLow, Between, FadeWindow, Meet!Depart, Goto, InWindow, Returning, Ending
  <1>2. /\ pc[c] \in {"first", "ready", "sched", "compute", "segments",
                     "segments_bar"} \cup Returning \cup Ending
    BY DEF PastEnd
  <1> QED BY <1>1, <1>2, Origins DEF Step, PastActions, Housekeeping, Returning, Ending

(* Between two tests the windows begin anew or stay where they are, and no  *)
(* list of segments is made.                                                *)
LEMMA HouseFrame ==
    ASSUME Typed, Fields, NoDefault, NEW c \in CPUs, Step(c), Housekeeping(c)
    PROVE  /\ g'.winx = g.winx /\ g'.segs = g.segs
           /\ \/ g'.window = g.window /\ g'.win_next = g.win_next
              \/ g'.window = 0 /\ g'.win_next = 0
           /\ HouseInput(c) \/ g'.window = 0 \/ g'.plim = g.plim
  <1> USE DEF Typed, Shape, Fields
  <1>1. CASE UNCHANGED g
    BY <1>1
  <1>2. CASE Defaults(c)
    <2>1. g'.winx = g.winx /\ g'.segs = g.segs
      BY <1>2 DEF Defaults, SetDefaults
    <2> QED BY <1>2, <2>1, DefaultsFrame DEF Defaults
  <1>3. CASE Restarted(c) \/ NewTest(c) \/ SetIters(c)
    BY <1>3 DEF Restarted, NewTest, SetIters
  <1>4. CASE ResetWindows(c)
    BY <1>4 DEF ResetWindows
  <1>5. CASE HouseInput(c)
    BY <1>5, QuietInput DEF HouseInput, Kept, LeavesWindow
  <1>6. CASE RestartTest(c) \/ NextStage(c) \/ Advance(c)
    BY <1>6 DEF RestartTest, NextStage, Advance
  <1>7. CASE NextTest(c) \/ Scan(c) \/ Rescan(c)
    BY <1>7 DEF NextTest, Scan, Rescan
  <1>8. CASE EndPass(c) \/ NewPass(c) \/ Unbail(c)
    BY <1>8 DEF EndPass, NewPass, Unbail
  <1> QED BY <1>1, <1>2, <1>3, <1>4, <1>5, <1>6, <1>7, <1>8
     DEF Housekeeping, FirstBarrier, Top, LoadIters, WindowLoop, EndWindows

(* Where it leads.                                                          *)
LEMMA HouseWay ==
    ASSUME Typed, NEW c \in CPUs, Step(c), Housekeeping(c)
    PROVE  /\ pc[c] \in {"first"} \cup Returning \cup Ending
           /\ pc'[c] \in {"sched"} \cup Returning \cup Ending
           /\ pc'[c] = "house" => ResetWindows(c)
           /\ ResetWindows(c) => g'.win_next = 0 /\ g'.window = 0
           /\ \/ InLoop /\ UNCHANGED g
              \/ pc'[c] \in {"end_win", "end_bar"}
              \/ ResetWindows(c)
              \/ pc[c] \notin {"compute", "segments", "segments_bar",
                              "while", "end_win", "end_bar"}
  <1>0. /\ g.win_next \in Nat /\ MemEnd \in Nat /\ WIN_SZ \in Nat
        /\ InLoop <=> ~(g.win_next > MemEnd + WIN_SZ)
    BY ZeroCpu, WindowSize DEF Typed, Globals, InLoop
  <1> USE DEF Goto, Typed, Located, Returning, Ending
  <1>1. CASE FirstBarrier(c) \/ Top(c) \/ Defaults(c) \/ Restarted(c) \/ NewTest(c)
             \/ LoadIters(c) \/ SetIters(c)
    <2>1. /\ pc[c] \in {"first", "top", "defaults", "restarted", "setup", "iters",
                       "set_iters"}
          /\ ~ResetWindows(c)
      BY <1>1, Origins
    <2>2. pc'[c] \in {"top", "defaults", "setup", "restarted", "while", "iters",
                     "set_iters"}
      BY <1>1 DEF FirstBarrier, Top, Defaults, Restarted, NewTest, LoadIters, SetIters
    <2> QED BY <2>1, <2>2
  <1>2. CASE WindowLoop(c)
    <2>1. pc[c] = "while" /\ UNCHANGED g /\ ~ResetWindows(c)
      BY <1>2, Origins DEF WindowLoop
    <2>2. (InLoop /\ pc'[c] = "sched") \/ pc'[c] = "end_win"
      BY <1>2 DEF WindowLoop, InLoop
    <2> QED BY <2>1, <2>2
  <1>3. CASE EndWindows(c)
    BY <1>3, Origins DEF EndWindows
  <1>4. CASE ResetWindows(c)
    BY <1>4, Origins DEF ResetWindows, Shape
  <1>5. CASE HouseInput(c) \/ RestartTest(c) \/ NextStage(c) \/ Advance(c)
    <2>1. pc[c] \in {"house", "advance"} /\ ~ResetWindows(c)
      BY <1>5, Origins
    <2>2. pc'[c] \in {"advance", "end_pass", "top", "next_test"}
      BY <1>5 DEF HouseInput, RestartTest, NextStage, Advance
    <2> QED BY <2>1, <2>2
  <1>6. CASE NextTest(c) \/ Scan(c) \/ Rescan(c) \/ EndPass(c) \/ NewPass(c) \/ Unbail(c)
    <2>1. /\ pc[c] \in {"next_test", "scan", "rescan", "end_pass", "new_pass", "unbail"}
          /\ ~ResetWindows(c)
      BY <1>6, Origins
    <2>2. pc'[c] \in {"scan", "rescan", "end_pass", "new_pass", "unbail", "top"}
      BY <1>6 DEF NextTest, Scan, Rescan, EndPass, NewPass, Unbail
    <2> QED BY <2>1, <2>2
  <1> QED BY <1>1, <1>2, <1>3, <1>4, <1>5, <1>6 DEF Housekeeping

Straggling == {"compute", "segments", "segments_bar", "while", "end_win", "end_bar"}
PastPlaces == {"first", "ready", "sched", "compute", "segments", "segments_bar"}
                  \cup Returning \cup Ending

(* A step that lists no memory keeps what is known after the last window.   *)
LEMMA QuietPast ==
    ASSUME Typed, PastEnd, NEW c \in CPUs, Step(c), ~PickCpu(c),
           g'.winx = g.winx, g'.segs = g.segs, g'.window \in {0, g.window},
           pc[c] # "compute", pc'[c] \in PastPlaces \ {"compute"}, ~ToTake(c)',
           pc'[c] = "house" => g'.window = 0,
           AllRun /\ (\E d \in CPUs : pc[d] = "compute") => Gathering',
           pc'[c] \in {"segments", "segments_bar"} =>
               pc[c] \in {"segments", "segments_bar"} \/ (pc[c] = "ready" /\ cpu[c].run),
           pc'[c] # "ready",
           \/ InLoop'
           \/ pc'[c] \in Straggling
           \/ g'.win_next = g.win_next /\ pc[c] \notin Straggling
    PROVE  PastEnd'
  <1>0. CPUs' = CPUs
    BY DEF CPUs
  <1>1. /\ AllRun' <=> AllRun
        /\ \A d \in CPUs : cpu'[d].run = cpu[d].run
        /\ g'.mstr_cpu = g.mstr_cpu
    BY TeamKept
  <1>2. \A d \in CPUs \ {c} : pc'[d] = pc[d]
    BY EntersTest
  <1>3. \A d \in CPUs : Master(d)' <=> Master(d)
    BY <1>1 DEF Master
  <1>4. (\E d \in CPUs : pc'[d] = "compute") <=> (\E d \in CPUs : pc[d] = "compute")
    BY <1>2
  <1> USE DEF PastEnd
  <1>5. \A d \in CPUs :
          /\ pc'[d] \in PastPlaces
          /\ ~ToTake(d)'
          /\ pc'[d] = "compute" => Master(d)'
          /\ pc'[d] = "house" => g'.window = 0
    BY <1>1, <1>2, <1>3 DEF ToTake, PastPlaces
  <1>6. (\E d \in CPUs : pc'[d] = "compute") =>
           /\ g'.winx \in [start : Nat, end : Nat] /\ g'.winx.start >= MemEnd
           /\ AllRun' => Gathering'
    BY <1>1, <1>4
  <1>7. ~(\E d \in CPUs : pc'[d] = "compute") /\ (\E d \in CPUs :
           pc'[d] \in {"segments", "segments_bar"} \/ (pc'[d] = "ready" /\ cpu'[d].run))
           => g'.segs = 0
    BY <1>1, <1>2, <1>4
  <1>8. InLoop' \/ \E d \in CPUs : pc'[d] \in Straggling
    <2>1. CASE g'.win_next = g.win_next /\ pc[c] \notin Straggling
      <3>1. InLoop' <=> InLoop
        BY <2>1 DEF InLoop
      <3>2. ASSUME NEW d \in CPUs, pc[d] \in Straggling PROVE pc'[d] \in Straggling
        BY <1>2, <2>1, <3>2
      <3> QED BY <3>1, <3>2 DEF Straggling
    <2> QED BY <2>1
  <1> QED BY <1>0, <1>5, <1>6, <1>7, <1>8 DEF PastPlaces, Straggling

LEMMA PastStep ==
    ASSUME Typed, Fields, RunInv, Teamed, WorkLow, PastEnd, Numbered, NoDefault,
           NEW c \in CPUs, Step(c)
    PROVE  PastEnd' /\ Numbered'
  <1>0. PastActions(c)
    BY PastOnly
  <1>1. ~PickCpu(c)
    <2>1. pc[c] # "pick"
      BY DEF PastEnd, Returning, Ending
    <2> QED BY <2>1, Origins
  <1>2. GatherFirst
    BY DEF GatherFirst, PastEnd, ToCompute
  <1>3. AllRun /\ (\E d \in CPUs : pc[d] = "compute") => Gathering
    BY DEF PastEnd
  <1>4. CASE Housekeeping(c)
    <2>1. /\ g'.winx = g.winx /\ g'.segs = g.segs /\ g'.window \in {0, g.window}
          /\ g'.win_next \in {0, g.win_next}
      BY <1>4, HouseFrame
    <2>2. /\ pc[c] \in {"first"} \cup Returning \cup Ending
          /\ pc'[c] \in {"sched"} \cup Returning \cup Ending
          /\ pc'[c] = "house" => g'.window = 0
      BY <1>4, HouseWay
    <2>3. ~(AllRun /\ \E d \in CPUs : pc[d] = "compute")
      <3>1. ~Gathering
        BY <2>2 DEF Gathering, Returning, Ending
      <3> QED BY <1>3, <3>1
    <2>4. \/ InLoop'
          \/ pc'[c] \in Straggling
          \/ g'.win_next = g.win_next /\ pc[c] \notin Straggling
      <3>0. 0 <= MemEnd + WIN_SZ
        BY ZeroCpu, WindowSize
      <3>1. g'.win_next = 0 => InLoop'
        BY <3>0 DEF InLoop
      <3>2. UNCHANGED g /\ InLoop => InLoop'
        BY DEF InLoop
      <3>3. \/ InLoop /\ UNCHANGED g
            \/ pc'[c] \in {"end_win", "end_bar"}
            \/ g'.win_next = 0
            \/ pc[c] \notin Straggling
        BY <1>4, HouseWay DEF Straggling
      <3> QED BY <2>1, <3>1, <3>2, <3>3 DEF Straggling
    <2>5. /\ pc[c] # "compute" /\ pc'[c] \in PastPlaces \ {"compute"} /\ ~ToTake(c)'
          /\ pc'[c] \notin {"ready", "segments", "segments_bar"}
      BY <2>2 DEF PastPlaces, ToTake, Returning, Ending
    <2>6. PastEnd'
      BY <1>1, <2>1, <2>2, <2>3, <2>4, <2>5, QuietPast
    <2>7. Numbered'
      <3>1. HouseInput(c) => g.window = 0
        BY Origins DEF PastEnd
      <3>2. /\ (g'.window = g.window /\ g'.win_next = g.win_next) \/ g'.window = 0
            /\ g'.window = 0 \/ g'.plim = g.plim
        BY <1>4, <3>1, HouseFrame
      <3> QED BY <3>2 DEF Numbered, Above1MB
    <2> QED BY <2>6, <2>7
  <1>5. CASE Compute(c)
    <2>1. /\ pc[c] = "compute" /\ pc'[c] = "segments" /\ cpu' = cpu
          /\ \A d \in CPUs \ {c} : pc'[d] = pc[d]
      BY <1>5, Origins DEF Compute, Goto, Typed, Located
    <2>2. Master(c) /\ g'.mstr_cpu = g.mstr_cpu
      BY <1>1, <2>1, TeamKept DEF PastEnd
    <2>3. /\ \A d \in CPUs : Master(d)' <=> Master(d)
          /\ \A d \in CPUs : Master(d) => d = c
      BY <2>2 DEF Master
    <2>4. g'.segs = 0
      <3>1. Len(Segments(g.winx, g.plim)) = 0
        BY <2>1, SegmentsBeyond DEF PastEnd, Typed, Globals, Fields
      <3> QED BY <1>5, <3>1 DEF Compute, Typed, Shape, Fields
    <2>5. \A d \in CPUs : pc'[d] # "compute"
      BY <2>1, <2>3 DEF PastEnd
    <2>6. ~Changes(c)
      BY <2>1, Origins DEF Changes
    <2>7. Settled
      BY <2>6, SettledStep DEF Typed
    <2>8. \A d \in CPUs :
          /\ pc'[d] \in {"first", "ready", "sched", "compute", "segments",
                        "segments_bar"} \cup Returning \cup Ending
          /\ ~ToTake(d)'
          /\ pc'[d] = "house" => g'.window = 0
      BY <2>1, <2>3, <2>7 DEF PastEnd, ToTake, Settled
    <2>9. CPUs' = CPUs
      BY DEF CPUs
    <2>10. PastEnd'
      BY <2>1, <2>4, <2>5, <2>8, <2>9 DEF PastEnd
    <2> QED BY <2>7, <2>10 DEF Settled, Numbered, Above1MB
  <1>6. CASE Selected(c) \/ WaitSegments(c) \/ MapWindow(c)
    <2>1. UNCHANGED g
      BY <1>6 DEF Selected, WaitSegments, MapWindow
    <2>2. Numbered'
      BY <2>1 DEF Numbered, Above1MB
    <2>3. \A d \in CPUs \ {c} : pc'[d] = pc[d]
      BY EntersTest
    <2>4. CASE Selected(c)
      <3>1. /\ pc[c] = "ready" /\ sub' = sub
            /\ pc'[c] = IF ~cpu[c].run THEN "while"
                        ELSE IF Master(c) THEN "window" ELSE "segments"
        BY <2>4, Origins DEF Selected, Goto, Typed, Located
      <3>2. ~(Master(c) /\ cpu[c].run)
        BY <3>1 DEF PastEnd, ToTake
      <3>3. pc'[c] = "while" \/ (pc'[c] = "segments" /\ cpu[c].run)
        BY <3>1, <3>2
      <3>4. ASSUME AllRun, \E d \in CPUs : pc[d] = "compute" PROVE Gathering'
        <4>1. Gathering /\ pc'[c] = "segments"
          BY <1>3, <3>1, <3>2, <3>4 DEF AllRun
        <4> QED BY <2>3, <3>1, <4>1, GatheringKept DEF GatheringPlaces
      <3>5. PastEnd'
        BY <1>1, <2>1, <3>1, <3>3, <3>4, QuietPast
           DEF PastPlaces, Returning, Straggling, ToTake
      <3> QED BY <2>2, <3>5
    <2>5. CASE WaitSegments(c)
      <3>1. pc[c] = "segments" /\ pc'[c] = "segments_bar"
        BY <2>5, Origins DEF WaitSegments, Goto, Typed, Located
      <3>2. ASSUME AllRun, \E d \in CPUs : pc[d] = "compute" PROVE Gathering'
        <4>1. PICK d \in CPUs : pc[d] = "compute"
          BY <3>2
        <4>2. Gathering /\ ToCompute(d)
          BY <1>3, <3>2, <4>1 DEF PastEnd, ToCompute
        <4> QED BY <2>5, <3>2, <4>2, GatheringGrows
      <3>3. PastEnd'
        BY <1>1, <2>1, <3>1, <3>2, QuietPast DEF PastPlaces, Straggling, ToTake
      <3> QED BY <2>2, <3>3
    <2>6. CASE MapWindow(c)
      <3>1. /\ pc[c] = "segments_bar" /\ c \in sub.out
            /\ pc'[c] \in {"while", "prepare", "sync", "load"}
            /\ g.segs = 0 => pc'[c] = "while"
        BY <2>6, Origins DEF MapWindow, Begin, SubDepart, Goto, Typed, Located
      <3>2. ~\E d \in CPUs : ToCompute(d)
        BY <1>2, <3>1, Busy DEF ToCompute, ToTake, InWindow
      <3>3. ~\E d \in CPUs : pc[d] = "compute"
        BY <3>2 DEF ToCompute, PastEnd
      <3>4. g.segs = 0
        BY <3>1, <3>3 DEF PastEnd
      <3>5. PastEnd'
        BY <1>1, <2>1, <3>1, <3>3, <3>4, QuietPast
           DEF PastPlaces, Returning, Straggling, ToTake
      <3> QED BY <2>2, <3>5
    <2> QED BY <1>6, <2>4, <2>5, <2>6
  <1> QED BY <1>0, <1>4, <1>5, <1>6 DEF PastActions

----------------------------------------------------------------------------
(* The inductive invariant.                                                 *)
SelfInv == StagesInv /\ Fields /\ Teamed /\ Chosen /\ Numbered /\ Inner

LEMMA ChooseInner ==
    ASSUME Typed, InLoop, Numbered, ChooseLow \/ ChooseHigh, NEW c \in CPUs, Step(c)
    PROVE  InLoop' /\ (ChooseLow \/ ChooseHigh)' /\ Numbered'
  <1>1. (ChooseLow \/ ChooseHigh)'
    BY LowStep, HighStep
  <1>2. \/ FadeWindow(c) \/ RelocLow(c) \/ SkipLow(c) \/ NextWindow(c) \/ RelocHigh(c)
        \/ Copy(c) \/ PickCpu(c)
    <2>1. Between({"sched"}, Choosing, {"copied", "picked"})
      BY DEF ChooseLow, ChooseHigh, Between
    <2> QED BY <2>1, ChoosingActions
  <1>3. g'.win_next = g.win_next /\ g'.plim = g.plim
           /\ (g'.window = g.window \/ g'.window < 2 \/ g.plim.lower >= win0_start)
    <2>1. CASE FadeWindow(c)
      BY <2>1 DEF FadeWindow, Typed, Shape
    <2>2. CASE NextWindow(c)
      <3>1. pc[c] = "next_window"
        BY <2>2, Origins
      <3>2. g.plim.lower >= win0_start
        BY <3>1 DEF ChooseLow, LowPath, ChooseHigh, Between, Choosing
      <3> QED BY <2>2, <3>2 DEF NextWindow, Typed, Shape
    <2>3. CASE ~FadeWindow(c) /\ ~NextWindow(c)
      <3>1. ~Changes(c)
        BY <1>2, <2>3, Origins DEF Changes
      <3> QED BY <3>1, SettledStep DEF Settled, Typed
    <2> QED BY <2>1, <2>2, <2>3
  <1> QED BY <1>1, <1>3 DEF InLoop, Numbered, Above1MB

LEMMA MoveInner ==
    ASSUME Typed, InLoop, Numbered, NEW c \in CPUs, Step(c),
           Moving(LOW, HIGH) \/ Moving(HIGH, LOW)
    PROVE  InLoop' /\ (Moving(LOW, HIGH) \/ Moving(HIGH, LOW))' /\ Numbered'
  <1>1. (Moving(LOW, HIGH) \/ Moving(HIGH, LOW))'
    BY MovingStep
  <1>2. pc[c] \in {"copied", "jump", "startup", "first"} /\ ~Changes(c)
    <2>1. pc[c] \in {"copied", "jump", "startup", "first"}
      BY DEF Moving, Between
    <2> QED BY <2>1, Origins DEF Changes
  <1> QED BY <1>1, <1>2, SettledStep DEF Typed, Settled, InLoop, Numbered, Above1MB

LEMMA ReturnInner ==
    ASSUME Typed, ReturnHigh, NEW c \in CPUs, Step(c)
    PROVE  InLoop' /\ ReturnHigh' /\ Numbered'
  <1>1. ReturnHigh'
    BY ReturnStep
  <1>2. g'.win_next = 0 /\ g'.window = 0
    BY <1>1 DEF ReturnHigh
  <1>3. 0 <= MemEnd + WIN_SZ
    BY ZeroCpu, WindowSize
  <1> QED BY <1>1, <1>2, <1>3 DEF InLoop, Numbered, Above1MB

LEMMA PickInner ==
    ASSUME Typed, InLoop, Numbered, Picking, Readying, NEW c \in CPUs, Step(c)
    PROVE  InLoop' /\ Picking' /\ Readying' /\ Numbered'
  <1>1. Picking'
    BY PickingStep
  <1>2. SubInit(c) \/ SubReady(c)
    <2>1. ~Selected(c)
      BY DEF Picking, Between, Selected, Meet!Depart, Goto
    <2>2. pc[c] \in {"picked", "sub_ready", "ready"}
      BY DEF Picking, Between
    <2> QED BY <2>1, <2>2, Origins DEF Step
  <1>3. UNCHANGED <<g, cpu>> /\ CPUs' = CPUs
    BY <1>2 DEF SubInit, SubReady, CPUs
  <1>4. \A d \in CPUs \ {c} : pc'[d] = pc[d]
    BY EntersTest
  <1>5. ASSUME NEW d \in CPUs, Master(d), pc'[d] \in {"sub_ready", "ready"}
        PROVE  sub' = [max |-> g.run_cpus, in |-> {}, out |-> {}]
    <2>1. CASE SubInit(c)
      BY <1>4, <1>5, <2>1 DEF SubInit, Readying, Master
    <2>2. CASE SubReady(c)
      <3>1. pc[d] \in {"sub_ready", "ready"} /\ sub' = sub
        BY <1>4, <1>5, <2>2, Origins DEF SubReady
      <3> QED BY <1>5, <3>1 DEF Readying
    <2> QED BY <1>2, <2>1, <2>2
  <1>6. Readying'
    BY <1>3, <1>5 DEF Readying, Here, Master
  <1> QED BY <1>1, <1>3, <1>6 DEF InLoop, Numbered, Above1MB

(* When the barrier opens after the choice, a window is about to be taken   *)
(* and the sub barrier is ready for the team.                               *)
LEMMA TestBegins ==
    ASSUME Typed, Teamed, Readying, NEW l \in {LOW, HIGH}, Here(l),
           \A c \in CPUs : pc[c] = "ready"
    PROVE  TestFrom(l)
  <1>1. Team
    BY ZeroCpu DEF Teamed, InTest
  <1>2. ASSUME ~NoneRuns
        PROVE  \E c \in CPUs : ToTake(c)
    <2>1. CASE OneRuns
      BY <1>2, <2>1 DEF OneRuns, NoneRuns, ToTake
    <2>2. CASE AllRun
      BY <2>2 DEF AllRun, ToTake, Master
    <2> QED BY <1>1, <1>2, <2>1, <2>2 DEF Team
  <1>3. ASSUME AllRun PROVE Gathering
    <2>1. g.mstr_cpu \in CPUs /\ Master(g.mstr_cpu)
      BY <1>3 DEF AllRun, Master
    <2>2. sub = [max |-> N, in |-> {}, out |-> {}]
      BY <1>3, <2>1 DEF AllRun, Readying
    <2> QED BY <2>2 DEF Gathering
  <1>4. l = LOW => g.window # 0
    BY DEF Readying
  <1> QED BY <1>2, <1>3, <1>4 DEF TestFrom, Testers, Holding, ToCompute

(* The barrier opens.                                                       *)
LEMMA MeetInner ==
    ASSUME Typed, Teamed, Inner, MeetOpens
    PROVE  Inner'
  <1>0. Meet!Open /\ UNCHANGED <<g, pc, cpu, sub>> /\ 0 \in CPUs /\ CPUs' = CPUs
    BY ZeroCpu DEF MeetOpens, CPUs
  <1>a. \A c \in CPUs : at[c] = "arrived" /\ at'[c] = "released"
    BY <1>0 DEF Meet!Open
  <1>b. InLoop' <=> InLoop
    BY <1>0 DEF InLoop
  <1>1. CASE InLoop /\ ChooseLow
    <2>1. \A c \in CPUs : pc[c] \in {"copied", "picked"} /\ LowPath(c)
      BY <1>1, <1>a DEF ChooseLow, Between
    <2>2. CASE g.window = 0
      <3>1. \A c \in CPUs : pc[c] = "copied" /\ ~Skips
        BY <2>1, <2>2 DEF LowPath
      <3>2. Moving(LOW, HIGH)'
        BY <1>0, <1>1, <1>a, <2>2, <3>1 DEF Moving, Between, ChooseLow, Here, Skips
      <3> QED BY <1>b, <1>1, <3>2 DEF Inner
    <2>3. CASE g.window # 0
      <3>1. \A c \in CPUs : pc[c] = "picked"
        BY <2>1, <2>3 DEF LowPath
      <3>2. Picking'
        BY <1>0, <1>1, <1>a, <3>1 DEF Picking, Between, ChooseLow, Here
      <3>3. Readying'
        BY <1>0, <2>3, <3>1 DEF Readying
      <3> QED BY <1>b, <1>1, <3>2, <3>3 DEF Inner
    <2> QED BY <2>2, <2>3
  <1>2. CASE InLoop /\ ChooseHigh
    <2>1. \A c \in CPUs : pc[c] \in {"copied", "picked"} /\ HighPath(c)
      BY <1>2, <1>a DEF ChooseHigh, Between
    <2>2. CASE g.window # 0
      <3>1. \A c \in CPUs : pc[c] = "copied"
        BY <2>1, <2>2 DEF HighPath
      <3>2. Moving(HIGH, LOW)'
        BY <1>0, <1>2, <1>a, <3>1 DEF Moving, Between, ChooseHigh, Here, LOW, HIGH
      <3> QED BY <1>b, <1>2, <3>2 DEF Inner
    <2>3. CASE g.window = 0
      <3>1. \A c \in CPUs : pc[c] = "picked"
        BY <2>1, <2>3 DEF HighPath
      <3>2. Picking'
        BY <1>0, <1>2, <1>a, <2>3, <3>1 DEF Picking, Between, ChooseHigh, Here, Skips
      <3>3. Readying'
        <4>1. ~Here(LOW)
          BY <1>0, <1>2 DEF ChooseHigh, Here, LOW, HIGH
        <4>2. ~Here(LOW)'
          BY <4>1, <1>0 DEF Here
        <4> QED BY <1>0, <3>1, <4>2 DEF Readying
      <3> QED BY <1>b, <1>2, <3>2, <3>3 DEF Inner
    <2> QED BY <2>2, <2>3
  <1>3. CASE InLoop /\ Moving(LOW, HIGH)
    <2>1. \A c \in CPUs : pc[c] = "first" /\ cpu[c].loc = HIGH
      BY <1>3, <1>a DEF Moving, Between
    <2>2. g.window = 0 /\ g.win_next = 0 /\ ~Skips
      BY <1>3 DEF Moving, Typed, Globals
    <2>3. ReturnHigh'
      BY <1>0, <1>a, <2>1, <2>2 DEF ReturnHigh, Between, Here, Skips
    <2> QED BY <1>b, <1>3, <2>3 DEF Inner
  <1>4. CASE InLoop /\ Moving(HIGH, LOW)
    <2>1. \A c \in CPUs : pc[c] = "first" /\ cpu[c].loc = LOW
      BY <1>4, <1>a DEF Moving, Between
    <2>2. WorkLow'
      BY <1>0, <1>a, <2>1 DEF WorkLow, Between, Here
    <2>3. PastEnd'
      <3>1. \A c \in CPUs : pc'[c] = "first" /\ ~ToTake(c)'
        BY <1>0, <2>1 DEF ToTake
      <3> QED BY <1>0, <1>b, <1>4, <3>1 DEF PastEnd
    <2> QED BY <2>2, <2>3 DEF Inner
  <1>5. CASE InLoop /\ ReturnHigh
    <2>1. \A c \in CPUs : pc[c] = "sched"
      BY <1>5, <1>a DEF ReturnHigh, Between
    <2>2. ChooseHigh'
      BY <1>0, <1>5, <1>a, <2>1 DEF ReturnHigh, ChooseHigh, Between, Here, Skips,
             HighPath
    <2> QED BY <1>b, <1>5, <2>2 DEF Inner
  <1>6. CASE InLoop /\ Picking /\ Readying
    <2>1. \A c \in CPUs : pc[c] = "ready"
      BY <1>6, <1>a DEF Picking, Between
    <2>a. \A c \in CPUs : pc'[c] = "ready"
      BY <1>0, <2>1
    <2>2. CASE Here(LOW)
      <3>1. WorkLow'
        BY <1>0, <1>a, <2>1, <2>2 DEF WorkLow, Between, Here
      <3>2. TestFrom(LOW)
        BY <1>6, <2>1, <2>2, TestBegins
      <3>3. TestFrom(LOW)'
        BY <1>0, <3>2 DEF TestFrom, NoneRuns, AllRun, ToTake, ToCompute, Master,
           Gathering, WindowAvoids, AlignedWindow, MapAvoids, EntryAvoids, MappedAvoids, AreaAvoids,
           Above1MB
      <3> QED BY <1>b, <1>6, <3>1, <3>3 DEF Inner
    <2>3. CASE Here(HIGH) /\ g.window = 0 /\ ~Skips
      <3>1. TestHigh'
        BY <1>0, <1>a, <2>1, <2>3 DEF TestHigh, Between, Here, Skips, Typed,
               Globals, InWindow
      <3>2. TestFrom(HIGH)
        BY <1>6, <2>1, <2>3, TestBegins
      <3>3. TestFrom(HIGH)'
        BY <1>0, <3>2 DEF TestFrom, NoneRuns, AllRun, ToTake, ToCompute, Master,
           Gathering, WindowAvoids, AlignedWindow, MapAvoids, EntryAvoids, MappedAvoids, AreaAvoids,
           Above1MB
      <3> QED BY <1>b, <1>6, <3>1, <3>3 DEF Inner
    <2> QED BY <1>6, <2>2, <2>3 DEF Picking
  <1>7. CASE InLoop /\ TestHigh
    <2>1. \A c \in CPUs : pc[c] = "sched"
      BY <1>7, <1>a DEF TestHigh, Between
    <2>2. ChooseHigh'
      BY <1>0, <1>7, <1>a, <2>1 DEF TestHigh, ChooseHigh, Between, Here, Skips,
             HighPath
    <2> QED BY <1>b, <1>7, <2>2 DEF Inner
  <1>8. CASE WorkLow /\ ((InLoop /\ TestFrom(LOW)) \/ PastEnd)
    <2>1. \A c \in CPUs : pc[c] = "sched"
      BY <1>8, <1>a DEF WorkLow, Between
    <2>2. ChooseLow'
      BY <1>0, <1>8, <1>a, <2>1 DEF WorkLow, ChooseLow, Between, Here, LowPath
    <2>3. InLoop
      BY <1>8, <2>1 DEF PastEnd
    <2> QED BY <1>b, <2>2, <2>3 DEF Inner
  <1> QED BY <1>1, <1>2, <1>3, <1>4, <1>5, <1>6, <1>7, <1>8 DEF Inner

LEMMA InnerStep ==
    ASSUME SelfInv, NoDefault, NEW c \in CPUs, Step(c)
    PROVE  Inner' /\ Numbered'
  <1>0. Typed /\ Fields /\ RunInv /\ Teamed /\ Numbered /\ Inner
    BY DEF SelfInv, StagesInv
  <1>1. CASE InLoop /\ (ChooseLow \/ ChooseHigh)
    BY <1>0, <1>1, ChooseInner DEF Inner
  <1>2. CASE InLoop /\ (Moving(LOW, HIGH) \/ Moving(HIGH, LOW))
    BY <1>0, <1>2, MoveInner DEF Inner
  <1>3. CASE ReturnHigh
    BY <1>0, <1>3, ReturnInner DEF Inner
  <1>4. CASE InLoop /\ Picking /\ Readying
    BY <1>0, <1>4, PickInner DEF Inner
  <1>5. CASE InLoop /\ TestHigh /\ TestFrom(HIGH)
    <2>1. Playing(HIGH)
      BY <1>0, <1>5 DEF Playing, TestHigh
    <2>2. (IF InLoop' THEN TestFrom(HIGH)' ELSE HIGH = LOW /\ PastEnd') /\ Numbered'
      BY <1>0, <1>5, <2>1, TestStep
    <2>3. TestHigh' /\ HIGH # LOW
      BY <1>0, <1>5, TestHighStep DEF HIGH, LOW
    <2> QED BY <2>2, <2>3 DEF Inner
  <1>6. CASE InLoop /\ WorkLow /\ TestFrom(LOW)
    <2>1. Playing(LOW) /\ HIGH # LOW
      BY <1>0, <1>6 DEF Playing, WorkLow, HIGH, LOW
    <2>2. (IF InLoop' THEN TestFrom(LOW)' ELSE LOW = LOW /\ PastEnd') /\ Numbered'
      BY <1>0, <1>6, <2>1, TestStep
    <2>3. WorkLow'
      BY <1>0, <1>6, WorkStep
    <2> QED BY <2>2, <2>3 DEF Inner
  <1>7. CASE WorkLow /\ PastEnd
    <2>1. WorkLow'
      BY <1>0, <1>7, WorkStep
    <2>2. PastEnd' /\ Numbered'
      BY <1>0, <1>7, PastStep
    <2> QED BY <2>1, <2>2 DEF Inner
  <1> QED BY <1>0, <1>1, <1>2, <1>3, <1>4, <1>5, <1>6, <1>7 DEF Inner

LEMMA SelfInit == Init => SelfInv
  <1> SUFFICES ASSUME Init PROVE SelfInv
    OBVIOUS
  <1>1. StagesInv
    BY StagesInit
  <1>2. Fields /\ g.window = 0 /\ g.win_next = 0
    <2> DEFINE h == [test |-> 0, ltest |-> -1, c_iter |-> <<-1, TRUE>>, sel |-> <<>>,
      pass |-> 0, pass_flag |-> FALSE, cpu_mode |-> "RROBIN", cpu_sel |-> 0,
      mstr_cpu |-> 0, run_cpus |-> 0, bitf_seq |-> 0, bitf_sleep |-> FALSE,
      window |-> 0, win_next |-> 0, winx |-> WindowOf(0), segs |-> 0,
      map |-> FindChunks([i \in 1 .. Len(Pmap) |->
                             [base |-> 0, start |-> 0, end |-> 0]], AllOf),
      plim |-> AllOf, bail |-> FALSE, restart_flag |-> FALSE,
      restart_single |-> FALSE]
    <2>1. {"bail", "segs", "map", "winx", "plim", "window", "win_next"} \subseteq DOMAIN h
      OBVIOUS
    <2>2. g = SetDefaults(h)
      BY DEF Init, InitGlobals
    <2> HIDE DEF h
    <2>3. /\ DOMAIN g = DOMAIN h
          /\ g.window = 0 /\ g.win_next = 0 /\ g.plim = AllOf
      BY <2>1, <2>2 DEF SetDefaults
    <2>4. \A c \in CPUs : {"win", "area", "k"} \subseteq DOMAIN cpu[c]
      BY DEF Init
    <2>5. 0 * WIN_SZ = 0
      BY WindowSize
    <2> QED BY <2>1, <2>3, <2>4, <2>5, ZeroCpu DEF Fields, Aligned, AllOf
  <1>3. \A c \in CPUs : pc[c] = "first" /\ at[c] = "arrived" /\ cpu[c].loc = LOW
    BY DEF Init
  <1>4. Teamed /\ Chosen
    BY <1>3 DEF Teamed, Chosen, InTest, InWindow
  <1>5. InLoop /\ Numbered
    <2>1. 0 <= MemEnd + WIN_SZ
      BY ZeroCpu, WindowSize
    <2> QED BY <1>2, <2>1 DEF InLoop, Numbered, Above1MB
  <1>6. Moving(HIGH, LOW)
    BY <1>3 DEF Moving, Between, LOW, HIGH
  <1> QED BY <1>1, <1>2, <1>4, <1>5, <1>6 DEF SelfInv, Inner

LEMMA SelfStutter ==
    ASSUME SelfInv, UNCHANGED vars
    PROVE  Inner' /\ Numbered' /\ Fields'
  <1>0. UNCHANGED <<g, pc, cpu, at, sub>> /\ CPUs' = CPUs
    BY DEF vars, CPUs
  <1>1. /\ ChooseLow => ChooseLow'
        /\ ChooseHigh => ChooseHigh'
        /\ Moving(LOW, HIGH) => Moving(LOW, HIGH)'
        /\ Moving(HIGH, LOW) => Moving(HIGH, LOW)'
    BY <1>0 DEF ChooseLow, ChooseHigh, Moving, Between, Here, Skips, LowPath,
           HighPath, Fade
  <1>2. /\ ReturnHigh => ReturnHigh'
        /\ Picking => Picking'
        /\ TestHigh => TestHigh'
        /\ WorkLow => WorkLow'
    BY <1>0 DEF ReturnHigh, Picking, TestHigh, WorkLow, Between, Here, Skips, Master
  <1>3. /\ TestFrom(LOW) => TestFrom(LOW)'
        /\ TestFrom(HIGH) => TestFrom(HIGH)'
    BY <1>0 DEF TestFrom, NoneRuns, AllRun, ToTake, ToCompute, Master,
           Gathering, WindowAvoids, AlignedWindow, MapAvoids, EntryAvoids, MappedAvoids, AreaAvoids,
           Above1MB
  <1>4. PastEnd => PastEnd'
    BY <1>0 DEF PastEnd, AllRun, ToTake, Master, Gathering, InLoop
  <1>5. /\ InLoop => InLoop'
        /\ Readying => Readying'
        /\ Numbered => Numbered'
        /\ Fields => Fields'
    BY <1>0 DEF InLoop, Readying, Here, Master, Numbered, Above1MB, Fields, Aligned
  <1> QED BY <1>1, <1>2, <1>3, <1>4, <1>5 DEF SelfInv, Inner

LEMMA SelfNext == ASSUME NoDefault PROVE SelfInv /\ [Next]_vars => SelfInv'
  <1> SUFFICES ASSUME SelfInv, [Next]_vars PROVE SelfInv'
    OBVIOUS
  <1>1. StagesInv'
    BY StagesInvNext DEF SelfInv
  <1>2. Teamed' /\ Chosen'
    BY TeamInv DEF SelfInv
  <1>3. CASE MeetOpens
    <2>1. UNCHANGED <<g, cpu>> /\ CPUs' = CPUs
      BY <1>3 DEF MeetOpens, CPUs
    <2>2. Numbered' /\ Fields'
      BY <2>1 DEF SelfInv, Numbered, Above1MB, Fields, Aligned
    <2>3. Inner'
      BY <1>3, MeetInner DEF SelfInv, StagesInv
    <2> QED BY <1>1, <1>2, <2>2, <2>3 DEF SelfInv
  <1>4. ASSUME NEW c \in CPUs, Step(c) PROVE SelfInv'
    <2>1. Fields'
      BY <1>4, FieldsStep DEF SelfInv, StagesInv
    <2>2. Inner' /\ Numbered'
      BY <1>4, InnerStep
    <2> QED BY <1>1, <1>2, <2>1, <2>2 DEF SelfInv
  <1>5. CASE UNCHANGED vars
    BY <1>1, <1>2, <1>5, SelfStutter DEF SelfInv
  <1> QED BY <1>3, <1>4, <1>5 DEF Next

(* What a test touches is never the copy of the program that any CPU        *)
(* executes (README.background; main.c:600-616, 676-700): window 0 is       *)
(* tested from the high copy and all other windows from the low one,        *)
(* however many CPUs come and go at their own pace, whichever windows are   *)
(* skipped, and whatever the user changes in the middle of a test.  The     *)
(* exception is the menu entry for the default list of tests, which writes  *)
(* to v->map and lets the test go on (config.c:103).                        *)
THEOREM SelfIsNotTested ==
    ASSUME \A entry \in Inputs : entry[1] # "default"
    PROVE  SafeSpec => []NeverTestsItself
  <1>1. NoDefault
    BY DEF NoDefault
  <1>2. SelfInv => NeverTestsItself
    <2> SUFFICES ASSUME SelfInv, NEW c \in Testing, NEW d \in CPUs
                 PROVE  CodeBlock(d) \notin cpu[c].area
      BY DEF NeverTestsItself
    <2>1. c \in CPUs /\ pc[c] = "access"
      BY DEF Testing
    <2>2. PICK l \in {LOW, HIGH} : Here(l) /\ TestFrom(l)
      <3>1. Inner
        BY DEF SelfInv
      <3>2. ~PastEnd /\ ~Picking /\ ~ChooseLow /\ ~ChooseHigh /\ ~ReturnHigh
            /\ ~Moving(LOW, HIGH) /\ ~Moving(HIGH, LOW)
        BY <2>1 DEF PastEnd, Picking, ChooseLow, ChooseHigh, ReturnHigh, Moving,
               Between, Choosing, Returning, Ending
      <3> QED BY <3>1, <3>2 DEF Inner, TestHigh, WorkLow
    <2>3. AreaAvoids(l, cpu[c].area)
      BY <2>1, <2>2 DEF TestFrom
    <2> QED BY <2>2, <2>3 DEF AreaAvoids, CodeBlock, Here
  <1>3. SelfInv /\ [Next]_vars => SelfInv'
    BY <1>1, SelfNext
  <1> QED BY <1>2, <1>3, SelfInit, PTL DEF SafeSpec

----------------------------------------------------------------------------
(* Nothing is left out. *)

LEMMA RankUnique ==
    ASSUME NEW S, S \subseteq Nat, IsFiniteSet(S), NEW i \in S, NEW j \in S,
           Cardinality({x \in S : x <= i}) = Cardinality({x \in S : x <= j})
    PROVE  i = j
  <1>1. ASSUME NEW a \in S, NEW b \in S, a < b
        PROVE  Cardinality({x \in S : x <= a}) # Cardinality({x \in S : x <= b})
    <2> DEFINE A == {x \in S : x <= a}
               B == {x \in S : x <= b}
    <2>1. IsFiniteSet(B) /\ A \subseteq B /\ b \in B /\ b \notin A
      <3>1. \A x \in S : x \in Nat
        OBVIOUS
      <3>2. B \subseteq S
        OBVIOUS
      <3>3. ASSUME NEW x \in A PROVE x \in B
        <4>1. x \in S /\ x \in Nat /\ a \in Nat /\ b \in Nat /\ x <= a /\ a < b
          BY <1>1, <3>1
        <4> QED BY <4>1
      <3>4. b \in B /\ b \notin A
        <4>1. a \in Nat /\ b \in Nat /\ a < b
          BY <1>1, <3>1
        <4> QED BY <4>1
      <3> QED BY <3>2, <3>3, <3>4, FS_Subset
    <2> HIDE DEF A, B
    <2>2. Cardinality(A) <= Cardinality(B) /\ (Cardinality(A) = Cardinality(B) => A = B)
      BY <2>1, FS_Subset
    <2> QED BY <2>1, <2>2 DEF A, B
  <1>2. i \in Nat /\ j \in Nat
    OBVIOUS
  <1>3. i < j \/ j < i \/ i = j
    BY <1>2
  <1> QED BY <1>1, <1>3

(* The blocks of window v are those that have its number.                   *)
LEMMA WindowNumber ==
    ASSUME NEW v \in Nat, NEW x \in Nat, v * WIN_SZ <= x, x < (v + 1) * WIN_SZ
    PROVE  x \div WIN_SZ = v
  <1>0. WIN_SZ \in Nat /\ WIN_SZ > 0
    BY WindowSize
  <1>1. PICK q \in Nat, r \in Nat : x = WIN_SZ * q + r /\ r < WIN_SZ /\ q = x \div WIN_SZ
    BY Euclid
  <1>2. CASE q < v
    <2>1. WIN_SZ * (q + 1) <= WIN_SZ * v
      BY <1>0, <1>2
    <2>2. WIN_SZ * q + WIN_SZ <= v * WIN_SZ
      BY <1>0, <2>1
    <2> QED BY <1>0, <1>1, <2>2
  <1>3. CASE q > v
    <2>1. WIN_SZ * (v + 1) <= WIN_SZ * q
      BY <1>0, <1>3
    <2> QED BY <1>0, <1>1, <2>1
  <1> QED BY <1>1, <1>2, <1>3

(* All of a segment in a window is reached through the entry for it.        *)
LEMMA PartReached ==
    ASSUME NEW lo \in Nat, NEW hi \in Nat, NEW v \in Nat, NEW b \in lo .. hi - 1,
           v * WIN_SZ <= lo, hi <= (v + 1) * WIN_SZ, b # 0
    PROVE  /\ lo \div WIN_SZ = v
           /\ \E a \in (IF lo = 0 THEN 1 ELSE Mapping(lo)) .. Mapping(hi - 1) : Reaches(a, v) = b
  <1>1. WIN_SZ \in Nat /\ WIN_SZ > 0 /\ lo < hi /\ hi - 1 \in Nat /\ b \in Nat
    BY WindowSize
  <1>3. lo \div WIN_SZ = v /\ (hi - 1) \div WIN_SZ = v
    <2>1. /\ v * WIN_SZ <= lo /\ lo < (v + 1) * WIN_SZ
          /\ v * WIN_SZ <= hi - 1 /\ hi - 1 < (v + 1) * WIN_SZ
      <3> DEFINE x == v * WIN_SZ
                 y == (v + 1) * WIN_SZ
      <3>1. x \in Nat /\ y \in Nat
        BY <1>1
      <3> HIDE DEF x, y
      <3>2. x <= lo /\ hi <= y
        BY DEF x, y
      <3> QED BY <1>1, <3>1, <3>2 DEF x, y
    <2> QED BY <1>1, <2>1, WindowNumber
  <1>4. {Reaches(a, v) : a \in Mapping(lo) .. Mapping(hi - 1)} = lo .. hi - 1
    BY <1>1, <1>3, WindowShowsSegment
  <1>5. PICK a \in Mapping(lo) .. Mapping(hi - 1) : Reaches(a, v) = b
    BY <1>4
  <1>6. CASE lo # 0
    BY <1>3, <1>5, <1>6
  <1>7. CASE lo = 0
    <2>1. v = 0 /\ Mapping(lo) = 0
      BY <1>1, <1>3, <1>7, FirstWindow DEF Mapping
    <2>2. a \in Int /\ Mapping(hi - 1) \in Nat
      BY <1>1, MappingType
    <2>3. a # 0
      BY <1>5, <2>1, <2>2 DEF Reaches
    <2>4. a \in 1 .. Mapping(hi - 1)
      BY <1>5, <2>1, <2>2, <2>3
    <2> QED BY <1>3, <1>5, <1>7, <2>4
  <1> QED BY <1>6, <1>7

(* compute_segments() lists every part of pmap in the window and the limits *)
(* that is not empty.                                                       *)
LEMMA SegmentsListed ==
    ASSUME NEW win \in [start : Nat, end : Nat], NEW plim,
           plim.lower \in Nat, plim.upper \in Nat, NEW i \in DOMAIN Pmap
    PROVE  LET start == LargerOf(Pmap[i].start, LargerOf(win.start, plim.lower))
               end   == SmallerOf(Pmap[i].end, SmallerOf(win.end, plim.upper))
           IN  start < end =>
                   \E k \in 1 .. Len(Segments(win, plim)) :
                       Segments(win, plim)[k] =
                           [base  |-> start,
                            start |-> IF start = 0 THEN 1 ELSE Mapping(start),
                            end   |-> Mapping(end - 1) + 1]
  <1> DEFINE lo == LargerOf(win.start, plim.lower)
             hi == SmallerOf(win.end, plim.upper)
             part(j) == [start |-> LargerOf(Pmap[j].start, lo),
                         end   |-> SmallerOf(Pmap[j].end, hi)]
             kept == {j \in DOMAIN Pmap : part(j).start < part(j).end}
             Rank(j) == Cardinality({m \in kept : m <= j})
             Nth(k) == CHOOSE j \in kept : Rank(j) = k
             n == Cardinality(kept)
             entry(j) == [base  |-> part(j).start,
                          start |-> IF part(j).start = 0 THEN 1
                                    ELSE Mapping(part(j).start),
                          end   |-> Mapping(part(j).end - 1) + 1]
             entries == [k \in 1 .. n |-> entry(Nth(k))]
  <1> SUFFICES ASSUME part(i).start < part(i).end
               PROVE  \E k \in 1 .. Len(Segments(win, plim)) :
                          Segments(win, plim)[k] = entry(i)
    OBVIOUS
  <1>1. Segments(win, plim) = entries
    BY DEF Segments
  <1>2. IsFiniteSet(kept) /\ kept \subseteq Nat /\ n \in Nat
    <2>1. Len(Pmap) \in Nat /\ DOMAIN Pmap = 1 .. Len(Pmap)
      <3> DEFINE S == [start : Nat, end : Nat]
      <3>1. Pmap \in Seq(S)
        BY SchedulerAssumption
      <3> HIDE DEF S
      <3> QED BY <3>1
    <2>2. IsFiniteSet(1 .. Len(Pmap))
      BY <2>1, FS_Interval
    <2>3. kept \subseteq 1 .. Len(Pmap)
      BY <2>1
    <2>4. 1 .. Len(Pmap) \subseteq Nat
      BY <2>1
    <2> HIDE DEF kept
    <2> QED BY <2>2, <2>3, <2>4, FS_Subset, FS_CardinalityType
  <1>3. i \in kept
    OBVIOUS
  <1> HIDE DEF kept, part, lo, hi
  <1>4. Rank(i) \in 1 .. n
    <2> DEFINE A == {m \in kept : m <= i}
    <2>1. A \subseteq kept /\ i \in A
      <3>1. i \in Nat
        BY <1>2, <1>3
      <3> QED BY <1>3, <3>1
    <2> HIDE DEF A
    <2>2. IsFiniteSet(A) /\ Cardinality(A) \in Nat /\ Cardinality(A) <= n
      BY <1>2, <2>1, FS_Subset, FS_CardinalityType
    <2>3. Cardinality(A) # 0
      BY <2>1, <2>2, FS_EmptySet
    <2> QED BY <1>2, <2>2, <2>3 DEF A
  <1>5. Nth(Rank(i)) = i
    <2>1. Nth(Rank(i)) \in kept /\ Rank(Nth(Rank(i))) = Rank(i)
      BY <1>3
    <2> QED BY <1>2, <1>3, <2>1, RankUnique
  <1> HIDE DEF Rank, Nth, n
  <1>6. Len(entries) = n /\ entries[Rank(i)] = entry(i)
    BY <1>2, <1>4, <1>5
  <1> QED BY <1>1, <1>4, <1>6

(* What compute_segments() lists of a window lies in the window, and all of *)
(* the memory in the window and the limits is reached through it.           *)
LEMMA SegmentsReach ==
    ASSUME NEW win \in [start : Nat, end : Nat], NEW plim,
           plim.lower \in Nat, plim.upper \in Nat,
           NEW v \in Nat, v * WIN_SZ <= win.start, win.end <= (v + 1) * WIN_SZ
    PROVE  LET entries == Segments(win, plim)
           IN  /\ Len(entries) \in Nat /\ DOMAIN entries = 1 .. Len(entries)
               /\ \A k \in 1 .. Len(entries) :
                     /\ entries[k] \in [base : Nat, start : Nat, end : Nat]
                     /\ entries[k].base \div WIN_SZ = v
                     /\ v = 0 => plim.lower <= entries[k].start /\ plim.lower < WIN_SZ
               /\ \A b \in Ram \ {0} :
                     /\ win.start <= b /\ b < win.end
                     /\ plim.lower <= b /\ b < plim.upper
                     => \E k \in 1 .. Len(entries) :
                            \E a \in entries[k].start .. entries[k].end - 1 :
                                Reaches(a, v) = b
  <1> DEFINE entries == Segments(win, plim)
  <1>0. /\ WIN_SZ \in Nat \ {0} /\ v * WIN_SZ \in Nat /\ (v + 1) * WIN_SZ \in Nat
        /\ win.start \in Nat /\ win.end \in Nat
    BY WindowSize
  <1>1. /\ Len(entries) \in Nat /\ DOMAIN entries = 1 .. Len(entries)
        /\ \A k \in 1 .. Len(entries) : IsPart(entries[k], win, plim)
    BY SegmentsFound
  <1>2. ASSUME NEW k \in 1 .. Len(entries)
        PROVE  /\ entries[k] \in [base : Nat, start : Nat, end : Nat]
               /\ entries[k].base \div WIN_SZ = v
               /\ v = 0 => plim.lower <= entries[k].start /\ plim.lower < WIN_SZ
    <2> HIDE DEF entries
    <2>1. PICK start \in Nat, end \in Nat :
                      /\ start < end /\ end <= win.end
                      /\ LargerOf(win.start, plim.lower) <= start
                      /\ entries[k] = [base  |-> start,
                                       start |-> IF start = 0 THEN 1 ELSE Mapping(start),
                                       end   |-> Mapping(end - 1) + 1]
      BY <1>1, <1>2 DEF IsPart
    <2>2. end - 1 \in Nat /\ Mapping(start) \in Nat /\ Mapping(end - 1) \in Nat
      <3>1. end - 1 \in Nat
        BY <2>1
      <3> QED BY <3>1, MappingType
    <2>3. win.start <= start /\ plim.lower <= start /\ start < win.end
      BY <1>0, <2>1 DEF LargerOf
    <2>4. start \div WIN_SZ = v
      <3> DEFINE x == v * WIN_SZ
                 y == (v + 1) * WIN_SZ
      <3>1. x \in Nat /\ y \in Nat /\ x <= win.start /\ win.end <= y
        BY <1>0
      <3> HIDE DEF x, y
      <3>2. x <= start /\ start < y
        BY <1>0, <2>3, <3>1
      <3> QED BY <3>2, WindowNumber DEF x, y
    <2>5. ASSUME v = 0 PROVE plim.lower <= entries[k].start /\ plim.lower < WIN_SZ
      <3>1. start < WIN_SZ /\ Mapping(start) = start
        BY <2>4, <2>5, FirstWindow, MappingType
      <3> QED BY <1>0, <2>1, <2>3, <3>1
    <2> QED BY <2>1, <2>2, <2>4, <2>5
  <1>3. ASSUME NEW b \in Ram \ {0}, win.start <= b, b < win.end,
               plim.lower <= b, b < plim.upper
        PROVE  \E k \in 1 .. Len(entries) :
                   \E a \in entries[k].start .. entries[k].end - 1 : Reaches(a, v) = b
    <2>1. PICK i \in DOMAIN Pmap : b \in Pmap[i].start .. Pmap[i].end - 1
      <3>1. DOMAIN Pmap = 1 .. Len(Pmap)
        <4> DEFINE S == [start : Nat, end : Nat]
        <4>1. Pmap \in Seq(S)
          BY SchedulerAssumption
        <4> HIDE DEF S
        <4> QED BY <4>1
      <3> QED BY <3>1 DEF Ram
    <2> DEFINE start == LargerOf(Pmap[i].start, LargerOf(win.start, plim.lower))
               end   == SmallerOf(Pmap[i].end, SmallerOf(win.end, plim.upper))
    <2>2. Pmap[i].start \in Nat /\ Pmap[i].end \in Nat
      BY PmapEntry
    <2>3. b \in Nat /\ Pmap[i].start <= b /\ b < Pmap[i].end
      BY <2>1, <2>2
    <2>4. /\ start \in Nat /\ end \in Nat /\ b \in start .. end - 1 /\ start < end
          /\ win.start <= start /\ end <= win.end
      BY <1>0, <1>3, <2>2, <2>3 DEF LargerOf, SmallerOf
    <2>5. PICK k \in 1 .. Len(entries) :
              entries[k] = [base  |-> start,
                            start |-> IF start = 0 THEN 1 ELSE Mapping(start),
                            end   |-> Mapping(end - 1) + 1]
      BY <2>4, SegmentsListed
    <2> HIDE DEF start, end, entries
    <2>6. v * WIN_SZ <= start /\ end <= (v + 1) * WIN_SZ
      <3> DEFINE x == v * WIN_SZ
                 y == (v + 1) * WIN_SZ
      <3>1. x \in Nat /\ y \in Nat /\ x <= win.start /\ win.end <= y
        BY <1>0
      <3> HIDE DEF x, y
      <3>2. x <= start /\ end <= y
        BY <1>0, <2>4, <3>1
      <3> QED BY <3>2 DEF x, y
    <2>7. PICK a \in (IF start = 0 THEN 1 ELSE Mapping(start)) .. Mapping(end - 1) :
              Reaches(a, v) = b
      BY <2>4, <2>6, PartReached
    <2>8. a \in entries[k].start .. entries[k].end - 1
      <3>1. end - 1 \in Nat
        BY <2>4
      <3>2. Mapping(end - 1) \in Nat
        BY <3>1, MappingType
      <3>3. entries[k].end - 1 = Mapping(end - 1)
        BY <2>5, <3>2
      <3> QED BY <2>5, <2>7, <3>3
    <2> QED BY <2>7, <2>8
  <1>4. \A b \in Ram \ {0} :
           /\ win.start <= b /\ b < win.end
           /\ plim.lower <= b /\ b < plim.upper
           => \E k \in 1 .. Len(entries) :
                  \E a \in entries[k].start .. entries[k].end - 1 : Reaches(a, v) = b
    <2> HIDE DEF entries
    <2> QED BY <1>3
  <1> QED BY <1>1, <1>2, <1>4

----------------------------------------------------------------------------
(* What has been tested.                                                    *)

(* The fields that the properties remember and the stage are there.         *)
CoverFields == /\ {"bitf_seq", "restart_flag"} \subseteq DOMAIN g
               /\ {"covered", "bailed"} \subseteq DOMAIN hist

(* Tests that need not cover anything: one that the user has interrupted, a *)
(* bit fade that sleeps or is over.                                         *)
Exempt == hist.bailed \/ Sleeping \/ ~(g.bitf_seq < 6)

(* The places at which a window is tested: those where v->map lists the     *)
(* memory in it, where the window is mapped in, where the CPU knows what it *)
(* is about to test.  And those after the last window, and between tests.   *)
Inside    == InWindow \ {"window"}
ListedAt  == {"segments", "segments_bar"}
MappedAt  == Testers
HoldingAt == Holding \cup {"access"}
Finishing == {"end_win", "end_bar", "house", "advance"}
House     == Ending \ {"end_win", "end_bar"}

(* Where the next window begins.                                            *)
Frontier == IF g.window = 0 THEN 0 ELSE IF g.window = 1 THEN win0_start ELSE g.win_next

Below(n)   == \A b \in ToCover : b < n => b \in hist.covered
ThisWindow == {b \in ToCover : g.winx.start <= b /\ b < g.winx.end}
Tested     == ThisWindow \subseteq hist.covered

(* The window that CPU m, the master, has taken is (a part of) one that can *)
(* be mapped in, and the next one leaves no gap after it.                   *)
Framed(m) ==
    /\ g.winx \in [start : Nat, end : Nat]
    /\ \E v \in Nat : v * WIN_SZ <= g.winx.start /\ g.winx.end <= (v + 1) * WIN_SZ
    /\ Frontier <= g.winx.end
    /\ cpu[m].loc = HIGH => g.winx.end <= WIN_SZ

(* What a CPU reaches with window w mapped in, if it tests all of v->map.   *)
Reached(map, segs, w) ==
    UNION {{Reaches(a, w) : a \in map[i].start .. map[i].end - 1} : i \in 1 .. segs}

(* v->map, with window w mapped in, reaches all that is to be covered.      *)
Listed(m, w) ==
    /\ g.segs \in Nat \ {0} /\ 1 .. g.segs \subseteq DOMAIN g.map
    /\ \A i \in 1 .. g.segs : g.map[i] \in [base : Nat, start : Nat, end : Nat]
    /\ ThisWindow \subseteq Reached(g.map, g.segs, w)
    /\ cpu[m].loc = HIGH => /\ w = 0 /\ g.plim.lower < WIN_SZ
                            /\ g.plim.lower <= g.map[1].start

WindowProgress(m) ==
    /\ Framed(m) /\ Below(g.winx.start)
    /\ pc[m] \in ListedAt => IF g.segs = 0 THEN ThisWindow = {}
                             ELSE Listed(m, g.map[1].base \div WIN_SZ)
    /\ pc[m] \in MappedAt => Listed(m, cpu[m].win)
    /\ pc[m] \in {"prepare", "prepared", "sync", "synced"} => cpu[m].k = 0
    /\ pc[m] = "prepared" => cpu[m].loc = HIGH
    /\ pc[m] \in HoldingAt => ThisWindow \subseteq cpu[m].area
    /\ pc[m] = "load" => cpu[m].k = 0 \/ Tested
    /\ pc[m] = "done" => Tested

(* How far the master has come.  (Past the last test nobody is the master.) *)
Progress(m) ==
    /\ pc[m] \in Inside => WindowProgress(m)
    /\ pc[m] \in Finishing => ToCover \subseteq hist.covered
    /\ pc[m] \notin Inside \cup Finishing => Below(Frontier)

MasterProgress ==
    /\ \A m \in CPUs : Master(m) => Progress(m)
    /\ (\A m \in CPUs : ~Master(m)) => Below(Frontier)

(* The windows come one after the other, from window 0 on, and it is the    *)
(* master who takes them and who ends the test.                             *)
Order ==
    /\ g.window < 2 => g.win_next = 0
    /\ g.window >= 2 => \E v \in Nat : g.win_next = v * WIN_SZ
    /\ \A c \in CPUs :
          /\ pc[c] \in {"window", "compute", "prepare", "prepared"} \cup House => Master(c)
          /\ pc[c] \in House => g.window = 0

(* A restart waits for the end of the test that it interrupts, and the      *)
(* defaults are set before another window is taken, whichever CPU does it.  *)
RestartWaits == g.restart_flag =>
    /\ g.window = 0
    /\ \E m \in CPUs : Master(m) /\ pc[m] \in Advancing \cup {"top", "defaults", "restarted"}
Defaulting == \A c \in CPUs : pc[c] = "defaults" =>
    /\ g.window = 0
    /\ \A m \in CPUs : Master(m) => pc[m] \notin Inside \cup Finishing

(* A master that sees bail while it tests knows that the user has           *)
(* interrupted the test.                                                    *)
BailKnown == \A m \in CPUs :
    Master(m) /\ pc[m] \in HoldingAt \ {"tick"} /\ g.bail => hist.bailed

(* Nobody shares a test: either every CPU of a test goes through all of the *)
(* memory, or the CPUs test one at a time, since the mode in which they     *)
(* test together is never chosen.                                           *)
AllWhole  == \A i \in DOMAIN Tests : Tests[i].whole
OneMode   == \A entry \in Inputs : entry[1] = "mode" => entry[2] # "ALL"
Undivided == AllWhole \/ (g.cpu_mode # "ALL" /\ g.run_cpus \in {0, 1})

CoverInv == /\ CoverFields /\ Order /\ BailKnown /\ Undivided
            /\ hist.bailed \/ (RestartWaits /\ Defaulting)
            /\ Exempt \/ MasterProgress

(* The invariants above, and the input they are about.                      *)
Covering == NoDefault /\ (AllWhole \/ OneMode) /\ SelfInv /\ CoverInv

(* What these invariants say of the variables, and of the master.           *)
LEMMA CoverFacts ==
    ASSUME Covering
    PROVE  /\ DOMAIN pc = CPUs /\ DOMAIN cpu = CPUs
           /\ Typed /\ Shape /\ Globals /\ Fields /\ CoverFields /\ Order /\ Inner
           /\ WIN_SZ \in Nat /\ WIN_SZ > 0 /\ MemEnd \in Nat
  BY WindowSize, ZeroCpu
   DEF Covering, SelfInv, StagesInv, Typed, Located, Shape, Fields, CoverInv

LEMMA MasterFacts ==
    ASSUME Covering, NEW m \in CPUs, Master(m)
    PROVE  /\ m \in DOMAIN pc /\ m \in DOMAIN cpu
           /\ Typed /\ Shape /\ Globals /\ Fields /\ CoverFields /\ Order
           /\ {"loc", "run", "win", "area", "k"} \subseteq DOMAIN cpu[m]
           /\ ~Exempt => Progress(m)
           /\ pc[m] \in HoldingAt \ {"tick"} /\ g.bail => hist.bailed
  <1>1. {"loc", "run", "win", "area", "k"} \subseteq DOMAIN cpu[m]
    BY CoverFacts DEF Shape, Fields
  <1>2. ~Exempt => Progress(m)
    BY DEF Covering, CoverInv, MasterProgress
  <1>3. pc[m] \in HoldingAt \ {"tick"} /\ g.bail => hist.bailed
    BY DEF Covering, CoverInv, BailKnown
  <1> QED BY <1>1, <1>2, <1>3, CoverFacts

(* What most steps leave alone.                                             *)
Held == /\ g'.window = g.window /\ g'.win_next = g.win_next /\ g'.plim = g.plim
        /\ g'.test = g.test /\ g'.bitf_seq = g.bitf_seq
        /\ hist'.covered = hist.covered /\ (hist'.bailed <=> hist.bailed)

(* The steps that may change it are those that move the windows or the test.*)
LEMMA HeldStep ==
    ASSUME Typed, CoverFields, NEW c \in CPUs, Step(c),
           ~Changes(c), ~NextStage(c), ~Access(c)
    PROVE  Held
  <1>1. Settled
    BY SettledStep DEF Typed
  <1>2. g'.bitf_seq = g.bitf_seq
    <2>1. CASE UNCHANGED g BY <2>1
    <2>2. CASE Restarted(c) \/ NewTest(c) \/ SetIters(c)
      BY <2>2 DEF CoverFields, Restarted, NewTest, SetIters
    <2>3. CASE Compute(c) \/ Prepare(c) \/ Prepared(c) \/ Done(c)
      BY <2>3 DEF CoverFields, Compute, Prepare, Prepared, Done
    <2>4. CASE EndPass(c) \/ NewPass(c) \/ Unbail(c)
      BY <2>4 DEF CoverFields, EndPass, NewPass, Unbail
    <2>5. CASE PickCpu(c)
      BY <2>5 DEF CoverFields, PickCpu
    <2> QED BY <2>1, <2>2, <2>3, <2>4, <2>5
       DEF Step, Changes, Top, LoadIters, WindowLoop, RelocLow, SkipLow, RelocHigh,
              Copy, TakeMutex, Jump, Startup, FirstBarrier, SubInit, SubReady,
              Selected, WaitSegments, MapWindow, Load, Sync, Synced, WaitTick, TickDone, Bail,
              EndWindows
  <1>3. hist'.covered = hist.covered /\ hist'.bailed = hist.bailed
    <2>1. CASE UNCHANGED hist BY <2>1
    <2> QED BY <2>1
       DEF Step, Changes, Top, Restarted, NewTest, LoadIters, SetIters, WindowLoop, RelocLow,
              SkipLow, RelocHigh, Copy, TakeMutex, Jump, Startup, FirstBarrier,
              PickCpu, SubInit, SubReady, Selected, Compute, WaitSegments,
              MapWindow, Prepare, Prepared, Load, Sync, Synced, WaitTick, TickDone, Bail, Done,
              EndWindows, EndPass, NewPass, Unbail
  <1> QED BY <1>1, <1>2, <1>3 DEF Held, Settled

(* What has to be tested, and where the next window begins, goes with it.   *)
LEMMA HeldFacts ==
    ASSUME Held
    PROVE  /\ ToCover' = ToCover /\ (Exempt' <=> Exempt) /\ Frontier' = Frontier
           /\ \A n : Below(n)' <=> Below(n)
  <1>1. Fade' = Fade /\ Sleeping' = Sleeping
    BY DEF Held, Fade, Sleeping
  <1>2. ToCover' = ToCover
    BY <1>1 DEF Held, ToCover
  <1>3. Exempt' <=> Exempt
    BY <1>1 DEF Held, Exempt
  <1>4. Frontier' = Frontier
    BY DEF Held, Frontier
  <1>5. ASSUME NEW n PROVE Below(n)' <=> Below(n)
    BY <1>2 DEF Held, Below
  <1> QED BY <1>2, <1>3, <1>4, <1>5

(* Memory ends below MemEnd.                                                *)
LEMMA RamType == \A b \in Ram : b \in Nat /\ b < MemEnd
  <1> SUFFICES ASSUME NEW i \in 1 .. Len(Pmap), NEW b \in Pmap[i].start .. Pmap[i].end - 1
               PROVE  b \in Nat /\ b < MemEnd
    BY DEF Ram
  <1>1. i \in DOMAIN Pmap
    <2> DEFINE S == [start : Nat, end : Nat]
    <2>1. Pmap \in Seq(S)
      BY SchedulerAssumption
    <2> HIDE DEF S
    <2> QED BY <2>1
  <1>2. Pmap[i].start \in Nat /\ Pmap[i].end \in Nat /\ Pmap[i].end <= MemEnd
    BY <1>1, PmapEntry
  <1> QED BY <1>2, ZeroCpu

(* Before the first window there is nothing that should be covered.         *)
LEMMA StartsOver ==
    ASSUME g'.window = 0, NEW m, pc'[m] \notin Inside \cup Finishing
    PROVE  Progress(m)'
  <1>1. \A b \in ToCover' : ~(b < 0)
    <2>1. \A b \in ToCover' : b \in Ram
      BY DEF ToCover
    <2> QED BY <2>1, RamType
  <1> QED BY <1>1 DEF Progress, Below, Frontier

(* Where the places of Order are entered from.                              *)
LEMMA OrderPlaces ==
    ASSUME Typed, NEW c \in CPUs, Step(c)
    PROVE  /\ pc'[c] \in {"window", "compute", "prepare", "prepared"} =>
                  Master(c) \/ pc[c] \in {"window", "prepare"}
           /\ pc'[c] \in House => (Master(c) /\ g'.window = 0) \/ pc[c] \in House
  <1>0. c \in DOMAIN pc /\ "window" \in DOMAIN g
    BY DEF Typed, Located, Shape
  <1> USE <1>0 DEF Goto, Ending, House
  <1>1. CASE Top(c) \/ Restarted(c) \/ NewTest(c) \/ LoadIters(c) \/ SetIters(c)
             \/ WindowLoop(c) \/ RelocLow(c) \/ SkipLow(c) \/ RelocHigh(c)
    BY <1>1 DEF Top, Restarted, NewTest, LoadIters, SetIters, WindowLoop, RelocLow,
           SkipLow, RelocHigh
  <1>2. CASE Copy(c) \/ TakeMutex(c) \/ Jump(c) \/ Startup(c) \/ FirstBarrier(c)
             \/ PickCpu(c) \/ SubInit(c) \/ SubReady(c) \/ Selected(c)
    BY <1>2 DEF Copy, TakeMutex, Jump, Startup, FirstBarrier, PickCpu, SubInit,
           SubReady, Selected
  <1>3. CASE TakeWindow(c) \/ Compute(c) \/ WaitSegments(c) \/ MapWindow(c) \/ Prepare(c)
             \/ Prepared(c) \/ Sync(c) \/ Synced(c) \/ Load(c)
    BY <1>3 DEF TakeWindow, Compute, WaitSegments, MapWindow, Prepare, Prepared, Sync, Synced,
           Begin, Load
  <1>4. CASE Tick(c) \/ WaitTick(c) \/ TickDone(c) \/ Bail(c) \/ Access(c) \/ Done(c)
             \/ Defaults(c) \/ FadeWindow(c) \/ NextWindow(c)
    BY <1>4 DEF Tick, WaitTick, TickDone, Bail, Access, Done, Defaults, FadeWindow,
           NextWindow
  <1>5. CASE EndWindows(c) \/ ResetWindows(c) \/ HouseInput(c)
    BY <1>5 DEF EndWindows, ResetWindows, HouseInput
  <1>6. CASE RestartTest(c) \/ NextStage(c) \/ Advance(c)
    BY <1>6 DEF RestartTest, NextStage, Advance
  <1>7. CASE NextTest(c) \/ Scan(c) \/ Rescan(c) \/ EndPass(c) \/ NewPass(c) \/ Unbail(c)
    BY <1>7 DEF NextTest, Scan, Rescan, EndPass, NewPass, Unbail
  <1> QED BY <1>1, <1>2, <1>3, <1>4, <1>5, <1>6, <1>7 DEF Step

(* Windows are skipped, and CPUs are chosen, when nobody tests.             *)
LEMMA ChooseQuiet ==
    ASSUME Covering, NEW c \in CPUs, FadeWindow(c) \/ NextWindow(c) \/ PickCpu(c)
    PROVE  /\ \A d \in CPUs : pc[d] \in Choosing \cup {"sched", "copied", "picked"}
           /\ NextWindow(c) => g.plim.lower >= win0_start
  <1>1. \/ pc[c] = "sched" /\ at[c] = "released"
        \/ pc[c] \in {"next_window", "pick"}
    BY DEF FadeWindow, NextWindow, PickCpu, Goto, Meet!Depart
  <1>2. ChooseLow \/ ChooseHigh
    BY <1>1, CoverFacts DEF Inner, Moving, ReturnHigh, Picking, TestHigh, WorkLow, Between,
           Returning, InWindow, Ending
  <1>3. NextWindow(c) => g.plim.lower >= win0_start
    BY <1>2, Origins DEF ChooseLow, LowPath, ChooseHigh, Between, Choosing
  <1> QED BY <1>2, <1>3 DEF ChooseLow, ChooseHigh, Between

(* Only a master takes windows, keeps house or has a key read.              *)
LEMMA MasterOnly ==
    ASSUME Covering, NEW c \in CPUs,
           \/ TakeWindow(c) \/ Compute(c) \/ Prepare(c) \/ Prepared(c) \/ HouseInput(c)
           \/ RestartTest(c) \/ NextStage(c) \/ Advance(c)
           \/ NextTest(c) \/ Scan(c) \/ Rescan(c) \/ EndPass(c) \/ NewPass(c) \/ Unbail(c)
    PROVE  Master(c)
  BY CoverFacts, Origins DEF Order, House, Ending

(* The windows move only where they are skipped, taken or started over.     *)
LEMMA WindowsMove ==
    ASSUME Typed, Fields, NEW c \in CPUs, Step(c),
           ~FadeWindow(c), ~NextWindow(c), ~TakeWindow(c)
    PROVE  \/ g'.window = g.window /\ g'.win_next = g.win_next
           \/ g'.window = 0 /\ g'.win_next = 0
  <1>1. CASE ~Changes(c)
    BY <1>1, SettledStep DEF Settled, Typed
  <1>2. CASE Tick(c) \/ HouseInput(c)
    BY <1>2, InputFrame DEF Tick, HouseInput, Kept, Typed
  <1>3. CASE Defaults(c)
    BY <1>3, DefaultsFrame DEF Defaults, Typed
  <1>4. CASE ResetWindows(c)
    BY <1>4 DEF ResetWindows, Shape, Typed
  <1>5. CASE RestartTest(c) \/ Advance(c) \/ NextTest(c) \/ Scan(c) \/ Rescan(c)
    BY <1>5 DEF RestartTest, Advance, NextTest, Scan, Rescan, Shape, Typed
  <1> QED BY <1>1, <1>2, <1>3, <1>4, <1>5 DEF Changes

(* No step breaks the order.                                                *)
LEMMA OrderStep ==
    ASSUME Covering, NEW c \in CPUs, Step(c)
    PROVE  Order'
  <1>0. /\ c \in DOMAIN pc /\ Typed /\ Shape /\ Globals /\ Fields /\ Order
        /\ WIN_SZ \in Nat /\ WIN_SZ > 0 /\ CPUs' = CPUs
    BY CoverFacts DEF CPUs
  <1>1. /\ g'.window < 2 => g'.win_next = 0
        /\ g'.window >= 2 => \E v \in Nat : g'.win_next = v * WIN_SZ
    <2>1. CASE g'.window = g.window /\ g'.win_next = g.win_next
      BY <1>0, <2>1 DEF Order
    <2>2. CASE g'.window = 0 /\ g'.win_next = 0
      BY <2>2
    <2>3. CASE FadeWindow(c)
      <3>1. /\ g'.win_next = g.win_next
            /\ g'.window = g.window \/ (g.window = 0 /\ g'.window = 1)
        BY <1>0, <2>3 DEF FadeWindow, Shape
      <3> QED BY <1>0, <3>1 DEF Order
    <2>4. CASE NextWindow(c)
      <3>1. g'.win_next = g.win_next /\ g'.window = g.window + 1
        BY <1>0, <2>4 DEF NextWindow, Shape
      <3>2. \E v \in Nat : g.win_next = v * WIN_SZ
        <4>1. 0 = 0 * WIN_SZ
          BY <1>0
        <4>2. CASE g.window < 2
          BY <1>0, <4>1, <4>2 DEF Order
        <4>3. CASE ~(g.window < 2)
          <5>1. g.window >= 2
            BY <1>0, <4>3 DEF Globals
          <5> QED BY <1>0, <5>1 DEF Order
        <4> QED BY <4>2, <4>3
      <3> QED BY <1>0, <3>1, <3>2 DEF Order, Globals
    <2>5. CASE TakeWindow(c)
      <3>1. CASE g.window = 0
        <4>0. g' = [g EXCEPT !.winx = [start |-> 0, end |-> win1_end], !.window = 1]
          BY <2>5, <3>1 DEF TakeWindow
        <4>1. g'.window = 1 /\ g'.win_next = g.win_next
          BY <1>0, <4>0 DEF Shape
        <4> QED BY <1>0, <3>1, <4>1 DEF Order
      <3>2. CASE g.window = 1
        <4>0. g' = [g EXCEPT !.winx = [start |-> win0_start, end |-> WIN_SZ],
                                  !.win_next = WIN_SZ, !.window = 2]
          BY <2>5, <3>2 DEF TakeWindow
        <4>1. g'.window = 2 /\ g'.win_next = 1 * WIN_SZ
          BY <1>0, <4>0 DEF Shape
        <4> QED BY <4>1
      <3>3. CASE g.window # 0 /\ g.window # 1
        <4>1. g'.window = g.window /\ g'.win_next = g.win_next + WIN_SZ
          BY <1>0, <2>5, <3>3 DEF TakeWindow, Shape
        <4>2. g.window >= 2
          BY <1>0, <3>3 DEF Globals
        <4>3. PICK v \in Nat : g.win_next = v * WIN_SZ
          BY <1>0, <4>2 DEF Order
        <4>4. g'.win_next = (v + 1) * WIN_SZ /\ v + 1 \in Nat
          BY <1>0, <4>1, <4>3
        <4>5. \E u \in Nat : g'.win_next = u * WIN_SZ
          BY <4>4
        <4> QED BY <1>0, <4>1, <4>2, <4>5 DEF Globals
      <3> QED BY <3>1, <3>2, <3>3
    <2>6. \/ g'.window = g.window /\ g'.win_next = g.win_next
          \/ g'.window = 0 /\ g'.win_next = 0
          \/ FadeWindow(c) \/ NextWindow(c) \/ TakeWindow(c)
      BY <1>0, WindowsMove
    <2> QED BY <2>1, <2>2, <2>3, <2>4, <2>5, <2>6
  <1>2. ASSUME NEW d \in CPUs
        PROVE  /\ pc'[d] \in {"window", "compute", "prepare", "prepared"} \cup House
                      => d = g'.mstr_cpu
               /\ pc'[d] \in House => g'.window = 0
    <2>1. CASE FadeWindow(c) \/ NextWindow(c) \/ PickCpu(c)
      <3>1. pc[d] \in Choosing \cup {"sched", "copied", "picked"}
        BY <2>1, ChooseQuiet
      <3>2. pc'[c] \in {"reloc_low", "reloc_high", "picked"}
        BY <1>0, <2>1 DEF FadeWindow, NextWindow, PickCpu, Goto
      <3>3. d # c => pc'[d] = pc[d]
        BY <1>0, EntersTest
      <3> QED BY <3>1, <3>2, <3>3 DEF Choosing, House, Ending
    <2>2. CASE ~(FadeWindow(c) \/ NextWindow(c) \/ PickCpu(c))
      <3>1. g'.mstr_cpu = g.mstr_cpu
        BY <1>0, <2>2, RunFrame
      <3>2. pc[d] \in House /\ pc'[d] \in House => g'.window = 0
        <4>1. CASE TakeWindow(c)
          <5>1. c # d \/ pc[d] \notin House
            BY <4>1, Origins DEF House, Ending
          <5>2. Master(c) /\ (pc[d] \in House => Master(d))
            BY <1>0, <4>1, Origins DEF Order
          <5> QED BY <5>1, <5>2 DEF Master
        <4>2. CASE ~TakeWindow(c)
          <5>1. g'.window \in {0, g.window}
            BY <1>0, <2>2, <4>2, WindowsMove
          <5> QED BY <1>0, <5>1 DEF Order
        <4> QED BY <4>1, <4>2
      <3>3. CASE d # c
        <4>1. pc'[d] = pc[d]
          BY <1>0, <3>3, EntersTest
        <4> QED BY <1>0, <3>1, <3>2, <4>1 DEF Order, Master
      <3>4. CASE d = c
        BY <1>0, <3>1, <3>2, <3>4, OrderPlaces DEF Order, Master
      <3> QED BY <3>3, <3>4
    <2> QED BY <2>1, <2>2
  <1> QED BY <1>0, <1>1, <1>2 DEF Order, Master

(* How a CPU comes to test, or to the end of the windows.                   *)
LEMMA Entrance ==
    ASSUME Typed, NEW c \in CPUs, Step(c),
           pc[c] \notin Inside \cup Finishing, pc'[c] \in Inside \cup Finishing
    PROVE  \/ WindowLoop(c) /\ pc'[c] = "end_win" /\ g.win_next > MemEnd + WIN_SZ
           \/ TakeWindow(c)
           \/ Selected(c) /\ ~Master(c)
  <1>0. c \in DOMAIN pc
    BY DEF Typed, Located
  <1> USE <1>0 DEF Goto, Inside, InWindow, Finishing
  <1>1. CASE Top(c) \/ Defaults(c) \/ Restarted(c) \/ NewTest(c) \/ LoadIters(c)
             \/ SetIters(c) \/ FadeWindow(c) \/ RelocLow(c) \/ SkipLow(c)
             \/ NextWindow(c) \/ RelocHigh(c)
    BY <1>1 DEF Top, Defaults, Restarted, NewTest, LoadIters, SetIters, FadeWindow,
           RelocLow, SkipLow, NextWindow, RelocHigh
  <1>2. CASE Copy(c) \/ TakeMutex(c) \/ Jump(c) \/ Startup(c) \/ FirstBarrier(c)
             \/ PickCpu(c) \/ SubInit(c) \/ SubReady(c)
    BY <1>2 DEF Copy, TakeMutex, Jump, Startup, FirstBarrier, PickCpu, SubInit, SubReady
  <1>3. CASE NextTest(c) \/ Scan(c) \/ Rescan(c) \/ EndPass(c) \/ NewPass(c) \/ Unbail(c)
    BY <1>3 DEF NextTest, Scan, Rescan, EndPass, NewPass, Unbail
  <1>4. CASE WindowLoop(c)
    BY <1>4 DEF WindowLoop
  <1>5. CASE Selected(c)
    BY <1>5 DEF Selected
  <1> QED BY <1>1, <1>2, <1>3, <1>4, <1>5, Origins DEF Step

(* Outside the test of a window.                                            *)
LEMMA OutsideStep ==
    ASSUME Covering, NEW m \in CPUs, Master(m), Step(m), ~Exempt',
           pc[m] \notin Inside \cup Finishing, ~Changes(m)
    PROVE  Progress(m)'
  <1>0. /\ m \in CPUs /\ m \in DOMAIN pc /\ Typed /\ Globals /\ CoverFields
        /\ Order /\ (~Exempt => Progress(m))
    BY MasterFacts
  <1>1. Held
    BY <1>0, HeldStep, Origins DEF Inside, InWindow, Finishing
  <1>2. ~Exempt /\ Below(Frontier) /\ Below(Frontier)'
    <2>1. Below(Frontier)
      BY <1>0, <1>1, HeldFacts DEF Progress
    <2>2. Below(Frontier)'
      BY <1>1, <2>1, HeldFacts DEF Held, Below, Frontier
    <2> QED BY <1>1, <2>1, <2>2, HeldFacts
  <1>3. SUFFICES ASSUME pc'[m] \in Inside \cup Finishing PROVE Progress(m)'
    BY <1>2 DEF Progress
  <1>4. pc'[m] = "end_win" /\ g.win_next > MemEnd + WIN_SZ
    BY <1>0, <1>3, Entrance DEF Changes
  <1>5. MemEnd \in Nat /\ WIN_SZ \in Nat /\ g.win_next \in Nat /\ g.window \in Nat
    BY <1>0, ZeroCpu, WindowSize DEF Globals
  <1>6. g.window # 0 /\ g.window # 1
    BY <1>0, <1>4, <1>5 DEF Order
  <1>7. ASSUME NEW b \in ToCover PROVE b \in hist.covered
    <2>1. b \in Ram
      BY <1>7 DEF ToCover
    <2>2. b < Frontier
      BY <1>4, <1>5, <1>6, <2>1, RamType DEF Frontier
    <2> QED BY <1>2, <1>7, <2>2 DEF Below
  <1>8. ToCover' \subseteq hist'.covered
    BY <1>1, <1>7, HeldFacts DEF Held
  <1> QED BY <1>4, <1>8 DEF Progress, Inside, InWindow, Finishing

(* What the menu leaves alone if it lets the test go on.                    *)
LEMMA GoingOnMenu ==
    ASSUME Shape, Globals, Fields, CoverFields, NoDefault, NEW entry \in Inputs,
           ~Menu(entry).bail
    PROVE  LET h == Menu(entry)
           IN  /\ h.plim = g.plim /\ h.test = g.test /\ h.bitf_seq = g.bitf_seq
               /\ h.restart_flag = g.restart_flag
  <1> DEFINE e == entry[1]
  <1>0. /\ e \in {"skip", "select", "list", "lower", "upper", "all",
                 "mode", "restart"}
    BY InputsAssumption DEF NoDefault
  <1> USE DEF Shape, Fields, CoverFields
  <1>a. ASSUME NEW lower, NEW upper
        PROVE  Limit(lower, upper).bail
    BY DEF Limit
  <1>2. CASE e = "skip" BY <1>2 DEF Menu
  <1>3. CASE e = "select" BY <1>3 DEF Menu
  <1>4. CASE e = "list" BY <1>4 DEF Menu
  <1>5. CASE e = "lower"
    <2>1. Menu(entry) \in {g, Limit(entry[2], g.plim.upper)}
      BY <1>5 DEF Menu
    <2> QED BY <1>a, <2>1
  <1>6. CASE e = "upper"
    <2>1. Menu(entry) \in {g, Limit(g.plim.lower, entry[2])}
      BY <1>6 DEF Menu
    <2> QED BY <1>a, <2>1
  <1>7. CASE e = "all"
    <2>1. Menu(entry) = Limit(0, MemEnd)
      BY <1>7 DEF Menu
    <2> QED BY <2>1, <1>a
  <1>8. CASE e = "mode" BY <1>8 DEF Menu
  <1>9. CASE e = "restart" BY <1>9 DEF Menu
  <1> QED BY <1>0, <1>2, <1>3, <1>4, <1>5, <1>6, <1>7, <1>8, <1>9

LEMMA GoingOnInput ==
    ASSUME Covering, CheckInput, ~hist'.bailed
    PROVE  /\ Held /\ ~g'.bail /\ g'.restart_flag = g.restart_flag
           /\ g'.segs = g.segs /\ g'.winx = g.winx /\ g'.map = g.map
  <1>0. /\ Shape /\ Globals /\ Fields /\ CoverFields /\ NoDefault
    BY CoverFacts DEF Covering
  <1>1. hist' = [hist EXCEPT !.bailed = @ \/ g'.bail]
    BY DEF CheckInput
  <1>2. /\ hist'.covered = hist.covered /\ ~hist'.bailed
        /\ hist'.bailed = (hist.bailed \/ g'.bail)
    BY <1>0, <1>1 DEF CoverFields
  <1>3. ~g'.bail /\ (hist'.bailed <=> hist.bailed)
    BY <1>2
  <1>4. Kept(g') /\ LeavesWindow(g')
    BY <1>0, QuietInput
  <1>5. /\ g'.plim = g.plim /\ g'.test = g.test /\ g'.bitf_seq = g.bitf_seq
        /\ g'.restart_flag = g.restart_flag
    BY <1>0, <1>3, GoingOnMenu DEF CheckInput
  <1> QED BY <1>2, <1>3, <1>4, <1>5 DEF Held, Kept, LeavesWindow

(* From the end of a test to the beginning of the next.                     *)
LEMMA EndingStep ==
    ASSUME Covering, NEW m \in CPUs, Master(m), Step(m), ~Exempt',
           \/ Defaults(m) \/ EndWindows(m) \/ ResetWindows(m) \/ HouseInput(m)
           \/ RestartTest(m) \/ NextStage(m) \/ Advance(m)
           \/ NextTest(m) \/ Scan(m) \/ Rescan(m)
    PROVE  Progress(m)'
  <1>0. /\ m \in CPUs /\ m \in DOMAIN pc /\ Typed /\ Shape /\ Globals
        /\ CoverFields /\ Order /\ (~Exempt => Progress(m))
    BY MasterFacts
  <1>1. CASE Defaults(m)
    <2>1. g'.window = 0 /\ pc'[m] = "restarted"
      BY <1>0, <1>1, DefaultsFrame DEF Defaults, Goto
    <2> QED BY <2>1, StartsOver DEF Inside, InWindow, Finishing
  <1>2. CASE RestartTest(m) \/ NextStage(m) \/ Advance(m) \/ NextTest(m) \/ Scan(m)
             \/ Rescan(m)
    <2>1. /\ g'.window = g.window
          /\ pc[m] \in House
          /\ pc'[m] \in {"end_pass", "top", "next_test", "scan", "rescan"}
      BY <1>0, <1>2 DEF RestartTest, NextStage, Advance, NextTest, Scan, Rescan, Shape,
             Goto, Ending, House
    <2>2. g'.window = 0
      BY <1>0, <2>1 DEF Order
    <2> QED BY <2>1, <2>2, StartsOver DEF Inside, InWindow, Finishing
  <1>3. CASE EndWindows(m)
    <2>1. Held /\ pc[m] = "end_win" /\ pc'[m] = "end_bar"
      <3>1. ~Changes(m) /\ ~NextStage(m) /\ ~Access(m)
        BY <1>0, <1>3, Origins DEF Changes
      <3> QED BY <1>0, <1>3, <3>1, HeldStep DEF EndWindows, Goto
    <2>2. ToCover \subseteq hist.covered
      BY <1>0, <2>1, HeldFacts DEF Progress, Finishing
    <2>3. ToCover' \subseteq hist'.covered
      BY <2>1, <2>2, HeldFacts DEF Held
    <2> QED BY <2>1, <2>3 DEF Progress, Inside, InWindow, Finishing
  <1>4. CASE ResetWindows(m)
    <2>1. /\ pc[m] = "end_bar" /\ pc'[m] \in {"house", "top"} /\ hist' = hist
          /\ g'.window = 0
          /\ g'.plim = g.plim /\ g'.test = g.test /\ g'.bitf_seq = g.bitf_seq
      BY <1>0, <1>4 DEF ResetWindows, Goto, Shape, CoverFields
    <2>2. Fade' = Fade /\ Sleeping' = Sleeping
      BY <2>1 DEF Fade, Sleeping
    <2>3. ToCover' = ToCover /\ Exempt' = Exempt
      BY <2>1, <2>2 DEF ToCover, Exempt
    <2>4. ToCover' \subseteq hist'.covered
      BY <1>0, <2>1, <2>3 DEF Progress, Finishing
    <2>5. CASE pc'[m] = "house"
      BY <2>4, <2>5 DEF Progress, Inside, InWindow, Finishing
    <2>6. CASE pc'[m] = "top"
      BY <2>1, <2>6, StartsOver DEF Inside, InWindow, Finishing
    <2> QED BY <2>1, <2>5, <2>6
  <1>5. CASE HouseInput(m)
    <2>1. Held /\ pc[m] = "house" /\ pc'[m] = "advance"
      BY <1>0, <1>5, GoingOnInput DEF HouseInput, Goto, Exempt
    <2>2. ToCover \subseteq hist.covered
      BY <1>0, <2>1, HeldFacts DEF Progress, Finishing
    <2>3. ToCover' \subseteq hist'.covered
      BY <2>1, <2>2, HeldFacts DEF Held
    <2> QED BY <2>1, <2>3 DEF Progress, Inside, InWindow, Finishing
  <1> QED BY <1>1, <1>2, <1>3, <1>4, <1>5

(* Window 0 is left out where nothing below 1 MB is to be tested.           *)
LEMMA SkipStep ==
    ASSUME Covering, NEW c \in CPUs, FadeWindow(c) \/ NextWindow(c), ~Exempt'
    PROVE  ~Exempt /\ (Below(Frontier) => Below(Frontier)')
  <1>0. /\ Typed /\ Shape /\ Globals /\ CoverFields /\ Order /\ win0_start \in Nat
        /\ NextWindow(c) => g.plim.lower >= win0_start
    BY CoverFacts, ChooseQuiet, SchedulerAssumption
  <1>1. /\ hist'.covered = hist.covered /\ hist'.bailed = hist.bailed
        /\ g'.win_next = g.win_next
        /\ g'.plim = g.plim /\ g'.test = g.test /\ g'.bitf_seq = g.bitf_seq
    BY <1>0 DEF FadeWindow, NextWindow, Shape, CoverFields
  <1>2. Fade' = Fade /\ Sleeping' = Sleeping
    BY <1>1 DEF Fade, Sleeping
  <1>3. ToCover' = ToCover /\ Exempt' = Exempt
    BY <1>1, <1>2 DEF ToCover, Exempt
  <1>4. \/ g'.window = g.window
        \/ g.window = 0 /\ g'.window = 1 /\ (Fade \/ g.plim.lower >= win0_start)
        \/ g.window >= 1 /\ g'.window = g.window + 1
    BY <1>0 DEF FadeWindow, NextWindow, Shape, Globals, Fade
  <1>5. ASSUME Below(Frontier) PROVE Below(Frontier)'
    <2>1. CASE g'.window = g.window
      <3>1. Frontier' = Frontier
        BY <1>1, <2>1 DEF Frontier
      <3> QED BY <1>1, <1>3, <1>5, <3>1 DEF Below
    <2>2. CASE g.window = 0 /\ g'.window = 1 /\ (Fade \/ g.plim.lower >= win0_start)
      <3>1. Frontier' = win0_start
        BY <2>2 DEF Frontier
      <3>2. ASSUME NEW b \in ToCover PROVE ~(b < win0_start)
        <4>1. b \in Nat /\ g.plim.lower <= b /\ (Fade => b >= win0_start)
          BY <3>2, RamType DEF ToCover
        <4>2. g.plim.lower \in Nat
          BY <1>0 DEF Globals
        <4> QED BY <1>0, <2>2, <4>1, <4>2
      <3> QED BY <1>3, <3>1, <3>2 DEF Below
    <2>3. CASE g.window >= 1 /\ g'.window = g.window + 1
      <3>1. Frontier' = g.win_next /\ (g.window = 1 => g.win_next = 0)
        BY <1>0, <1>1, <2>3 DEF Frontier, Globals, Order
      <3>2. CASE g.window = 1
        <4>1. \A b \in ToCover : ~(b < 0)
          BY RamType DEF ToCover
        <4> QED BY <1>3, <3>1, <3>2, <4>1 DEF Below
      <3>3. CASE g.window # 1
        <4>1. Frontier' = Frontier
          BY <1>0, <2>3, <3>1, <3>3 DEF Frontier, Globals
        <4> QED BY <1>1, <1>3, <1>5, <4>1 DEF Below
      <3> QED BY <3>2, <3>3
    <2> QED BY <1>4, <2>1, <2>2, <2>3
  <1> QED BY <1>3, <1>5

(* The high copy is only ever there for window 0.                           *)
LEMMA HighWindow ==
    ASSUME Covering, NEW m \in CPUs, Master(m), pc[m] = "window", cpu[m].loc = HIGH
    PROVE  g.window = 0
  <1>0. Inner
    BY CoverFacts
  <1>1. ~Here(LOW)
    BY <1>0 DEF Here, LOW, HIGH
  <1>2. TestHigh
    BY <1>0, <1>1 DEF Inner, ChooseLow, ChooseHigh, Moving, ReturnHigh, Picking, WorkLow,
           Between, Choosing, Returning
  <1> QED BY <1>0, <1>2 DEF TestHigh

(* The next window begins where what has been tested ends.                  *)
LEMMA TakeStep ==
    ASSUME Covering, NEW m \in CPUs, Master(m), TakeWindow(m), ~Exempt'
    PROVE  Progress(m)'
  <1>0. /\ m \in CPUs /\ m \in DOMAIN pc /\ Typed /\ Shape /\ Globals
        /\ Fields /\ CoverFields /\ Order /\ (~Exempt => Progress(m))
        /\ win0_start \in Nat /\ win1_end \in Nat /\ WIN_SZ \in Nat
        /\ win0_start <= win1_end /\ win1_end <= WIN_SZ /\ win0_start <= WIN_SZ
    BY MasterFacts, SchedulerAssumption, PlacesAssumption, CoverAssumption
  <1>1. /\ pc[m] = "window" /\ pc'[m] = "compute" /\ cpu' = cpu /\ hist' = hist
    BY <1>0 DEF TakeWindow, Goto
  <1>2. CASE g.window = 0
    <2>0. g' = [g EXCEPT !.winx = [start |-> 0, end |-> win1_end], !.window = 1]
      BY <1>2 DEF TakeWindow
    <2>1. /\ g'.winx = [start |-> 0, end |-> win1_end] /\ g'.window = 1
          /\ g'.plim = g.plim /\ g'.test = g.test /\ g'.bitf_seq = g.bitf_seq
      BY <1>0, <2>0 DEF Shape, Fields, CoverFields
    <2>2. \A b \in ToCover' : ~(b < 0)
      <3>1. \A b \in ToCover' : b \in Ram
        BY DEF ToCover
      <3> QED BY <3>1, RamType
    <2>3. \E v \in Nat : v * WIN_SZ <= 0 /\ win1_end <= (v + 1) * WIN_SZ
      <3>1. 0 * WIN_SZ <= 0 /\ win1_end <= (0 + 1) * WIN_SZ
        BY <1>0
      <3> QED BY <3>1
    <2>4. Framed(m)' /\ Below(g.winx.start)'
      BY <1>0, <2>1, <2>2, <2>3 DEF Framed, Below, Frontier
    <2> QED BY <1>1, <2>4 DEF Progress, WindowProgress, Inside, InWindow, Finishing,
            ListedAt, MappedAt, HoldingAt, Holding, Testers
  <1>3. CASE g.window # 0
    <2>1. /\ g'.plim = g.plim /\ g'.test = g.test /\ g'.bitf_seq = g.bitf_seq
          /\ g'.winx \in [start : Nat, end : Nat]
          /\ g'.winx.start = Frontier /\ g'.window > 1 /\ g'.win_next = g'.winx.end
          /\ \E v \in Nat : v * WIN_SZ <= g'.winx.start /\ g'.winx.end <= (v + 1) * WIN_SZ
      <3>1. CASE g.window = 1
        <4>0. g' = [g EXCEPT !.winx = [start |-> win0_start, end |-> WIN_SZ],
                              !.win_next = WIN_SZ, !.window = 2]
          BY <3>1 DEF TakeWindow
        <4>1. /\ g'.winx = [start |-> win0_start, end |-> WIN_SZ] /\ g'.window = 2
              /\ g'.win_next = WIN_SZ
              /\ g'.plim = g.plim /\ g'.test = g.test /\ g'.bitf_seq = g.bitf_seq
          BY <1>0, <4>0 DEF Shape, Fields, CoverFields
        <4>2. 0 * WIN_SZ <= g'.winx.start /\ g'.winx.end <= (0 + 1) * WIN_SZ
          BY <1>0, <4>1
        <4>3. \E v \in Nat : v * WIN_SZ <= g'.winx.start /\ g'.winx.end <= (v + 1) * WIN_SZ
          BY <4>2
        <4> QED BY <1>0, <3>1, <4>1, <4>3 DEF Frontier
      <3>2. CASE g.window # 1
        <4>0. g' = [g EXCEPT !.winx = [start |-> g.win_next,
                                       end   |-> g.win_next + WIN_SZ],
                              !.win_next = @ + WIN_SZ]
          BY <1>3, <3>2 DEF TakeWindow
        <4>1. /\ g'.winx = [start |-> g.win_next, end |-> g.win_next + WIN_SZ]
              /\ g'.window = g.window /\ g'.win_next = g.win_next + WIN_SZ
              /\ g'.plim = g.plim /\ g'.test = g.test /\ g'.bitf_seq = g.bitf_seq
          BY <1>0, <4>0 DEF Shape, Fields, CoverFields
        <4>2. g.window \in Nat /\ g.window >= 2 /\ g.win_next \in Nat
          BY <1>0, <1>3, <3>2 DEF Globals
        <4>3. PICK v \in Nat : g.win_next = v * WIN_SZ
          BY <1>0, <4>2 DEF Order
        <4>4. g.win_next + WIN_SZ = (v + 1) * WIN_SZ
          BY <1>0, <4>3
        <4>5. v * WIN_SZ <= g'.winx.start /\ g'.winx.end <= (v + 1) * WIN_SZ
          BY <1>0, <4>1, <4>2, <4>3, <4>4
        <4>6. \E u \in Nat : u * WIN_SZ <= g'.winx.start /\ g'.winx.end <= (u + 1) * WIN_SZ
          BY <4>5
        <4>7. g'.winx.start = Frontier /\ g'.window > 1
          BY <1>3, <3>2, <4>1, <4>2 DEF Frontier
        <4>8. g'.winx \in [start : Nat, end : Nat] /\ g'.win_next = g'.winx.end
          BY <1>0, <4>1, <4>2
        <4> QED BY <4>1, <4>6, <4>7, <4>8
      <3> QED BY <3>1, <3>2
    <2>2. Fade' = Fade /\ Sleeping' = Sleeping
      BY <2>1 DEF Fade, Sleeping
    <2>3. ToCover' = ToCover /\ (Exempt' <=> Exempt)
      BY <1>1, <2>1, <2>2 DEF ToCover, Exempt
    <2>4. Below(g.winx.start)'
      <3>1. Below(Frontier)
        BY <1>0, <1>1, <2>3 DEF Progress, Inside, InWindow, Finishing
      <3> QED BY <1>1, <2>1, <2>3, <3>1 DEF Below
    <2>5. Framed(m)'
      <3>1. cpu'[m].loc # HIGH
        BY <1>1, <1>3, HighWindow
      <3>2. Frontier' = g'.winx.end /\ g'.winx.end \in Nat
        BY <2>1 DEF Frontier
      <3> QED BY <2>1, <3>1, <3>2 DEF Framed
    <2> QED BY <1>1, <2>4, <2>5 DEF Progress, WindowProgress, Inside, InWindow, Finishing,
            ListedAt, MappedAt, HoldingAt, Holding, Testers
  <1> QED BY <1>2, <1>3

(* Steps that leave the window, and what is listed of it, alone.            *)
SameList(m) == /\ Held /\ g'.winx = g.winx /\ cpu'[m].loc = cpu[m].loc
               /\ g'.segs = g.segs /\ g'.map = g.map

LEMMA SameWindowFacts ==
    ASSUME NEW m, Held, g'.winx = g.winx, cpu'[m].loc = cpu[m].loc
    PROVE  /\ Framed(m)' <=> Framed(m)
           /\ Below(g.winx.start)' <=> Below(g.winx.start)
           /\ ThisWindow' = ThisWindow /\ (Tested' <=> Tested)
  <1>1. ThisWindow' = ThisWindow
    BY HeldFacts DEF ThisWindow
  <1>2. Framed(m)' <=> Framed(m)
    BY HeldFacts DEF Framed
  <1>3. Below(g.winx.start)' <=> Below(g.winx.start)
    BY HeldFacts DEF Below, Held
  <1> QED BY <1>1, <1>2, <1>3 DEF Tested, Held

LEMMA SameListFacts ==
    ASSUME NEW m, SameList(m), NEW w
    PROVE  Listed(m, w)' <=> Listed(m, w)
  <1>1. ThisWindow' = ThisWindow
    BY SameWindowFacts DEF SameList
  <1>2. Reached(g.map, g.segs, w)' = Reached(g.map, g.segs, w)
    BY DEF SameList
  <1> QED BY <1>1, <1>2 DEF SameList, Held, Listed

(* compute_segments() misses nothing in the window.                         *)
LEMMA ComputeStep ==
    ASSUME Covering, NEW m \in CPUs, Master(m), Step(m), Compute(m), ~Exempt'
    PROVE  Progress(m)'
  <1>0. /\ m \in CPUs /\ m \in DOMAIN pc /\ Typed /\ Shape /\ Globals
        /\ Fields /\ CoverFields /\ (~Exempt => Progress(m))
        /\ pc[m] = "compute" /\ pc'[m] = "segments" /\ cpu' = cpu
    BY MasterFacts DEF Compute, Goto
  <1> DEFINE entries == Segments(g.winx, g.plim)
  <1>1. Held /\ g'.winx = g.winx /\ g'.segs = Len(entries)
        /\ g'.map = Overwrite(g.map, entries)
    <2>1. ~Changes(m) /\ ~NextStage(m) /\ ~Access(m)
      BY <1>0, Origins DEF Changes
    <2> QED BY <1>0, <2>1, HeldStep DEF Compute, Fields
  <1>2. Framed(m) /\ Below(g.winx.start)
    BY <1>0, <1>1, HeldFacts DEF Progress, WindowProgress, Inside, InWindow
  <1>3. Framed(m)' /\ Below(g.winx.start)' /\ ThisWindow' = ThisWindow
    BY <1>0, <1>1, <1>2, SameWindowFacts
  <1>4. g.plim.lower \in Nat /\ g.plim.upper \in Nat /\ g.winx \in [start : Nat, end : Nat]
    BY <1>0, <1>2 DEF Globals, Fields, Framed
  <1>5. PICK v \in Nat : v * WIN_SZ <= g.winx.start /\ g.winx.end <= (v + 1) * WIN_SZ
    BY <1>2 DEF Framed
  <1>6. /\ Len(entries) \in Nat /\ DOMAIN entries = 1 .. Len(entries)
        /\ \A k \in 1 .. Len(entries) :
              /\ entries[k] \in [base : Nat, start : Nat, end : Nat]
              /\ entries[k].base \div WIN_SZ = v
              /\ v = 0 => g.plim.lower <= entries[k].start /\ g.plim.lower < WIN_SZ
        /\ \A b \in Ram \ {0} :
              /\ g.winx.start <= b /\ b < g.winx.end
              /\ g.plim.lower <= b /\ b < g.plim.upper
              => \E k \in 1 .. Len(entries) :
                     \E a \in entries[k].start .. entries[k].end - 1 : Reaches(a, v) = b
    BY <1>4, <1>5, SegmentsReach
  <1> HIDE DEF entries
  <1>7. /\ 1 .. g'.segs \subseteq DOMAIN g'.map
        /\ \A k \in 1 .. g'.segs : g'.map[k] = entries[k]
    BY <1>1, <1>6 DEF Overwrite
  <1>8. ThisWindow' \subseteq Reached(g'.map, g'.segs, v)
    <2> SUFFICES ASSUME NEW b \in ThisWindow PROVE b \in Reached(g'.map, g'.segs, v)
      BY <1>3
    <2>1. /\ b \in Ram \ {0} /\ g.winx.start <= b /\ b < g.winx.end
          /\ g.plim.lower <= b /\ b < g.plim.upper
      BY DEF ThisWindow, ToCover
    <2>2. PICK k \in 1 .. Len(entries) :
              \E a \in entries[k].start .. entries[k].end - 1 : Reaches(a, v) = b
      BY <1>6, <2>1
    <2>3. k \in 1 .. g'.segs /\ g'.map[k] = entries[k]
      BY <1>1, <1>7
    <2> QED BY <2>2, <2>3 DEF Reached
  <1>9. CASE g'.segs = 0
    <2>1. ThisWindow' = {}
      <3>1. 1 .. g'.segs = {}
        BY <1>9
      <3> QED BY <1>8, <3>1 DEF Reached
    <2> QED BY <1>0, <1>3, <1>9, <2>1 DEF Progress, WindowProgress, Inside, InWindow,
            Finishing, ListedAt, MappedAt, HoldingAt, Holding, Testers
  <1>10. CASE g'.segs # 0
    <2>1. 1 \in 1 .. g'.segs /\ g'.segs \in Nat \ {0}
      BY <1>1, <1>6, <1>10
    <2>2. g'.map[1].base \div WIN_SZ = v
      BY <1>1, <1>6, <1>7, <2>1
    <2>3. ASSUME cpu'[m].loc = HIGH
          PROVE  v = 0 /\ g'.plim.lower < WIN_SZ /\ g'.plim.lower <= g'.map[1].start
      <3>1. v = 0
        <4>1. g.winx.end <= WIN_SZ
          BY <1>0, <1>2, <2>3 DEF Framed
        <4>2. IsPart(entries[1], g.winx, g.plim)
          BY <1>1, <1>4, <2>1, SegmentsFound DEF entries
        <4>3. PICK start \in Nat, end \in Nat :
                  start < end /\ end <= g.winx.end /\ entries[1].base = start
          BY <4>2 DEF IsPart
        <4>4. start < WIN_SZ
          BY <1>4, <4>1, <4>3, WindowSize
        <4>5. start \div WIN_SZ = 0
          BY <4>4, FirstWindow
        <4> QED BY <1>7, <2>1, <2>2, <4>3, <4>5
      <3> QED BY <1>1, <1>6, <1>7, <2>1, <3>1 DEF Held
    <2>4. Listed(m, g.map[1].base \div WIN_SZ)'
      <3>1. \A i \in 1 .. g'.segs : g'.map[i] \in [base : Nat, start : Nat, end : Nat]
        BY <1>1, <1>6, <1>7
      <3> QED BY <1>7, <1>8, <2>1, <2>2, <2>3, <3>1 DEF Listed
    <2> QED BY <1>0, <1>3, <1>10, <2>4 DEF Progress, WindowProgress, Inside, InWindow,
            Finishing, ListedAt, MappedAt, HoldingAt, Holding, Testers
  <1> QED BY <1>9, <1>10

(* A window of which everything is tested leaves no gap before the next.    *)
LEMMA WindowOver ==
    ASSUME Typed, NEW m, Framed(m), Below(g.winx.start), Tested
    PROVE  Below(Frontier)
  <1> SUFFICES ASSUME NEW b \in ToCover, b < Frontier PROVE b \in hist.covered
    BY DEF Below
  <1>1. b \in Nat
    BY RamType DEF ToCover
  <1>2. Frontier \in Nat
    BY SchedulerAssumption DEF Frontier, Typed, Globals
  <1>3. g.winx.start \in Nat /\ g.winx.end \in Nat /\ Frontier <= g.winx.end
    BY DEF Framed
  <1>4. b < g.winx.start \/ b \in ThisWindow
    BY <1>1, <1>2, <1>3 DEF ThisWindow
  <1> QED BY <1>4 DEF Below, Tested

(* Mapping the window in; a window without memory is done.                  *)
LEMMA MapStep ==
    ASSUME Covering, NEW m \in CPUs, Master(m), Step(m), MapWindow(m), ~Exempt'
    PROVE  Progress(m)'
  <1>0. /\ m \in CPUs /\ m \in DOMAIN pc /\ m \in DOMAIN cpu
        /\ Typed /\ CoverFields
        /\ {"loc", "run", "win", "area", "k"} \subseteq DOMAIN cpu[m]
        /\ (~Exempt => Progress(m))
        /\ pc[m] = "segments_bar" /\ g' = g
    BY MasterFacts DEF MapWindow, Goto
  <1>1. Held /\ SameList(m) /\ cpu'[m].k = 0
        /\ (g.segs # 0 => cpu'[m].win = g.map[1].base \div WIN_SZ)
    <2>1. ~Changes(m) /\ ~NextStage(m) /\ ~Access(m)
      BY <1>0, Origins DEF Changes
    <2>2. Held
      BY <1>0, <2>1, HeldStep
    <2>3. cpu'[m].loc = cpu[m].loc /\ cpu'[m].k = 0
          /\ (g.segs # 0 => cpu'[m].win = g.map[1].base \div WIN_SZ)
      BY <1>0 DEF MapWindow
    <2> QED BY <1>0, <2>2, <2>3 DEF SameList
  <1>2. /\ Framed(m) /\ Below(g.winx.start)
        /\ IF g.segs = 0 THEN ThisWindow = {} ELSE Listed(m, g.map[1].base \div WIN_SZ)
    BY <1>0, <1>1, HeldFacts DEF Progress, WindowProgress, Inside, InWindow, ListedAt
  <1>3. CASE g.segs = 0
    <2>1. pc'[m] = "while"
      BY <1>0, <1>3 DEF MapWindow, Goto
    <2>2. Below(Frontier)
      BY <1>0, <1>2, <1>3, WindowOver DEF Tested
    <2>3. Below(Frontier)'
      BY <1>1, <2>2, HeldFacts DEF Below, Held
    <2> QED BY <2>1, <2>3 DEF Progress, Inside, InWindow, Finishing
  <1>4. CASE g.segs # 0
    <2>2. pc'[m] = "prepare"
      BY <1>0, <1>4 DEF MapWindow, Goto
    <2>3. Framed(m)' /\ Below(g.winx.start)'
      BY <1>1, <1>2, SameWindowFacts DEF SameList
    <2>4. PICK w : w = cpu'[m].win
      OBVIOUS
    <2>5. Listed(m, cpu[m].win)'
      <3>1. Listed(m, w)
        BY <1>1, <1>2, <1>4, <2>4
      <3>2. Listed(m, w)'
        BY <1>1, <3>1, SameListFacts
      <3> QED BY <2>4, <3>2 DEF Listed
    <2> QED BY <1>1, <2>2, <2>3, <2>5 DEF Progress, WindowProgress, Inside, InWindow,
            Finishing, ListedAt, MappedAt, HoldingAt, Holding, Testers
  <1> QED BY <1>3, <1>4

(* do_test() moves the start of the first segment away from what is to be   *)
(* covered only.                                                            *)
LEMMA FirstReaches ==
    ASSUME NEW m, Held, g'.winx = g.winx, cpu'[m].loc = cpu[m].loc, g'.segs = g.segs,
           NEW w, Listed(m, w), NEW s \in Nat, g'.map = [g.map EXCEPT ![1].start = s],
           s <= g.map[1].start \/ (w = 0 /\ s <= 1),
           cpu[m].loc = HIGH => g.plim.lower <= s
    PROVE  Listed(m, w)'
  <1>1. /\ g.segs \in Nat \ {0} /\ 1 .. g.segs \subseteq DOMAIN g.map
        /\ \A i \in 1 .. g.segs : g.map[i] \in [base : Nat, start : Nat, end : Nat]
        /\ ThisWindow \subseteq Reached(g.map, g.segs, w)
    BY DEF Listed
  <1>2. 1 \in 1 .. g.segs /\ DOMAIN g'.map = DOMAIN g.map
    BY <1>1
  <1>3. \A i \in 1 .. g.segs \ {1} : g'.map[i] = g.map[i]
    BY <1>1
  <1>4. /\ g'.map[1] = [g.map[1] EXCEPT !.start = s]
        /\ g.map[1] \in [base : Nat, start : Nat, end : Nat]
    BY <1>1, <1>2
  <1>5. /\ g'.map[1] \in [base : Nat, start : Nat, end : Nat]
        /\ g'.map[1].start = s /\ g'.map[1].end = g.map[1].end
    BY <1>4
  <1>6. ThisWindow' = ThisWindow
    BY SameWindowFacts
  <1>7. ASSUME NEW b \in ThisWindow PROVE b \in Reached(g'.map, g.segs, w)
    <2>1. PICK i \in 1 .. g.segs : \E a \in g.map[i].start .. g.map[i].end - 1 :
                                       Reaches(a, w) = b
      BY <1>1, <1>7 DEF Reached
    <2>2. PICK a \in g.map[i].start .. g.map[i].end - 1 : Reaches(a, w) = b
      BY <2>1
    <2>3. CASE i # 1
      BY <1>3, <2>2, <2>3 DEF Reached
    <2>4. CASE i = 1
      <3>1. b # 0 /\ (w = 0 => a = b)
        BY <1>7, <2>2 DEF ThisWindow, ToCover, Reaches
      <3>2. s <= a
        BY <1>4, <2>2, <2>4, <3>1
      <3>3. a \in g'.map[1].start .. g'.map[1].end - 1
        BY <1>4, <1>5, <2>2, <2>4, <3>2
      <3> QED BY <1>2, <2>2, <3>3 DEF Reached
    <2> QED BY <2>3, <2>4
  <1>8. \A i \in 1 .. g.segs : g'.map[i] \in [base : Nat, start : Nat, end : Nat]
    BY <1>1, <1>3, <1>5
  <1> QED BY <1>1, <1>2, <1>5, <1>6, <1>7, <1>8 DEF Listed, Held

LEMMA PrepareStep ==
    ASSUME Covering, NEW m \in CPUs, Master(m), Step(m), Prepare(m) \/ Prepared(m), ~Exempt'
    PROVE  Progress(m)'
  <1>0. /\ m \in CPUs /\ m \in DOMAIN pc /\ Typed /\ Shape /\ Globals
        /\ Fields /\ CoverFields /\ (~Exempt => Progress(m))
        /\ pc[m] \in {"prepare", "prepared"} /\ pc'[m] \in {"prepared", "sync", "load"}
        /\ cpu' = cpu
        /\ pc'[m] = "prepared" => cpu[m].loc = HIGH
    BY MasterFacts DEF Prepare, Prepared, Begin, Goto
  <1>1. Held /\ g'.winx = g.winx /\ g'.segs = g.segs
    <2>1. ~Changes(m) /\ ~NextStage(m) /\ ~Access(m)
      BY <1>0, Origins DEF Changes
    <2>2. Held
      BY <1>0, <2>1, HeldStep
    <2>3. g'.winx = g.winx /\ g'.segs = g.segs
      BY <1>0 DEF Prepare, Prepared, Fields
    <2> QED BY <2>2, <2>3
  <1>2. /\ Framed(m) /\ Below(g.winx.start) /\ Listed(m, cpu[m].win) /\ cpu[m].k = 0
        /\ pc[m] = "prepared" => cpu[m].loc = HIGH
    BY <1>0, <1>1, HeldFacts DEF Progress, WindowProgress, Inside, InWindow, MappedAt,
       Testers
  <1> DEFINE s == IF pc[m] = "prepare"
                  THEN IF cpu[m].loc = HIGH THEN Mapping(g.plim.lower)
                       ELSE g.map[1].start
                  ELSE IF g.map[1].start < 1 THEN 1 ELSE g.map[1].start
  <1>3. g'.map = [g.map EXCEPT ![1].start = s]
    <2>1. CASE pc[m] = "prepare"
      BY <1>0, <2>1, Origins DEF Prepare, Fields
    <2>2. CASE pc[m] # "prepare"
      <3>1. Prepared(m)
        BY <1>0, <2>2, Origins
      <3> QED BY <1>0, <2>2, <3>1 DEF Prepared, Fields
    <2> QED BY <2>1, <2>2
  <1>4. /\ g.map[1] \in [base : Nat, start : Nat, end : Nat]
        /\ cpu[m].loc = HIGH => /\ cpu[m].win = 0 /\ g.plim.lower < WIN_SZ
                                /\ g.plim.lower <= g.map[1].start
    <2>1. 1 \in 1 .. g.segs
      BY <1>2 DEF Listed
    <2> QED BY <1>2, <2>1 DEF Listed
  <1>5. /\ s \in Nat
        /\ s <= g.map[1].start \/ (cpu[m].win = 0 /\ s <= 1)
        /\ cpu[m].loc = HIGH => g.plim.lower <= s
    <2>1. g.plim.lower \in Nat /\ g.map[1].start \in Nat
      BY <1>0, <1>4 DEF Globals
    <2>2. g.plim.lower < WIN_SZ => Mapping(g.plim.lower) = g.plim.lower
      BY <2>1, MappingType
    <2> QED BY <1>0, <1>2, <1>4, <2>1, <2>2
  <1> HIDE DEF s
  <1>6. Listed(m, cpu[m].win)'
    <2>1. PICK w : w = cpu[m].win
      OBVIOUS
    <2>2. Listed(m, w)'
      <3>1. Listed(m, w)
        BY <1>2, <2>1
      <3>2. /\ s <= g.map[1].start \/ (w = 0 /\ s <= 1)
            /\ cpu'[m].loc = cpu[m].loc
        BY <1>0, <1>5, <2>1
      <3> QED BY <1>1, <1>3, <1>5, <3>1, <3>2, FirstReaches
    <2> QED BY <1>0, <2>1, <2>2 DEF Listed
  <1>7. Framed(m)' /\ Below(g.winx.start)'
    BY <1>0, <1>1, <1>2, SameWindowFacts
  <1> QED BY <1>0, <1>2, <1>6, <1>7 DEF Progress, WindowProgress, Inside, InWindow,
          Finishing, ListedAt, MappedAt, HoldingAt, Holding, Testers

(* Waiting at the sub barrier changes nothing.                              *)
LEMMA WaitStep ==
    ASSUME Covering, NEW m \in CPUs, Master(m), Step(m), ~Exempt',
           \/ WaitSegments(m) \/ Sync(m) \/ Synced(m)
           \/ Tick(m) \/ WaitTick(m) \/ TickDone(m) \/ Bail(m)
    PROVE  Progress(m)'
  <1>0. /\ m \in CPUs /\ m \in DOMAIN pc /\ Typed /\ CoverFields
        /\ (~Exempt => Progress(m))
        /\ <<pc[m], pc'[m]>> \in {<<"segments", "segments_bar">>, <<"sync", "synced">>,
                                  <<"synced", "load">>, <<"tick", "tick_bar">>,
                                  <<"tick_bar", "ticked">>, <<"ticked", "bailr">>,
                                  <<"bailr", "access">>, <<"bailr", "done">>}
        /\ cpu' = cpu
    BY MasterFacts DEF WaitSegments, Sync, Synced, Tick, WaitTick, TickDone, Bail, Goto
  <1>1. SameList(m)
    <2>1. CASE Tick(m)
      <3>1. CheckInput
        BY <2>1 DEF Tick
      <3> QED BY <1>0, <3>1, GoingOnInput DEF SameList, Exempt
    <2>2. CASE ~Tick(m)
      <3>1. ~Changes(m) /\ ~NextStage(m) /\ ~Access(m) /\ g' = g
        BY <1>0, <2>2, Origins DEF Changes, WaitSegments, Sync, Synced, WaitTick,
              TickDone, Bail
      <3> QED BY <1>0, <3>1, HeldStep DEF SameList
    <2> QED BY <2>1, <2>2
  <1>2. ~Exempt /\ WindowProgress(m)
    BY <1>0, <1>1, HeldFacts DEF SameList, Progress, Inside, InWindow
  <1>3. pc'[m] # "done"
    <2> SUFFICES ASSUME pc'[m] = "done" PROVE FALSE
      OBVIOUS
    <2>1. pc[m] = "bailr" /\ g.bail
      BY <1>0, Origins DEF Bail, Goto
    <2> QED BY <1>2, <2>1, MasterFacts DEF HoldingAt, Holding, Exempt
  <1>4. Framed(m)' /\ Below(g.winx.start)' /\ ThisWindow' = ThisWindow
    BY <1>1, <1>2, SameWindowFacts DEF SameList, WindowProgress
  <1>5. CASE pc[m] = "segments"
    <2>1. pc'[m] = "segments_bar"
      BY <1>0, <1>5
    <2>2. IF g'.segs = 0 THEN ThisWindow' = {} ELSE Listed(m, g.map[1].base \div WIN_SZ)'
      <3>1. PICK w : w = g.map[1].base \div WIN_SZ
        OBVIOUS
      <3>2. g.segs # 0 => Listed(m, w)'
        BY <1>1, <1>2, <1>5, <3>1, SameListFacts DEF WindowProgress, ListedAt
      <3> QED BY <1>1, <1>2, <1>4, <1>5, <3>1, <3>2
            DEF SameList, WindowProgress, ListedAt, Listed
    <2> QED BY <1>4, <2>1, <2>2 DEF Progress, WindowProgress, Inside, InWindow,
            Finishing, ListedAt, MappedAt, HoldingAt, Holding, Testers
  <1>6. CASE pc[m] \in {"sync", "synced"}
    <2>1. pc'[m] \in {"synced", "load"} /\ cpu[m].k = 0
      BY <1>0, <1>2, <1>6 DEF WindowProgress
    <2>2. Listed(m, cpu[m].win)'
      <3>1. PICK w : w = cpu[m].win
        OBVIOUS
      <3>2. Listed(m, w)'
        BY <1>1, <1>2, <1>6, <3>1, SameListFacts DEF WindowProgress, MappedAt, Testers
      <3> QED BY <1>0, <3>1, <3>2 DEF Listed
    <2> QED BY <1>0, <1>4, <2>1, <2>2 DEF Progress, WindowProgress, Inside, InWindow,
            Finishing, ListedAt, MappedAt, HoldingAt, Holding, Testers
  <1>7. CASE pc[m] \notin {"segments", "sync", "synced"}
    <2>1. pc[m] \in HoldingAt /\ pc'[m] \in HoldingAt
      BY <1>0, <1>3, <1>7 DEF HoldingAt, Holding
    <2>2. ThisWindow' \subseteq cpu'[m].area
      BY <1>0, <1>2, <1>4, <2>1 DEF WindowProgress
    <2>3. Listed(m, cpu[m].win)'
      <3>1. PICK w : w = cpu[m].win
        OBVIOUS
      <3>2. Listed(m, w)'
        BY <1>1, <1>2, <2>1, <3>1, SameListFacts
         DEF WindowProgress, MappedAt, Testers, HoldingAt, Holding
      <3> QED BY <1>0, <3>1, <3>2 DEF Listed
    <2> QED BY <1>4, <2>1, <2>2, <2>3 DEF Progress, WindowProgress, Inside, InWindow,
            Finishing, ListedAt, MappedAt, HoldingAt, Holding, Testers
  <1> QED BY <1>5, <1>6, <1>7

(* A CPU that tests goes through all of the memory.                         *)
LEMMA WholeArea ==
    ASSUME Covering, NEW m \in CPUs, InTest(m), pc[m] = "load"
    PROVE  Area(m) = Reached(g.map, g.segs, cpu[m].win)
  <1>0. Typed /\ Shape /\ Globals /\ Undivided
    BY CoverFacts DEF Covering, CoverInv
  <1>1. Whole
    <2>1. CASE AllWhole
      <3>1. CASE g.test < End
        <4>1. g.test + 1 \in DOMAIN Tests
          <5> DEFINE S == [cpu_sel : {-1} \cup Nat, fade : BOOLEAN, whole : BOOLEAN]
          <5>1. Tests \in Seq(S)
            BY SchedulerAssumption
          <5> HIDE DEF S
          <5> QED BY <1>0, <3>1, <5>1 DEF Globals, End
        <4> QED BY <2>1, <3>1, <4>1 DEF AllWhole, Whole, T
      <3>2. CASE ~(g.test < End)
        BY <3>2 DEF Whole, T, Terminator
      <3> QED BY <3>1, <3>2
    <2>2. CASE ~AllWhole
      <3>1. OneRuns \/ AllRun
        <4>1. RunInv /\ Teamed
          BY DEF Covering, SelfInv, StagesInv
        <4>2. cpu[m].run
          BY <4>1 DEF RunInv, InWindow
        <4> QED BY <4>1, <4>2 DEF Teamed, Team, NoneRuns
      <3>2. g.run_cpus \in {0, 1}
        BY <1>0, <2>2 DEF Undivided
      <3>3. N \in Nat
        BY SchedulerAssumption
      <3> QED BY <3>1, <3>2, <3>3 DEF OneRuns, AllRun, Whole
    <2> QED BY <2>1, <2>2
  <1>2. ASSUME NEW seg PROVE Chunk(seg, m) = seg.start .. seg.end - 1
    BY <1>1 DEF Chunk
  <1> QED BY <1>2 DEF Area, Reached

(* A test that goes on takes all that is listed; one that returns has       *)
(* ticked, and so has tested it.                                            *)
LEMMA LoadStep ==
    ASSUME Covering, NEW m \in CPUs, Master(m), Step(m), Load(m), ~Exempt'
    PROVE  Progress(m)'
  <1>0. /\ m \in CPUs /\ m \in DOMAIN pc /\ m \in DOMAIN cpu
        /\ Typed /\ CoverFields
        /\ {"loc", "run", "win", "area", "k"} \subseteq DOMAIN cpu[m]
        /\ (~Exempt => Progress(m))
        /\ pc[m] = "load" /\ g' = g /\ hist' = hist
    BY MasterFacts DEF Load, Goto
  <1>1. SameList(m) /\ cpu'[m].win = cpu[m].win
    <2>1. ~Changes(m) /\ ~NextStage(m) /\ ~Access(m)
      BY <1>0, Origins DEF Changes
    <2>2. Held
      BY <1>0, <2>1, HeldStep
    <2>3. cpu'[m].loc = cpu[m].loc /\ cpu'[m].win = cpu[m].win
      BY <1>0 DEF Load
    <2> QED BY <1>0, <2>2, <2>3 DEF SameList
  <1>2. ~Exempt /\ Framed(m) /\ Below(g.winx.start) /\ Listed(m, cpu[m].win)
        /\ (cpu[m].k = 0 \/ Tested)
    BY <1>0, <1>1, HeldFacts DEF SameList, Progress, WindowProgress, Inside, InWindow,
       MappedAt, Testers
  <1>3. Framed(m)' /\ Below(g.winx.start)' /\ ThisWindow' = ThisWindow /\ (Tested' <=> Tested)
    BY <1>1, <1>2, SameWindowFacts DEF SameList
  <1>4. CASE pc'[m] = "tick"
    <2>1. cpu'[m].area = Reached(g.map, g.segs, cpu[m].win)
      <3>1. pc'[m] # "done" /\ ~Sleeping
        BY <1>2, <1>4 DEF Exempt
      <3>2. cpu'[m].area = Area(m)
        BY <1>0, <3>1 DEF Load, Goto
      <3>3. Area(m) = Reached(g.map, g.segs, cpu[m].win)
        BY <1>0, WholeArea DEF InTest, InWindow
      <3> QED BY <3>2, <3>3
    <2>2. ThisWindow' \subseteq cpu'[m].area
      BY <1>2, <1>3, <2>1 DEF Listed
    <2>3. Listed(m, cpu[m].win)'
      <3>1. PICK w : w = cpu[m].win
        OBVIOUS
      <3>2. Listed(m, w)'
        BY <1>1, <1>2, <3>1, SameListFacts
      <3> QED BY <1>1, <3>1, <3>2 DEF Listed
    <2> QED BY <1>3, <1>4, <2>2, <2>3 DEF Progress, WindowProgress, Inside, InWindow,
            Finishing, ListedAt, MappedAt, HoldingAt, Holding, Testers
  <1>5. CASE pc'[m] = "done"
    <2>1. cpu[m].k >= Ticks
      BY <1>0, <1>5 DEF Load, Goto
    <2>2. Ticks = TicksPerTest
      BY <1>2 DEF Ticks, Exempt
    <2>3. Tested'
      <3>1. cpu[m].k # 0
        BY <2>1, <2>2, CoverAssumption
      <3> QED BY <1>2, <1>3, <3>1
    <2> QED BY <1>3, <1>5, <2>3 DEF Progress, WindowProgress, Inside, InWindow,
            Finishing, ListedAt, MappedAt, HoldingAt, Holding, Testers
  <1>6. pc'[m] \in {"tick", "done"}
    BY <1>0 DEF Load, Goto
  <1> QED BY <1>4, <1>5, <1>6

LEMMA AccessStep ==
    ASSUME Covering, NEW m \in CPUs, Master(m), Step(m), Access(m), ~Exempt'
    PROVE  Progress(m)'
  <1>0. /\ m \in CPUs /\ m \in DOMAIN pc /\ m \in DOMAIN cpu
        /\ Typed /\ CoverFields
        /\ {"loc", "run", "win", "area", "k"} \subseteq DOMAIN cpu[m]
        /\ (~Exempt => Progress(m))
    BY MasterFacts
  <1>1. /\ pc[m] = "access" /\ pc'[m] = "load" /\ g' = g
        /\ cpu'[m].loc = cpu[m].loc /\ cpu'[m].win = cpu[m].win
        /\ hist'.covered = hist.covered \cup cpu[m].area
        /\ (hist'.bailed <=> hist.bailed)
    BY <1>0 DEF Access, Goto, CoverFields
  <1>2. Fade' = Fade /\ Sleeping' = Sleeping
    BY <1>1 DEF Fade, Sleeping
  <1>3. ToCover' = ToCover /\ (Exempt' <=> Exempt) /\ Frontier' = Frontier
    BY <1>1, <1>2 DEF ToCover, Exempt, Frontier
  <1>4. /\ Framed(m) /\ Below(g.winx.start) /\ Listed(m, cpu[m].win)
        /\ ThisWindow \subseteq cpu[m].area
    BY <1>0, <1>1, <1>3 DEF Progress, WindowProgress, Inside, InWindow,
       MappedAt, Testers, HoldingAt
  <1>5. ThisWindow' = ThisWindow
    BY <1>1, <1>3 DEF ThisWindow
  <1>6. Framed(m)' /\ Below(g.winx.start)'
    BY <1>1, <1>3, <1>4 DEF Framed, Below
  <1>7. Tested'
    BY <1>1, <1>4, <1>5 DEF Tested
  <1>8. Listed(m, cpu[m].win)'
    BY <1>1, <1>4, <1>5 DEF Listed
  <1> QED BY <1>1, <1>6, <1>7, <1>8 DEF Progress, WindowProgress, Inside, InWindow,
          Finishing, ListedAt, MappedAt, HoldingAt, Holding, Testers

LEMMA DoneStep ==
    ASSUME Covering, NEW m \in CPUs, Master(m), Step(m), Done(m), ~Exempt'
    PROVE  Progress(m)'
  <1>0. /\ m \in CPUs /\ m \in DOMAIN pc /\ Typed /\ CoverFields
        /\ (~Exempt => Progress(m))
        /\ pc[m] = "done" /\ pc'[m] = "while"
    BY MasterFacts DEF Done, Goto
  <1>1. Held
    <2>1. ~Changes(m) /\ ~NextStage(m) /\ ~Access(m)
      BY <1>0, Origins DEF Changes
    <2> QED BY <1>0, <2>1, HeldStep
  <1>2. Framed(m) /\ Below(g.winx.start) /\ Tested
    BY <1>0, <1>1, HeldFacts DEF Progress, WindowProgress, Inside, InWindow
  <1>3. Below(Frontier)'
    <2>1. Below(Frontier)
      BY <1>0, <1>2, WindowOver
    <2> QED BY <1>1, <2>1, HeldFacts DEF Below, Held
  <1> QED BY <1>0, <1>3 DEF Progress, Inside, InWindow, Finishing

(* What the steps of the master make of it.                                 *)
LEMMA ProgressStep ==
    ASSUME Covering, NEW m \in CPUs, Master(m), Step(m), ~PickCpu(m), ~Exempt'
    PROVE  Progress(m)'
  <1>1. CASE \/ Compute(m) \/ MapWindow(m) \/ Prepare(m) \/ Prepared(m) \/ Load(m)
             \/ WaitSegments(m) \/ Sync(m) \/ Synced(m) \/ Tick(m) \/ WaitTick(m) \/ TickDone(m) \/ Bail(m)
             \/ Access(m) \/ Done(m)
    BY <1>1, ComputeStep, MapStep, PrepareStep, LoadStep, WaitStep, AccessStep, DoneStep
  <1>2. CASE \/ Defaults(m) \/ EndWindows(m) \/ ResetWindows(m) \/ HouseInput(m)
             \/ RestartTest(m) \/ NextStage(m) \/ Advance(m)
             \/ NextTest(m) \/ Scan(m) \/ Rescan(m) \/ TakeWindow(m)
    BY <1>2, EndingStep, TakeStep
  <1>3. CASE FadeWindow(m) \/ NextWindow(m)
    <2>1. pc[m] \notin Inside \cup Finishing /\ pc'[m] \notin Inside \cup Finishing
      BY <1>3, MasterFacts DEF FadeWindow, NextWindow, Goto, Inside, InWindow, Finishing
    <2> QED BY <1>3, <2>1, SkipStep, MasterFacts DEF Progress
  <1>4. CASE \/ Top(m) \/ Restarted(m) \/ NewTest(m) \/ LoadIters(m) \/ SetIters(m)
             \/ WindowLoop(m) \/ RelocLow(m) \/ SkipLow(m) \/ RelocHigh(m) \/ Copy(m)
             \/ TakeMutex(m) \/ Jump(m) \/ Startup(m) \/ FirstBarrier(m)
             \/ SubInit(m) \/ SubReady(m) \/ Selected(m) \/ EndPass(m) \/ NewPass(m)
             \/ Unbail(m)
    <2>1. pc[m] \in {"top", "restarted", "setup", "iters", "set_iters", "while",
                     "reloc_low", "skip_low", "reloc_high", "copy", "copied", "jump",
                     "startup", "first", "picked", "sub_ready", "ready",
                     "end_pass", "new_pass", "unbail"}
      BY <1>4, Origins
    <2>2. ~Changes(m) /\ pc[m] \notin Inside \cup Finishing
      BY <2>1, Origins DEF Changes, Inside, InWindow, Finishing
    <2> QED BY <2>2, OutsideStep
  <1> QED BY <1>1, <1>2, <1>3, <1>4 DEF Step

----------------------------------------------------------------------------
(* The other CPUs.                                                          *)

(* They add to what is covered, and start the windows over at most.         *)
LEMMA OthersLeave ==
    ASSUME Covering, NEW c \in CPUs, Step(c), ~Master(c), ~Defaults(c), ~FadeWindow(c),
           ~NextWindow(c), ~PickCpu(c)
    PROVE  /\ g'.winx = g.winx /\ g'.segs = g.segs
           /\ SetIters(c) \/ g'.map = g.map
           /\ g'.plim = g.plim /\ g'.test = g.test /\ g'.bitf_seq = g.bitf_seq
           /\ Frontier' = Frontier \/ g'.window = 0
           /\ hist.covered \subseteq hist'.covered /\ (hist'.bailed <=> hist.bailed)
  <1>0. Shape /\ Fields /\ CoverFields
    BY CoverFacts
  <1>a. ~TakeWindow(c) /\ ~Compute(c) /\ ~Prepare(c) /\ ~Prepared(c) /\ ~HouseInput(c)
        /\ ~RestartTest(c) /\ ~NextStage(c) /\ ~Advance(c)
        /\ ~NextTest(c) /\ ~Scan(c) /\ ~Rescan(c) /\ ~EndPass(c) /\ ~NewPass(c) /\ ~Unbail(c)
    BY MasterOnly
  <1> USE <1>0 DEF Shape, Fields, CoverFields, Frontier
  <1>1. CASE Top(c) \/ LoadIters(c) \/ WindowLoop(c) \/ RelocLow(c) \/ SkipLow(c)
             \/ RelocHigh(c) \/ Copy(c) \/ TakeMutex(c) \/ Jump(c) \/ Startup(c)
             \/ FirstBarrier(c) \/ SubInit(c) \/ SubReady(c) \/ Selected(c)
    BY <1>1 DEF Top, LoadIters, WindowLoop, RelocLow, SkipLow, RelocHigh, Copy,
           TakeMutex, Jump, Startup, FirstBarrier, SubInit, SubReady, Selected
  <1>2. CASE WaitSegments(c) \/ MapWindow(c) \/ Sync(c) \/ Synced(c) \/ Load(c)
             \/ Tick(c) \/ WaitTick(c) \/ TickDone(c) \/ Bail(c) \/ EndWindows(c)
    BY <1>2 DEF WaitSegments, MapWindow, Sync, Synced, Load, Tick, WaitTick, TickDone, Bail, EndWindows
  <1>3. CASE Restarted(c) \/ NewTest(c)
    BY <1>3 DEF Restarted, NewTest
  <1>4. CASE SetIters(c)
    BY <1>4 DEF SetIters
  <1>5. CASE Access(c)
    BY <1>5 DEF Access
  <1>6. CASE Done(c)
    BY <1>6 DEF Done
  <1>7. CASE ResetWindows(c)
    BY <1>7 DEF ResetWindows
  <1> QED BY <1>a, <1>1, <1>2, <1>3, <1>4, <1>5, <1>6, <1>7 DEF Step

(* The list of segments changes only when the master does not need it.      *)
LEMMA ListNeeded ==
    ASSUME Covering, NEW c \in CPUs, SetIters(c), NEW m \in CPUs, pc[m] \in Inside
    PROVE  /\ pc[m] \in {"compute"} \cup ListedAt
           /\ pc[m] \in ListedAt /\ Master(m) => g.segs = 0
  <1>1. Inner /\ Order /\ pc[c] = "set_iters"
    BY CoverFacts, Origins
  <1>2. PastEnd
    BY <1>1 DEF Inner, ChooseLow, ChooseHigh, Moving, ReturnHigh, Picking, TestHigh,
           TestFrom, Between, Choosing, Returning, InWindow, Inside
  <1>3. pc[m] \in {"compute"} \cup ListedAt
    BY <1>2 DEF PastEnd, Inside, InWindow, ListedAt, Returning, Ending
  <1>4. ASSUME pc[m] \in ListedAt, Master(m) PROVE g.segs = 0
    <2>1. ~\E d \in CPUs : pc[d] = "compute"
      BY <1>1, <1>4 DEF Order, Master, ListedAt
    <2> QED BY <1>2, <1>4, <2>1 DEF PastEnd, ListedAt
  <1> QED BY <1>3, <1>4

(* A step that keeps what the master relies on keeps how far it has come.   *)
LEMMA Undisturbed ==
    ASSUME NEW m \in CPUs, Progress(m), pc'[m] = pc[m], cpu'[m] = cpu[m],
           g'.winx = g.winx, g'.segs = g.segs,
           g'.plim = g.plim, g'.test = g.test, g'.bitf_seq = g.bitf_seq,
           Frontier' = Frontier \/ g'.window = 0, hist.covered \subseteq hist'.covered,
           g'.map = g.map \/ (pc[m] \in Inside => /\ pc[m] \in {"compute"} \cup ListedAt
                                                  /\ pc[m] \in ListedAt => g.segs = 0)
    PROVE  Progress(m)'
  <1>1. ToCover' = ToCover
    <2>1. Fade' = Fade
      BY DEF Fade
    <2> QED BY <2>1 DEF ToCover
  <1>2. ThisWindow' = ThisWindow
    BY <1>1 DEF ThisWindow
  <1>3. Frontier' = Frontier \/ Frontier' = 0
    BY DEF Frontier
  <1>4. Below(Frontier) => Below(Frontier)'
    <2>1. CASE Frontier' = Frontier
      BY <1>1, <2>1 DEF Below
    <2>2. CASE Frontier' = 0
      <3>1. \A b \in ToCover : ~(b < 0)
        BY RamType DEF ToCover
      <3> QED BY <1>1, <2>2, <3>1 DEF Below
    <2> QED BY <1>3, <2>1, <2>2
  <1>5. CASE pc[m] \in Inside
    <2>0. WindowProgress(m)
      BY <1>5 DEF Progress
    <2>1. Framed(m)'
      <3>1. Framed(m) /\ Frontier' <= g.winx.end
        BY <1>3, <2>0 DEF WindowProgress, Framed
      <3> QED BY <3>1 DEF Framed
    <2>2. Below(g.winx.start)' /\ (Tested => Tested')
      BY <1>1, <1>2, <2>0 DEF WindowProgress, Below, Tested
    <2>3. CASE g'.map = g.map
      <3>1. Listed(m, cpu[m].win) => Listed(m, cpu[m].win)'
        BY <1>2, <2>3 DEF Listed
      <3>2. Listed(m, g.map[1].base \div WIN_SZ) => Listed(m, g.map[1].base \div WIN_SZ)'
        BY <1>2, <2>3 DEF Listed
      <3>3. WindowProgress(m)'
        BY <1>2, <2>0, <2>1, <2>2, <3>1, <3>2 DEF WindowProgress
      <3> QED BY <1>5, <3>3 DEF Progress, Inside, InWindow, Finishing
    <2>4. CASE pc[m] \in {"compute"} \cup ListedAt /\ (pc[m] \in ListedAt => g.segs = 0)
      <3>1. WindowProgress(m)'
        BY <1>2, <2>0, <2>1, <2>2, <2>4
         DEF WindowProgress, ListedAt, MappedAt, HoldingAt, Holding, Testers
      <3> QED BY <1>5, <3>1 DEF Progress, Inside, InWindow, Finishing
    <2> QED BY <1>5, <2>3, <2>4
  <1>6. CASE pc[m] \notin Inside
    BY <1>1, <1>4, <1>6 DEF Progress
  <1> QED BY <1>5, <1>6

(* What every step makes of the master's progress, whoever takes it.        *)
LEMMA MasterProgressStep ==
    ASSUME Covering, NEW c \in CPUs, Step(c), ~Exempt'
    PROVE  MasterProgress'
  <1>0. Typed /\ Shape /\ Globals /\ CoverFields /\ CPUs' = CPUs /\ c \in DOMAIN pc
    BY CoverFacts DEF CPUs
  <1>a. \A d \in CPUs \ {c} : pc'[d] = pc[d] /\ cpu'[d] = cpu[d]
    BY <1>0, EntersTest, CpuFrame
  <1>1. CASE PickCpu(c)
    <2>1. Held
      <3>1. ~Changes(c) /\ ~NextStage(c) /\ ~Access(c)
        BY <1>1, Origins DEF Changes
      <3> QED BY <1>0, <3>1, HeldStep
    <2>2. \A d \in CPUs : pc[d] \notin Inside \cup Finishing
      BY <1>1, ChooseQuiet DEF Choosing, Inside, InWindow, Finishing
    <2>3. \A d \in CPUs : pc'[d] \notin Inside \cup Finishing
      <3>1. pc'[c] = "picked"
        BY <1>0, <1>1 DEF PickCpu, Goto
      <3> QED BY <1>a, <2>2, <3>1 DEF Inside, InWindow, Finishing
    <2>4. MasterProgress
      BY <2>1, HeldFacts DEF Covering, CoverInv
    <2>5. Below(Frontier)
      BY <2>2, <2>4 DEF MasterProgress, Progress
    <2>6. Below(Frontier)'
      BY <2>1, <2>5, HeldFacts DEF Held, Below, Frontier
    <2> QED BY <1>0, <2>3, <2>6 DEF MasterProgress, Progress
  <1>2. CASE ~PickCpu(c)
    <2>1. g'.mstr_cpu = g.mstr_cpu
      BY <1>0, <1>2, RunFrame
    <2>2. CASE Defaults(c)
      <3>1. g'.window = 0 /\ hist' = hist /\ pc'[c] = "restarted"
        BY <1>0, <2>2, DefaultsFrame DEF Defaults, Goto
      <3>2. Defaulting /\ pc[c] = "defaults"
        BY <2>2, <3>1, Origins DEF Covering, CoverInv, Exempt
      <3>3. ASSUME NEW m \in CPUs, Master(m) PROVE Progress(m)'
        <4>1. pc'[m] \notin Inside \cup Finishing
          BY <1>a, <3>1, <3>2, <3>3 DEF Defaulting, Inside, InWindow, Finishing
        <4> QED BY <3>1, <4>1, StartsOver
      <3>4. Below(Frontier)'
        <4>1. \A b \in ToCover' : b \in Ram
          BY DEF ToCover
        <4> QED BY <3>1, <4>1, RamType DEF Below, Frontier
      <3> QED BY <1>0, <2>1, <3>3, <3>4 DEF MasterProgress, Master
    <2>3. CASE FadeWindow(c) \/ NextWindow(c)
      <3>1. ~Exempt /\ (Below(Frontier) => Below(Frontier)')
        BY <2>3, SkipStep
      <3>2. \A d \in CPUs : pc[d] \notin Inside \cup Finishing
        BY <2>3, ChooseQuiet DEF Choosing, Inside, InWindow, Finishing
      <3>3. \A d \in CPUs : pc'[d] \notin Inside \cup Finishing
        <4>1. pc'[c] \in {"reloc_low", "reloc_high"}
          BY <1>0, <2>3 DEF FadeWindow, NextWindow, Goto
        <4> QED BY <1>a, <3>2, <4>1 DEF Inside, InWindow, Finishing
      <3>4. MasterProgress
        BY <3>1 DEF Covering, CoverInv
      <3> QED BY <1>0, <2>1, <3>1, <3>2, <3>3, <3>4 DEF MasterProgress, Progress, Master
    <2>4. CASE Master(c)
      <3>1. Progress(c)'
        BY <1>2, <2>4, ProgressStep
      <3> QED BY <1>0, <2>1, <2>4, <3>1 DEF MasterProgress, Master
    <2>5. CASE ~Master(c) /\ ~Defaults(c) /\ ~FadeWindow(c) /\ ~NextWindow(c)
      <3>1. /\ g'.winx = g.winx /\ g'.segs = g.segs
            /\ SetIters(c) \/ g'.map = g.map
            /\ g'.plim = g.plim /\ g'.test = g.test /\ g'.bitf_seq = g.bitf_seq
            /\ Frontier' = Frontier \/ g'.window = 0
            /\ hist.covered \subseteq hist'.covered /\ (hist'.bailed <=> hist.bailed)
        BY <1>2, <2>5, OthersLeave
      <3>2. Fade' = Fade /\ Sleeping' = Sleeping
        BY <3>1 DEF Fade, Sleeping
      <3>3. ToCover' = ToCover /\ ~Exempt
        BY <3>1, <3>2 DEF ToCover, Exempt
      <3>4. MasterProgress
        BY <3>3 DEF Covering, CoverInv
      <3>5. ASSUME NEW m \in CPUs, Master(m) PROVE Progress(m)'
        <4>1. Progress(m) /\ pc'[m] = pc[m] /\ cpu'[m] = cpu[m]
          BY <1>a, <2>5, <3>4, <3>5 DEF MasterProgress
        <4>2. g'.map = g.map \/ (pc[m] \in Inside => /\ pc[m] \in {"compute"} \cup ListedAt
                                                     /\ pc[m] \in ListedAt => g.segs = 0)
          BY <3>1, <3>5, ListNeeded
        <4> QED BY <3>1, <4>1, <4>2, Undisturbed
      <3>6. Below(Frontier) => Below(Frontier)'
        <4>1. \A b \in ToCover : ~(b < 0)
          BY RamType DEF ToCover
        <4>2. g'.window = 0 => Frontier' = 0
          BY DEF Frontier
        <4> QED BY <3>1, <3>3, <4>1, <4>2 DEF Below
      <3> QED BY <1>0, <2>1, <3>4, <3>5, <3>6 DEF MasterProgress, Master
    <2> QED BY <2>2, <2>3, <2>4, <2>5
  <1> QED BY <1>1, <1>2

----------------------------------------------------------------------------
(* Bail and restart.                                                        *)

(* A key that leaves the test uninterrupted asks for no restart, and the    *)
(* test's interruption is forgotten only at its end.                        *)
LEMMA FlagKept ==
    ASSUME Covering, NEW c \in CPUs, Step(c), ~hist'.bailed
    PROVE  /\ g'.restart_flag => g.restart_flag /\ ~Restarted(c)
           /\ hist.bailed => RestartTest(c) \/ NextStage(c) \/ Advance(c)
  <1>0. Shape /\ Fields /\ CoverFields
    BY CoverFacts
  <1> USE <1>0 DEF Shape, Fields, CoverFields
  <1>1. CASE Tick(c) \/ HouseInput(c)
    <2>1. CASE CheckInput
      BY <1>1, <2>1, GoingOnInput, Origins DEF Held
    <2>2. CASE UNCHANGED <<g, hist>>
      BY <1>1, <2>2, Origins
    <2> QED BY <1>1, <2>1, <2>2 DEF Tick, HouseInput
  <1>2. CASE Top(c) \/ LoadIters(c) \/ WindowLoop(c) \/ RelocLow(c) \/ SkipLow(c)
             \/ RelocHigh(c) \/ Copy(c) \/ TakeMutex(c) \/ Jump(c) \/ Startup(c)
             \/ FirstBarrier(c) \/ SubInit(c) \/ SubReady(c) \/ Selected(c)
    BY <1>2, Origins DEF Top, LoadIters, WindowLoop, RelocLow, SkipLow, RelocHigh, Copy,
           TakeMutex, Jump, Startup, FirstBarrier, SubInit, SubReady, Selected
  <1>3. CASE WaitSegments(c) \/ MapWindow(c) \/ Sync(c) \/ Synced(c) \/ Load(c)
             \/ WaitTick(c) \/ TickDone(c) \/ Bail(c) \/ EndWindows(c)
    BY <1>3, Origins DEF WaitSegments, MapWindow, Load, Sync, Synced, WaitTick, TickDone, Bail, EndWindows
  <1>4. CASE Restarted(c)
    BY <1>4 DEF Restarted
  <1>5. CASE NewTest(c) \/ SetIters(c) \/ NextWindow(c)
    BY <1>5, Origins DEF NewTest, SetIters, NextWindow
  <1>6. CASE Defaults(c)
    BY <1>6, Origins DEF Defaults, SetDefaults
  <1>7. CASE FadeWindow(c)
    BY <1>7, Origins DEF FadeWindow
  <1>8. CASE PickCpu(c)
    BY <1>8, Origins DEF PickCpu
  <1>9. CASE TakeWindow(c)
    <2>1. hist' = hist /\ g'.restart_flag = g.restart_flag
      BY <1>9 DEF TakeWindow
    <2> QED BY <1>9, <2>1, Origins
  <1>10. CASE Compute(c) \/ Prepare(c) \/ Prepared(c) \/ Done(c)
    BY <1>10, Origins DEF Compute, Prepare, Prepared, Done
  <1>11. CASE Access(c)
    BY <1>11, Origins DEF Access
  <1>12. CASE ResetWindows(c)
    BY <1>12, Origins DEF ResetWindows
  <1>13. CASE RestartTest(c) \/ NextStage(c) \/ Advance(c)
    BY <1>13, Origins DEF RestartTest, NextStage, Advance
  <1>14. CASE NextTest(c) \/ Scan(c) \/ Rescan(c)
    BY <1>14, Origins DEF NextTest, Scan, Rescan
  <1>15. CASE EndPass(c) \/ NewPass(c) \/ Unbail(c)
    BY <1>15, Origins DEF EndPass, NewPass, Unbail
  <1> QED BY <1>1, <1>2, <1>3, <1>4, <1>5, <1>6, <1>7, <1>8, <1>9, <1>10, <1>11, <1>12,
             <1>13, <1>14, <1>15 DEF Step

(* The way from the end of a test to the defaults, on which no window is    *)
(* taken.                                                                   *)
Restarting == Advancing \cup {"top", "defaults", "restarted"}

(* A CPU leaves that way only with the defaults restored.                   *)
LEMMA RestartPath ==
    ASSUME Covering, NEW c \in CPUs, Step(c), pc[c] \in Restarting, ~Restarted(c),
           pc[c] = "top" => g.restart_flag
    PROVE  pc'[c] \in Restarting
  <1>0. c \in DOMAIN pc
    BY CoverFacts
  <1> USE <1>0 DEF Goto, Restarting, Advancing
  <1>1. CASE Top(c)
    BY <1>1 DEF Top
  <1>2. CASE Defaults(c)
    BY <1>2 DEF Defaults
  <1>3. CASE NextTest(c) \/ Scan(c) \/ Rescan(c) \/ EndPass(c) \/ NewPass(c) \/ Unbail(c)
    BY <1>3 DEF NextTest, Scan, Rescan, EndPass, NewPass, Unbail
  <1> QED BY <1>1, <1>2, <1>3, Origins DEF Step

(* The defaults are set in the test loop, before a test is begun.           *)
LEMMA DefaultsFrom ==
    ASSUME Typed, NEW c \in CPUs, Step(c), pc'[c] = "defaults"
    PROVE  Top(c)
  <1>0. c \in DOMAIN pc
    BY DEF Typed, Located
  <1> USE <1>0 DEF Goto
  <1>1. ~Defaults(c) /\ ~Restarted(c) /\ ~NewTest(c) /\ ~LoadIters(c) /\ ~SetIters(c)
        /\ ~WindowLoop(c) /\ ~FadeWindow(c) /\ ~RelocLow(c) /\ ~SkipLow(c)
        /\ ~NextWindow(c) /\ ~RelocHigh(c)
    BY DEF Defaults, Restarted, NewTest, LoadIters, SetIters, WindowLoop, FadeWindow,
           RelocLow, SkipLow, NextWindow, RelocHigh
  <1>2. ~Copy(c) /\ ~TakeMutex(c) /\ ~Jump(c) /\ ~Startup(c) /\ ~FirstBarrier(c)
        /\ ~PickCpu(c) /\ ~SubInit(c) /\ ~SubReady(c) /\ ~Selected(c)
    BY DEF Copy, TakeMutex, Jump, Startup, FirstBarrier, PickCpu, SubInit, SubReady, Selected
  <1>3. ~TakeWindow(c) /\ ~Compute(c) /\ ~WaitSegments(c) /\ ~MapWindow(c) /\ ~Prepare(c)
        /\ ~Prepared(c) /\ ~Sync(c) /\ ~Synced(c) /\ ~Load(c) /\ ~Tick(c) /\ ~WaitTick(c) /\ ~TickDone(c)
        /\ ~Bail(c) /\ ~Access(c) /\ ~Done(c)
    BY DEF TakeWindow, Compute, WaitSegments, MapWindow, Prepare, Prepared, Begin, Sync, Synced,
           Load, Tick, WaitTick, TickDone, Bail, Access, Done
  <1>4. ~EndWindows(c) /\ ~ResetWindows(c) /\ ~HouseInput(c) /\ ~RestartTest(c)
        /\ ~NextStage(c) /\ ~Advance(c) /\ ~NextTest(c) /\ ~Scan(c) /\ ~Rescan(c)
        /\ ~EndPass(c) /\ ~NewPass(c) /\ ~Unbail(c)
    BY DEF EndWindows, ResetWindows, HouseInput, RestartTest, NextStage, Advance, NextTest,
           Scan, Rescan, EndPass, NewPass, Unbail
  <1> QED BY <1>1, <1>2, <1>3, <1>4 DEF Step

(* No step breaks the restart; a key that asks for one interrupts the test. *)
LEMMA RestartStep ==
    ASSUME Covering, NEW c \in CPUs, Step(c), ~hist'.bailed
    PROVE  RestartWaits' /\ Defaulting'
  <1>0. /\ Typed /\ Shape /\ Globals /\ Fields /\ CoverFields /\ Order /\ CPUs' = CPUs
        /\ c \in DOMAIN pc
    BY CoverFacts DEF CPUs
  <1>a. \A d \in CPUs \ {c} : pc'[d] = pc[d]
    BY <1>0, EntersTest
  <1>1. CASE hist.bailed
    <2>1. RestartTest(c) \/ NextStage(c) \/ Advance(c)
      BY <1>1, FlagKept
    <2>2. /\ Master(c) /\ g.window = 0 /\ pc'[c] \in {"end_pass", "top", "next_test"}
          /\ g'.window = g.window /\ g'.mstr_cpu = g.mstr_cpu
      BY <1>0, <2>1, MasterOnly, Origins
       DEF RestartTest, NextStage, Advance, Goto, Order, House, Ending, Shape
    <2>3. \A m \in CPUs : Master(m)' => m = c
      BY <2>2 DEF Master
    <2> QED BY <1>0, <2>2, <2>3
         DEF RestartWaits, Defaulting, Master, Advancing, Inside, InWindow, Finishing
  <1>2. CASE ~hist.bailed
    <2>0. RestartWaits /\ Defaulting /\ Inner
      BY <1>2, CoverFacts DEF Covering, CoverInv
    <2>1. RestartWaits'
      <3> SUFFICES ASSUME g'.restart_flag
                   PROVE  /\ g'.window = 0
                          /\ \E m \in CPUs : Master(m)' /\ pc'[m] \in Restarting
        BY <1>0 DEF RestartWaits, Restarting
      <3>1. g.restart_flag /\ ~Restarted(c)
        BY FlagKept
      <3>2. PICK m \in CPUs : Master(m) /\ pc[m] \in Restarting /\ g.window = 0
        BY <2>0, <3>1 DEF RestartWaits, Restarting
      <3>3. ~FadeWindow(c) /\ ~NextWindow(c) /\ ~PickCpu(c)
        BY <3>2, ChooseQuiet DEF Restarting, Advancing, Choosing
      <3>4. ~TakeWindow(c)
        BY <3>2, MasterOnly, Origins DEF Master, Restarting, Advancing
      <3>5. g'.window = 0 /\ g'.mstr_cpu = g.mstr_cpu
        BY <1>0, <3>2, <3>3, <3>4, WindowsMove, RunFrame
      <3>6. pc'[m] \in Restarting
        BY <1>a, <3>1, <3>2, RestartPath
      <3> QED BY <3>2, <3>5, <3>6 DEF Master
    <2>2. Defaulting'
      <3> SUFFICES ASSUME NEW d \in CPUs, pc'[d] = "defaults"
                   PROVE  /\ g'.window = 0
                          /\ \A m \in CPUs : Master(m)' => pc'[m] \notin Inside \cup Finishing
        BY <1>0 DEF Defaulting
      <3>1. CASE pc[d] # "defaults"
        <4>1. d = c /\ Top(c) /\ g.restart_flag
          <5>1. d = c
            BY <1>a, <3>1
          <5>2. Top(c)
            BY <1>0, <3>1, <5>1, DefaultsFrom
          <5> QED BY <1>0, <5>1, <5>2 DEF Top, Goto
        <4>2. PICK m \in CPUs : Master(m) /\ pc[m] \in Restarting /\ g.window = 0
          BY <2>0, <4>1 DEF RestartWaits, Restarting
        <4>3. g' = g
          BY <4>1 DEF Top
        <4>4. pc'[m] \in Restarting
          BY <1>a, <4>1, <4>2, RestartPath, Origins
        <4>5. \A x \in CPUs : Master(x)' => x = m
          BY <4>2, <4>3 DEF Master
        <4> QED BY <4>2, <4>3, <4>4, <4>5
             DEF Restarting, Advancing, Inside, InWindow, Finishing
      <3>2. CASE pc[d] = "defaults"
        <4>1. g.window = 0 /\ \A m \in CPUs : Master(m) => pc[m] \notin Inside \cup Finishing
          BY <2>0, <3>2 DEF Defaulting
        <4>2. \A x \in CPUs : Master(x) => pc[x] # "window"
          <5>1. PastEnd \/ ReturnHigh
            BY <2>0, <3>2 DEF Inner, ChooseLow, ChooseHigh, Moving, Picking, TestHigh,
               TestFrom, Between, Choosing, InWindow
          <5> QED BY <5>1 DEF PastEnd, ToTake, ReturnHigh, Between, Returning
        <4>3. ~FadeWindow(c) /\ ~NextWindow(c) /\ ~PickCpu(c)
          BY <3>2, ChooseQuiet DEF Choosing
        <4>4. ~TakeWindow(c)
          BY <4>2, MasterOnly, Origins
        <4>5. g'.window = 0 /\ g'.mstr_cpu = g.mstr_cpu
          BY <1>0, <4>1, <4>3, <4>4, WindowsMove, RunFrame
        <4>6. ~(g.win_next > MemEnd + WIN_SZ)
          BY <1>0, <4>1, CoverFacts DEF Order
        <4>7. ASSUME NEW m \in CPUs, Master(m) PROVE pc'[m] \notin Inside \cup Finishing
          <5>1. CASE m # c
            BY <1>a, <4>1, <4>7, <5>1
          <5>2. CASE m = c
            BY <1>0, <4>1, <4>4, <4>6, <4>7, <5>2, Entrance
          <5> QED BY <5>1, <5>2
        <4> QED BY <4>5, <4>7 DEF Master
      <3> QED BY <3>1, <3>2
    <2> QED BY <2>1, <2>2
  <1> QED BY <1>1, <1>2

(* Whoever sees bail while a window is tested knows that the user has       *)
(* interrupted it.                                                          *)
LEMMA BailStep ==
    ASSUME Covering, NEW m \in CPUs, Master(m), Step(m),
           pc'[m] \in HoldingAt \ {"tick"}, g'.bail
    PROVE  hist'.bailed
  <1>0. /\ m \in CPUs /\ m \in DOMAIN pc /\ Typed /\ CoverFields
        /\ (pc[m] \in HoldingAt \ {"tick"} /\ g.bail => hist.bailed)
    BY MasterFacts
  <1>1. pc'[m] \in {"tick_bar", "ticked", "bailr", "access"}
    BY DEF HoldingAt, Holding
  <1>2. InTest(m)' /\ pc'[m] \in InWindow
    BY <1>1 DEF InTest, InWindow
  <1>3. InTest(m)
    BY <1>0, <1>2, EntersTest
  <1>4. Tick(m) \/ WaitTick(m) \/ TickDone(m) \/ Bail(m)
    <2> USE <1>0, <1>1 DEF Goto
    <2>1. ~SubInit(m) /\ ~SubReady(m) /\ ~Selected(m) /\ ~TakeWindow(m) /\ ~Compute(m)
          /\ ~WaitSegments(m) /\ ~MapWindow(m) /\ ~Prepare(m) /\ ~Prepared(m)
          /\ ~Sync(m) /\ ~Synced(m) /\ ~Load(m) /\ ~Access(m) /\ ~Done(m)
      BY DEF SubInit, SubReady, Selected, TakeWindow, Compute, WaitSegments, MapWindow,
             Prepare, Prepared, Begin, Sync, Synced, Load, Access, Done
    <2>2. pc[m] \in {"picked", "sub_ready", "ready"} \cup InWindow
      BY <1>3 DEF InTest
    <2> QED BY <2>1, <2>2, Origins DEF Step, InWindow
  <1>5. CASE Tick(m)
    <2>2. CheckInput
      BY <1>5 DEF Tick
    <2> QED BY <1>0, <2>2 DEF CheckInput, CoverFields
  <1>6. CASE WaitTick(m) \/ TickDone(m) \/ Bail(m)
    <2>1. g' = g /\ hist' = hist /\ pc[m] \in {"tick_bar", "ticked", "bailr"}
      BY <1>0, <1>6, Origins DEF WaitTick, TickDone, Bail
    <2> QED BY <1>0, <2>1 DEF HoldingAt, Holding
  <1> QED BY <1>4, <1>5, <1>6

(* The other CPUs reset bail at most.                                       *)
LEMMA OthersBail ==
    ASSUME Covering, NEW c \in CPUs, Step(c), ~Master(c), g'.bail
    PROVE  g.bail
  <1>0. Shape /\ Fields
    BY CoverFacts
  <1>a. ~TakeWindow(c) /\ ~Compute(c) /\ ~Prepare(c) /\ ~Prepared(c) /\ ~HouseInput(c)
        /\ ~RestartTest(c) /\ ~NextStage(c) /\ ~Advance(c)
        /\ ~NextTest(c) /\ ~Scan(c) /\ ~Rescan(c) /\ ~EndPass(c) /\ ~NewPass(c) /\ ~Unbail(c)
    BY MasterOnly
  <1> USE <1>0 DEF Shape, Fields
  <1>1. CASE UNCHANGED g
    BY <1>1
  <1>2. CASE Tick(c)
    BY <1>2 DEF Tick
  <1>3. CASE Restarted(c) \/ NewTest(c) \/ SetIters(c) \/ NextWindow(c)
    BY <1>3 DEF Restarted, NewTest, SetIters, NextWindow
  <1>4. CASE FadeWindow(c)
    BY <1>4 DEF FadeWindow
  <1>5. CASE PickCpu(c)
    BY <1>5 DEF PickCpu
  <1>6. CASE Done(c)
    BY <1>6 DEF Done
  <1>7. CASE Defaults(c) \/ ResetWindows(c)
    BY <1>7 DEF Defaults, SetDefaults, ResetWindows
  <1> QED BY <1>a, <1>1, <1>2, <1>3, <1>4, <1>5, <1>6, <1>7
     DEF Step, Top, LoadIters, WindowLoop, RelocLow, SkipLow, RelocHigh, Copy, TakeMutex,
            Jump, Startup, FirstBarrier, SubInit, SubReady, Selected, WaitSegments,
            MapWindow, Load, Sync, Synced, WaitTick, TickDone, Bail, Access, EndWindows

(* So bail is known whichever CPU takes the step.                           *)
LEMMA BailKept ==
    ASSUME Covering, NEW c \in CPUs, Step(c)
    PROVE  BailKnown'
  <1>0. Typed /\ CoverFields /\ CPUs' = CPUs /\ c \in DOMAIN pc
    BY CoverFacts DEF CPUs
  <1> SUFFICES ASSUME NEW m \in CPUs, Master(m)', pc'[m] \in HoldingAt \ {"tick"}, g'.bail
               PROVE  hist'.bailed
    BY <1>0 DEF BailKnown
  <1>1. pc'[m] \in InWindow
    BY DEF HoldingAt, Holding, InWindow
  <1>2. ~PickCpu(c)
    <2> SUFFICES ASSUME PickCpu(c) PROVE FALSE
      OBVIOUS
    <2>1. pc[m] \in Choosing \cup {"sched", "copied", "picked"} /\ pc'[c] = "picked"
      BY <1>0, ChooseQuiet DEF PickCpu, Goto
    <2>2. m # c => pc'[m] = pc[m]
      BY <1>0, EntersTest
    <2> QED BY <1>1, <2>1, <2>2 DEF InWindow, Choosing
  <1>3. Master(m)
    BY <1>0, <1>2, RunFrame, CoverFacts DEF Master
  <1>4. CASE m = c
    BY <1>3, <1>4, BailStep
  <1>5. CASE m # c
    <2>1. pc'[m] = pc[m] /\ ~Master(c)
      BY <1>0, <1>3, <1>5, EntersTest DEF Master
    <2>2. pc[m] \notin Choosing \cup {"sched", "copied", "picked"} /\ pc[m] \in Inside
      BY <1>1, <2>1 DEF Choosing, InWindow, Inside, HoldingAt, Holding
    <2>3. ~FadeWindow(c) /\ ~NextWindow(c)
      BY <2>2, ChooseQuiet
    <2>4. g.bail
      BY <1>0, <1>2, <2>1, <2>3, OthersBail
    <2>5. hist.bailed
      BY <1>3, <2>1, <2>4, MasterFacts
    <2>6. CASE Defaults(c)
      BY <2>5, <2>6 DEF Defaults
    <2>7. CASE ~Defaults(c)
      BY <1>2, <2>1, <2>3, <2>5, <2>7, OthersLeave
    <2> QED BY <2>6, <2>7
  <1> QED BY <1>4, <1>5

----------------------------------------------------------------------------
(* Only the menu's entry for it changes the mode, and it does as it says.   *)
LEMMA ModeKept ==
    ASSUME Shape, NEW entry \in Inputs
    PROVE  Menu(entry).cpu_mode =
               IF entry[1] = "mode" THEN entry[2] ELSE g.cpu_mode
  <1> DEFINE e == entry[1]
  <1>0. e \in {"default", "skip", "select", "list", "lower", "upper", "all",
               "mode", "restart"}
    BY InputsAssumption
  <1> USE DEF Shape
  <1>a. ASSUME NEW lower, NEW upper
        PROVE  Limit(lower, upper).cpu_mode = g.cpu_mode
    BY DEF Limit
  <1>1. CASE e \in {"default", "skip", "select", "list"} BY <1>1 DEF Menu
  <1>2. CASE e = "lower"
    <2>1. Menu(entry) \in {g, Limit(entry[2], g.plim.upper)}
      BY <1>2 DEF Menu
    <2> QED BY <1>2, <1>a, <2>1
  <1>3. CASE e = "upper"
    <2>1. Menu(entry) \in {g, Limit(g.plim.lower, entry[2])}
      BY <1>3 DEF Menu
    <2> QED BY <1>3, <1>a, <2>1
  <1>4. CASE e = "all"
    <2>1. Menu(entry) = Limit(0, MemEnd)
      BY <1>4 DEF Menu
    <2> QED BY <1>4, <1>a, <2>1
  <1>5. CASE e \in {"mode", "restart"} BY <1>5 DEF Menu
  <1> QED BY <1>0, <1>1, <1>2, <1>3, <1>4, <1>5

(* So tests stay undivided.                                                 *)
LEMMA UndividedStep ==
    ASSUME Covering, NEW c \in CPUs, Step(c)
    PROVE  Undivided'
  <1>0. Typed /\ Shape /\ Globals /\ Fields /\ Undivided /\ (AllWhole \/ OneMode)
    BY CoverFacts DEF Covering, CoverInv
  <1>1. SUFFICES ASSUME ~AllWhole
                 PROVE  g'.cpu_mode # "ALL" /\ g'.run_cpus \in {0, 1}
    BY DEF Undivided, AllWhole
  <1>2. g.cpu_mode # "ALL" /\ g.run_cpus \in {0, 1} /\ OneMode
    BY <1>0, <1>1 DEF Undivided
  <1>3. g'.run_cpus \in {0, 1}
    <2>1. CASE PickCpu(c)
      BY <1>0, <1>2, <2>1 DEF PickCpu, Shape
    <2>2. CASE ~PickCpu(c)
      BY <1>0, <1>2, <2>2, RunFrame
    <2> QED BY <2>1, <2>2
  <1>4. g'.cpu_mode # "ALL"
    <2>1. CASE ~Changes(c)
      BY <1>0, <1>2, <2>1, SettledStep DEF Settled
    <2>2. CASE Tick(c) \/ HouseInput(c)
      <3>1. g' = g \/ \E entry \in Inputs : g' = Menu(entry)
        BY <2>2 DEF Tick, HouseInput, CheckInput
      <3>2. ASSUME NEW entry \in Inputs, g' = Menu(entry)
            PROVE  g'.cpu_mode # "ALL"
        BY <1>0, <1>2, <3>2, ModeKept DEF OneMode
      <3> QED BY <1>2, <3>1, <3>2
    <2>3. CASE Defaults(c)
      BY <1>0, <2>3 DEF Defaults, SetDefaults, Shape
    <2>4. CASE FadeWindow(c) \/ NextWindow(c) \/ ResetWindows(c)
      BY <1>0, <1>2, <2>4 DEF FadeWindow, NextWindow, ResetWindows, Shape
    <2>5. CASE TakeWindow(c)
      <3>1. g'.cpu_mode = g.cpu_mode
        <4>1. CASE g.window = 0
          BY <1>0, <2>5, <4>1 DEF TakeWindow, Shape
        <4>2. CASE g.window = 1
          BY <1>0, <2>5, <4>2 DEF TakeWindow, Shape
        <4>3. CASE g.window # 0 /\ g.window # 1
          BY <1>0, <2>5, <4>3 DEF TakeWindow, Shape
        <4> QED BY <4>1, <4>2, <4>3
      <3> QED BY <1>2, <3>1
    <2>6. CASE RestartTest(c) \/ Advance(c)
      BY <1>0, <1>2, <2>6 DEF RestartTest, Advance, Shape
    <2>7. CASE NextTest(c) \/ Scan(c) \/ Rescan(c)
      BY <1>0, <1>2, <2>7 DEF NextTest, Scan, Rescan, Shape
    <2> QED BY <2>1, <2>2, <2>3, <2>4, <2>5, <2>6, <2>7 DEF Changes
  <1> QED BY <1>3, <1>4

(* All of it, for a step of a CPU.                                          *)
LEMMA CoverStep ==
    ASSUME Covering, NEW c \in CPUs, Step(c)
    PROVE  CoverInv'
  <1>1. CoverFields'
    BY CoverFacts, ShapeStep, HistFrame DEF CoverFields
  <1>2. Order' /\ BailKnown'
    BY OrderStep, BailKept
  <1>3. hist'.bailed \/ (RestartWaits' /\ Defaulting')
    BY RestartStep
  <1>4. Exempt' \/ MasterProgress'
    BY MasterProgressStep
  <1>5. Undivided'
    BY UndividedStep
  <1> QED BY <1>1, <1>2, <1>3, <1>4, <1>5 DEF CoverInv

(* A step that changes nothing but the main barrier.                        *)
LEMMA CoverStutter ==
    ASSUME CoverInv, UNCHANGED <<g, pc, cpu, hist>>
    PROVE  CoverInv'
  <1>0. CPUs' = CPUs
    BY DEF CPUs
  <1>1. Sleeping' = Sleeping
    BY DEF Sleeping, Fade
  <1>2. Exempt' <=> Exempt
    BY <1>1 DEF Exempt
  <1>3. ToCover' = ToCover /\ Frontier' = Frontier
    BY DEF ToCover, Fade, Frontier
  <1>4. MasterProgress => MasterProgress'
    <2>1. ASSUME NEW m \in CPUs, Progress(m) PROVE Progress(m)'
      BY <1>3, <2>1, Undisturbed
    <2>2. Below(Frontier) => Below(Frontier)'
      BY <1>3 DEF Below
    <2> QED BY <1>0, <2>1, <2>2 DEF MasterProgress, Master
  <1>5. CoverFields' /\ Order' /\ BailKnown' /\ Undivided'
    BY <1>0 DEF CoverInv, CoverFields, Order, BailKnown, Master, Undivided, AllWhole
  <1>6. RestartWaits /\ Defaulting => RestartWaits' /\ Defaulting'
    BY <1>0 DEF RestartWaits, Defaulting, Master
  <1> QED BY <1>2, <1>4, <1>5, <1>6 DEF CoverInv

(* Every step keeps what holds initially.                                   *)
LEMMA CoverNext == ASSUME NoDefault, AllWhole \/ OneMode, SelfInv, CoverInv, [Next]_vars
                   PROVE  CoverInv'
  <1>1. CASE MeetOpens \/ UNCHANGED vars
    BY <1>1, CoverStutter DEF MeetOpens, vars
  <1>2. ASSUME NEW c \in CPUs, Step(c) PROVE CoverInv'
    BY <1>2, CoverStep DEF Covering
  <1> QED BY <1>1, <1>2 DEF Next

LEMMA CoverInit == Init => CoverInv
  <1> SUFFICES ASSUME Init PROVE CoverInv
    OBVIOUS
  <1>1. /\ g.window = 0 /\ g.win_next = 0 /\ g.restart_flag = FALSE
        /\ {"bitf_seq", "restart_flag"} \subseteq DOMAIN g
    BY DEF Init, InitGlobals, SetDefaults
  <1>2. /\ \A c \in CPUs : pc[c] = "first"
        /\ {"covered", "bailed"} \subseteq DOMAIN hist
    BY DEF Init
  <1>3. Below(Frontier)
    BY <1>1, RamType DEF Below, Frontier, ToCover
  <1>4. MasterProgress
    BY <1>2, <1>3 DEF MasterProgress, Progress, Inside, InWindow, Finishing
  <1>5. Order /\ BailKnown /\ RestartWaits /\ Defaulting
    BY <1>1, <1>2 DEF Order, House, Ending, BailKnown, HoldingAt, Holding, RestartWaits,
           Defaulting
  <1>6. Undivided
    BY DEF Init, InitGlobals, SetDefaults, Undivided
  <1> QED BY <1>1, <1>2, <1>4, <1>5, <1>6 DEF CoverInv, CoverFields

(* When a test that nobody interrupted ends, all memory between the limits  *)
(* has been tested, the place of the program itself included (main.c:600,   *)
(* 708-735, 1264-1321): on any number of CPUs that move through the windows *)
(* together, for every memory map, every size of the windows, every place   *)
(* of the copies, every test list and every input but the one               *)
(* SelfIsNotTested leaves out.  It is about tests that are not divided      *)
(* among CPUs by calculate_chunk() (test.c:36-73): those in which each CPU  *)
(* tests all the memory, or all tests if the mode in which CPUs test        *)
(* together, which is not the one the program starts in, is not chosen.     *)
THEOREM TestCoversAll ==
    ASSUME \A entry \in Inputs : entry[1] # "default",
           \/ \A i \in DOMAIN Tests : Tests[i].whole
           \/ \A entry \in Inputs : entry[1] = "mode" => entry[2] # "ALL"
    PROVE  SafeSpec => []FullCoverage
  <1>1. NoDefault /\ (AllWhole \/ OneMode)
    BY DEF NoDefault, AllWhole, OneMode
  <1>2. SelfInv /\ CoverInv => FullCoverage
    <2> SUFFICES ASSUME CoverInv, NEW c \in CPUs, pc[c] = "advance", ~hist.bailed,
                        ~Sleeping, g.bitf_seq < 6
                 PROVE  ToCover \subseteq hist.covered
      BY DEF FullCoverage
    <2>1. Master(c)
      BY DEF CoverInv, Order, House, Ending
    <2> QED BY <2>1 DEF CoverInv, Exempt, MasterProgress, Progress, Finishing
  <1>3. SelfInv /\ CoverInv /\ [Next]_vars => (SelfInv /\ CoverInv)'
    BY <1>1, SelfNext, CoverNext
  <1> QED BY <1>2, <1>3, SelfInit, CoverInit, PTL DEF SafeSpec

=============================================================================
