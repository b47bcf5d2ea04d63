----------------------------- MODULE MCMemTest -----------------------------
EXTENDS MemTest

MCBits == 0 .. A - 1

Seg(a, b) == [start |-> a, end |-> b]

(* A low segment that begins like the one at 0x500, and others: one beyond  *)
(* a hole, one of several sections, one at the top of the address space.    *)
Low    == <<Seg(4, 31), Seg(48, 79)>>
Long   == <<Seg(16, 127)>>
High   == <<Seg(64, 127)>>

Plain(pat, n, map) ==
    [pat |-> pat, run_cpus |-> n, map |-> map, line |-> {}, stuck |-> {}, fade |-> {},
     rnd |-> [me \in 0 .. n - 1 |-> 5 + (3 * me)], draws |-> {6, 9}, mode |-> SUMMARY]

AllCPUs == {2, 3, 5, 6, 7, 8, 9, 10}

HealthyOnes ==
    {Plain(pat, 1, map) : pat \in (0 .. 3) \cup (5 .. 11), map \in {Low, Long}}
    \cup {Plain(pat, 2, map) : pat \in AllCPUs, map \in {Low, High}}
    \cup {Plain(pat, 3, map) : pat \in AllCPUs, map \in {Low, Long}}

Stuck(at, bit, val) == [at |-> at, bit |-> bit, val |-> val]

(* One bad bit at the ends of segments, shares and sections, and inside.    *)
BadBits(spots) == {Stuck(at, v[1], v[2]) : at \in spots, v \in {<<0, 1>>, <<3, 0>>}}
With(s, bad) == [s EXCEPT !.stuck = {bad}]

FaultyOnes ==
    {With(Plain(pat, 2, Low), b) : pat \in {3, 8, 9}, b \in BadBits({4, 17, 18, 31, 48, 79})}
    \cup {With(Plain(pat, 1, Long), b) : pat \in {3, 8, 9, 10}, b \in BadBits({16, 48, 49, 127})}
    \cup {With(Plain(5, 2, High), b) : b \in BadBits({64, 95, 127})}
    \cup {With(Plain(10, 3, High), b) : b \in BadBits({64, 85})}

(* Bits that lose their charge; address lines that are stuck.               *)
OtherFaults ==
    {[Plain(11, 1, Long) EXCEPT !.fade = {Stuck(at, 2, v)}] : at \in {16, 48, 60}, v \in {0, 1}}
    \cup {[Plain(pat, 1, Low) EXCEPT !.line = {b}] : pat \in {0, 1}, b \in 0 .. 6}
    \cup {[Plain(2, 2, Low) EXCEPT !.line = {b}] : b \in {0, 6}}

(* Faults that show how errors are logged: two words, neighbours or not, and*)
(* two bits of one word.                                                    *)
TwoBits(a) == {Stuck(a, 0, 1), Stuck(a, 3, 0)}
Two(a, b) == {Stuck(a, 0, 1), Stuck(b, 1, 0)}
LoggedOnes ==
    {[Plain(pat, 1, Low) EXCEPT !.stuck = two, !.mode = mode] :
        pat \in {2, 3, 6}, two \in {Two(20, 21), Two(20, 60), TwoBits(20)},
        mode \in {SUMMARY, ADDRESSES, PATTERNS, NONE}}
    \cup {[Plain(5, 2, Low) EXCEPT !.stuck = Two(17, 18), !.mode = mode] :
              mode \in {SUMMARY, ADDRESSES, PATTERNS}}
    \cup {[Plain(7, 1, Low) EXCEPT !.stuck = {Stuck(9, 0, 1)}, !.mode = mode] :
              mode \in {SUMMARY, PATTERNS}}

MCScenarios == HealthyOnes \cup FaultyOnes \cup OtherFaults \cup LoggedOnes

(* What the proof that the CPUs are in step assumes: the shares of a segment*)
(* have as many sections as each other.                                     *)
ASSUME SectionsAlike == \A s \in MCScenarios : SameSections(s)
=============================================================================
