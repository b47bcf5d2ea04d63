------------------------------- MODULE Chunks -------------------------------
(***************************************************************************)
(* How the CPUs that test together share a segment of memory               *)
(* (calculate_chunk, test.c).  Addresses count 32-bit words; as in         *)
(* v->map, the end of a segment is its last word.                          *)
(***************************************************************************)
EXTENDS Integers

(* value rounded down to a multiple of m, a power of two in the code, which *)
(* masks.                                                                   *)
RoundDown(value, m) == (value \div m) * m

(* roundup() with mask + 1 = m. *)
RoundUp(value, m) == RoundDown(value + m - 1, m)

(* The words each CPU but the master gets of a segment. *)
Share(seg, n, m) == RoundDown((seg.end - seg.start + 1) \div n, m)

(* calculate_chunk() for the CPU with ordinal me of n, when the master,     *)
(* which takes the rest, is mstr.                                           *)
Chunk(seg, me, mstr, n, m) ==
    IF n = 1
    THEN [start |-> seg.start, end |-> seg.end]
    ELSE [start |-> seg.start + Share(seg, n, m) * me,
          end   |-> IF me = mstr THEN seg.end
                    ELSE seg.start + Share(seg, n, m) * (me + 1) - 1]

WordsOf(seg) == seg.start .. seg.end

=============================================================================
