------------------------------ MODULE ErrorLog ------------------------------
(***************************************************************************)
(* What becomes of an error a test has found (error.c): counters, the      *)
(* summary, the list of addresses, the BadRAM patterns.  Each of error(),  *)
(* ad_err1() and ad_err2() holds barr->mutex from its first line to its    *)
(* last, so that an error is one operation on the log l, which is v->erri  *)
(* and the counters beside it.  How the screen shows it is left out.       *)
(*                                                                         *)
(* Addresses count words.  An error is [adr, good, bad, xor, type], where  *)
(* xor is the set of the bits in error and type is 0 or 1 (ECC and parity  *)
(* errors, types 2 and 3, are reported by no code of this build).          *)
(***************************************************************************)
EXTENDS Integers, FiniteSets

CONSTANTS
    MAX_ERRORS,     \* where the counters stop (0xFFFF)
    PAGE,           \* words in a page (1024)
    NO_PAGE,        \* beyond every page (0x7fffffff)
    Bits            \* the bits of a word (0 .. 31)

ASSUME LogAssumption ==
    /\ MAX_ERRORS \in Nat \ {0} /\ PAGE \in Nat \ {0} /\ NO_PAGE \in Nat
    /\ IsFiniteSet(Bits)

SUMMARY   == "summary"
ADDRESSES == "addresses"
PATTERNS  == "patterns"
NONE      == "none"
Modes     == {SUMMARY, ADDRESSES, PATTERNS, NONE}

(* Mutant: counts one too many. *)
CappedMutant(n) == IF n <= MAX_ERRORS THEN n + 1 ELSE n

Capped(n) == IF n < MAX_ERRORS THEN n + 1 ELSE n
Lesser(a, b)  == IF a < b THEN a ELSE b
Greater(a, b) == IF a > b THEN a ELSE b

(* good ^ bad. *)
Differ(x, y) == {b \in Bits : (x \div 2^b) % 2 # (y \div 2^b) % 2}

DataError(adr, good, bad) ==                            \* error(), ad_err2()
    [adr |-> adr, good |-> good, bad |-> bad, xor |-> Differ(good, bad), type |-> 0]

AddressError(adr, bit, good, bad) ==                    \* ad_err1()
    [adr |-> adr, good |-> good, bad |-> bad, xor |-> {bit}, type |-> 1]

(* What the three functions are called with.  Addresses lie beyond those of *)
(* the BIOS (main.c:881); 0 is what the log takes for no address.           *)
IsError(e) ==
    /\ e.adr \in Nat /\ e.adr > 2 /\ e.xor \subseteq Bits /\ e.type \in {0, 1}
    /\ e.type = 0 => e.xor = Differ(e.good, e.bad)

(* set_defaults() empties the log; len is static and eadr, exor are not     *)
(* touched by it.                                                           *)
NoErrors(mode) ==
    [printmode |-> mode, ecount |-> 0, errors |-> 0,
     low_page |-> NO_PAGE, low_offset |-> PAGE - 1, high_page |-> 0, high_offset |-> 0,
     min_bits |-> 32, max_bits |-> 0, tbits |-> 0, ebits |-> {},
     len |-> 1, maxl |-> 0, eadr |-> 0, exor |-> {}, shown |-> 0, patn |-> {}]

(* 'Error Mode' in the menu. *)
SetPrintMode(l, mode) ==
    [l EXCEPT !.printmode = mode,
              !.eadr = IF mode \in {SUMMARY, ADDRESSES} THEN 0 ELSE @]

(* v->ecount, and tseq[test].errors of the test that runs. *)
UpdateErrCounts(l) == [l EXCEPT !.ecount = Capped(@), !.errors = Capped(@)]

(* Mutant: only an error below the lowest so far moves the highest. *)
BoundsMutant(l, page, offset) ==
    [l EXCEPT !.low_page = Lesser(@, page), !.low_offset = Lesser(@, offset),
              !.high_page = IF page < l.low_page THEN Greater(@, page) ELSE @,
              !.high_offset = Greater(@, offset)]

(* Page and offset are tracked on their own. *)
Bounds(l, page, offset) ==
    [l EXCEPT !.low_page  = Lesser(@, page),  !.low_offset  = Lesser(@, offset),
              !.high_page = Greater(@, page), !.high_offset = Greater(@, offset)]

(* n bits in error: totals, extremes and the mask. *)
CountBits(l, xor) ==
    LET n == Cardinality(xor)
    IN  [l EXCEPT !.tbits = IF l.ecount < MAX_ERRORS THEN @ + n ELSE @,
                  !.max_bits = Greater(@, n), !.min_bits = Lesser(@, n),
                  !.ebits = @ \cup xor]

(* Mutant: a word is its own neighbour. *)
RunMutant(l, adr, test) ==
    LET step == IF test = 7 THEN 2 ELSE 1
        len  == IF adr \in {l.eadr + step, l.eadr, l.eadr - step} THEN Capped(l.len) ELSE 1
    IN  [l EXCEPT !.len = len, !.maxl = Greater(@, len), !.eadr = adr]

(* Errors at neighbouring addresses, which are two words apart in test 7.   *)
Run(l, adr, test) ==
    LET step == IF test = 7 THEN 2 ELSE 1
        len  == IF adr \in {l.eadr + step, l.eadr - step} THEN Capped(l.len) ELSE 1
    IN  [l EXCEPT !.len = len, !.maxl = Greater(@, len), !.eadr = adr]

Summarise(l, e, test) ==
    LET xor == IF e.type = 1 THEN Differ(e.good, e.bad) ELSE e.xor
    IN  Run(CountBits(Bounds(l, e.adr \div PAGE, e.adr % PAGE), xor), e.adr, test)

(* Mutant: an error at the same address is taken for the same error. *)
ShowAddressMutant(l, e) ==
    IF e.adr = l.eadr THEN l
    ELSE [l EXCEPT !.shown = @ + 1, !.exor = e.xor, !.eadr = e.adr]

(* Duplicates of the last error are counted but not shown. *)
ShowAddress(l, e) ==
    IF e.adr = l.eadr /\ e.xor = l.exor THEN l
    ELSE [l EXCEPT !.shown = @ + 1, !.exor = e.xor, !.eadr = e.adr]

(* insertaddress(), of which module BadRam knows the details, and what it   *)
(* is spared.                                                               *)
AddPattern(l, e, test) ==
    IF test \in {0, 5} \/ e.type # 0 THEN l ELSE [l EXCEPT !.patn = @ \cup {e.adr}]

CommonErr(l, e, test) ==
    LET counted == UpdateErrCounts(l)
    IN  CASE l.printmode = SUMMARY   -> Summarise(counted, e, test)
          [] l.printmode = ADDRESSES -> ShowAddress(counted, e)
          [] l.printmode = PATTERNS  -> AddPattern(counted, e, test)
          [] OTHER                   -> counted

=============================================================================
