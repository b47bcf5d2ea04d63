--------------------------- MODULE MemTest_proofs ---------------------------
(***************************************************************************)
(* The error log, for every order in which the CPUs report whatever errors *)
(* (error.c): the summary is right about all of them, runs of contiguous   *)
(* errors need neighbours, and each error is shown.  And the CPUs of one   *)
(* test: those that wait for each other wait at the same place of it.      *)
(*                                                                         *)
(* That the errors are words of memory with the bits that differ comes from*)
(* module Sweeps_proofs.                                                   *)
(***************************************************************************)
EXTENDS Sweeps_proofs, FiniteSetTheorems

Words == Nat \X SUBSET Bits

LogFields ==
    {"printmode", "ecount", "errors", "low_page", "low_offset", "high_page", "high_offset",
     "min_bits", "max_bits", "tbits", "ebits", "len", "maxl", "eadr", "exor", "shown", "patn"}

IsLog(l) ==
    /\ DOMAIN l = LogFields
    /\ l.printmode \in Modes /\ l.ecount \in 0 .. MAX_ERRORS
    /\ l.low_page \in Nat /\ l.low_offset \in Nat /\ l.high_page \in Nat /\ l.high_offset \in Nat
    /\ l.min_bits \in Nat /\ l.max_bits \in Nat /\ l.tbits \in Nat
    /\ l.len \in Nat /\ l.maxl \in Nat /\ l.eadr \in Nat /\ l.shown \in Nat

Typed ==
    /\ DOMAIN hist = {"n", "reported", "strays"}
    /\ hist.n \in Nat /\ hist.reported \in SUBSET Words /\ IsFiniteSet(hist.reported)
    /\ IsLog(log)

(* SummaryRight, of the products also where no error is counted. *)
CountedErrs == IF log.ecount = MAX_ERRORS THEN MAX_ERRORS - 1 ELSE log.ecount
Summed ==
    log.printmode = SUMMARY =>
        /\ log.ecount = Lesser(hist.n, MAX_ERRORS)
        /\ log.ebits = UNION {r[2] : r \in hist.reported}
        /\ \A r \in hist.reported :
              /\ (log.low_page * PAGE) + log.low_offset <= r[1]
              /\ (log.high_page * PAGE) + log.high_offset >= r[1]
              /\ log.min_bits <= Cardinality(r[2]) /\ log.max_bits >= Cardinality(r[2])
        /\ log.tbits >= CountedErrs * log.min_bits
        /\ log.tbits <= CountedErrs * log.max_bits

(* eadr is the last error's address, or 0. *)
StepOfTest == IF TestNo = 7 THEN 2 ELSE 1
Neighbours == \E r, s \in hist.reported : s[1] = r[1] + StepOfTest
Running ==
    log.printmode = SUMMARY =>
        /\ log.eadr = 0 \/ \E r \in hist.reported : r[1] = log.eadr
        /\ log.maxl > 1 => Neighbours

(* eadr and exor are the last error shown. *)
Shown ==
    log.printmode = ADDRESSES /\ sc.pat # 0 =>
        /\ hist.reported = {} => log.shown = 0 /\ log.eadr = 0
        /\ hist.reported # {} => <<log.eadr, log.exor>> \in hist.reported
        /\ log.shown >= Cardinality(hist.reported)
        /\ Cardinality(hist.reported) = 1 => log.shown = 1

Collected ==
    log.printmode = PATTERNS =>
        log.patn = IF TestNo \in {0, 5} THEN {} ELSE {r[1] : r \in hist.reported}

LogInv == Typed /\ Summed /\ Running /\ Shown /\ Collected

----------------------------------------------------------------------------
(* Operators of the log.                                                    *)

LEMMA BitsCounted ==
    ASSUME NEW xor \in SUBSET Bits
    PROVE  Cardinality(xor) \in Nat
  BY LogAssumption, FS_Subset, FS_CardinalityType

LEMMA DifferBits == ASSUME NEW x, NEW y PROVE Differ(x, y) \in SUBSET Bits
  BY DEF Differ

LEMMA Least == ASSUME NEW a \in Nat, NEW b \in Nat
               PROVE  /\ Lesser(a, b) \in Nat /\ Lesser(a, b) <= a /\ Lesser(a, b) <= b
                      /\ Greater(a, b) \in Nat /\ Greater(a, b) >= a /\ Greater(a, b) >= b
  BY DEF Lesser, Greater

LEMMA Products ==
    ASSUME NEW n \in Nat, NEW a \in Nat, NEW b \in Nat, a <= b
    PROVE  n * a \in Nat /\ n * b \in Nat /\ n * a <= n * b /\ a * n <= b * n
                         /\ a * n \in Nat /\ b * n \in Nat
  OBVIOUS

LEMMA OneMore ==
    ASSUME NEW n \in Nat, NEW a \in Nat
    PROVE  (n + 1) * a = (n * a) + a
  OBVIOUS

LEMMA PageAndOffset ==
    ASSUME NEW adr \in Nat
    PROVE  /\ adr \div PAGE \in Nat /\ adr % PAGE \in Nat
           /\ adr = ((adr \div PAGE) * PAGE) + (adr % PAGE)
  BY LogAssumption

(* The bits an error adds to the summary are those that differ. *)
LEMMA XorIsDiffer ==
    ASSUME NEW e, IsError(e)
    PROVE  (IF e.type = 1 THEN Differ(e.good, e.bad) ELSE e.xor) = Differ(e.good, e.bad)
  BY DEF IsError

(* What each operator changes. *)
LEMMA CountsUp ==
    ASSUME NEW l, IsLog(l), NEW m, m = UpdateErrCounts(l)
    PROVE  /\ DOMAIN m = LogFields
           /\ m.ecount = Capped(l.ecount) /\ m.ecount \in 0 .. MAX_ERRORS
           /\ \A f \in LogFields \ {"ecount", "errors"} : m[f] = l[f]
  <1>1. Capped(l.ecount) \in 0 .. MAX_ERRORS
    BY LogAssumption DEF Capped, IsLog
  <1> QED BY <1>1 DEF UpdateErrCounts, IsLog, LogFields

LEMMA BoundsFields ==
    ASSUME NEW l, DOMAIN l = LogFields, NEW page, NEW offset, NEW m, m = Bounds(l, page, offset)
    PROVE  /\ DOMAIN m = LogFields
           /\ m.low_page  = Lesser(l.low_page, page)
           /\ m.low_offset = Lesser(l.low_offset, offset)
           /\ m.high_page = Greater(l.high_page, page)
           /\ m.high_offset = Greater(l.high_offset, offset)
           /\ \A f \in LogFields \ {"low_page", "low_offset", "high_page", "high_offset"} :
                 m[f] = l[f]
  BY DEF Bounds, LogFields

LEMMA CountBitsFields ==
    ASSUME NEW l, DOMAIN l = LogFields, NEW x, NEW m, m = CountBits(l, x)
    PROVE  /\ DOMAIN m = LogFields
           /\ m.tbits = IF l.ecount < MAX_ERRORS THEN l.tbits + Cardinality(x) ELSE l.tbits
           /\ m.max_bits = Greater(l.max_bits, Cardinality(x))
           /\ m.min_bits = Lesser(l.min_bits, Cardinality(x))
           /\ m.ebits = l.ebits \cup x
           /\ \A f \in LogFields \ {"tbits", "max_bits", "min_bits", "ebits"} : m[f] = l[f]
  BY DEF CountBits, LogFields

LEMMA RunFields ==
    ASSUME NEW l, DOMAIN l = LogFields, l.len \in Nat, NEW adr, NEW test,
           NEW m, m = Run(l, adr, test),
           NEW step, step = IF test = 7 THEN 2 ELSE 1
    PROVE  /\ DOMAIN m = LogFields
           /\ m.eadr = adr /\ m.len \in Nat /\ m.maxl = Greater(l.maxl, m.len)
           /\ m.len > 1 => adr \in {l.eadr + step, l.eadr - step}
           /\ \A f \in LogFields \ {"len", "maxl", "eadr"} : m[f] = l[f]
  <1> DEFINE len == IF adr \in {l.eadr + step, l.eadr - step} THEN Capped(l.len) ELSE 1
  <1>1. len \in Nat /\ (len > 1 => adr \in {l.eadr + step, l.eadr - step})
    BY DEF Capped
  <1>2. m = [l EXCEPT !.len = len, !.maxl = Greater(l.maxl, len), !.eadr = adr]
    BY DEF Run
  <1> HIDE DEF len
  <1>3. m.eadr = adr /\ m.len = len /\ m.maxl = Greater(l.maxl, len)
    BY <1>2 DEF LogFields
  <1> QED BY <1>1, <1>2, <1>3 DEF LogFields

(* What the mode chooses. *)
LEMMA InSummary ==
    ASSUME NEW l, NEW e, NEW test, l.printmode = SUMMARY
    PROVE  CommonErr(l, e, test) = Summarise(UpdateErrCounts(l), e, test)
  BY DEF CommonErr, SUMMARY, ADDRESSES, PATTERNS

LEMMA InAddresses ==
    ASSUME NEW l, NEW e, NEW test, l.printmode = ADDRESSES
    PROVE  CommonErr(l, e, test) = ShowAddress(UpdateErrCounts(l), e)
  BY DEF CommonErr, SUMMARY, ADDRESSES, PATTERNS

LEMMA InPatterns ==
    ASSUME NEW l, NEW e, NEW test, l.printmode = PATTERNS
    PROVE  CommonErr(l, e, test) = AddPattern(UpdateErrCounts(l), e, test)
  BY DEF CommonErr, SUMMARY, ADDRESSES, PATTERNS

(* The log after an error, in each mode. *)
LEMMA SummaryFields ==
    ASSUME NEW l, IsLog(l), NEW e, NEW test, IsError(e), l.printmode = SUMMARY,
           NEW m, m = CommonErr(l, e, test),
           NEW x, x = Differ(e.good, e.bad), NEW n, n = Cardinality(x),
           NEW step, step = IF test = 7 THEN 2 ELSE 1
    PROVE  /\ IsLog(m) /\ m.printmode = SUMMARY
           /\ m.ecount = Capped(l.ecount)
           /\ m.low_page  = Lesser(l.low_page, e.adr \div PAGE)
           /\ m.low_offset = Lesser(l.low_offset, e.adr % PAGE)
           /\ m.high_page = Greater(l.high_page, e.adr \div PAGE)
           /\ m.high_offset = Greater(l.high_offset, e.adr % PAGE)
           /\ m.tbits = IF m.ecount < MAX_ERRORS THEN l.tbits + n ELSE l.tbits
           /\ m.max_bits = Greater(l.max_bits, n) /\ m.min_bits = Lesser(l.min_bits, n)
           /\ m.ebits = l.ebits \cup x
           /\ m.eadr = e.adr
           /\ m.maxl > 1 => l.maxl > 1 \/ e.adr \in {l.eadr + step, l.eadr - step}
  <1> DEFINE c == UpdateErrCounts(l)
             b == Bounds(c, e.adr \div PAGE, e.adr % PAGE)
             k == CountBits(b, x)
  <1>1. e.adr \in Nat /\ e.adr \div PAGE \in Nat /\ e.adr % PAGE \in Nat
    BY PageAndOffset DEF IsError
  <1>2. x \in SUBSET Bits /\ n \in Nat
    BY DifferBits, BitsCounted
  <1>3. /\ DOMAIN c = LogFields
        /\ c.ecount = Capped(l.ecount) /\ c.ecount \in 0 .. MAX_ERRORS
        /\ \A f \in LogFields \ {"ecount", "errors"} : c[f] = l[f]
    BY CountsUp
  <1>4. m = Run(k, e.adr, test)
    <2>1. m = Summarise(c, e, test)
      BY InSummary
    <2> QED BY <2>1, XorIsDiffer DEF Summarise
  <1> HIDE DEF c
  <1>5. /\ DOMAIN b = LogFields
        /\ b.low_page  = Lesser(c.low_page, e.adr \div PAGE)
        /\ b.low_offset = Lesser(c.low_offset, e.adr % PAGE)
        /\ b.high_page = Greater(c.high_page, e.adr \div PAGE)
        /\ b.high_offset = Greater(c.high_offset, e.adr % PAGE)
        /\ \A f \in LogFields \ {"low_page", "low_offset", "high_page", "high_offset"} :
                 b[f] = c[f]
    BY <1>3, BoundsFields
  <1> HIDE DEF b
  <1>6. /\ DOMAIN k = LogFields
        /\ k.tbits = IF b.ecount < MAX_ERRORS THEN b.tbits + n ELSE b.tbits
        /\ k.max_bits = Greater(b.max_bits, n) /\ k.min_bits = Lesser(b.min_bits, n)
        /\ k.ebits = b.ebits \cup x
        /\ \A f \in LogFields \ {"tbits", "max_bits", "min_bits", "ebits"} : k[f] = b[f]
    BY <1>5, CountBitsFields
  <1> HIDE DEF k
  <1>7. k.len = l.len /\ k.eadr = l.eadr /\ k.maxl = l.maxl /\ k.printmode = l.printmode
        /\ k.shown = l.shown /\ k.ecount = c.ecount
    BY <1>3, <1>5, <1>6 DEF LogFields
  <1>8. /\ DOMAIN m = LogFields
        /\ m.eadr = e.adr /\ m.len \in Nat /\ m.maxl = Greater(k.maxl, m.len)
        /\ m.len > 1 => e.adr \in {k.eadr + step, k.eadr - step}
        /\ \A f \in LogFields \ {"len", "maxl", "eadr"} : m[f] = k[f]
    BY <1>4, <1>6, <1>7, RunFields DEF IsLog
  <1>9. /\ m.printmode = l.printmode /\ m.ecount = c.ecount /\ m.shown = l.shown
        /\ m.low_page = b.low_page /\ m.low_offset = b.low_offset
        /\ m.high_page = b.high_page /\ m.high_offset = b.high_offset
        /\ m.tbits = k.tbits /\ m.max_bits = k.max_bits /\ m.min_bits = k.min_bits
        /\ m.ebits = k.ebits
    BY <1>6, <1>7, <1>8 DEF LogFields
  <1>10. /\ c.low_page = l.low_page /\ c.low_offset = l.low_offset
         /\ c.high_page = l.high_page /\ c.high_offset = l.high_offset
         /\ b.ecount = c.ecount /\ b.tbits = l.tbits
         /\ b.max_bits = l.max_bits /\ b.min_bits = l.min_bits /\ b.ebits = l.ebits
    BY <1>3, <1>5 DEF LogFields
  <1>11. /\ m.low_page \in Nat /\ m.low_offset \in Nat
         /\ m.high_page \in Nat /\ m.high_offset \in Nat
         /\ m.max_bits \in Nat /\ m.min_bits \in Nat
    BY <1>1, <1>2, <1>5, <1>6, <1>9, <1>10 DEF Lesser, Greater, IsLog
  <1>12. m.tbits \in Nat /\ m.maxl \in Nat /\ m.maxl = Greater(l.maxl, m.len)
    BY <1>2, <1>6, <1>7, <1>8, <1>9, <1>10 DEF Greater, IsLog
  <1>13. IsLog(m)
    BY <1>1, <1>3, <1>7, <1>8, <1>9, <1>11, <1>12 DEF IsLog
  <1>14. m.maxl > 1 => l.maxl > 1 \/ m.len > 1
    BY <1>8, <1>12 DEF Greater, IsLog
  <1> QED BY <1>3, <1>5, <1>6, <1>7, <1>8, <1>9, <1>10, <1>13, <1>14

LEMMA AddressFields ==
    ASSUME NEW l, IsLog(l), NEW e, NEW test, IsError(e), l.printmode = ADDRESSES,
           NEW m, m = CommonErr(l, e, test)
    PROVE  /\ IsLog(m) /\ m.printmode = ADDRESSES
           /\ IF e.adr = l.eadr /\ e.xor = l.exor
              THEN m.shown = l.shown /\ m.eadr = l.eadr /\ m.exor = l.exor
              ELSE m.shown = l.shown + 1 /\ m.eadr = e.adr /\ m.exor = e.xor
  <1> DEFINE c == UpdateErrCounts(l)
  <1>1. /\ DOMAIN c = LogFields
        /\ c.ecount = Capped(l.ecount) /\ c.ecount \in 0 .. MAX_ERRORS
        /\ \A f \in LogFields \ {"ecount", "errors"} : c[f] = l[f]
    BY CountsUp
  <1>2. m = ShowAddress(c, e)
    BY InAddresses
  <1> HIDE DEF c
  <1>3. IsLog(c) /\ c.printmode = ADDRESSES /\ c.shown = l.shown
        /\ c.eadr = l.eadr /\ c.exor = l.exor
    BY <1>1 DEF IsLog, LogFields
  <1>4. CASE e.adr = l.eadr /\ e.xor = l.exor
    <2>1. m = c
      BY <1>2, <1>3, <1>4 DEF ShowAddress
    <2> QED BY <1>3, <1>4, <2>1
  <1>5. CASE ~(e.adr = l.eadr /\ e.xor = l.exor)
    <2>1. m = [c EXCEPT !.shown = c.shown + 1, !.exor = e.xor, !.eadr = e.adr]
      BY <1>2, <1>3, <1>5 DEF ShowAddress
    <2>2. /\ DOMAIN m = LogFields /\ m.shown = c.shown + 1 /\ m.exor = e.xor /\ m.eadr = e.adr
          /\ \A f \in LogFields \ {"shown", "exor", "eadr"} : m[f] = c[f]
      BY <1>1, <2>1 DEF LogFields
    <2>3. IsLog(m) /\ m.printmode = c.printmode
      BY <1>3, <2>2 DEF IsLog, LogFields, IsError
    <2> QED BY <1>3, <1>5, <2>2, <2>3
  <1> QED BY <1>4, <1>5

LEMMA PatternFields ==
    ASSUME NEW l, IsLog(l), NEW e, NEW test, IsError(e), l.printmode = PATTERNS,
           NEW m, m = CommonErr(l, e, test)
    PROVE  /\ IsLog(m) /\ m.printmode = PATTERNS
           /\ test \in {0, 5} \/ e.type # 0 => m.patn = l.patn
           /\ ~(test \in {0, 5} \/ e.type # 0) => m.patn = l.patn \cup {e.adr}
  <1> DEFINE c == UpdateErrCounts(l)
  <1>1. /\ DOMAIN c = LogFields
        /\ c.ecount = Capped(l.ecount) /\ c.ecount \in 0 .. MAX_ERRORS
        /\ \A f \in LogFields \ {"ecount", "errors"} : c[f] = l[f]
    BY CountsUp
  <1>2. m = AddPattern(c, e, test)
    BY InPatterns
  <1> HIDE DEF c
  <1>3. IsLog(c) /\ c.printmode = PATTERNS /\ c.patn = l.patn
    BY <1>1 DEF IsLog, LogFields
  <1>4. CASE test \in {0, 5} \/ e.type # 0
    <2>1. m = c
      BY <1>2, <1>4 DEF AddPattern
    <2> QED BY <1>3, <1>4, <2>1
  <1>5. CASE ~(test \in {0, 5} \/ e.type # 0)
    <2>1. m = [c EXCEPT !.patn = c.patn \cup {e.adr}]
      BY <1>2, <1>5 DEF AddPattern
    <2>2. /\ DOMAIN m = LogFields /\ m.patn = c.patn \cup {e.adr}
          /\ \A f \in LogFields \ {"patn"} : m[f] = c[f]
      BY <1>1, <2>1 DEF LogFields
    <2>3. IsLog(m) /\ m.printmode = c.printmode
      BY <1>3, <2>2 DEF IsLog, LogFields
    <2> QED BY <1>3, <1>5, <2>2, <2>3
  <1> QED BY <1>4, <1>5

LEMMA NoneFields ==
    ASSUME NEW l, IsLog(l), NEW e, NEW test, l.printmode = NONE,
           NEW m, m = CommonErr(l, e, test)
    PROVE  IsLog(m) /\ m.printmode = NONE
  <1>1. m = UpdateErrCounts(l)
    BY DEF CommonErr, PATTERNS, ADDRESSES, SUMMARY, NONE
  <1>2. /\ DOMAIN m = LogFields /\ m.ecount \in 0 .. MAX_ERRORS
        /\ \A f \in LogFields \ {"ecount", "errors"} : m[f] = l[f]
    BY <1>1, CountsUp
  <1> QED BY <1>2 DEF IsLog, LogFields

----------------------------------------------------------------------------
(* The state's steps.                                                       *)

(* A step that reports no error. *)
Quiet ==
    /\ log' = log /\ sc' = sc
    /\ DOMAIN hist' = DOMAIN hist /\ hist'.n = hist.n /\ hist'.reported = hist.reported

LEMMA QuietStep ==
    ASSUME LogInv, Quiet
    PROVE  LogInv'
  <1>1. TestNo' = TestNo
    BY DEF Quiet, TestNo
  <1>2. Typed'
    BY DEF LogInv, Typed, Quiet
  <1>3. Summed'
    BY DEF LogInv, Summed, CountedErrs, Quiet
  <1>4. Running'
    BY <1>1 DEF LogInv, Running, Neighbours, StepOfTest, Quiet
  <1>5. Shown'
    BY DEF LogInv, Shown, Quiet
  <1>6. Collected'
    BY <1>1 DEF LogInv, Collected, Quiet
  <1> QED BY <1>2, <1>3, <1>4, <1>5, <1>6 DEF LogInv

(* All steps but Report are quiet. *)
LEMMA OthersQuiet ==
    ASSUME LogInv, [Next]_vars, ~ \E me \in CPUs : Report(me)
    PROVE  Quiet
  <1>1. DOMAIN hist = {"n", "reported", "strays"}
    BY DEF LogInv, Typed
  <1>2. CASE UNCHANGED <<sc, log, hist>>
    BY <1>2 DEF Quiet
  <1>3. CASE /\ UNCHANGED <<sc, log>>
             /\ \E strays : hist' = [hist EXCEPT !.strays = strays]
    BY <1>1, <1>3 DEF Quiet
  <1>4. ASSUME NEW me \in CPUs, Section(me)
        PROVE  Quiet
    BY <1>2, <1>3, <1>4 DEF Section
  <1>5. ASSUME NEW me \in CPUs, Move(me)
        PROVE  Quiet
    BY <1>2, <1>3, <1>5 DEF Move
  <1>6. ASSUME NEW me \in CPUs, Call(me) \/ Synced(me) \/ Walk(me) \/ Sleep(me)
        PROVE  Quiet
    BY <1>2, <1>6 DEF Call, Synced, Walk, Sleep
  <1>7. CASE Meet \/ UNCHANGED vars
    BY <1>2, <1>7 DEF Meet, vars
  <1> QED BY <1>4, <1>5, <1>6, <1>7 DEF Next

LEMMA InitLog ==
    ASSUME Init
    PROVE  LogInv
  <1> DEFINE m == SetPrintMode(NoErrors(SUMMARY), sc.mode)
             none == NoErrors(SUMMARY)
  <1>1. /\ hist = [n |-> 0, reported |-> {}, strays |-> {}]
        /\ log = m /\ sc.mode \in Modes
    BY ScenariosAssumption DEF Init
  <1>2. /\ DOMAIN log = LogFields
        /\ log.ecount = 0 /\ log.low_page = NO_PAGE /\ log.low_offset = PAGE - 1
        /\ log.high_page = 0 /\ log.high_offset = 0 /\ log.min_bits = 32 /\ log.max_bits = 0
        /\ log.tbits = 0 /\ log.ebits = {} /\ log.len = 1 /\ log.maxl = 0 /\ log.eadr = 0
        /\ log.shown = 0 /\ log.patn = {} /\ log.printmode \in Modes
    BY <1>1 DEF SetPrintMode, NoErrors, LogFields
  <1>3. hist.n = 0 /\ hist.reported = {} /\ DOMAIN hist = {"n", "reported", "strays"}
    BY <1>1
  <1>4. Typed
    BY <1>1, <1>2, <1>3, LogAssumption, FS_EmptySet DEF Typed, IsLog, Words
  <1>5. Summed
    BY <1>2, <1>3, LogAssumption DEF Summed, CountedErrs, Lesser
  <1>6. Running
    BY <1>2 DEF Running
  <1>7. Shown
    BY <1>2, <1>3, FS_EmptySet DEF Shown
  <1>8. Collected
    BY <1>2, <1>3 DEF Collected
  <1> QED BY <1>4, <1>5, <1>6, <1>7, <1>8 DEF LogInv

(* An error that is reported, and what becomes of the log. *)
LEMMA Reported ==
    ASSUME LogInv, SweepInv, NEW me \in CPUs, Report(me),
           NEW e, e = Head(cpu[me].errs), NEW r, r = <<e.adr, Differ(e.good, e.bad)>>
    PROVE  /\ CanFind(e) /\ IsLog(log) /\ log' = CommonErr(log, e, TestNo)
           /\ sc' = sc /\ TestNo' = TestNo
           /\ DOMAIN hist' = {"n", "reported", "strays"}
           /\ hist'.n = hist.n + 1 /\ hist'.reported = hist.reported \cup {r}
           /\ r \in Words /\ r[1] = e.adr /\ r[2] = Differ(e.good, e.bad) /\ e.adr \in Nat
           /\ IsFiniteSet(hist'.reported) /\ hist'.reported \in SUBSET Words
           /\ hist.reported \in SUBSET Words /\ hist.n \in Nat
  <1>1. CanFind(e)
    BY ErrorsAreKnown DEF Report
  <1>2. /\ log' = CommonErr(log, e, TestNo) /\ sc' = sc
        /\ hist' = [hist EXCEPT !.n = hist.n + 1, !.reported = hist.reported \cup {r}]
    BY DEF Report
  <1>3. TestNo' = TestNo
    BY <1>2 DEF TestNo
  <1>4. /\ DOMAIN hist = {"n", "reported", "strays"} /\ hist.n \in Nat
        /\ hist.reported \in SUBSET Words /\ IsFiniteSet(hist.reported) /\ IsLog(log)
    BY DEF LogInv, Typed
  <1>5. /\ DOMAIN hist' = {"n", "reported", "strays"}
        /\ hist'.n = hist.n + 1 /\ hist'.reported = hist.reported \cup {r}
    BY <1>2, <1>4
  <1>6. /\ r \in Words /\ r[1] = e.adr /\ r[2] = Differ(e.good, e.bad) /\ e.adr \in Nat
    BY <1>1, DifferBits DEF CanFind, IsError, Words
  <1>7. IsFiniteSet(hist.reported \cup {r})
    BY <1>4, FS_AddElement
  <1> QED BY <1>1, <1>2, <1>3, <1>4, <1>5, <1>6, <1>7

(* The mode does not change, and the log keeps its shape. *)
LEMMA TypedStep ==
    ASSUME LogInv, SweepInv, NEW me \in CPUs, Report(me)
    PROVE  Typed' /\ log'.printmode = log.printmode
  <1> DEFINE e == Head(cpu[me].errs)
  <1>1. /\ IsError(e) /\ IsLog(log) /\ log' = CommonErr(log, e, TestNo)
        /\ DOMAIN hist' = {"n", "reported", "strays"} /\ hist'.n \in Nat
        /\ IsFiniteSet(hist'.reported) /\ hist'.reported \in SUBSET Words
    <2>1. /\ CanFind(e) /\ IsLog(log) /\ log' = CommonErr(log, e, TestNo)
          /\ DOMAIN hist' = {"n", "reported", "strays"} /\ hist'.n = hist.n + 1
          /\ hist.n \in Nat
          /\ IsFiniteSet(hist'.reported) /\ hist'.reported \in SUBSET Words
      BY Reported
    <2> QED BY <2>1 DEF CanFind
  <1> HIDE DEF e
  <1>2. IsLog(log') /\ log'.printmode = log.printmode
    <2>1. CASE log.printmode = SUMMARY
      <3>1. PICK x, step : x = Differ(e.good, e.bad) /\ step = IF TestNo = 7 THEN 2 ELSE 1
        OBVIOUS
      <3>2. PICK n : n = Cardinality(x)
        OBVIOUS
      <3> QED BY <1>1, <2>1, <3>1, <3>2, SummaryFields
    <2>2. CASE log.printmode = ADDRESSES
      BY <1>1, <2>2, AddressFields
    <2>3. CASE log.printmode = PATTERNS
      BY <1>1, <2>3, PatternFields
    <2>4. CASE log.printmode = NONE
      BY <1>1, <2>4, NoneFields
    <2> QED BY <1>1, <2>1, <2>2, <2>3, <2>4 DEF IsLog, Modes
  <1> QED BY <1>1, <1>2 DEF Typed, IsLog

(* The sum of the bits keeps between its bounds. *)
LEMMA TotalStep ==
    ASSUME NEW n \in Nat, NEW min \in Nat, NEW max \in Nat, NEW t \in Nat, NEW b \in Nat,
           NEW lo \in Nat, NEW hi \in Nat, NEW grow \in {0, 1},
           n * min <= t, t <= n * max, lo <= min, lo <= b, hi >= max, hi >= b
    PROVE  /\ (n + grow) * lo <= (IF grow = 1 THEN t + b ELSE t)
           /\ (IF grow = 1 THEN t + b ELSE t) <= (n + grow) * hi
  <1>1. /\ n * lo \in Nat /\ n * lo <= n * min /\ n * min \in Nat
        /\ n * max <= n * hi /\ n * hi \in Nat /\ n * max \in Nat
    BY Products
  <1>2. (n + 1) * lo = (n * lo) + lo /\ (n + 1) * hi = (n * hi) + hi
    BY OneMore
  <1>3. CASE grow = 0
    <2>1. (n + grow) * lo = n * lo /\ (n + grow) * hi = n * hi
      BY <1>3
    <2> QED BY <1>1, <1>3, <2>1
  <1>4. CASE grow = 1
    BY <1>1, <1>2, <1>4
  <1> QED BY <1>3, <1>4

(* A page and an offset that are each no more than an address's. *)
LEMMA BoundBelow ==
    ASSUME NEW adr \in Nat, NEW page \in Nat, NEW offset \in Nat,
           page <= adr \div PAGE, offset <= adr % PAGE
    PROVE  (page * PAGE) + offset <= adr
  <1>1. /\ adr \div PAGE \in Nat /\ adr % PAGE \in Nat /\ PAGE \in Nat
        /\ adr = ((adr \div PAGE) * PAGE) + (adr % PAGE)
    BY PageAndOffset, LogAssumption
  <1>2. page * PAGE <= (adr \div PAGE) * PAGE /\ page * PAGE \in Nat
        /\ (adr \div PAGE) * PAGE \in Nat
    BY <1>1, Products
  <1> QED BY <1>1, <1>2

LEMMA BoundAbove ==
    ASSUME NEW adr \in Nat, NEW page \in Nat, NEW offset \in Nat,
           page >= adr \div PAGE, offset >= adr % PAGE
    PROVE  (page * PAGE) + offset >= adr
  <1>1. /\ adr \div PAGE \in Nat /\ adr % PAGE \in Nat /\ PAGE \in Nat
        /\ adr = ((adr \div PAGE) * PAGE) + (adr % PAGE)
    BY PageAndOffset, LogAssumption
  <1>2. (adr \div PAGE) * PAGE <= page * PAGE /\ page * PAGE \in Nat
        /\ (adr \div PAGE) * PAGE \in Nat
    BY <1>1, Products
  <1> QED BY <1>1, <1>2

(* Bounds that move apart hold what they held. *)
LEMMA BoundsWiden ==
    ASSUME NEW a \in Nat, NEW b \in Nat, NEW c \in Nat, NEW d \in Nat, a <= c, b <= d
    PROVE  (a * PAGE) + b <= (c * PAGE) + d /\ (a * PAGE) + b \in Nat /\ (c * PAGE) + d \in Nat
  <1>1. PAGE \in Nat
    BY LogAssumption
  <1>2. a * PAGE <= c * PAGE /\ a * PAGE \in Nat /\ c * PAGE \in Nat
    BY <1>1, Products
  <1> QED BY <1>2

LEMMA SummedStep ==
    ASSUME LogInv, SweepInv, NEW me \in CPUs, Report(me)
    PROVE  Summed'
  <1> SUFFICES ASSUME log'.printmode = SUMMARY PROVE Summed'
    BY DEF Summed
  <1> DEFINE e == Head(cpu[me].errs)
             x == Differ(e.good, e.bad)
             b == Cardinality(x)
             r == <<e.adr, x>>
  <1>1. /\ IsError(e) /\ IsLog(log) /\ log' = CommonErr(log, e, TestNo)
        /\ hist'.n = hist.n + 1 /\ hist'.reported = hist.reported \cup {r} /\ hist.n \in Nat
        /\ r[1] = e.adr /\ r[2] = x /\ e.adr \in Nat
        /\ hist.reported \in SUBSET Words
    BY Reported DEF CanFind
  <1>2. log.printmode = SUMMARY
    BY TypedStep
  <1>3. x \in SUBSET Bits /\ b \in Nat
    BY DifferBits, BitsCounted
  <1> HIDE DEF e, x, r
  <1>4. /\ IsLog(log')
        /\ log'.ecount = Capped(log.ecount)
        /\ log'.low_page  = Lesser(log.low_page, e.adr \div PAGE)
        /\ log'.low_offset = Lesser(log.low_offset, e.adr % PAGE)
        /\ log'.high_page = Greater(log.high_page, e.adr \div PAGE)
        /\ log'.high_offset = Greater(log.high_offset, e.adr % PAGE)
        /\ log'.tbits = IF log'.ecount < MAX_ERRORS THEN log.tbits + b ELSE log.tbits
        /\ log'.max_bits = Greater(log.max_bits, b) /\ log'.min_bits = Lesser(log.min_bits, b)
        /\ log'.ebits = log.ebits \cup x
    BY <1>1, <1>2, SummaryFields DEF x
  <1>5. /\ log.ecount = Lesser(hist.n, MAX_ERRORS)
        /\ log.ebits = UNION {q[2] : q \in hist.reported}
        /\ \A q \in hist.reported :
              /\ (log.low_page * PAGE) + log.low_offset <= q[1]
              /\ (log.high_page * PAGE) + log.high_offset >= q[1]
              /\ log.min_bits <= Cardinality(q[2]) /\ log.max_bits >= Cardinality(q[2])
        /\ log.tbits >= CountedErrs * log.min_bits
        /\ log.tbits <= CountedErrs * log.max_bits
    BY <1>2 DEF LogInv, Summed
  <1>6. e.adr \div PAGE \in Nat /\ e.adr % PAGE \in Nat
    BY <1>1, PageAndOffset
  <1>7. log'.ecount = Lesser(hist'.n, MAX_ERRORS)
    BY <1>1, <1>4, <1>5, LogAssumption DEF Lesser, Capped
  <1>8. log'.ebits = UNION {q[2] : q \in hist'.reported}
    BY <1>1, <1>4, <1>5
  <1>9. /\ log'.low_page \in Nat /\ log'.low_page <= log.low_page
        /\ log'.low_page <= e.adr \div PAGE
        /\ log'.low_offset \in Nat /\ log'.low_offset <= log.low_offset
        /\ log'.low_offset <= e.adr % PAGE
        /\ log'.high_page \in Nat /\ log'.high_page >= log.high_page
        /\ log'.high_page >= e.adr \div PAGE
        /\ log'.high_offset \in Nat /\ log'.high_offset >= log.high_offset
        /\ log'.high_offset >= e.adr % PAGE
    BY <1>1, <1>4, <1>6 DEF IsLog, Lesser, Greater
  <1>10. /\ log'.min_bits \in Nat /\ log'.min_bits <= log.min_bits /\ log'.min_bits <= b
         /\ log'.max_bits \in Nat /\ log'.max_bits >= log.max_bits /\ log'.max_bits >= b
    BY <1>1, <1>3, <1>4 DEF IsLog, Lesser, Greater
  <1>11. ASSUME NEW q \in hist'.reported
         PROVE  /\ (log'.low_page * PAGE) + log'.low_offset <= q[1]
                /\ (log'.high_page * PAGE) + log'.high_offset >= q[1]
                /\ log'.min_bits <= Cardinality(q[2]) /\ log'.max_bits >= Cardinality(q[2])
    <2>1. CASE q = r
      <3>1. q[1] = e.adr /\ Cardinality(q[2]) = b
        BY <1>1, <2>1
      <3> QED BY <1>1, <1>9, <1>10, <3>1, BoundBelow, BoundAbove
    <2>2. CASE q \in hist.reported
      <3>1. q[1] \in Nat /\ Cardinality(q[2]) \in Nat
        BY <1>1, <2>2, BitsCounted DEF Words
      <3>2. /\ log.low_page \in Nat /\ log.low_offset \in Nat /\ log.min_bits \in Nat
            /\ log.high_page \in Nat /\ log.high_offset \in Nat /\ log.max_bits \in Nat
        BY <1>1 DEF IsLog
      <3>3. /\ (log'.low_page * PAGE) + log'.low_offset
                   <= (log.low_page * PAGE) + log.low_offset
            /\ (log'.low_page * PAGE) + log'.low_offset \in Nat
            /\ (log.low_page * PAGE) + log.low_offset \in Nat
        BY <1>9, <3>2, BoundsWiden
      <3>4. /\ (log'.high_page * PAGE) + log'.high_offset
                   >= (log.high_page * PAGE) + log.high_offset
            /\ (log'.high_page * PAGE) + log'.high_offset \in Nat
            /\ (log.high_page * PAGE) + log.high_offset \in Nat
        BY <1>9, <3>2, BoundsWiden
      <3>5. /\ (log.low_page * PAGE) + log.low_offset <= q[1]
            /\ (log.high_page * PAGE) + log.high_offset >= q[1]
            /\ log.min_bits <= Cardinality(q[2]) /\ log.max_bits >= Cardinality(q[2])
        BY <1>5, <2>2
      <3>6. /\ (log'.low_page * PAGE) + log'.low_offset <= q[1]
            /\ (log'.high_page * PAGE) + log'.high_offset >= q[1]
        BY <3>1, <3>3, <3>4, <3>5
      <3>7. log'.min_bits <= Cardinality(q[2]) /\ log'.max_bits >= Cardinality(q[2])
        BY <1>10, <3>1, <3>2, <3>5
      <3> QED BY <3>6, <3>7
    <2> QED BY <1>1, <2>1, <2>2
  <1> DEFINE grow == IF log'.ecount < MAX_ERRORS THEN 1 ELSE 0
  <1>12. CountedErrs \in Nat /\ CountedErrs' = CountedErrs + grow
    BY <1>1, <1>4, LogAssumption DEF CountedErrs, Capped, IsLog
  <1>13. log'.tbits = IF grow = 1 THEN log.tbits + b ELSE log.tbits
    BY <1>4
  <1>14. /\ log.tbits \in Nat /\ log.min_bits \in Nat /\ log.max_bits \in Nat /\ grow \in {0, 1}
         /\ CountedErrs * log.min_bits <= log.tbits
    <2>1. log.tbits \in Nat /\ log.min_bits \in Nat /\ log.max_bits \in Nat
      BY <1>1 DEF IsLog
    <2>2. CountedErrs * log.min_bits \in Nat
      BY <1>12, <2>1, Products
    <2> QED BY <1>5, <2>1, <2>2
  <1> HIDE DEF grow, b
  <1>15. /\ CountedErrs' * log'.min_bits <= log'.tbits
         /\ log'.tbits <= CountedErrs' * log'.max_bits
    BY <1>3, <1>5, <1>10, <1>12, <1>13, <1>14, TotalStep
  <1>16. log'.tbits >= CountedErrs' * log'.min_bits
    <2>1. log'.tbits \in Nat /\ CountedErrs' \in Nat
      BY <1>3, <1>12, <1>13, <1>14
    <2>2. CountedErrs' * log'.min_bits \in Nat
      BY <1>10, <2>1, Products
    <2> QED BY <1>15, <2>1, <2>2
  <1> QED BY <1>7, <1>8, <1>11, <1>15, <1>16 DEF Summed

LEMMA RunningStep ==
    ASSUME LogInv, SweepInv, NEW me \in CPUs, Report(me)
    PROVE  Running'
  <1> SUFFICES ASSUME log'.printmode = SUMMARY PROVE Running'
    BY DEF Running
  <1> DEFINE e == Head(cpu[me].errs)
             x == Differ(e.good, e.bad)
             r == <<e.adr, x>>
             step == IF TestNo = 7 THEN 2 ELSE 1
  <1>1. /\ IsError(e) /\ IsLog(log) /\ log' = CommonErr(log, e, TestNo) /\ TestNo' = TestNo
        /\ hist'.reported = hist.reported \cup {r}
        /\ r[1] = e.adr
    BY Reported DEF CanFind
  <1>2. log.printmode = SUMMARY
    BY TypedStep
  <1>3. /\ log.eadr = 0 \/ \E q \in hist.reported : q[1] = log.eadr
        /\ log.maxl > 1 => Neighbours
    BY <1>2 DEF LogInv, Running
  <1>4. PICK b : b = Cardinality(x)
    OBVIOUS
  <1> HIDE DEF e, x, r
  <1>5. /\ log'.eadr = e.adr
        /\ log'.maxl > 1 => log.maxl > 1 \/ e.adr \in {log.eadr + step, log.eadr - step}
    BY <1>1, <1>2, <1>4, SummaryFields DEF x
  <1>6. step \in {1, 2} /\ StepOfTest = step /\ StepOfTest' = step
    BY <1>1 DEF StepOfTest
  <1> HIDE DEF step
  <1>7. r \in hist'.reported /\ hist.reported \subseteq hist'.reported
    BY <1>1
  <1>8. Neighbours => Neighbours'
    BY <1>6, <1>7 DEF Neighbours
  <1>9. ASSUME e.adr \in {log.eadr + step, log.eadr - step}
        PROVE  Neighbours'
    <2>1. log.eadr # 0
      BY <1>1, <1>6, <1>9 DEF IsError
    <2>2. PICK q \in hist.reported : q[1] = log.eadr
      BY <1>3, <2>1
    <2>3. log.eadr \in Nat /\ e.adr \in Nat
      BY <1>1 DEF IsLog, IsError
    <2>4. e.adr = log.eadr + step \/ log.eadr = e.adr + step
      BY <1>6, <1>9, <2>3
    <2> QED BY <1>1, <1>6, <1>7, <2>2, <2>4 DEF Neighbours
  <1> QED BY <1>1, <1>3, <1>5, <1>7, <1>8, <1>9 DEF Running

LEMMA ShownStep ==
    ASSUME LogInv, SweepInv, NEW me \in CPUs, Report(me)
    PROVE  Shown'
  <1> SUFFICES ASSUME log'.printmode = ADDRESSES, sc'.pat # 0 PROVE Shown'
    BY DEF Shown
  <1> DEFINE e == Head(cpu[me].errs)
             r == <<e.adr, Differ(e.good, e.bad)>>
  <1>1. /\ CanFind(e) /\ IsLog(log) /\ log' = CommonErr(log, e, TestNo) /\ sc' = sc
        /\ hist'.reported = hist.reported \cup {r}
    BY Reported
  <1>2. /\ log.printmode = ADDRESSES /\ IsFiniteSet(hist.reported)
        /\ Cardinality(hist.reported) \in Nat
    BY TypedStep, FS_CardinalityType DEF LogInv, Typed
  <1>3. /\ hist.reported = {} => log.shown = 0 /\ log.eadr = 0
        /\ hist.reported # {} => <<log.eadr, log.exor>> \in hist.reported
        /\ log.shown >= Cardinality(hist.reported)
        /\ Cardinality(hist.reported) = 1 => log.shown = 1
    BY <1>1, <1>2 DEF LogInv, Shown
  <1>4. r = <<e.adr, e.xor>> /\ IsError(e) /\ e.adr # 0
    BY <1>1 DEF CanFind, IsError
  <1> HIDE DEF e, r
  <1>5. IF e.adr = log.eadr /\ e.xor = log.exor
        THEN log'.shown = log.shown /\ log'.eadr = log.eadr /\ log'.exor = log.exor
        ELSE log'.shown = log.shown + 1 /\ log'.eadr = e.adr /\ log'.exor = e.xor
    BY <1>1, <1>2, <1>4, AddressFields
  <1>6. CASE e.adr = log.eadr /\ e.xor = log.exor
    <2>1. hist.reported # {} /\ r \in hist.reported
      BY <1>3, <1>4, <1>6
    <2>2. hist'.reported = hist.reported
      BY <1>1, <2>1
    <2> QED BY <1>3, <1>5, <1>6, <2>1, <2>2 DEF Shown
  <1>7. CASE ~(e.adr = log.eadr /\ e.xor = log.exor)
    <2>1. log'.shown = log.shown + 1 /\ <<log'.eadr, log'.exor>> = r
      BY <1>4, <1>5, <1>7
    <2>2. <<log'.eadr, log'.exor>> \in hist'.reported /\ hist'.reported # {}
      BY <1>1, <2>1
    <2>3. Cardinality(hist'.reported) <= Cardinality(hist.reported) + 1
      <3>1. Cardinality(hist.reported \cup {r}) =
               IF r \in hist.reported THEN Cardinality(hist.reported)
               ELSE Cardinality(hist.reported) + 1
        BY <1>2, FS_AddElement
      <3>2. hist'.reported = hist.reported \cup {r}
        BY <1>1
      <3> HIDE DEF e
      <3> QED BY <1>2, <3>1, <3>2
    <2>4. log.shown \in Nat
      BY <1>1 DEF IsLog
    <2>5. Cardinality(hist'.reported) \in Nat /\ IsFiniteSet(hist'.reported)
      <3>1. IsFiniteSet(hist'.reported)
        BY Reported
      <3> QED BY <3>1, FS_CardinalityType
    <2>6. log'.shown >= Cardinality(hist'.reported)
      BY <1>2, <1>3, <2>1, <2>3, <2>4, <2>5
    <2>7. ASSUME Cardinality(hist'.reported) = 1
          PROVE  hist.reported = {}
      <3>1. hist'.reported = {r}
        <4>1. \E z : hist'.reported = {z}
          BY <2>5, <2>7, FS_Singleton
        <4> QED BY <1>1, <4>1
      <3> SUFFICES ASSUME hist.reported # {} PROVE FALSE
        OBVIOUS
      <3>2. <<log.eadr, log.exor>> = r
        BY <1>1, <1>3, <3>1
      <3> QED BY <1>4, <1>7, <3>2
    <2> QED BY <1>3, <2>1, <2>2, <2>6, <2>7 DEF Shown
  <1> QED BY <1>6, <1>7

LEMMA CollectedStep ==
    ASSUME LogInv, SweepInv, NEW me \in CPUs, Report(me)
    PROVE  Collected'
  <1> SUFFICES ASSUME log'.printmode = PATTERNS PROVE Collected'
    BY DEF Collected
  <1> DEFINE e == Head(cpu[me].errs)
             r == <<e.adr, Differ(e.good, e.bad)>>
  <1>1. /\ CanFind(e) /\ IsLog(log) /\ log' = CommonErr(log, e, TestNo) /\ TestNo' = TestNo
        /\ hist'.reported = hist.reported \cup {r} /\ r[1] = e.adr
    BY Reported
  <1>2. log.printmode = PATTERNS
    BY TypedStep
  <1>3. log.patn = IF TestNo \in {0, 5} THEN {} ELSE {q[1] : q \in hist.reported}
    BY <1>2 DEF LogInv, Collected
  <1>4. IsError(e) /\ (e.type # 0 => TestNo = 0)
    BY <1>1 DEF CanFind, IsError, TestNo
  <1> HIDE DEF e, r
  <1>5. /\ TestNo \in {0, 5} \/ e.type # 0 => log'.patn = log.patn
        /\ ~(TestNo \in {0, 5} \/ e.type # 0) => log'.patn = log.patn \cup {e.adr}
    BY <1>1, <1>2, <1>4, PatternFields
  <1>6. CASE TestNo \in {0, 5}
    BY <1>1, <1>3, <1>5, <1>6 DEF Collected
  <1>7. CASE TestNo \notin {0, 5}
    <2>1. log'.patn = {q[1] : q \in hist.reported} \cup {e.adr}
      BY <1>3, <1>4, <1>5, <1>7
    <2>2. {q[1] : q \in hist'.reported} = {q[1] : q \in hist.reported} \cup {e.adr}
      BY <1>1
    <2> QED BY <1>1, <1>7, <2>1, <2>2 DEF Collected
  <1> QED BY <1>6, <1>7

(* The log is right, whoever reports what and in which order. *)
LEMMA LogStep ==
    ASSUME LogInv, SweepInv, [Next]_vars
    PROVE  LogInv'
  <1>1. CASE \E me \in CPUs : Report(me)
    BY <1>1, TypedStep, SummedStep, RunningStep, ShownStep, CollectedStep DEF LogInv
  <1>2. CASE ~ \E me \in CPUs : Report(me)
    BY <1>2, OthersQuiet, QuietStep
  <1> QED BY <1>1, <1>2

THEOREM LogIsRight == Spec => []LogInv
  <1>1. LogInv /\ SweepInv /\ [Next]_vars => LogInv'
    BY LogStep
  <1> QED BY <1>1, InitLog, CpusArePlaced, PTL DEF Spec

(* The summary is right about all errors reported (error.c:166-232). *)
THEOREM SummaryIsRight == Spec => []SummaryRight
  <1>1. LogInv => SummaryRight
    BY DEF LogInv, Summed, SummaryRight, CountedErrs
  <1> QED BY <1>1, LogIsRight, PTL

(* A run of contiguous errors needs two neighbours (error.c:208). *)
THEOREM RunsHaveNeighbours == Spec => []RunNeedsNeighbours
  <1>1. LogInv => RunNeedsNeighbours
    BY DEF LogInv, Running, RunNeedsNeighbours, Neighbours, StepOfTest
  <1> QED BY <1>1, LogIsRight, PTL

(* Each error of data is shown, one that repeats only once, and the patterns*)
(* are those of the words found bad (error.c:261, 383).                     *)
THEOREM ErrorsAreShown == Spec => []ErrorsShown
  <1>1. LogInv => ErrorsShown
    BY DEF LogInv, Shown, Collected, ErrorsShown
  <1> QED BY <1>1, LogIsRight, PTL

----------------------------------------------------------------------------
(* In step.  A CPU that does not wait is on its way to where it will, and   *)
(* all are on their way to the same place.                                  *)

(* How much of its share a CPU has behind it. *)
Past(c, me) ==
    IF c.done > 0 THEN 0
    ELSE IF LoopOf(c) \in Downward THEN Reach(c, me).end - c.pe ELSE c.pe - Reach(c, me).start

(* What a section may begin with, see Beginnings. *)
Marks(loop) ==
    IF loop = "pairs" THEN {0} \cup {n * (SPINSZ - 2) + 1 : n \in Nat \ {0}}
    ELSE {n * SPINSZ : n \in Nat}

(* Two CPUs are at the same place, each in its own share. *)
SamePlace(c, a, d, b) ==
    /\ c.at = d.at /\ c.wait = d.wait /\ c.call = d.call
    /\ c.at = "test" =>
          /\ c.args.fn = d.args.fn /\ c.args.iter = d.args.iter /\ c.ph = d.ph
          /\ LoopOf(c) # "sync" =>
                c.j = d.j /\ c.rep = d.rep /\ c.done = d.done /\ Past(c, a) = Past(d, b)

(* The loops of a test that several CPUs run. *)
Shared == {"sync", "move"} \cup Sweeping

(* A CPU between two sections; only within one of block_move, after its     *)
(* first move, is it known whether there is another.                        *)
Steady(c, me) ==
    /\ c.wait => c.at = "test"
    /\ c.at = "test" =>
          /\ LoopOf(c) \in Shared
          /\ LoopOf(c) # "sync" =>
                /\ c.done = 0 => Past(c, me) \in Marks(LoopOf(c))
                /\ c.done # 0 => c.done = 1 /\ LoopOf(c) = "move" /\ c.rep > 0

(* Where a CPU gets to that does not wait. *)
Onward(c, me) ==
    LET a == Advance(c, me)
        to == c.call + 1
    IN  IF c.at # "test"
        THEN IF to > Len(Calls(sc.pat, me)) THEN [c EXCEPT !.at = "done"]
             ELSE AtLoop([c EXCEPT !.call = to, !.args = Calls(sc.pat, me)[to]], 1, me)
        ELSE IF LoopOf(c) = "sync" THEN AtLoop(c, c.ph + 1, me)
        ELSE IF LoopOf(c) # "move" THEN NextSection(Behind(a), me)
        ELSE IF c.rep = 0 THEN [a EXCEPT !.rep = 1, !.wait = TRUE]
        ELSE IF c.rep < c.args.iter THEN [c EXCEPT !.rep = @ + 1, !.wait = TRUE]
        ELSE NextSection([c EXCEPT !.rep = 0, !.p = c.pe], me)

Rests(c) == c.wait \/ c.at = "done"

(* Where it next waits, or ends. *)
Goal(c, me) ==
    LET x == Onward(c, me)
    IN  IF Rests(c) THEN c ELSE IF Rests(x) THEN x ELSE Onward(x, me)

Together ==
    sc.run_cpus > 1 =>
       /\ \A me \in CPUs : Steady(cpu[me], me)
       /\ \A a, b \in CPUs : SamePlace(Goal(cpu[a], a), a, Goal(cpu[b], b), b)

LEMMA SharedLoops ==
    ASSUME NEW loop \in Shared
    PROVE  /\ loop \notin {"sleep"} \cup Walking
           /\ loop # "sync" => loop \in {"move"} \cup Sweeping
           /\ loop = "sync" => loop \notin Sweeping
           /\ loop = "move" => loop \notin Sweeping
           /\ loop \in {"sync", "move", "pairs", "init"} => loop \notin Downward \cup Shortened
           /\ loop \in Downward => loop \notin Shortened
           /\ (loop \notin Unticked) <=> (loop # "move")
  BY DEF Shared, Sweeping, Rising, Downward, Shortened, Fading, Walking, Unticked

(* Whether a section is the last. *)
LEMMA UpExact ==
    ASSUME NEW c, DOMAIN c = CpuFields, c.pe \in 1 .. Top - 1, c.done = 0,
           NEW r, r.end \in 0 .. Top - 1, NEW a, a = AdvanceUp(c, r)
    PROVE  /\ a.done = IF c.pe + SPINSZ >= r.end THEN 1 ELSE 0
           /\ a.pe = IF c.pe + SPINSZ >= r.end THEN r.end ELSE c.pe + SPINSZ
  <1> DEFINE s == c.pe + SPINSZ
             pe == IF s % Top > c.pe /\ c.pe # 0 THEN s ELSE r.end
  <1>1. s \in Nat /\ Top \in Nat \ {0} /\ r.end < Top /\ r.end \in Nat /\ s > c.pe /\ c.pe # 0
    BY Sizes
  <1>2. a = IF pe >= r.end THEN [c EXCEPT !.pe = r.end, !.done = @ + 1] ELSE [c EXCEPT !.pe = pe]
    BY DEF AdvanceUp
  <1>3. s < Top => s % Top = s
    BY <1>1
  <1> HIDE DEF s
  <1>4. IF s >= r.end THEN pe >= r.end ELSE pe = s
    BY <1>1, <1>3
  <1> HIDE DEF pe
  <1>5. CASE s >= r.end
    <2>1. a = [c EXCEPT !.pe = r.end, !.done = @ + 1]
      BY <1>2, <1>4, <1>5
    <2> QED BY <1>5, <2>1, Fields DEF s
  <1>6. CASE ~(s >= r.end)
    <2>1. a = [c EXCEPT !.pe = s]
      BY <1>1, <1>2, <1>4, <1>6
    <2> QED BY <1>6, <2>1, Fields DEF s
  <1> QED BY <1>5, <1>6

LEMMA DownExact ==
    ASSUME NEW c, DOMAIN c = CpuFields, c.pe \in 1 .. Top - 1, c.done = 0,
           NEW r, r.start \in 1 .. Top - 1, r.end \in 1 .. Top - 1, c.pe <= r.end,
           NEW a, a = AdvanceDown(c, r)
    PROVE  /\ a.done = IF c.pe - SPINSZ < r.start THEN 1 ELSE 0
           /\ a.pe = IF c.pe - SPINSZ < r.start THEN r.start ELSE c.pe - SPINSZ
  <1> DEFINE s == c.pe - SPINSZ
             fits == s % Top < c.pe /\ c.pe # 0
             pe == IF fits THEN s % Top ELSE r.start
  <1>1. /\ s \in Int /\ Top \in Nat \ {0} /\ s < c.pe /\ c.pe # 0 /\ s + Top >= c.pe
        /\ s < Top /\ c.pe < Top /\ c.pe \in Nat
    BY Sizes
  <1>2. a = IF ~fits \/ pe < r.start \/ pe > r.end
            THEN [c EXCEPT !.pe = r.start, !.done = @ + 1] ELSE [c EXCEPT !.pe = pe]
    BY DEF AdvanceDown
  <1>3. s >= 0 => s % Top = s
    BY <1>1
  <1>4. s < 0 => s % Top >= c.pe
    <2> SUFFICES ASSUME s < 0 PROVE s % Top >= c.pe
      OBVIOUS
    <2>1. s + Top \in 0 .. Top - 1
      BY <1>1
    <2> HIDE DEF s
    <2>2. s % Top = s + Top
      BY <1>1, <2>1
    <2> QED BY <1>1, <2>2
  <1>5. s % Top \in Nat
    BY <1>1
  <1> HIDE DEF s
  <1>6. IF s < r.start THEN ~fits \/ pe < r.start ELSE fits /\ pe = s /\ ~(pe < r.start \/ pe > r.end)
    BY <1>1, <1>3, <1>4, <1>5
  <1> HIDE DEF pe, fits
  <1>7. CASE s < r.start
    <2>1. a = [c EXCEPT !.pe = r.start, !.done = @ + 1]
      BY <1>2, <1>6, <1>7
    <2> QED BY <1>7, <2>1, Fields DEF s
  <1>8. CASE ~(s < r.start)
    <2>1. a = [c EXCEPT !.pe = s]
      BY <1>2, <1>6, <1>8
    <2> QED BY <1>8, <2>1, Fields DEF s
  <1> QED BY <1>7, <1>8

(* A CPU in a loop over the segments. *)
LEMMA Stands ==
    ASSUME sc \in Scenarios, NEW me \in CPUs, NEW c, Placed(c, me), Steady(c, me),
           c.at = "test", LoopOf(c) # "sync", NEW r, r = Reach(c, me)
    PROVE  /\ InCall(c) /\ DOMAIN c = CpuFields /\ c.j \in 1 .. segs /\ c.done \in Nat
           /\ LoopOf(c) \in {"move"} \cup Sweeping /\ LoopOf(c) \in Shared
           /\ InSpan(c, Region(c.args.fn, c.j, me), LoopOf(c))
           /\ IsRegion(Region(c.args.fn, c.j, me))
           /\ r.start = Region(c.args.fn, c.j, me).start
           /\ r.start \in 3 .. Top - 1 /\ r.end \in 3 .. Top - 1
           /\ c.pe \in 1 .. Top - 1
           /\ LoopOf(c) \in Downward => r = Region(c.args.fn, c.j, me) /\ c.pe <= r.end
  <1> DEFINE loop == LoopOf(c)
             q == Region(c.args.fn, c.j, me)
  <1>1. loop \in Shared /\ loop \in {"move"} \cup Sweeping /\ loop \notin {"sync", "sleep"} \cup Walking
    BY SharedLoops DEF Steady
  <1>2. InCall(c) /\ DOMAIN c = CpuFields /\ InLoop(c, me)
    BY <1>1 DEF Placed, InCall, Known
  <1>3. c.j \in 1 .. segs /\ InSpan(c, q, loop)
    BY <1>1, <1>2 DEF InLoop
  <1>4. IsRegion(q) /\ (c.args.fn = "modtst" => q.start + MOD_SZ <= q.end)
    BY <1>3, RegionFacts DEF IsRegion
  <1>5. loop \in Shortened => c.args.fn = "modtst"
    BY <1>2, LoopIsOfCall, LoopKinds
  <1>6. r = IF loop \in Shortened THEN [q EXCEPT !.end = @ - MOD_SZ] ELSE q
    BY DEF Reach
  <1>7. loop \in Downward => loop \notin Shortened
    BY DEF Downward, Shortened
  <1> HIDE DEF q, loop
  <1>8. r.start = q.start /\ r.end \in 3 .. Top - 1
    <2>1. CASE loop \in Shortened
      <3>1. r = [q EXCEPT !.end = @ - MOD_SZ]
        BY <1>6, <2>1
      <3>2. r.start = q.start /\ r.end = q.end - MOD_SZ
        BY <1>4, <3>1 DEF IsRegion
      <3> QED BY <1>4, <1>5, <2>1, <3>2, Sizes DEF IsRegion
    <2>2. CASE loop \notin Shortened
      BY <1>4, <1>6, <2>2 DEF IsRegion
    <2> QED BY <2>1, <2>2
  <1>9. c.pe \in Nat /\ c.done \in Nat /\ c.pe <= q.end
    BY <1>3 DEF InSpan
  <1>10. c.pe >= 1
    <2>1. CASE loop \in Rising \cup Downward \cup Shortened
      BY <1>3, <1>4, <1>9, <2>1 DEF InSpan, IsRegion
    <2>2. CASE loop \in {"init", "move", "pairs"}
      <3>1. c.p >= 3 /\ c.p \in Nat
        BY <1>3, <1>4 DEF InSpan, IsRegion
      <3>2. CASE loop = "init"
        BY <1>3, <3>1, <3>2 DEF InSpan
      <3>3. CASE loop = "move"
        BY <1>3, <1>9, <3>1, <3>3 DEF InSpan
      <3>4. CASE loop = "pairs"
        BY <1>3, <1>4, <1>9, <3>4 DEF InSpan, IsRegion
      <3> QED BY <2>2, <3>2, <3>3, <3>4
    <2> QED BY <1>1, <2>1, <2>2 DEF Sweeping
  <1>11. c.pe \in 1 .. Top - 1
    BY <1>4, <1>9, <1>10, Sizes DEF IsRegion
  <1>12. loop \in Downward => r = q /\ c.pe <= r.end
    BY <1>6, <1>7, <1>9
  <1>13. r.start \in 3 .. Top - 1
    BY <1>4, <1>8 DEF IsRegion
  <1> QED BY <1>1, <1>2, <1>3, <1>4, <1>8, <1>9, <1>11, <1>12, <1>13 DEF q, loop

(* How far the CPU is beyond the start of the section it is about to do, or *)
(* whether it is the last.                                                  *)
LEMMA NextMark ==
    ASSUME sc \in Scenarios, NEW me \in CPUs, NEW c, Placed(c, me), Steady(c, me),
           c.at = "test", LoopOf(c) # "sync", c.done = 0,
           NEW r, r = Reach(c, me), NEW a, a = Advance(c, me)
    PROVE  /\ Past(c, me) \in Int /\ Past(c, me) < Top
           /\ Past(c, me) + SPINSZ >= r.end - r.start => a.done = 1
           /\ Past(c, me) + SPINSZ < r.end - r.start =>
                 a.done = 0 /\ Past(a, me) = Past(c, me) + SPINSZ
           /\ a.done = 0 => a.pe = IF LoopOf(c) \in Downward THEN c.pe - SPINSZ ELSE c.pe + SPINSZ
  <1>1. /\ InCall(c) /\ DOMAIN c = CpuFields /\ c.j \in 1 .. segs
        /\ LoopOf(c) \in Shared
        /\ r.start \in 3 .. Top - 1 /\ r.end \in 3 .. Top - 1 /\ c.pe \in 1 .. Top - 1
        /\ LoopOf(c) \in Downward => r = Region(c.args.fn, c.j, me) /\ c.pe <= r.end
    BY Stands
  <1>2. Alike(a, c, {"pe", "done"})
    BY <1>1, AdvanceAlike
  <1>3. LoopOf(a) = LoopOf(c) /\ a.args = c.args /\ a.j = c.j
    BY <1>2, SameCall DEF Places
  <1>4. Reach(a, me) = r
    BY <1>3 DEF Reach
  <1>5. SPINSZ \in Nat \ {0} /\ Top \in Nat \ {0}
    BY Sizes
  <1>6. CASE LoopOf(c) \in Downward
    <2>1. a = AdvanceDown(c, r)
      BY <1>6 DEF Advance
    <2>2. /\ a.done = IF c.pe - SPINSZ < r.start THEN 1 ELSE 0
          /\ a.pe = IF c.pe - SPINSZ < r.start THEN r.start ELSE c.pe - SPINSZ
      BY <1>1, <1>6, <2>1, DownExact
    <2>3. Past(c, me) = r.end - c.pe
      BY <1>6 DEF Past
    <2>4. a.done = 0 => Past(a, me) = r.end - a.pe
      BY <1>3, <1>4, <1>6 DEF Past
    <2>5. Past(c, me) + SPINSZ # r.end - r.start
      <3>1. c.args.fn \in {"movinv1", "random", "movinv32"}
        BY <1>1, <1>6, LoopIsOfCall, LoopKinds
      <3>2. (r.end - r.start) % SPINSZ # 0
        BY <1>1, <1>6, <3>1, NotOneOver
      <3>3. LoopOf(c) # "pairs"
        BY <1>6 DEF Downward
      <3>4. PICK n \in Nat : Past(c, me) = n * SPINSZ
        BY <3>3 DEF Steady, Marks
      <3>5. Past(c, me) + SPINSZ = SPINSZ * (n + 1)
        BY <1>5, <3>4
      <3>6. (SPINSZ * (n + 1)) % SPINSZ = 0
        BY <1>5, ProductExact
      <3> QED BY <3>2, <3>5, <3>6
    <2> QED BY <1>1, <1>5, <1>6, <2>2, <2>3, <2>4, <2>5
  <1>7. CASE LoopOf(c) \notin Downward
    <2>1. a = AdvanceUp(c, r)
      BY <1>7 DEF Advance
    <2>2. /\ a.done = IF c.pe + SPINSZ >= r.end THEN 1 ELSE 0
          /\ a.pe = IF c.pe + SPINSZ >= r.end THEN r.end ELSE c.pe + SPINSZ
      BY <1>1, <2>1, UpExact
    <2>3. Past(c, me) = c.pe - r.start
      BY <1>7 DEF Past
    <2>4. a.done = 0 => Past(a, me) = a.pe - r.start
      BY <1>3, <1>4, <1>7 DEF Past
    <2> QED BY <1>1, <1>5, <1>7, <2>2, <2>3, <2>4
  <1> QED BY <1>6, <1>7

(* A section of a share that ends within memory is one of the first Top.    *)
LEMMA MarkBegins ==
    ASSUME NEW loop, NEW o \in Marks(loop), o < Top, NEW m, loop = "pairs" => m = BLOCK
    PROVE  o \in Beginnings(m)
  <1>1. SPINSZ \in Nat /\ SPINSZ > 1 /\ Top \in Nat \ {0}
    BY Sizes, Sections
  <1>2. ASSUME NEW n \in Nat, NEW x \in Nat \ {0}, n * x < Top
        PROVE  n \in 0 .. Top
    <2>1. n * 1 <= n * x
      BY MultMono
    <2> QED BY <1>1, <1>2, <2>1
  <1>3. ASSUME NEW n \in Nat, o = n * SPINSZ
        PROVE  o \in Beginnings(m)
    <2>1. n \in 0 .. Top
      BY <1>1, <1>2, <1>3
    <2> QED BY <1>3, <2>1 DEF Beginnings
  <1>4. CASE loop # "pairs"
    BY <1>3, <1>4 DEF Marks
  <1>5. CASE loop = "pairs"
    <2>1. CASE o = 0
      <3>1. o = 0 * SPINSZ /\ 0 \in Nat
        BY <1>1, <2>1
      <3> QED BY <1>3, <3>1
    <2>2. CASE o # 0
      <3>1. PICK n \in Nat \ {0} : o = n * (SPINSZ - 2) + 1
        BY <1>5, <2>2 DEF Marks
      <3>2. PICK k \in 1 .. Top : o = k * (SPINSZ - 2) + 1
        <4>1. CASE SPINSZ = 2
          <5>1. o = 1
            BY <3>1, <4>1
          <5>2. 1 = 1 * (SPINSZ - 2) + 1 /\ 1 \in 1 .. Top
            BY <1>1, <4>1
          <5> QED BY <5>1, <5>2
        <4>2. CASE SPINSZ # 2
          <5> DEFINE x == SPINSZ - 2
          <5>1. x \in Nat \ {0}
            BY <1>1, <4>2
          <5>2. o = n * x + 1
            BY <3>1
          <5> HIDE DEF x
          <5>3. n * x \in Nat
            BY <5>1
          <5>4. n * x < Top
            BY <1>1, <5>2, <5>3
          <5>5. n \in 0 .. Top
            BY <1>2, <5>1, <5>4
          <5>6. n \in 1 .. Top
            BY <1>1, <5>5
          <5> QED BY <5>2, <5>6 DEF x
        <4> QED BY <4>1, <4>2
      <3> QED BY <1>5, <3>2 DEF Beginnings
    <2> QED BY <2>1, <2>2
  <1> QED BY <1>4, <1>5

(* What SameSections says of two CPUs. *)
LEMMA SameEnds ==
    ASSUME sc \in Scenarios, SameSections(sc), NEW a \in CPUs, NEW b \in CPUs,
           NEW j \in 1 .. segs, NEW fn, NEW o \in Beginnings(Unit(fn)),
           NEW short \in (IF Unit(fn) = 1 THEN {0, MOD_SZ} ELSE {0}),
           NEW x, x = Region(fn, j, a), NEW y, y = Region(fn, j, b)
    PROVE  o + SPINSZ >= x.end - x.start - short <=> o + SPINSZ >= y.end - y.start - short
  <1> DEFINE m == Unit(fn)
             s == sc
             Size(i) == LET c == Chunk(s.map[j], i, s.run_cpus - 1, s.run_cpus, m)
                        IN  c.end - c.start - short
  <1>1. CASE fn \in Whole
    BY <1>1 DEF Region
  <1>2. CASE fn \notin Whole
    <2>1. m \in {1, ALIGN, BLOCK}
      BY DEF Unit
    <2>2. j \in DOMAIN s.map
      BY ScenariosAssumption DEF segs
    <2>3. ASSUME NEW i \in CPUs
          PROVE  o + SPINSZ >= Size(i) <=> o + SPINSZ >= Size(0)
      <3>1. i \in 0 .. s.run_cpus - 1 /\ o \in Beginnings(m)
            /\ short \in (IF m = 1 THEN {0, MOD_SZ} ELSE {0})
        BY DEF CPUs
      <3> HIDE DEF m
      <3> QED BY <2>1, <2>2, <3>1 DEF SameSections
    <2>4. x.end - x.start - short = Size(a) /\ y.end - y.start - short = Size(b)
      BY <1>2 DEF Region, mstr
    <2> HIDE DEF Size, m, s
    <2> QED BY <2>3, <2>4
  <1> QED BY <1>1, <1>2

(* The next section is the last for both CPUs or for none. *)
LEMMA NextAlike ==
    ASSUME sc \in Scenarios, SameSections(sc), NEW a \in CPUs, NEW b \in CPUs,
           NEW c, Placed(c, a), Steady(c, a), NEW d, Placed(d, b), Steady(d, b),
           SamePlace(c, a, d, b), c.at = "test", LoopOf(c) # "sync", c.done = 0,
           NEW x, x = Advance(c, a), NEW y, y = Advance(d, b)
    PROVE  /\ x.done = y.done /\ x.done \in {0, 1}
           /\ x.done = 0 => Past(x, a) = Past(c, a) + SPINSZ /\ Past(y, b) = Past(x, a)
  <1> DEFINE o == Past(c, a)
             fn == c.args.fn
             m == Unit(fn)
             loop == LoopOf(c)
             r == Reach(c, a)
             q == Reach(d, b)
             rr == Region(fn, c.j, a)
             qq == Region(fn, c.j, b)
             short == IF loop \in Shortened THEN MOD_SZ ELSE 0
  <1>1. /\ d.args.fn = fn /\ LoopOf(d) = loop /\ d.j = c.j /\ d.at = "test" /\ d.done = 0
        /\ Past(d, b) = o
    BY DEF SamePlace, LoopOf
  <1>2. /\ InCall(c) /\ c.j \in 1 .. segs /\ IsRegion(rr) /\ r.start \in Nat /\ r.end \in Nat
    BY Stands
  <1>3. IsRegion(qq) /\ q.start \in Nat /\ q.end \in Nat
    BY <1>1, Stands
  <1>4. /\ o \in Int /\ o < Top
        /\ o + SPINSZ >= r.end - r.start => x.done = 1
        /\ o + SPINSZ < r.end - r.start => x.done = 0 /\ Past(x, a) = o + SPINSZ
    BY NextMark
  <1>5. /\ o + SPINSZ >= q.end - q.start => y.done = 1
        /\ o + SPINSZ < q.end - q.start => y.done = 0 /\ Past(y, b) = o + SPINSZ
    BY <1>1, NextMark
  <1>6. o \in Beginnings(m)
    <2>1. loop = "pairs" => m = BLOCK
      <3>1. loop = "pairs" => fn = "block_move"
        BY <1>2, LoopIsOfCall, LoopKinds
      <3> QED BY <3>1 DEF Unit
    <2>2. o \in Marks(loop)
      BY DEF Steady
    <2> HIDE DEF o, m, loop
    <2> QED BY <1>4, <2>1, <2>2, MarkBegins
  <1>7. short \in (IF m = 1 THEN {0, MOD_SZ} ELSE {0})
    <2>1. loop \in Shortened => fn = "modtst"
      BY <1>2, LoopIsOfCall, LoopKinds
    <2> QED BY <2>1 DEF Unit
  <1>8. r = IF loop \in Shortened THEN [rr EXCEPT !.end = @ - MOD_SZ] ELSE rr
    BY DEF Reach
  <1>9. q = IF loop \in Shortened THEN [qq EXCEPT !.end = @ - MOD_SZ] ELSE qq
    BY <1>1 DEF Reach
  <1> HIDE DEF o, fn, m, loop, r, q, rr, qq
  <1>10. r.end - r.start = rr.end - rr.start - short /\ q.end - q.start = qq.end - qq.start - short
    <2>1. r.end = rr.end - short /\ r.start = rr.start
      BY <1>2, <1>8, Sizes DEF IsRegion
    <2>2. q.end = qq.end - short /\ q.start = qq.start
      BY <1>3, <1>9, Sizes DEF IsRegion
    <2> HIDE DEF short
    <2>3. short \in Nat
      BY Sizes DEF short
    <2> QED BY <1>2, <1>3, <2>1, <2>2, <2>3 DEF IsRegion
  <1> HIDE DEF short
  <1>11. o + SPINSZ >= rr.end - rr.start - short <=> o + SPINSZ >= qq.end - qq.start - short
    BY <1>2, <1>6, <1>7, SameEnds DEF m, rr, qq
  <1>12. o + SPINSZ >= r.end - r.start <=> o + SPINSZ >= q.end - q.start
    BY <1>10, <1>11
  <1>13. o + SPINSZ \in Int /\ r.end - r.start \in Int /\ q.end - q.start \in Int
    BY <1>2, <1>3, <1>4, Sizes
  <1> QED BY <1>4, <1>5, <1>12, <1>13 DEF o

(* A function that several CPUs run has loops that several run. *)
LEMMA SharedCalls ==
    ASSUME NEW fn \in Fns
    PROVE  /\ fn \notin {"addr_tst1", "sleep"} => LoopNames(fn) \subseteq Shared
           /\ \A loop \in LoopNames(fn) : loop \in Shared => fn \notin {"addr_tst1", "sleep"}
  <1> USE DEF Shared, Sweeping, Rising, Downward, Shortened, Fading, Walking
  <1>1. CASE fn \in {"s_barrier", "addr_tst1", "addr_tst2"}
    BY <1>1 DEF LoopNames
  <1>2. CASE fn \in {"movinv1", "random", "movinv32"}
    BY <1>2 DEF LoopNames
  <1>3. CASE fn \in {"movinvr", "modtst"}
    BY <1>3 DEF LoopNames
  <1>4. CASE fn \in {"block_move", "bit_fade_fill", "bit_fade_chk", "sleep"}
    BY <1>4 DEF LoopNames
  <1> QED BY <1>1, <1>2, <1>3, <1>4 DEF Fns

(* A CPU that does not wait here waits after what it does next. *)
Fresh(x) == x.wait \/ (x.at = "test" => LoopOf(x) = "move" /\ x.rep = 0)

LEMMA SegmentBegun ==
    ASSUME sc \in Scenarios, NEW me \in CPUs, NEW c, InCall(c), c.at = "test", c.j \in 1 .. segs,
           LoopOf(c) \in {"move"} \cup Sweeping, NEW x, x = AtSegment(c, me)
    PROVE  /\ Steady(x, me) /\ Fresh(x)
           /\ x.at = "test" /\ x.call = c.call /\ x.args = c.args /\ x.ph = c.ph /\ x.j = c.j
           /\ LoopOf(x) = LoopOf(c) /\ x.done = 0 /\ x.rep = 0 /\ Past(x, me) = 0
           /\ x.wait = (LoopOf(c) \notin Unticked)
  <1> DEFINE loop == LoopOf(c)
             r == Region(c.args.fn, c.j, me)
             q == Reach(x, me)
  <1>1. DOMAIN c = CpuFields
    BY DEF InCall, Known
  <1>2. DOMAIN r = {"start", "end"} /\ r.start \in 3 .. Top - 1 /\ r.end \in 3 .. Top - 1
    BY RegionFacts
  <1>3. /\ Alike(x, c, Places) /\ x.at = c.at /\ x.done = 0 /\ x.rep = 0
        /\ x.wait = (loop \notin Unticked)
        /\ x.pe = IF loop \in Downward THEN r.end ELSE r.start
    BY <1>1, <1>2, SegmentStart
  <1>4. x.args = c.args /\ x.ph = c.ph /\ x.j = c.j /\ LoopOf(x) = loop
    BY <1>3, SameCall
  <1>5. x.call = c.call
    BY <1>3 DEF Alike, CpuFields, Places
  <1>6. loop \in Shared /\ loop # "sync"
    BY DEF Shared, Sweeping, Rising, Downward, Shortened, Fading
  <1>7. q = IF loop \in Shortened THEN [r EXCEPT !.end = @ - MOD_SZ] ELSE r
    BY <1>4 DEF Reach
  <1>8. Past(x, me) = 0
    <2>1. q.start = r.start
      BY <1>2, <1>7
    <2>2. loop \in Downward => q.end = r.end
      BY <1>6, <1>7, SharedLoops
    <2>3. Past(x, me) = IF loop \in Downward THEN q.end - x.pe ELSE x.pe - q.start
      BY <1>3, <1>4 DEF Past
    <2> HIDE DEF q, r, loop
    <2>4. CASE loop \in Downward
      BY <1>2, <1>3, <2>2, <2>3, <2>4
    <2>5. CASE loop \notin Downward
      BY <1>2, <1>3, <2>1, <2>3, <2>5
    <2> QED BY <2>4, <2>5
  <1>9. 0 \in Marks(loop)
    <2>1. 0 = 0 * SPINSZ
      BY Sizes
    <2> QED BY <2>1 DEF Marks
  <1>10. Steady(x, me)
    BY <1>3, <1>4, <1>6, <1>8, <1>9 DEF Steady
  <1>11. Fresh(x)
    <2>1. loop # "move" => x.wait
      BY <1>3, <1>6, SharedLoops
    <2> QED BY <1>3, <1>4, <2>1 DEF Fresh
  <1> QED BY <1>3, <1>4, <1>5, <1>8, <1>10, <1>11

(* The fields of a call, of two CPUs. *)
SameArgs(c, d) ==
    /\ Known(c) /\ Known(d) /\ IsCall(c.args, sc.pat) /\ IsCall(d.args, sc.pat)
    /\ c.call = d.call /\ c.args.fn = d.args.fn /\ c.args.iter = d.args.iter
    /\ c.args.fn \notin {"addr_tst1", "sleep"}

(* x begins loop ph of its n loops, or goes back to do_test(). *)
Begun(x, c, ph, loop, n, me) ==
    /\ Steady(x, me) /\ Fresh(x) /\ x.call = c.call
    /\ ph > n => x.at = "do_test" /\ x.wait = FALSE
    /\ ~(ph > n) =>
          /\ x.at = "test" /\ x.args = c.args /\ x.ph = ph /\ LoopOf(x) = loop
          /\ loop = "sync" => x.wait = TRUE
          /\ loop # "sync" =>
                /\ x.j = IF loop \in Downward THEN segs ELSE 1
                /\ x.done = 0 /\ x.rep = 0 /\ Past(x, me) = 0
                /\ x.wait = (loop \notin Unticked)

LEMMA LoopBegun ==
    ASSUME sc \in Scenarios, NEW me \in CPUs, NEW c, Known(c), IsCall(c.args, sc.pat),
           c.args.fn \notin {"addr_tst1", "sleep"}, NEW ph \in Nat \ {0},
           NEW loop, loop = Loops(c.args.fn, c.args.iter)[ph],
           NEW n, n = Len(Loops(c.args.fn, c.args.iter)), NEW x, x = AtLoop(c, ph, me)
    PROVE  Begun(x, c, ph, loop, n, me)
  <1> USE DEF Begun
  <1>0. DOMAIN c = CpuFields /\ c.call \in Nat /\ IsErrs(c.errs)
    BY DEF Known
  <1>1. CASE ph > n
    <2>1. x = [c EXCEPT !.at = "do_test", !.wait = FALSE]
      BY <1>1 DEF AtLoop
    <2>2. x.at = "do_test" /\ x.call = c.call /\ x.wait = FALSE
      BY <1>0, <2>1, Fields
    <2> QED BY <1>1, <2>2 DEF Steady, Fresh
  <1>2. CASE ~(ph > n)
    <2> DEFINE j == IF loop \in Downward THEN segs ELSE 1
               c1 == [c EXCEPT !.at = "test", !.ph = ph, !.j = j]
    <2>1. x = CASE loop = "sync"  -> [c1 EXCEPT !.wait = TRUE]
                [] loop = "sleep" -> [c1 EXCEPT !.k = 0, !.wait = FALSE]
                [] OTHER          -> AtSegment(c1, me)
      BY <1>2 DEF AtLoop
    <2>2. n \in Nat /\ (ph \in 1 .. n => loop \in LoopNames(c.args.fn)) /\ c.args.fn \in Fns
      <3>1. Loops(c.args.fn, c.args.iter) \in Seq(LoopNames(c.args.fn)) /\ c.args.fn \in Fns
        BY LoopsOf DEF IsCall
      <3> QED BY <3>1
    <2>3. ph \in 1 .. n
      BY <1>2, <2>2
    <2>4. loop \in Shared
      BY <2>2, <2>3, SharedCalls
    <2>5. j \in 1 .. segs
      BY Counts
    <2> HIDE DEF j
    <2>6. /\ DOMAIN c1 = CpuFields /\ c1.call = c.call /\ c1.errs = c.errs /\ c1.args = c.args
          /\ c1.ph = ph /\ c1.j = j /\ c1.at = "test"
      BY <1>0, Fields
    <2> HIDE DEF c1
    <2>7. InCall(c1) /\ LoopOf(c1) = loop
      BY <1>0, <2>3, <2>6 DEF InCall, Known, LoopOf
    <2>8. CASE loop = "sync"
      <3>1. x = [c1 EXCEPT !.wait = TRUE]
        BY <2>1, <2>8
      <3>2. Alike(x, c1, {"wait"}) /\ x.wait = TRUE
        BY <2>6, <3>1, Fields DEF Alike, CpuFields
      <3>5. x.args = c.args /\ x.ph = ph /\ LoopOf(x) = loop
        BY <2>6, <2>7, <3>2, SameCall DEF Places
      <3>6. x.at = "test" /\ x.call = c.call
        BY <2>6, <3>2, Fields DEF Alike
      <3>3. x.args = c.args /\ x.ph = ph /\ LoopOf(x) = loop /\ x.at = "test" /\ x.call = c.call
        BY <3>5, <3>6
      <3>4. Steady(x, me) /\ Fresh(x)
        BY <2>4, <2>8, <3>2, <3>3 DEF Steady, Fresh
      <3> QED BY <1>2, <2>8, <3>2, <3>3, <3>4
    <2>9. CASE loop # "sync"
      <3>1. x = AtSegment(c1, me)
        BY <2>1, <2>4, <2>9, SharedLoops
      <3>2. loop \in {"move"} \cup Sweeping
        BY <2>4, <2>9, SharedLoops
      <3>3. /\ Steady(x, me) /\ Fresh(x)
            /\ x.at = "test" /\ x.call = c1.call /\ x.args = c1.args /\ x.ph = c1.ph
            /\ x.j = c1.j
            /\ LoopOf(x) = loop /\ x.done = 0 /\ x.rep = 0 /\ Past(x, me) = 0
            /\ x.wait = (loop \notin Unticked)
        BY <2>5, <2>6, <2>7, <3>1, <3>2, SegmentBegun
      <3> QED BY <1>2, <2>6, <2>9, <3>3 DEF j
    <2> QED BY <2>8, <2>9
  <1> QED BY <1>1, <1>2

LEMMA LoopAlike ==
    ASSUME sc \in Scenarios, NEW a \in CPUs, NEW b \in CPUs, NEW c, NEW d, SameArgs(c, d),
           NEW ph \in Nat \ {0}, NEW x, x = AtLoop(c, ph, a), NEW y, y = AtLoop(d, ph, b)
    PROVE  SamePlace(x, a, y, b) /\ Steady(x, a) /\ Fresh(x)
  <1> DEFINE loop == Loops(c.args.fn, c.args.iter)[ph]
             n == Len(Loops(c.args.fn, c.args.iter))
  <1>1. Begun(x, c, ph, loop, n, a)
    BY LoopBegun DEF SameArgs
  <1>2. Begun(y, d, ph, loop, n, b)
    <2>1. loop = Loops(d.args.fn, d.args.iter)[ph] /\ n = Len(Loops(d.args.fn, d.args.iter))
      BY DEF SameArgs
    <2>2. Known(d) /\ IsCall(d.args, sc.pat) /\ d.args.fn \notin {"addr_tst1", "sleep"}
      BY DEF SameArgs
    <2> HIDE DEF loop, n
    <2> QED BY <2>1, <2>2, LoopBegun
  <1> HIDE DEF loop, n
  <1>3. c.call = d.call /\ c.args.fn = d.args.fn /\ c.args.iter = d.args.iter
    BY DEF SameArgs
  <1> QED BY <1>1, <1>2, <1>3 DEF Begun, SamePlace

(* Two CPUs in the same loop, at the same segment. *)
Level(c, d) ==
    /\ InCall(c) /\ InCall(d) /\ c.at = "test" /\ d.at = "test" /\ c.call = d.call
    /\ c.args.fn = d.args.fn /\ c.args.iter = d.args.iter /\ c.ph = d.ph /\ c.j = d.j
    /\ c.j \in 1 .. segs /\ LoopOf(c) \in {"move"} \cup Sweeping

LEMMA LevelFacts ==
    ASSUME NEW c, NEW d, Level(c, d)
    PROVE  /\ SameArgs(c, d) /\ LoopOf(d) = LoopOf(c) /\ c.ph + 1 \in Nat \ {0}
           /\ LoopOf(c) \in Shared /\ LoopOf(c) # "sync"
  <1>1. LoopOf(d) = LoopOf(c)
    BY DEF Level, LoopOf
  <1>2. LoopOf(c) \in Shared /\ LoopOf(c) # "sync"
    BY DEF Level, Shared, Sweeping, Rising, Downward, Shortened, Fading
  <1>3. c.args.fn \in Fns /\ LoopOf(c) \in LoopNames(c.args.fn) /\ c.ph \in Nat
    BY LoopIsOfCall DEF Level
  <1>4. c.args.fn \notin {"addr_tst1", "sleep"}
    BY <1>2, <1>3, SharedCalls
  <1>5. SameArgs(c, d)
    BY <1>4 DEF SameArgs, Level, InCall
  <1> QED BY <1>1, <1>2, <1>3, <1>5

LEMMA SegmentAlike ==
    ASSUME sc \in Scenarios, NEW a \in CPUs, NEW b \in CPUs, NEW c, NEW d, Level(c, d),
           NEW j \in 1 .. segs, NEW x, x = AtSegment([c EXCEPT !.j = j], a),
           NEW y, y = AtSegment([d EXCEPT !.j = j], b)
    PROVE  SamePlace(x, a, y, b) /\ Steady(x, a) /\ Fresh(x)
  <1> DEFINE Moved(f, me, z) ==
                /\ Steady(z, me) /\ Fresh(z)
                /\ z.at = "test" /\ z.call = f.call /\ z.args = f.args /\ z.ph = f.ph /\ z.j = j
                /\ LoopOf(z) = LoopOf(f) /\ z.done = 0 /\ z.rep = 0 /\ Past(z, me) = 0
                /\ z.wait = (LoopOf(f) \notin Unticked)
  <1>1. ASSUME NEW me \in CPUs, NEW f, InCall(f), f.at = "test", LoopOf(f) \in {"move"} \cup Sweeping,
               NEW z, z = AtSegment([f EXCEPT !.j = j], me)
        PROVE  Moved(f, me, z)
    <2> DEFINE f1 == [f EXCEPT !.j = j]
    <2>1. DOMAIN f = CpuFields
      BY <1>1 DEF InCall, Known
    <2>2. /\ DOMAIN f1 = CpuFields /\ f1.call = f.call /\ f1.errs = f.errs /\ f1.args = f.args
          /\ f1.ph = f.ph /\ f1.j = j /\ f1.at = "test"
      BY <1>1, <2>1, Fields
    <2> HIDE DEF f1
    <2>3. InCall(f1) /\ LoopOf(f1) = LoopOf(f)
      BY <1>1, <2>2 DEF InCall, Known, LoopOf
    <2>4. z = AtSegment(f1, me)
      BY <1>1 DEF f1
    <2>5. /\ Steady(z, me) /\ Fresh(z)
          /\ z.at = "test" /\ z.call = f1.call /\ z.args = f1.args /\ z.ph = f1.ph /\ z.j = f1.j
          /\ LoopOf(z) = LoopOf(f1) /\ z.done = 0 /\ z.rep = 0 /\ Past(z, me) = 0
          /\ z.wait = (LoopOf(f1) \notin Unticked)
      BY <1>1, <2>2, <2>3, <2>4, SegmentBegun
    <2> QED BY <2>2, <2>3, <2>5
  <1>2. LoopOf(d) = LoopOf(c) /\ LoopOf(d) \in {"move"} \cup Sweeping
    BY LevelFacts DEF Level
  <1>3. Moved(c, a, x)
    BY <1>1 DEF Level
  <1>4. Moved(d, b, y)
    BY <1>1, <1>2 DEF Level
  <1> QED BY <1>2, <1>3, <1>4 DEF Level, SamePlace

LEMMA NextSegmentAlike ==
    ASSUME sc \in Scenarios, NEW a \in CPUs, NEW b \in CPUs, NEW c, NEW d, Level(c, d),
           NEW x, x = NextSegment(c, a), NEW y, y = NextSegment(d, b)
    PROVE  SamePlace(x, a, y, b) /\ Steady(x, a) /\ Fresh(x)
  <1>1. /\ SameArgs(c, d) /\ LoopOf(d) = LoopOf(c) /\ c.ph + 1 \in Nat \ {0} /\ d.ph = c.ph
        /\ d.j = c.j /\ c.j \in 1 .. segs /\ segs \in Nat
    BY LevelFacts, Counts DEF Level
  <1>2. CASE \/ LoopOf(c) \in Downward /\ c.j = 1
             \/ LoopOf(c) \notin Downward /\ c.j = segs
    <2>1. x = AtLoop(c, c.ph + 1, a) /\ y = AtLoop(d, c.ph + 1, b)
      BY <1>1, <1>2 DEF NextSegment
    <2> QED BY <1>1, <2>1, LoopAlike
  <1>3. CASE LoopOf(c) \in Downward /\ c.j # 1
    <2> DEFINE j == c.j - 1
    <2>1. j \in 1 .. segs
      BY <1>1, <1>3
    <2>2. x = AtSegment([c EXCEPT !.j = j], a) /\ y = AtSegment([d EXCEPT !.j = j], b)
      BY <1>1, <1>3 DEF NextSegment
    <2> HIDE DEF j
    <2> QED BY <2>1, <2>2, SegmentAlike
  <1>4. CASE LoopOf(c) \notin Downward /\ c.j # segs
    <2> DEFINE j == c.j + 1
    <2>1. j \in 1 .. segs
      BY <1>1, <1>4
    <2>2. x = AtSegment([c EXCEPT !.j = j], a) /\ y = AtSegment([d EXCEPT !.j = j], b)
      BY <1>1, <1>4 DEF NextSegment
    <2> HIDE DEF j
    <2> QED BY <2>1, <2>2, SegmentAlike
  <1> QED BY <1>2, <1>3, <1>4

LEMMA NextSectionAlike ==
    ASSUME sc \in Scenarios, NEW a \in CPUs, NEW b \in CPUs, NEW c, NEW d, Level(c, d),
           c.done = d.done, c.done \in {0, 1}, c.rep = d.rep, LoopOf(c) = "move" => c.rep = 0,
           c.done = 0 => Past(c, a) = Past(d, b) /\ Past(c, a) \in Marks(LoopOf(c)),
           NEW x, x = NextSection(c, a), NEW y, y = NextSection(d, b)
    PROVE  SamePlace(x, a, y, b) /\ Steady(x, a) /\ Fresh(x)
  <1>1. CASE c.done = 1
    <2>1. x = NextSegment(c, a) /\ y = NextSegment(d, b)
      BY <1>1 DEF NextSection
    <2> QED BY <2>1, NextSegmentAlike
  <1>2. CASE c.done = 0
    <2> DEFINE w == LoopOf(c) \notin Unticked
    <2>1. LoopOf(d) = LoopOf(c) /\ LoopOf(c) \in Shared /\ LoopOf(c) # "sync"
      BY LevelFacts
    <2>2. x = [c EXCEPT !.wait = w] /\ y = [d EXCEPT !.wait = w]
      BY <1>2, <2>1 DEF NextSection
    <2>0. w <=> (LoopOf(c) # "move")
      BY <2>1, SharedLoops
    <2> HIDE DEF w
    <2>3. DOMAIN c = CpuFields /\ DOMAIN d = CpuFields
      BY DEF Level, InCall, Known
    <2>4. /\ Alike(x, c, {"wait"}) /\ Alike(y, d, {"wait"}) /\ x.wait = w /\ y.wait = w
      BY <2>2, <2>3, Fields DEF Alike, CpuFields
    <2>5. /\ x.at = c.at /\ x.call = c.call /\ x.done = c.done /\ x.rep = c.rep
          /\ y.at = d.at /\ y.call = d.call /\ y.done = d.done /\ y.rep = d.rep
          /\ x.pe = c.pe /\ y.pe = d.pe
      BY <2>4, Fields DEF Alike
    <2>6. /\ x.args = c.args /\ x.ph = c.ph /\ x.j = c.j /\ LoopOf(x) = LoopOf(c)
          /\ y.args = d.args /\ y.ph = d.ph /\ y.j = d.j /\ LoopOf(y) = LoopOf(c)
      <3>1. {"wait"} \in SUBSET Places
        BY DEF Places
      <3> QED BY <2>1, <2>4, <3>1, SameCall
    <2>7. Past(x, a) = Past(c, a) /\ Past(y, b) = Past(d, b)
      BY <2>1, <2>5, <2>6 DEF Past, Reach
    <2>8. SamePlace(x, a, y, b)
      BY <1>2, <2>4, <2>5, <2>6, <2>7 DEF SamePlace, Level
    <2>9. Steady(x, a)
      BY <1>2, <2>1, <2>5, <2>6, <2>7 DEF Steady, Level
    <2>10. Fresh(x)
      <3>1. CASE LoopOf(c) = "move"
        BY <2>5, <2>6, <3>1 DEF Fresh, Level
      <3>2. CASE LoopOf(c) # "move"
        BY <2>0, <2>4, <3>2 DEF Fresh
      <3> QED BY <3>1, <3>2
    <2> QED BY <2>8, <2>9, <2>10
  <1> QED BY <1>1, <1>2


(* What a section changes of the CPU's place. *)
LEMMA BehindAlike ==
    ASSUME NEW a, DOMAIN a = CpuFields, NEW h, h = Behind(a), LoopOf(a) \in Shared
    PROVE  /\ Alike(h, a, {"p", "pe"})
           /\ h.pe = IF LoopOf(a) = "pairs" THEN LastPair(a.pe) ELSE a.pe
  <1> DEFINE loop == LoopOf(a)
             as == Every(a.p, a.pe)
             ps == Upwards(a.p, LastPair(a.pe), 2)
             next == as[Len(as)] + MOD_SZ
             last == ps[Len(ps)]
             up == (a.pe + 1) % Top
             down == (a.pe - 1) % Top
             end == BlockEnd(a.pe) % Top
             pe == LastPair(a.pe)
  <1>1. h = CASE loop \in Downward  -> [a EXCEPT !.p = down]
              [] loop \in Shortened -> [a EXCEPT !.p = next]
              [] loop = "init"      -> [a EXCEPT !.p = end]
              [] loop = "pairs"     -> [a EXCEPT !.p = last, !.pe = pe]
              [] OTHER              -> [a EXCEPT !.p = up]
    BY DEF Behind
  <1>2. loop \in {"init", "pairs"} => loop \notin Downward \cup Shortened
    BY SharedLoops
  <1>3. loop \in Downward => loop \notin Shortened
    BY SharedLoops
  <1> HIDE DEF next, last, up, down, end, pe, loop
  <1>4. CASE loop = "pairs"
    <2>1. h = [a EXCEPT !.p = last, !.pe = pe]
      BY <1>1, <1>2, <1>4
    <2> QED BY <1>4, <2>1 DEF Alike, CpuFields, pe, loop
  <1>5. CASE loop # "pairs"
    <2>1. PICK p : h = [a EXCEPT !.p = p]
      BY <1>1, <1>2, <1>3, <1>5
    <2> QED BY <1>5, <2>1 DEF Alike, CpuFields, loop
  <1> QED BY <1>4, <1>5

(* Odd numbers are no multiples of an even one. *)
LEMMA OddMark ==
    ASSUME NEW n \in Nat
    PROVE  (n * (SPINSZ - 2) + 1 + SPINSZ) % BLOCK # 0
  <1>1. SPINSZ \in Nat /\ SPINSZ > 1 /\ BLOCK \in Nat \ {0} /\ BLOCK % 2 = 0 /\ SPINSZ % BLOCK = 0
    BY Sizes, Sections
  <1>2. PICK k \in Nat : BLOCK = 2 * k
    <2>1. BLOCK \div 2 \in Nat /\ BLOCK = 2 * (BLOCK \div 2)
      BY <1>1, DivExact
    <2> QED BY <2>1
  <1>3. SPINSZ = BLOCK * (SPINSZ \div BLOCK) /\ SPINSZ \div BLOCK \in Nat
    BY <1>1, DivExact
  <1>4. PICK s \in Nat : SPINSZ = 2 * s
    <2> DEFINE q == SPINSZ \div BLOCK
    <2>1. SPINSZ = (2 * k) * q /\ q \in Nat
      BY <1>2, <1>3
    <2> HIDE DEF q
    <2>2. SPINSZ = 2 * (k * q) /\ k * q \in Nat
      BY <2>1
    <2> QED BY <2>2
  <1>5. s - 1 \in Nat
    BY <1>1, <1>4
  <1> DEFINE x == n * (SPINSZ - 2) + 1 + SPINSZ
             y == n * (s - 1) + s
  <1>6. y \in Nat /\ x = 2 * y + 1
    <2>1. SPINSZ - 2 = 2 * (s - 1)
      BY <1>4
    <2> DEFINE t == s - 1
    <2>2. n * (2 * t) = 2 * (n * t) /\ n * t \in Nat
      <3>1. t \in Nat
        BY <1>5
      <3> HIDE DEF t
      <3> QED BY <3>1
    <2>3. n * (SPINSZ - 2) = 2 * (n * t)
      BY <2>1, <2>2
    <2> HIDE DEF t
    <2>4. y = n * t + s
      BY DEF t
    <2> QED BY <1>4, <2>2, <2>3, <2>4
  <1> HIDE DEF x, y
  <1>7. SUFFICES ASSUME x % BLOCK = 0 PROVE FALSE
    BY DEF x
  <1>8. PICK m \in Nat : x = BLOCK * m
    <2>1. x \in Nat
      BY <1>6
    <2>2. x \div BLOCK \in Nat /\ x = BLOCK * (x \div BLOCK)
      BY <1>1, <1>7, <2>1, DivExact
    <2> QED BY <2>2
  <1>9. x = 2 * (k * m) /\ k * m \in Nat
    BY <1>2, <1>8
  <1> DEFINE z == k * m
  <1>10. z \in Nat /\ x = 2 * z
    BY <1>9
  <1> HIDE DEF z
  <1> QED BY <1>6, <1>10

(* block_move's check begins the next section where it stopped, which is a  *)
(* word or two short of the section's end.                                  *)
LEMMA PairMark ==
    ASSUME NEW start \in Nat, start % BLOCK = 0, NEW o \in Marks("pairs"), NEW n,
           n = IF o = 0 THEN SPINSZ - 1 ELSE o + SPINSZ - 2
    PROVE  /\ o \in Nat /\ n \in Marks("pairs")
           /\ LastPair(start + o + SPINSZ) = start + n
  <1>1. SPINSZ \in Nat /\ SPINSZ > 1 /\ BLOCK \in Nat \ {0} /\ SPINSZ % BLOCK = 0
    BY Sizes, Sections
  <1>0. ASSUME NEW pe
        PROVE  /\ pe % BLOCK = 0 => LastPair(pe) = pe - 1
               /\ pe % BLOCK # 0 => LastPair(pe) = pe - 2
    BY DEF LastPair
  <1>2. CASE o = 0
    <2>1. (start + SPINSZ) % BLOCK = 0
      BY <1>1, SumExact
    <2>2. PICK e : e = start + SPINSZ
      OBVIOUS
    <2>3. LastPair(e) = e - 1
      BY <1>0, <2>1, <2>2
    <2>5. start + o + SPINSZ = e
      BY <1>1, <1>2, <2>2
    <2>4. n = 1 * (SPINSZ - 2) + 1
      BY <1>1, <1>2
    <2> QED BY <1>1, <1>2, <2>2, <2>3, <2>4, <2>5 DEF Marks
  <1>3. CASE o # 0
    <2>1. PICK k \in Nat \ {0} : o = k * (SPINSZ - 2) + 1
      BY <1>3 DEF Marks
    <2> DEFINE t == SPINSZ - 2
    <2>2. t \in Nat
      BY <1>1
    <2>3. (k + 1) * t = k * t + t /\ k * t \in Nat
      <3> HIDE DEF t
      <3> QED BY <2>2
    <2>4. n = (k + 1) * t + 1 /\ o = k * t + 1
      <3> DEFINE kt == k * t
      <3>1. o = kt + 1 /\ kt \in Nat
        BY <2>1, <2>3
      <3> HIDE DEF kt
      <3>2. n = kt + t + 1
        BY <1>1, <1>3, <3>1
      <3> QED BY <2>3, <3>1, <3>2 DEF kt
    <2>5. o \in Nat
      <3> HIDE DEF t
      <3> QED BY <2>3, <2>4
    <2>6. n \in Marks("pairs")
      <3>1. k + 1 \in Nat \ {0}
        OBVIOUS
      <3> QED BY <2>4, <3>1 DEF Marks
    <2>7. (o + SPINSZ) % BLOCK # 0
      BY <2>1, OddMark
    <2> DEFINE x == o + SPINSZ
    <2>8. x \in Nat
      BY <1>1, <2>5
    <2>9. (start + x) % BLOCK # 0
      <3> HIDE DEF x
      <3> SUFFICES ASSUME (start + x) % BLOCK = 0 PROVE x % BLOCK = 0
        BY <2>7 DEF x
      <3> DEFINE q == start \div BLOCK
                 u == (start + x) \div BLOCK
      <3>1. q \in Nat /\ start = BLOCK * q
        BY <1>1, DivExact
      <3>2. u \in Nat /\ start + x = BLOCK * u
        BY <1>1, <2>8, DivExact
      <3> HIDE DEF q, u
      <3>3. q <= u
        <4> SUFFICES ASSUME u + 1 <= q PROVE FALSE
          BY <3>1, <3>2
        <4>1. BLOCK * (u + 1) <= BLOCK * q /\ BLOCK * (u + 1) \in Nat
          BY <1>1, <3>1, <3>2, MultMono
        <4>2. BLOCK * (u + 1) = BLOCK * u + BLOCK
          BY <1>1, <3>2
        <4> QED BY <1>1, <2>8, <3>1, <3>2, <4>1, <4>2
      <3>4. x = BLOCK * (u - q) /\ u - q \in Nat
        <4>1. BLOCK * (u - q) = BLOCK * u - BLOCK * q /\ u - q \in Nat
          BY <1>1, <3>1, <3>2, <3>3
        <4> QED BY <2>8, <3>1, <3>2, <4>1
      <3> QED BY <1>1, <3>4, ProductExact
    <2>10. LastPair(start + x) = start + x - 2
      <3> HIDE DEF x
      <3>1. PICK e : e = start + x
        OBVIOUS
      <3>2. LastPair(e) = e - 2
        BY <1>0, <2>9, <3>1
      <3> QED BY <2>8, <3>1, <3>2
    <2>11. start + o + SPINSZ = start + x /\ start + x - 2 = start + n
      <3> HIDE DEF t
      <3> QED BY <1>1, <1>3, <2>5
    <2> QED BY <2>5, <2>6, <2>10, <2>11
  <1> QED BY <1>2, <1>3

(* Another CPU, or the same one elsewhere, as far as its call goes. *)
SameCourse(h, c) ==
    /\ InCall(h) /\ h.at = c.at /\ h.call = c.call /\ h.args = c.args /\ h.ph = c.ph
    /\ h.j = c.j /\ LoopOf(h) = LoopOf(c)

LEMMA CourseKept ==
    ASSUME NEW c, InCall(c), NEW diff, diff \subseteq Places \ {"at"}, NEW h, Alike(h, c, diff)
    PROVE  SameCourse(h, c)
  <1>1. diff \in SUBSET Places /\ "at" \notin diff
    OBVIOUS
  <1>2. h.call = c.call
    <2>1. "call" \in CpuFields \ diff
      BY DEF CpuFields, Places
    <2> QED BY <2>1 DEF Alike
  <1> QED BY <1>1, <1>2, SameCall DEF SameCourse

(* Where the next section begins. *)
Mark(loop, o) ==
    IF loop # "pairs" THEN o + SPINSZ ELSE IF o = 0 THEN SPINSZ - 1 ELSE o + SPINSZ - 2

LEMMA SectionEnds ==
    ASSUME sc \in Scenarios, NEW me \in CPUs, NEW c, Placed(c, me), Steady(c, me),
           c.at = "test", LoopOf(c) \in Sweeping, NEW a, a = Advance(c, me), NEW h, h = Behind(a)
    PROVE  /\ SameCourse(a, c) /\ SameCourse(h, c) /\ c.done = 0
           /\ h.done = a.done /\ a.rep = c.rep /\ h.rep = c.rep
           /\ a.done = 0 =>
                 /\ Past(h, me) = Mark(LoopOf(c), Past(c, me))
                 /\ Past(h, me) \in Marks(LoopOf(c))
  <1> DEFINE loop == LoopOf(c)
             r == Reach(c, me)
             o == Past(c, me)
  <1>1. loop \in Shared /\ loop # "sync" /\ loop # "move"
    BY SharedLoops DEF Steady
  <1>2. c.done = 0 /\ o \in Marks(loop)
    BY <1>1 DEF Steady
  <1>3. /\ InCall(c) /\ DOMAIN c = CpuFields /\ c.j \in 1 .. segs
        /\ r.start \in 3 .. Top - 1 /\ r.end \in 3 .. Top - 1 /\ c.pe \in 1 .. Top - 1
        /\ r.start = Region(c.args.fn, c.j, me).start
    BY <1>1, Stands
  <1>4. Alike(a, c, {"pe", "done"})
    BY <1>3, AdvanceAlike
  <1>5. SameCourse(a, c)
    <2>1. {"pe", "done"} \subseteq Places \ {"at"}
      BY DEF Places
    <2> QED BY <1>3, <1>4, <2>1, CourseKept
  <1>6. Alike(h, a, {"p", "pe"}) /\ h.pe = IF loop = "pairs" THEN LastPair(a.pe) ELSE a.pe
    <2>1. DOMAIN a = CpuFields /\ LoopOf(a) = loop
      BY <1>4, <1>5 DEF Alike, SameCourse
    <2> QED BY <1>1, <2>1, BehindAlike
  <1>7. SameCourse(h, a)
    <2>1. {"p", "pe"} \subseteq Places \ {"at"}
      BY DEF Places
    <2> QED BY <1>5, <1>6, <2>1, CourseKept DEF SameCourse
  <1>8. SameCourse(h, c)
    BY <1>5, <1>7 DEF SameCourse
  <1>9. h.done = a.done /\ a.rep = c.rep /\ h.rep = c.rep
    BY <1>4, <1>6, Fields DEF Alike
  <1>10. ASSUME a.done = 0
         PROVE  Past(h, me) = Mark(loop, o) /\ Past(h, me) \in Marks(loop)
    <2>1. /\ o \in Int /\ Past(a, me) = o + SPINSZ
          /\ a.pe = IF loop \in Downward THEN c.pe - SPINSZ ELSE c.pe + SPINSZ
      <3>1. /\ o \in Int
            /\ o + SPINSZ >= r.end - r.start => a.done = 1
            /\ o + SPINSZ < r.end - r.start => a.done = 0 /\ Past(a, me) = o + SPINSZ
            /\ a.done = 0 => a.pe = IF loop \in Downward THEN c.pe - SPINSZ ELSE c.pe + SPINSZ
        BY <1>1, <1>2, NextMark
      <3> HIDE DEF o, loop, r
      <3> QED BY <1>3, <1>10, <3>1, Sizes
    <2>2. Reach(h, me) = r /\ Reach(a, me) = r /\ LoopOf(h) = loop /\ LoopOf(a) = loop
      BY <1>5, <1>8 DEF Reach, SameCourse
    <2>3. CASE loop # "pairs"
      <3>1. Past(h, me) = Past(a, me)
        BY <1>6, <1>9, <2>2, <2>3 DEF Past
      <3>2. o + SPINSZ \in Marks(loop)
        <4>1. PICK n \in Nat : o = n * SPINSZ
          BY <1>2, <2>3 DEF Marks
        <4>2. o + SPINSZ = (n + 1) * SPINSZ /\ n + 1 \in Nat
          BY <4>1, Sizes
        <4> QED BY <2>3, <4>2 DEF Marks
      <3> QED BY <2>1, <2>3, <3>1, <3>2 DEF Mark
    <2>4. CASE loop = "pairs"
      <3>1. loop \notin Downward
        BY <1>1, <2>4, SharedLoops
      <3>2. o = c.pe - r.start /\ Past(h, me) = h.pe - r.start
        BY <1>2, <1>9, <1>10, <2>2, <3>1 DEF Past
      <3>3. r.start % BLOCK = 0
        <4>1. c.args.fn = "block_move"
          BY <1>3, <2>4, LoopIsOfCall, LoopKinds
        <4> QED BY <1>3, <4>1, RegionFacts
      <3> DEFINE n == IF o = 0 THEN SPINSZ - 1 ELSE o + SPINSZ - 2
      <3>4. a.pe = r.start + o + SPINSZ
        <4> HIDE DEF o, r
        <4> QED BY <1>3, <2>1, <3>1, <3>2, Sizes
      <3>5. r.start \in Nat /\ o \in Marks("pairs")
        BY <1>2, <1>3, <2>4
      <3> HIDE DEF o, r
      <3>6. o \in Nat /\ n \in Marks("pairs") /\ LastPair(r.start + o + SPINSZ) = r.start + n
        BY <3>3, <3>5, PairMark
      <3>7. h.pe = r.start + n
        BY <1>6, <2>4, <3>4, <3>6
      <3>8. n \in Int
        BY <3>6, Sizes
      <3>9. n = Mark(loop, o)
        BY <2>4 DEF Mark
      <3> HIDE DEF n
      <3> QED BY <2>4, <3>2, <3>5, <3>6, <3>7, <3>8, <3>9
    <2> QED BY <2>3, <2>4
  <1> QED BY <1>2, <1>5, <1>8, <1>9, <1>10

(* After a section two CPUs are at the same place. *)
LEMMA SectionAlike ==
    ASSUME sc \in Scenarios, SameSections(sc), NEW a \in CPUs, NEW b \in CPUs,
           NEW c, Placed(c, a), Steady(c, a), NEW d, Placed(d, b), Steady(d, b),
           SamePlace(c, a, d, b), c.at = "test", LoopOf(c) \in Sweeping,
           NEW x, x = NextSection(Behind(Advance(c, a)), a),
           NEW y, y = NextSection(Behind(Advance(d, b)), b)
    PROVE  SamePlace(x, a, y, b) /\ Steady(x, a) /\ Fresh(x)
  <1> DEFINE e == Advance(c, a)
             f == Advance(d, b)
             g == Behind(e)
             h == Behind(f)
             loop == LoopOf(c)
  <1>1. loop \in Shared /\ loop # "sync" /\ loop # "move"
    BY SharedLoops DEF Steady
  <1>2. /\ d.at = "test" /\ d.args.fn = c.args.fn /\ d.args.iter = c.args.iter /\ d.ph = c.ph
        /\ d.call = c.call
        /\ d.j = c.j /\ d.rep = c.rep /\ Past(d, b) = Past(c, a) /\ LoopOf(d) = loop
    BY <1>1 DEF SamePlace, LoopOf
  <1>3. /\ SameCourse(g, c) /\ c.done = 0 /\ g.done = e.done /\ g.rep = c.rep
        /\ e.done = 0 =>
              Past(g, a) = Mark(loop, Past(c, a)) /\ Past(g, a) \in Marks(loop)
    BY SectionEnds
  <1>4. /\ SameCourse(h, d) /\ d.done = 0 /\ h.done = f.done /\ h.rep = d.rep
        /\ f.done = 0 => Past(h, b) = Mark(loop, Past(d, b))
    BY <1>2, SectionEnds
  <1>5. e.done = f.done /\ e.done \in {0, 1}
    BY <1>1, <1>3, NextAlike
  <1>6. c.j \in 1 .. segs
    BY <1>1, Stands
  <1> HIDE DEF e, f, g, h, loop
  <1>7. Level(g, h) /\ LoopOf(g) = loop
    BY <1>2, <1>3, <1>4, <1>6 DEF Level, SameCourse, loop
  <1>8. g.done = h.done /\ g.done \in {0, 1} /\ g.rep = h.rep
        /\ (g.done = 0 => Past(g, a) = Past(h, b) /\ Past(g, a) \in Marks(loop))
    BY <1>2, <1>3, <1>4, <1>5
  <1>9. x = NextSection(g, a) /\ y = NextSection(h, b)
    BY DEF e, f, g, h
  <1> QED BY <1>1, <1>7, <1>8, <1>9, NextSectionAlike

----------------------------------------------------------------------------
(* What several CPUs call. *)

(* All CPUs make the same calls, but for the patterns. *)
LEMMA CallsAlike ==
    ASSUME sc \in Scenarios, sc.run_cpus > 1, NEW a \in CPUs, NEW b \in CPUs,
           NEW s, s = Calls(sc.pat, a), NEW t, t = Calls(sc.pat, b)
    PROVE  /\ Len(s) \in Nat /\ Len(t) = Len(s)
           /\ \A i \in 1 .. Len(s) :
                 /\ IsCall(s[i], sc.pat) /\ IsCall(t[i], sc.pat)
                 /\ s[i].fn = t[i].fn /\ s[i].iter = t[i].iter
                 /\ s[i].fn \notin {"addr_tst1", "sleep"}
  <1> DEFINE pat == sc.pat
  <1>1. pat \in 0 .. 11 /\ pat \notin {0, 11}
    BY ScenariosAssumption
  <1>2. AreCalls(s, pat) /\ AreCalls(t, pat)
    BY <1>1, CallsOfPat
  <1> HIDE DEF pat
  <1>3. /\ Len(s) \in Nat /\ \A i \in 1 .. Len(s) : IsCall(s[i], pat)
        /\ Len(t) \in Nat /\ \A i \in 1 .. Len(t) : IsCall(t[i], pat)
    BY <1>2, CallAt
  <1>4. Len(t) = Len(s) /\ \A i \in 1 .. Len(s) : s[i].fn = t[i].fn /\ s[i].iter = t[i].iter
    <2>1. CASE pat # 10
      <3>1. s = t
        BY <1>1, <2>1 DEF Calls, Both, InTurn, pat
      <3> QED BY <3>1
    <2>2. CASE pat = 10
      <3> DEFINE n == 2 * (Iter * MOD_SZ)
                 p == sc.rnd[a]
                 q == sc.rnd[b]
                 One(x, i) == Modtst(x, (i - 1) % MOD_SZ)
                 Other(x, i) == Modtst(Not(x), (i - 1) % MOD_SZ)
                 List(x) == [i \in 1 .. n |-> IF i % 2 = 1 THEN One(x, (i + 1) \div 2)
                                              ELSE Other(x, i \div 2)]
      <3>1. \A x : Modulo(x) = List(x)
        BY DEF Modulo, InTurn
      <3>2. s = Modulo(p) /\ t = Modulo(q)
        BY <1>1, <2>2 DEF Calls, Both, InTurn, pat
      <3>3. \A x, i : /\ One(x, i).fn = "modtst" /\ One(x, i).iter = 2
                      /\ Other(x, i).fn = "modtst" /\ Other(x, i).iter = 2
        BY DEF Modtst, NoArgs
      <3>4. n \in Nat
        BY Sizes
      <3> HIDE DEF n, One, Other, p, q
      <3>5. s = List(p) /\ t = List(q)
        BY <3>1, <3>2
      <3>6. Len(s) = n /\ Len(t) = n
        BY <3>4, <3>5
      <3>7. ASSUME NEW i \in 1 .. n
            PROVE  s[i].fn = t[i].fn /\ s[i].iter = t[i].iter
        <4>1. s[i] = (IF i % 2 = 1 THEN One(p, (i + 1) \div 2) ELSE Other(p, i \div 2))
              /\ t[i] = (IF i % 2 = 1 THEN One(q, (i + 1) \div 2) ELSE Other(q, i \div 2))
          BY <3>5
        <4> QED BY <3>3, <4>1
      <3> QED BY <3>6, <3>7
    <2> QED BY <2>1, <2>2
  <1>5. \A i \in 1 .. Len(s) : s[i].fn \notin {"addr_tst1", "sleep"}
    BY <1>1, <1>3 DEF IsCall
  <1> QED BY <1>3, <1>4, <1>5 DEF pat

(* A test that several CPUs run begins with a tick or an s_barrier(). *)
LEMMA FirstLoop ==
    ASSUME NEW fn \in Fns, fn \notin {"addr_tst1", "sleep"}, NEW iter \in Nat
    PROVE  Len(Loops(fn, iter)) >= 1 /\ Loops(fn, iter)[1] \notin Unticked
  <1> DEFINE s == Loops(fn, iter)
             turns == InTurn(iter, LAMBDA i : "up", LAMBDA i : "down")
             turns32 == InTurn(iter, LAMBDA i : "up32", LAMBDA i : "down32")
             rests == [i \in 1 .. iter |-> "rest"]
  <1>1. PICK S : s \in Seq(S)
    BY LoopsOf
  <1>2. ASSUME NEW first, NEW second, NEW T, NEW tail \in Seq(T)
        PROVE  Len(<<first, second>> \o tail) >= 1 /\ (<<first, second>> \o tail)[1] = first
    <2> DEFINE U == T \cup {first, second}
    <2>1. tail \in Seq(U) /\ <<first, second>> \in Seq(U)
      OBVIOUS
    <2> HIDE DEF U
    <2> QED BY <2>1
  <1>3. CASE fn \in {"movinv1", "random"}
    <2>1. s = <<"sync", "fill">> \o turns
      BY <1>3 DEF Loops, InTurn
    <2>3. turns \in Seq({"up", "down"})
      BY DEF InTurn
    <2> HIDE DEF turns, s
    <2>2. Len(s) >= 1 /\ s[1] = "sync"
      BY <1>2, <2>1, <2>3
    <2> QED BY <2>2 DEF s, Unticked, Walking
  <1>4. CASE fn = "movinv32"
    <2>1. s = <<"sync", "fill32">> \o turns32
      BY <1>4 DEF Loops, InTurn
    <2>3. turns32 \in Seq({"up32", "down32"})
      BY DEF InTurn
    <2> HIDE DEF turns32, s
    <2>2. Len(s) >= 1 /\ s[1] = "sync"
      BY <1>2, <2>1, <2>3
    <2> QED BY <2>2 DEF s, Unticked, Walking
  <1>5. CASE fn = "modtst"
    <2> DEFINE tail == rests \o <<"check_nth">>
               T == {"rest", "check_nth"}
    <2>1. s = <<"sync", "nth">> \o rests \o <<"check_nth">>
      BY <1>5 DEF Loops, InTurn
    <2>2. Len(s) >= 1 /\ s[1] = "sync"
      <3> DEFINE U == {"sync", "nth", "rest", "check_nth"}
      <3>1. rests \in Seq(U) /\ <<"sync", "nth">> \in Seq(U) /\ <<"check_nth">> \in Seq(U)
        OBVIOUS
      <3> HIDE DEF rests, U, s
      <3> DEFINE front == <<"sync", "nth">> \o rests
      <3>2. front \in Seq(U) /\ Len(front) >= 1 /\ front[1] = "sync"
        BY <3>1
      <3>3. s = front \o <<"check_nth">>
        BY <2>1
      <3> HIDE DEF front
      <3> QED BY <3>1, <3>2, <3>3
    <2> HIDE DEF s
    <2> QED BY <2>2 DEF s, Unticked, Walking
  <1>6. CASE fn \in {"s_barrier", "addr_tst2", "movinvr"}
    <2>1. CASE fn = "s_barrier"
      <3>1. s = <<"sync">>
        BY <2>1 DEF Loops, InTurn
      <3> QED BY <3>1 DEF Unticked, Walking
    <2>2. CASE fn = "addr_tst2"
      <3>1. s = <<"own_fill", "own_check">>
        BY <2>2 DEF Loops, InTurn
      <3> QED BY <3>1 DEF Unticked, Walking
    <2>3. CASE fn = "movinvr"
      <3>1. s = <<"sync", "fillr", "checkr", "checkr_inv">>
        BY <2>3 DEF Loops, InTurn
      <3> QED BY <3>1 DEF Unticked, Walking
    <2> QED BY <1>6, <2>1, <2>2, <2>3
  <1>7. CASE fn \in {"block_move", "bit_fade_fill", "bit_fade_chk"}
    <2>1. CASE fn = "block_move"
      <3>1. s = <<"init", "sync", "move", "sync", "pairs">>
        BY <2>1 DEF Loops, InTurn
      <3> QED BY <3>1 DEF Unticked, Walking
    <2>2. CASE fn = "bit_fade_fill"
      <3>1. s = <<"fade_fill">>
        BY <2>2 DEF Loops, InTurn
      <3> QED BY <3>1 DEF Unticked, Walking
    <2>3. CASE fn = "bit_fade_chk"
      <3>1. s = <<"fade_chk">>
        BY <2>3 DEF Loops, InTurn
      <3> QED BY <3>1 DEF Unticked, Walking
    <2> QED BY <1>7, <2>1, <2>2, <2>3
  <1> QED BY <1>3, <1>4, <1>5, <1>6, <1>7 DEF Fns

----------------------------------------------------------------------------
(* From one place to the next.                                              *)

LEMMA NextCall ==
    ASSUME sc \in Scenarios, sc.run_cpus > 1, NEW a \in CPUs, NEW b \in CPUs,
           NEW c, Known(c), NEW d, Known(d), c.call = d.call, NEW to, to = c.call + 1,
           ~(to > Len(Calls(sc.pat, a))),
           NEW e, e = [c EXCEPT !.call = to, !.args = Calls(sc.pat, a)[to]],
           NEW f, f = [d EXCEPT !.call = to, !.args = Calls(sc.pat, b)[to]]
    PROVE  SameArgs(e, f)
  <1> DEFINE s == Calls(sc.pat, a)
             t == Calls(sc.pat, b)
  <1>1. /\ Len(s) \in Nat /\ Len(t) = Len(s)
        /\ \A i \in 1 .. Len(s) :
              /\ IsCall(s[i], sc.pat) /\ IsCall(t[i], sc.pat)
              /\ s[i].fn = t[i].fn /\ s[i].iter = t[i].iter
              /\ s[i].fn \notin {"addr_tst1", "sleep"}
    BY CallsAlike
  <1>2. /\ DOMAIN c = CpuFields /\ c.call \in Nat /\ IsErrs(c.errs)
        /\ DOMAIN d = CpuFields /\ IsErrs(d.errs)
    BY DEF Known
  <1> HIDE DEF s, t
  <1>3. to \in 1 .. Len(s) /\ to \in Nat
    BY <1>1, <1>2 DEF s
  <1>4. e = [c EXCEPT !.call = to, !.args = s[to]] /\ f = [d EXCEPT !.call = to, !.args = t[to]]
    BY DEF s, t
  <1>5. /\ DOMAIN e = CpuFields /\ e.call = to /\ e.args = s[to] /\ e.errs = c.errs
        /\ DOMAIN f = CpuFields /\ f.call = to /\ f.args = t[to] /\ f.errs = d.errs
    BY <1>2, <1>4, Fields
  <1> QED BY <1>1, <1>2, <1>3, <1>5 DEF SameArgs, Known

(* Only a CPU in block_move, or in do_test(), is somewhere on its way. *)
LEMMA OnwardPlaced ==
    ASSUME sc \in Scenarios, sc.run_cpus > 1, NEW me \in CPUs,
           NEW c, Placed(c, me), Steady(c, me), NEW x, x = Onward(c, me)
    PROVE  x.wait = TRUE \/ Placed(x, me)
  <1> DEFINE loop == LoopOf(c)
             a == Advance(c, me)
  <1>1. Known(c) /\ DOMAIN c = CpuFields
    BY DEF Placed, Known
  <1>2. CASE c.at # "test"
    <2> DEFINE to == c.call + 1
               s == Calls(sc.pat, me)
    <2>1. CASE to > Len(s)
      <3>1. x = [c EXCEPT !.at = "done"]
        BY <1>2, <2>1 DEF Onward
      <3>2. Alike(x, c, {"at"}) /\ x.at = "done"
        BY <1>1, <3>1 DEF Alike, CpuFields
      <3>3. Known(x)
        BY <1>1, <3>2, SameCall DEF Places
      <3> QED BY <3>2, <3>3 DEF Placed
    <2>2. CASE ~(to > Len(s))
      <3> DEFINE e == [c EXCEPT !.call = to, !.args = s[to]]
      <3>1. SameArgs(e, e)
        BY <1>1, <2>2, NextCall
      <3>2. x = AtLoop(e, 1, me)
        BY <1>2, <2>2 DEF Onward
      <3> HIDE DEF e
      <3> QED BY <3>1, <3>2, EnterLoop DEF SameArgs
    <2> QED BY <2>1, <2>2
  <1>3. CASE c.at = "test" /\ loop = "sync"
    <2>1. x = AtLoop(c, c.ph + 1, me)
      BY <1>3 DEF Onward
    <2>2. InCall(c) /\ IsCall(c.args, sc.pat)
      BY <1>3 DEF Placed, InCall
    <2>3. c.ph + 1 \in Nat \ {0}
      BY <2>2, LoopIsOfCall
    <2> QED BY <1>1, <2>1, <2>2, <2>3, EnterLoop
  <1>4. CASE c.at = "test" /\ loop \notin {"sync", "move"}
    <2> DEFINE h == Behind(a)
    <2>1. loop \in Sweeping /\ loop \in Shared
      BY <1>4 DEF Steady, Shared
    <2>2. x = NextSection(h, me)
      BY <1>4 DEF Onward
    <2>3. SameCourse(h, c)
      BY <1>4, <2>1, SectionEnds
    <2>4. InCall(c) /\ c.j \in 1 .. segs
      BY <1>4, Stands
    <2> HIDE DEF h
    <2>5. loop \notin {"sleep", "global"} /\ loop \notin Unticked
      BY <1>4, <2>1, SharedLoops DEF Walking
    <2>6. CASE h.done > 0
      <3>1. x = NextSegment(h, me)
        BY <2>2, <2>6 DEF NextSection
      <3> QED BY <1>4, <2>3, <2>4, <2>5, <3>1, EnterNext DEF SameCourse
    <2>7. CASE ~(h.done > 0)
      <3>1. x = [h EXCEPT !.wait = TRUE]
        BY <2>2, <2>3, <2>5, <2>7 DEF NextSection, SameCourse
      <3> QED BY <2>3, <3>1, Fields DEF SameCourse, InCall, Known
    <2> QED BY <2>6, <2>7
  <1>5. CASE c.at = "test" /\ loop = "move"
    <2> DEFINE r == Region(c.args.fn, c.j, me)
    <2>1. InCall(c) /\ c.j \in 1 .. segs /\ InSpan(c, r, "move") /\ IsRegion(r)
      BY <1>5, Stands
    <2>0. "move" \notin Rising \cup Downward \cup Shortened \cup {"init", "pairs"}
      BY DEF Rising, Downward, Shortened, Fading
    <2>2. CASE c.rep = 0
      <3>1. x = [a EXCEPT !.rep = 1, !.wait = TRUE]
        BY <1>5, <2>2 DEF Onward
      <3>2. DOMAIN a = CpuFields
        BY <1>1, AdvanceAlike DEF Alike
      <3> QED BY <3>1, <3>2, Fields
    <2>3. CASE c.rep # 0 /\ c.rep < c.args.iter
      <3>1. x = [c EXCEPT !.rep = @ + 1, !.wait = TRUE]
        BY <1>5, <2>3 DEF Onward
      <3> QED BY <1>1, <3>1, Fields
    <2>4. CASE c.rep # 0 /\ ~(c.rep < c.args.iter)
      <3> DEFINE h == [c EXCEPT !.rep = 0, !.p = c.pe]
      <3>1. x = NextSection(h, me)
        BY <1>5, <2>4 DEF Onward
      <3>2. Alike(h, c, {"rep", "p"}) /\ h.rep = 0 /\ h.p = c.pe
        BY <1>1, Fields DEF Alike, CpuFields
      <3> HIDE DEF h
      <3>3. SameCourse(h, c)
        <4>1. {"rep", "p"} \subseteq Places \ {"at"}
          BY DEF Places
        <4> QED BY <2>1, <3>2, <4>1, CourseKept
      <3>4. h.pe = c.pe /\ h.done = c.done
        BY <3>2, Fields DEF Alike
      <3>5. ~(h.done > 0) => InSpan(h, r, "move")
        <4>1. /\ c.p \in Nat /\ c.pe \in Nat /\ c.done \in Nat /\ r.start <= c.p /\ c.p <= r.end
              /\ c.pe <= r.end /\ c.rep \in Nat /\ c.p < c.pe
              /\ c.done > 0 \/ (c.done = 0 /\ c.pe % BLOCK = 0)
              /\ r.start \in Nat /\ r.end \in Nat
          BY <2>1, <2>4 DEF InSpan, IsRegion
        <4> HIDE DEF r
        <4> QED BY <2>0, <3>2, <3>4, <4>1 DEF InSpan
      <3>6. Region(h.args.fn, h.j, me) = r
        BY <3>3 DEF SameCourse
      <3>7. Placed(NextSection(h, me), me)
        <4>1. LoopOf(h) = "move" /\ "move" \notin {"sync", "sleep"} \cup Walking
          BY <1>5, <3>3 DEF SameCourse, Walking
        <4> QED BY <1>5, <2>1, <3>3, <3>5, <3>6, <4>1, EnterSection DEF SameCourse
      <3> QED BY <3>1, <3>7
    <2> QED BY <2>2, <2>3, <2>4
  <1> QED BY <1>2, <1>3, <1>4, <1>5

LEMMA PastKept ==
    ASSUME NEW me, NEW c, NEW diff, diff \subseteq Places \ {"pe", "done"}, NEW h, Alike(h, c, diff)
    PROVE  Past(h, me) = Past(c, me)
  <1>1. h.args = c.args /\ h.j = c.j /\ LoopOf(h) = LoopOf(c)
    BY SameCall
  <1>2. h.pe = c.pe /\ h.done = c.done
    BY Fields DEF Alike
  <1>3. Reach(h, me) = Reach(c, me)
    BY <1>1 DEF Reach
  <1> QED BY <1>1, <1>2, <1>3 DEF Past

(* In a test, what two CPUs at the same place have in common. *)
LEMMA SameLoop ==
    ASSUME NEW a, NEW b, NEW c, NEW d, SamePlace(c, a, d, b), c.at = "test"
    PROVE  /\ d.at = "test" /\ c.wait = d.wait /\ c.call = d.call
           /\ c.args.fn = d.args.fn /\ c.args.iter = d.args.iter /\ c.ph = d.ph
           /\ LoopOf(d) = LoopOf(c)
           /\ LoopOf(c) # "sync" =>
                 c.j = d.j /\ c.rep = d.rep /\ c.done = d.done /\ Past(c, a) = Past(d, b)
  BY DEF SamePlace, LoopOf

(* The moves of a section, and the next section. *)
LEMMA MoveAlike ==
    ASSUME sc \in Scenarios, SameSections(sc), NEW a \in CPUs, NEW b \in CPUs,
           NEW c, Placed(c, a), Steady(c, a), NEW d, Placed(d, b), Steady(d, b),
           SamePlace(c, a, d, b), c.at = "test", LoopOf(c) = "move",
           NEW x, x = Onward(c, a), NEW y, y = Onward(d, b)
    PROVE  SamePlace(x, a, y, b) /\ Steady(x, a) /\ Fresh(x)
  <1> DEFINE e == Advance(c, a)
             f == Advance(d, b)
  <1>1. /\ d.at = "test" /\ c.wait = d.wait /\ c.call = d.call
        /\ c.args.fn = d.args.fn /\ c.args.iter = d.args.iter /\ c.ph = d.ph
        /\ LoopOf(d) = "move"
        /\ c.j = d.j /\ c.rep = d.rep /\ c.done = d.done /\ Past(c, a) = Past(d, b)
    BY SameLoop
  <1>2. /\ InCall(c) /\ InCall(d) /\ DOMAIN c = CpuFields /\ DOMAIN d = CpuFields
        /\ c.j \in 1 .. segs
    BY <1>1, Stands
  <1>3. c.rep \in Nat /\ c.done \in {0, 1}
    <2>1. InSpan(c, Region(c.args.fn, c.j, a), "move")
      BY Stands
    <2> QED BY <2>1 DEF InSpan, Steady
  <1>4. /\ c.done = 0 => Past(c, a) \in Marks("move")
        /\ c.done # 0 => c.rep > 0
        /\ "move" \in Shared
    BY DEF Steady, Shared
  <1>5. CASE c.rep = 0
    <2>1. x = [e EXCEPT !.rep = 1, !.wait = TRUE] /\ y = [f EXCEPT !.rep = 1, !.wait = TRUE]
      BY <1>1, <1>5 DEF Onward
    <2>2. c.done = 0
      BY <1>3, <1>4, <1>5
    <2>3. /\ e.done = f.done /\ e.done \in {0, 1}
          /\ e.done = 0 => Past(e, a) = Past(c, a) + SPINSZ /\ Past(f, b) = Past(e, a)
      BY <2>2, NextAlike
    <2>4. Alike(e, c, {"pe", "done"}) /\ Alike(f, d, {"pe", "done"})
      BY <1>2, AdvanceAlike
    <2> HIDE DEF e, f
    <2>5. SameCourse(e, c) /\ SameCourse(f, d)
      <3>1. {"pe", "done"} \subseteq Places \ {"at"}
        BY DEF Places
      <3> QED BY <1>2, <2>4, <3>1, CourseKept
    <2>6. DOMAIN e = CpuFields /\ DOMAIN f = CpuFields
      BY <2>4 DEF Alike
    <2>7. /\ Alike(x, e, {"rep", "wait"}) /\ x.rep = 1 /\ x.wait = TRUE
          /\ Alike(y, f, {"rep", "wait"}) /\ y.rep = 1 /\ y.wait = TRUE
      BY <2>1, <2>6, Fields DEF Alike, CpuFields
    <2>8. /\ SameCourse(x, e) /\ SameCourse(y, f)
          /\ Past(x, a) = Past(e, a) /\ Past(y, b) = Past(f, b)
      <3>1. /\ {"rep", "wait"} \subseteq Places \ {"at"}
            /\ {"rep", "wait"} \subseteq Places \ {"pe", "done"}
        BY DEF Places
      <3> QED BY <2>5, <2>7, <3>1, CourseKept, PastKept DEF SameCourse
    <2>9. x.done = e.done /\ y.done = f.done
      BY <2>7, Fields DEF Alike
    <2>10. e.done = 1 => Past(e, a) = 0 /\ Past(f, b) = 0
      BY <2>3 DEF Past
    <2>11. /\ x.at = "test" /\ y.at = "test" /\ x.call = y.call /\ LoopOf(x) = "move"
           /\ x.args = c.args /\ y.args = d.args /\ x.ph = y.ph /\ x.j = y.j
      BY <1>1, <2>5, <2>8 DEF SameCourse
    <2>12. SamePlace(x, a, y, b)
      <3>1. Past(x, a) = Past(y, b)
        BY <2>3, <2>8, <2>10
      <3>2. x.args.fn = y.args.fn /\ x.args.iter = y.args.iter
        BY <1>1, <2>11
      <3>3. x.rep = y.rep /\ x.done = y.done /\ x.wait = y.wait
        BY <2>3, <2>7, <2>9
      <3> QED BY <2>11, <3>1, <3>2, <3>3 DEF SamePlace
    <2>13. e.done = 0 => Past(e, a) \in Marks("move")
      <3> SUFFICES ASSUME e.done = 0 PROVE Past(e, a) \in Marks("move")
        OBVIOUS
      <3>1. PICK n \in Nat : Past(c, a) = n * SPINSZ
        BY <1>4, <2>2 DEF Marks
      <3>2. Past(e, a) = (n + 1) * SPINSZ /\ n + 1 \in Nat
        BY <2>3, <3>1, Sizes
      <3> QED BY <3>2 DEF Marks
    <2>14. Steady(x, a)
      BY <1>4, <2>3, <2>7, <2>8, <2>9, <2>11, <2>13 DEF Steady
    <2> QED BY <2>7, <2>12, <2>14 DEF Fresh
  <1>6. CASE c.rep # 0 /\ c.rep < c.args.iter
    <2> DEFINE n == c.rep + 1
    <2>1. x = [c EXCEPT !.rep = n, !.wait = TRUE] /\ y = [d EXCEPT !.rep = n, !.wait = TRUE]
      BY <1>1, <1>6 DEF Onward
    <2>2. n > 0
      BY <1>3
    <2> HIDE DEF n
    <2>3. /\ Alike(x, c, {"rep", "wait"}) /\ x.rep = n /\ x.wait = TRUE
          /\ Alike(y, d, {"rep", "wait"}) /\ y.rep = n /\ y.wait = TRUE
      BY <1>2, <2>1, Fields DEF Alike, CpuFields
    <2>4. /\ SameCourse(x, c) /\ SameCourse(y, d)
          /\ Past(x, a) = Past(c, a) /\ Past(y, b) = Past(d, b)
      <3>1. /\ {"rep", "wait"} \subseteq Places \ {"at"}
            /\ {"rep", "wait"} \subseteq Places \ {"pe", "done"}
        BY DEF Places
      <3> QED BY <1>2, <2>3, <3>1, CourseKept, PastKept
    <2>5. x.done = c.done /\ y.done = d.done
      BY <2>3, Fields DEF Alike
    <2>6. SamePlace(x, a, y, b)
      BY <1>1, <2>3, <2>4, <2>5 DEF SamePlace, SameCourse
    <2>7. Steady(x, a)
      BY <1>3, <1>4, <2>2, <2>3, <2>4, <2>5 DEF Steady, SameCourse
    <2> QED BY <2>3, <2>6, <2>7 DEF Fresh
  <1>7. CASE c.rep # 0 /\ ~(c.rep < c.args.iter)
    <2> DEFINE g == [c EXCEPT !.rep = 0, !.p = c.pe]
               h == [d EXCEPT !.rep = 0, !.p = d.pe]
    <2>1. x = NextSection(g, a) /\ y = NextSection(h, b)
      BY <1>1, <1>7 DEF Onward
    <2>2. /\ Alike(g, c, {"rep", "p"}) /\ g.rep = 0 /\ Alike(h, d, {"rep", "p"}) /\ h.rep = 0
      BY <1>2, Fields DEF Alike, CpuFields
    <2> HIDE DEF g, h
    <2>3. /\ SameCourse(g, c) /\ SameCourse(h, d)
          /\ Past(g, a) = Past(c, a) /\ Past(h, b) = Past(d, b)
      <3>1. /\ {"rep", "p"} \subseteq Places \ {"at"}
            /\ {"rep", "p"} \subseteq Places \ {"pe", "done"}
        BY DEF Places
      <3> QED BY <1>2, <2>2, <3>1, CourseKept, PastKept
    <2>4. g.done = c.done /\ h.done = d.done
      BY <2>2, Fields DEF Alike
    <2>5. Level(g, h) /\ LoopOf(g) = "move"
      BY <1>1, <1>2, <2>3 DEF Level, SameCourse
    <2> QED BY <1>1, <1>3, <1>4, <2>1, <2>2, <2>3, <2>4, <2>5, NextSectionAlike
  <1> QED BY <1>5, <1>6, <1>7

(* Two CPUs at the same place get to the same place. *)
LEMMA OnwardAlike ==
    ASSUME sc \in Scenarios, SameSections(sc), sc.run_cpus > 1, NEW a \in CPUs, NEW b \in CPUs,
           NEW c, Placed(c, a), Steady(c, a), NEW d, Placed(d, b), Steady(d, b),
           SamePlace(c, a, d, b), ~Rests(c), NEW x, x = Onward(c, a), NEW y, y = Onward(d, b)
    PROVE  SamePlace(x, a, y, b) /\ Steady(x, a) /\ Fresh(x)
  <1>1. Known(c) /\ Known(d) /\ DOMAIN c = CpuFields /\ DOMAIN d = CpuFields
    BY DEF Placed, Known
  <1>2. CASE c.at # "test"
    <2> DEFINE to == c.call + 1
               s == Calls(sc.pat, a)
               t == Calls(sc.pat, b)
    <2>1. d.at # "test" /\ c.call = d.call /\ c.wait = d.wait
      BY <1>2 DEF SamePlace
    <2>2. Len(t) = Len(s)
      BY CallsAlike
    <2>3. CASE to > Len(s)
      <3>1. x = [c EXCEPT !.at = "done"] /\ y = [d EXCEPT !.at = "done"]
        BY <1>2, <2>1, <2>2, <2>3 DEF Onward
      <3> HIDE DEF to, s, t
      <3>2. /\ x.at = "done" /\ x.wait = c.wait /\ x.call = c.call
            /\ y.at = "done" /\ y.wait = d.wait /\ y.call = d.call
        BY <1>1, <3>1, Fields
      <3> QED BY <2>1, <3>2 DEF SamePlace, Steady, Fresh, Rests
    <2>4. CASE ~(to > Len(s))
      <3> DEFINE e == [c EXCEPT !.call = to, !.args = s[to]]
                 f == [d EXCEPT !.call = to, !.args = t[to]]
      <3>1. x = AtLoop(e, 1, a) /\ y = AtLoop(f, 1, b)
        BY <1>2, <2>1, <2>2, <2>4 DEF Onward
      <3>2. SameArgs(e, f)
        BY <1>1, <2>1, <2>4, NextCall
      <3> HIDE DEF e, f
      <3> QED BY <3>1, <3>2, LoopAlike
    <2> QED BY <2>3, <2>4
  <1>3. CASE c.at = "test"
    <2>1. /\ d.at = "test" /\ c.call = d.call /\ LoopOf(d) = LoopOf(c)
          /\ c.args.fn = d.args.fn /\ c.args.iter = d.args.iter /\ c.ph = d.ph
      BY <1>3, SameLoop
    <2>2. LoopOf(c) \in Shared
      BY <1>3 DEF Steady
    <2>3. CASE LoopOf(c) = "sync"
      <3>1. x = AtLoop(c, c.ph + 1, a) /\ y = AtLoop(d, c.ph + 1, b)
        BY <1>3, <2>1, <2>3 DEF Onward
      <3>2. InCall(c) /\ InCall(d)
        BY <1>3, <2>1 DEF Placed
      <3>3. /\ c.ph + 1 \in Nat \ {0}
            /\ c.args.fn \in Fns /\ LoopOf(c) \in LoopNames(c.args.fn)
        BY <3>2, LoopIsOfCall
      <3>4. SameArgs(c, d)
        BY <2>1, <2>2, <3>2, <3>3, SharedCalls DEF SameArgs, InCall
      <3> QED BY <3>1, <3>3, <3>4, LoopAlike
    <2>4. CASE LoopOf(c) = "move"
      BY <1>3, <2>4, MoveAlike
    <2>5. CASE LoopOf(c) \in Sweeping
      <3>1. LoopOf(c) \notin {"sync", "move"}
        BY <2>2, <2>5, SharedLoops
      <3>2. x = NextSection(Behind(Advance(c, a)), a) /\ y = NextSection(Behind(Advance(d, b)), b)
        BY <1>3, <2>1, <3>1 DEF Onward
      <3> QED BY <1>3, <2>5, <3>2, SectionAlike
    <2> QED BY <2>2, <2>3, <2>4, <2>5 DEF Shared
  <1> QED BY <1>2, <1>3

(* Soon it waits, or ends. *)
LEMMA Soon ==
    ASSUME sc \in Scenarios, sc.run_cpus > 1, NEW me \in CPUs, NEW c, Placed(c, me),
           Fresh(c), ~Rests(c)
    PROVE  Rests(Onward(c, me))
  <1> DEFINE x == Onward(c, me)
             a == Advance(c, me)
             to == c.call + 1
             s == Calls(sc.pat, me)
             e == [c EXCEPT !.call = to, !.args = s[to]]
  <1>1. Known(c) /\ DOMAIN c = CpuFields /\ ~c.wait
    BY DEF Placed, Known, Rests
  <1>2. CASE c.at = "test"
    <2>1. LoopOf(c) = "move" /\ c.rep = 0
      BY <1>1, <1>2 DEF Fresh
    <2>2. x = [a EXCEPT !.rep = 1, !.wait = TRUE]
      BY <1>2, <2>1 DEF Onward
    <2>3. DOMAIN a = CpuFields
      BY <1>1, AdvanceAlike DEF Alike
    <2> QED BY <2>2, <2>3, Fields DEF Rests
  <1>3. CASE c.at # "test" /\ to > Len(s)
    <2>1. x = [c EXCEPT !.at = "done"]
      BY <1>3 DEF Onward
    <2> QED BY <1>1, <2>1, Fields DEF Rests
  <1>4. CASE c.at # "test" /\ ~(to > Len(s))
    <2>1. x = AtLoop(e, 1, me)
      BY <1>4 DEF Onward
    <2>2. SameArgs(e, e)
      BY <1>1, <1>4, NextCall
    <2> HIDE DEF e, s, to
    <2>3. /\ Known(e) /\ IsCall(e.args, sc.pat) /\ e.args.fn \notin {"addr_tst1", "sleep"}
          /\ e.args.fn \in Fns /\ e.args.iter \in Nat
      BY <2>2 DEF SameArgs, IsCall
    <2> DEFINE loops == Loops(e.args.fn, e.args.iter)
               n == Len(loops)
               loop == loops[1]
    <2>4. n >= 1 /\ loop \notin Unticked
      BY <2>3, FirstLoop
    <2>5. Begun(AtLoop(e, 1, me), e, 1, loop, n, me)
      BY <2>3, LoopBegun
    <2>6. n \in Nat
      <3>1. loops \in Seq(LoopNames(e.args.fn))
        BY <2>3, LoopsOf
      <3> QED BY <3>1
    <2> HIDE DEF loop, n
    <2>7. ~(1 > n)
      BY <2>4, <2>6
    <2> QED BY <2>1, <2>4, <2>5, <2>7 DEF Begun, Rests
  <1> QED BY <1>2, <1>3, <1>4

(* What may be asked where it goes. *)
Going(c, me) == Steady(c, me) /\ (Rests(c) \/ Placed(c, me))

LEMMA SameTurned ==
    ASSUME NEW a, NEW b, NEW c, NEW d, SamePlace(c, a, d, b)
    PROVE  SamePlace(d, b, c, a) /\ (Rests(c) <=> Rests(d))
  BY DEF SamePlace, LoopOf, Rests

LEMMA SameJoined ==
    ASSUME NEW a, NEW b, NEW e, NEW c, NEW d, NEW f, SamePlace(c, a, d, b), SamePlace(d, b, f, e)
    PROVE  SamePlace(c, a, f, e)
  BY DEF SamePlace, LoopOf

LEMMA OnwardGoes ==
    ASSUME sc \in Scenarios, SameSections(sc), sc.run_cpus > 1, NEW me \in CPUs,
           NEW c, Going(c, me), ~Rests(c)
    PROVE  Going(Onward(c, me), me) /\ Fresh(Onward(c, me))
  <1>1. Placed(c, me) /\ Steady(c, me)
    BY DEF Going
  <1>2. SamePlace(c, me, c, me)
    BY DEF SamePlace
  <1>3. Steady(Onward(c, me), me) /\ Fresh(Onward(c, me))
    BY <1>1, <1>2, OnwardAlike
  <1>4. Onward(c, me).wait = TRUE \/ Placed(Onward(c, me), me)
    BY <1>1, OnwardPlaced
  <1> QED BY <1>3, <1>4 DEF Going, Rests

(* CPUs at the same place are on their way to the same place. *)
LEMMA GoalAlike ==
    ASSUME sc \in Scenarios, SameSections(sc), sc.run_cpus > 1, NEW a \in CPUs, NEW b \in CPUs,
           NEW c, Going(c, a), NEW d, Going(d, b), SamePlace(c, a, d, b)
    PROVE  SamePlace(Goal(c, a), a, Goal(d, b), b)
  <1> DEFINE x == Onward(c, a)
             y == Onward(d, b)
  <1>1. Rests(c) <=> Rests(d)
    BY SameTurned
  <1>2. CASE Rests(c)
    BY <1>1, <1>2 DEF Goal
  <1>3. CASE ~Rests(c)
    <2>1. SamePlace(x, a, y, b)
      BY <1>1, <1>3, OnwardAlike DEF Going
    <2>2. Going(x, a) /\ Going(y, b)
      BY <1>1, <1>3, OnwardGoes
    <2>3. Goal(c, a) = (IF Rests(x) THEN x ELSE Onward(x, a))
          /\ Goal(d, b) = (IF Rests(y) THEN y ELSE Onward(y, b))
      BY <1>1, <1>3 DEF Goal
    <2> HIDE DEF x, y
    <2>4. Rests(x) <=> Rests(y)
      BY <2>1, SameTurned
    <2>5. CASE Rests(x)
      BY <2>1, <2>3, <2>4, <2>5
    <2>6. CASE ~Rests(x)
      <3>1. SamePlace(Onward(x, a), a, Onward(y, b), b)
        BY <2>1, <2>2, <2>4, <2>6, OnwardAlike DEF Going
      <3> QED BY <2>3, <2>4, <2>6, <3>1
    <2> QED BY <2>5, <2>6
  <1> QED BY <1>2, <1>3

(* A CPU that is where it would get to is still on its way to the same place. *)
LEMMA GoalKept ==
    ASSUME sc \in Scenarios, SameSections(sc), sc.run_cpus > 1, NEW me \in CPUs,
           NEW c, Going(c, me), ~Rests(c), NEW z, Going(z, me),
           SamePlace(z, me, Onward(c, me), me)
    PROVE  SamePlace(Goal(z, me), me, Goal(c, me), me)
  <1> DEFINE x == Onward(c, me)
  <1>1. Going(x, me) /\ Fresh(x)
    BY OnwardGoes
  <1>2. SamePlace(Goal(z, me), me, Goal(x, me), me)
    BY <1>1, GoalAlike
  <1>3. Goal(c, me) = IF Rests(x) THEN x ELSE Onward(x, me)
    BY DEF Goal
  <1> HIDE DEF x
  <1>4. ~Rests(x) => Rests(Onward(x, me))
    BY <1>1, Soon DEF Going
  <1>5. Goal(x, me) = Goal(c, me)
    BY <1>3, <1>4 DEF Goal
  <1> QED BY <1>2, <1>5

----------------------------------------------------------------------------
(* Every step keeps all on their way to the same place.                     *)

LEMMA OnwardStill ==
    ASSUME sc' = sc
    PROVE  \A c, me : /\ Onward(c, me)' = Onward(c, me)
                      /\ Reach(c, me)' = Reach(c, me)
  <1>1. segs' = segs /\ mstr' = mstr
    BY DEF segs, mstr
  <1>2. ASSUME NEW fn, NEW j, NEW me PROVE Region(fn, j, me)' = Region(fn, j, me)
    BY <1>1 DEF Region
  <1>3. ASSUME NEW c, NEW me PROVE Reach(c, me)' = Reach(c, me)
    BY <1>2 DEF Reach
  <1>4. ASSUME NEW c, NEW me PROVE AtSegment(c, me)' = AtSegment(c, me)
    BY <1>1, <1>3 DEF AtSegment
  <1>5. ASSUME NEW c, NEW ph, NEW me PROVE AtLoop(c, ph, me)' = AtLoop(c, ph, me)
    BY <1>1, <1>4 DEF AtLoop
  <1>6. ASSUME NEW c, NEW me PROVE NextSegment(c, me)' = NextSegment(c, me)
    BY <1>1, <1>4, <1>5 DEF NextSegment
  <1>7. ASSUME NEW c, NEW me PROVE NextSection(c, me)' = NextSection(c, me)
    BY <1>6 DEF NextSection
  <1>8. ASSUME NEW c, NEW me PROVE Advance(c, me)' = Advance(c, me)
    BY <1>3 DEF Advance
  <1>9. ASSUME NEW pat, NEW me PROVE Calls(pat, me)' = Calls(pat, me)
    BY DEF Calls
  <1>10. ASSUME NEW c, NEW me PROVE Onward(c, me)' = Onward(c, me)
    BY <1>5, <1>7, <1>8, <1>9 DEF Onward
  <1> QED BY <1>3, <1>10

LEMMA PlaceStill ==
    ASSUME sc' = sc
    PROVE  /\ \A c, me : /\ Steady(c, me) => Steady(c, me)'
                         /\ Goal(c, me)' = Goal(c, me)
           /\ \A c, a, d, b : SamePlace(c, a, d, b) => SamePlace(c, a, d, b)'
  <1>1. ASSUME NEW c, NEW me PROVE Past(c, me)' = Past(c, me)
    BY OnwardStill DEF Past
  <1>2. ASSUME NEW c, NEW me PROVE Steady(c, me)' <=> Steady(c, me)
    BY <1>1 DEF Steady
  <1>3. ASSUME NEW c, NEW me PROVE Goal(c, me)' = Goal(c, me)
    BY OnwardStill DEF Goal
  <1>4. ASSUME NEW c, NEW a, NEW d, NEW b PROVE SamePlace(c, a, d, b)' <=> SamePlace(c, a, d, b)
    BY <1>1 DEF SamePlace
  <1> QED BY <1>2, <1>3, <1>4

LEMMA TogetherStill ==
    ASSUME sc' = sc, \A i \in CPUs : \E y : y = cpu'[i] /\ Steady(y, i),
           \A i, j \in CPUs : \E y, z : /\ y = cpu'[i] /\ z = cpu'[j]
                                        /\ SamePlace(Goal(y, i), i, Goal(z, j), j)
    PROVE  Together'
  <1>1. CPUs' = CPUs
    BY DEF CPUs
  <1>2. ASSUME NEW i \in CPUs PROVE Steady(cpu[i], i)'
    <2>1. PICK y : y = cpu'[i] /\ Steady(y, i)
      OBVIOUS
    <2>2. Steady(y, i)'
      BY <2>1, PlaceStill
    <2> QED BY <2>1, <2>2
  <1>3. ASSUME NEW i \in CPUs, NEW j \in CPUs
        PROVE  SamePlace(Goal(cpu[i], i), i, Goal(cpu[j], j), j)'
    <2>1. PICK y, z : y = cpu'[i] /\ z = cpu'[j] /\ SamePlace(Goal(y, i), i, Goal(z, j), j)
      OBVIOUS
    <2>2. Goal(y, i)' = Goal(y, i) /\ Goal(z, j)' = Goal(z, j)
      BY PlaceStill
    <2>3. PICK g, h : g = Goal(y, i) /\ h = Goal(z, j)
      OBVIOUS
    <2>4. SamePlace(g, i, h, j)'
      BY <2>1, <2>3, PlaceStill
    <2>5. Goal(cpu[i], i)' = g /\ Goal(cpu[j], j)' = h
      BY <2>1, <2>2, <2>3
    <2> QED BY <2>4, <2>5
  <1> QED BY <1>1, <1>2, <1>3 DEF Together

(* One CPU that does not lose its way. *)
LEMMA OneMoves ==
    ASSUME SweepInv, Together, sc.run_cpus > 1, sc' = sc, NEW me \in CPUs,
           NEW z, cpu' = [cpu EXCEPT ![me] = z], Steady(z, me),
           SamePlace(Goal(z, me), me, Goal(cpu[me], me), me)
    PROVE  Together'
  <1>1. DOMAIN cpu = CPUs
    BY DEF SweepInv
  <1>2. ASSUME NEW i \in CPUs
        PROVE  \E y : y = cpu'[i] /\ Steady(y, i) /\ SamePlace(Goal(y, i), i, Goal(cpu[i], i), i)
    <2>1. CASE i = me
      BY <1>1, <2>1
    <2>2. CASE i # me
      <3>1. cpu'[i] = cpu[i]
        BY <1>1, <2>2
      <3>2. Steady(cpu[i], i)
        BY DEF Together
      <3>3. SamePlace(Goal(cpu[i], i), i, Goal(cpu[i], i), i)
        BY DEF SamePlace
      <3> QED BY <3>1, <3>2, <3>3
    <2> QED BY <2>1, <2>2
  <1>3. ASSUME NEW i \in CPUs, NEW j \in CPUs
        PROVE  \E y, x : y = cpu'[i] /\ x = cpu'[j] /\ SamePlace(Goal(y, i), i, Goal(x, j), j)
    <2>1. PICK y : y = cpu'[i] /\ SamePlace(Goal(y, i), i, Goal(cpu[i], i), i)
      BY <1>2
    <2>2. PICK x : x = cpu'[j] /\ SamePlace(Goal(x, j), j, Goal(cpu[j], j), j)
      BY <1>2
    <2>3. SamePlace(Goal(cpu[i], i), i, Goal(cpu[j], j), j)
      BY DEF Together
    <2>4. SamePlace(Goal(cpu[j], j), j, Goal(x, j), j)
      BY <2>2, SameTurned
    <2>5. SamePlace(Goal(y, i), i, Goal(cpu[j], j), j)
      BY <2>1, <2>3, SameJoined
    <2>6. SamePlace(Goal(y, i), i, Goal(x, j), j)
      BY <2>4, <2>5, SameJoined
    <2> QED BY <2>1, <2>2, <2>6
  <1> QED BY <1>2, <1>3, TogetherStill

(* One CPU that gets to where it is on its way to. *)
LEMMA OneGoesOn ==
    ASSUME SweepInv, Together, SameSections(sc), sc.run_cpus > 1, sc' = sc, NEW me \in CPUs,
           ~Rests(cpu[me]), \E x : GetsTo(me, x), NEW z, cpu' = [cpu EXCEPT ![me] = z],
           SamePlace(z, me, Onward(cpu[me], me), me), Steady(z, me)
    PROVE  Together'
  <1>1. PICK x : GetsTo(me, x)
    OBVIOUS
  <1>2. x = z
    BY <1>1 DEF GetsTo, SweepInv
  <1>3. Placed(z, me) /\ Placed(cpu[me], me) /\ Steady(cpu[me], me) /\ sc \in Scenarios
    BY <1>1, <1>2 DEF GetsTo, SweepInv, Together
  <1>4. PICK c : c = cpu[me]
    OBVIOUS
  <1>5. SamePlace(Goal(z, me), me, Goal(c, me), me)
    BY <1>3, <1>4, GoalKept DEF Going
  <1> QED BY <1>4, <1>5, OneMoves

LEMMA InStepCall ==
    ASSUME SweepInv, Together, SameSections(sc), sc.run_cpus > 1, NEW me \in CPUs, Call(me)
    PROVE  Together'
  <1> DEFINE c == cpu[me]
             x == Onward(c, me)
  <1>1. c.at = "do_test" /\ ~c.wait /\ sc' = sc /\ sc \in Scenarios
    BY DEF Call, SweepInv
  <1>2. cpu' = [cpu EXCEPT ![me] = x]
    BY <1>1 DEF Call, Onward
  <1>3. Going(c, me) /\ ~Rests(c)
    BY <1>1 DEF Going, Together, SweepInv, Rests
  <1>4. Steady(x, me)
    <2> HIDE DEF c
    <2> QED BY <1>1, <1>3, OnwardGoes DEF Going
  <1>5. SamePlace(x, me, x, me)
    BY DEF SamePlace
  <1>6. \E y : GetsTo(me, y)
    BY CallKeeps
  <1> HIDE DEF x
  <1> QED BY <1>1, <1>2, <1>3, <1>4, <1>5, <1>6, OneGoesOn DEF x

LEMMA InStepSynced ==
    ASSUME SweepInv, Together, SameSections(sc), sc.run_cpus > 1, NEW me \in CPUs, Synced(me)
    PROVE  Together'
  <1> DEFINE c == cpu[me]
             a == IF c.args.fn = "random" THEN [c.args EXCEPT !.p1 = sp[1], !.p2 = sp[2]]
                  ELSE c.args
             d == [c EXCEPT !.args = a]
             x == AtLoop(d, c.ph + 1, me)
  <1>1. /\ c.at = "test" /\ ~c.wait /\ LoopOf(c) = "sync" /\ sc' = sc /\ sc \in Scenarios
        /\ cpu' = [cpu EXCEPT ![me] = x]
    BY DEF Synced, SweepInv
  <1>2. Steady(c, me) /\ InCall(c) /\ Known(c) /\ DOMAIN c = CpuFields /\ IsCall(c.args, sc.pat)
    BY <1>1, InTest DEF Together
  <1>3. c.ph + 1 \in Nat \ {0} /\ c.args.fn \in Fns /\ LoopOf(c) \in LoopNames(c.args.fn)
    BY <1>2, LoopIsOfCall
  <1>4. IsCall(a, sc.pat) /\ a.fn = c.args.fn /\ a.iter = c.args.iter
    <2>1. ASSUME NEW p, NEW q, NEW b, b = [c.args EXCEPT !.p1 = p, !.p2 = q]
          PROVE  IsCall(b, sc.pat) /\ b.fn = c.args.fn /\ b.iter = c.args.iter
      BY <1>2, <2>1 DEF IsCall, ArgFields
    <2>2. a = c.args \/ a = [c.args EXCEPT !.p1 = sp[1], !.p2 = sp[2]]
      OBVIOUS
    <2> HIDE DEF a, c
    <2>3. CASE a = c.args
      BY <1>2, <2>3
    <2>4. CASE a = [c.args EXCEPT !.p1 = sp[1], !.p2 = sp[2]]
      <3>1. PICK p, q : p = sp[1] /\ q = sp[2]
        OBVIOUS
      <3>2. a = [c.args EXCEPT !.p1 = p, !.p2 = q]
        BY <2>4, <3>1
      <3> QED BY <2>1, <3>2
    <2> QED BY <2>2, <2>3, <2>4
  <1> HIDE DEF a
  <1>5. DOMAIN d = CpuFields /\ d.call = c.call /\ d.args = a /\ d.errs = c.errs
    BY <1>2, Fields
  <1> HIDE DEF d
  <1>6. SameArgs(d, c)
    <2>1. c.args.fn \notin {"addr_tst1", "sleep"}
      BY <1>1, <1>2, <1>3, SharedCalls DEF Steady
    <2> QED BY <1>2, <1>4, <1>5, <2>1 DEF SameArgs, Known
  <1> HIDE DEF c
  <1>7. Onward(c, me) = AtLoop(c, c.ph + 1, me)
    BY <1>1 DEF Onward
  <1>8. SamePlace(x, me, Onward(c, me), me) /\ Steady(x, me)
    BY <1>1, <1>3, <1>6, <1>7, LoopAlike
  <1>9. \E y : GetsTo(me, y)
    BY SyncedKeeps
  <1>10. ~Rests(c)
    BY <1>1 DEF Rests
  <1> HIDE DEF x
  <1> QED BY <1>1, <1>8, <1>9, <1>10, OneGoesOn DEF c

LEMMA InStepMove ==
    ASSUME SweepInv, Together, SameSections(sc), sc.run_cpus > 1, NEW me \in CPUs, Move(me)
    PROVE  Together'
  <1> DEFINE c == cpu[me]
             a == Advance(c, me)
             r == Region(c.args.fn, c.j, me)
             x == Onward(c, me)
  <1>1. /\ c.at = "test" /\ ~c.wait /\ LoopOf(c) = "move" /\ sc' = sc /\ sc \in Scenarios
        /\ c.rep = 0 => cpu' = [cpu EXCEPT ![me] = IF a.p = a.pe THEN NextSegment(a, me)
                                                   ELSE [a EXCEPT !.rep = 1, !.wait = TRUE]]
        /\ c.rep # 0 => cpu' = [cpu EXCEPT ![me] =
                           IF c.rep < c.args.iter THEN [c EXCEPT !.rep = @ + 1, !.wait = TRUE]
                           ELSE NextSection([c EXCEPT !.rep = 0, !.p = c.pe], me)]
    BY DEF Move, SweepInv
  <1>2. /\ DOMAIN c = CpuFields /\ InSpan(c, r, "move") /\ IsRegion(r) /\ (r.end + 1) % BLOCK = 0
    BY <1>1, InTest
  <1>3. c.rep = 0 => a.p # a.pe
    <2> SUFFICES ASSUME c.rep = 0 PROVE a.p # a.pe
      OBVIOUS
    <2>0. "move" \notin Downward \cup Shortened
      BY DEF Downward, Shortened
    <2>1. a = AdvanceUp(c, r)
      BY <1>1, <2>0 DEF Advance, Reach
    <2>2. c.p \in Nat /\ c.done = 0 /\ c.p = c.pe /\ c.p % BLOCK = 0 /\ r.end \in Nat
      BY <1>2 DEF InSpan, IsRegion
    <2> HIDE DEF a
    <2>3. Alike(a, c, {"pe", "done"}) /\ (a.pe = r.end \/ a.pe = c.pe + SPINSZ)
      BY <1>2, <2>1, <2>2, UpFacts
    <2>4. a.p = c.p
      BY <2>3, Fields DEF Alike
    <2>5. a.pe # c.p
      <3>1. CASE a.pe = r.end
        <4> SUFFICES ASSUME r.end % BLOCK = 0 PROVE FALSE
          BY <2>2, <3>1
        <4>1. BLOCK \in Nat /\ BLOCK > 1
          BY Sizes
        <4> DEFINE e == r.end
        <4>2. e \in Nat /\ e % BLOCK = 0 /\ (e + 1) % BLOCK = 0
          BY <1>2, <2>2
        <4> HIDE DEF e
        <4>3. e + 1 \in Nat /\ BLOCK \in Nat \ {0} /\ e < e + 1
          BY <4>1, <4>2
        <4>4. e + BLOCK <= e + 1
          BY <4>2, <4>3, NextMultiple
        <4> QED BY <4>1, <4>2, <4>4
      <3>2. CASE a.pe = c.pe + SPINSZ
        BY <2>2, <3>2, Sizes
      <3> QED BY <2>3, <3>1, <3>2
    <2> QED BY <2>4, <2>5
  <1>4. cpu' = [cpu EXCEPT ![me] = x]
    <2>1. x = IF c.rep = 0 THEN [a EXCEPT !.rep = 1, !.wait = TRUE]
              ELSE IF c.rep < c.args.iter THEN [c EXCEPT !.rep = @ + 1, !.wait = TRUE]
              ELSE NextSection([c EXCEPT !.rep = 0, !.p = c.pe], me)
      BY <1>1 DEF Onward
    <2> HIDE DEF x
    <2> QED BY <1>1, <1>3, <2>1
  <1>5. Going(c, me) /\ ~Rests(c)
    BY <1>1 DEF Going, Together, SweepInv, Rests
  <1>6. Steady(x, me)
    <2> HIDE DEF c
    <2> QED BY <1>1, <1>5, OnwardGoes DEF Going
  <1>7. SamePlace(x, me, x, me)
    BY DEF SamePlace
  <1>8. \E y : GetsTo(me, y)
    BY MoveKeeps
  <1> HIDE DEF x
  <1> QED BY <1>1, <1>4, <1>5, <1>6, <1>7, <1>8, OneGoesOn DEF x

(* A section is empty only if it is the last. *)
LEMMA EmptyIsLast ==
    ASSUME SweepInv, NEW me \in CPUs, NEW c, c = cpu[me], c.at = "test", Steady(c, me),
           LoopOf(c) \in Sweeping, NEW a, a = Advance(c, me), a.p = a.pe
    PROVE  a.done > 0
  <1> DEFINE loop == LoopOf(c)
             r == Region(c.args.fn, c.j, me)
  <1>1. /\ DOMAIN c = CpuFields /\ InSpan(c, r, loop) /\ sc \in Scenarios /\ Placed(c, me)
    BY InTest DEF SweepInv
  <1>2. loop \in Shared /\ loop # "sync" /\ loop # "move"
    BY SharedLoops DEF Steady
  <1>3. c.done = 0
    BY <1>2 DEF Steady
  <1>4. a.done = 0 => a.pe = IF loop \in Downward THEN c.pe - SPINSZ ELSE c.pe + SPINSZ
    BY <1>1, <1>2, <1>3, NextMark
  <1>5. Past(c, me) \in Int /\ (a.done = 1 \/ a.done = 0)
    <2> DEFINE q == Reach(c, me)
    <2>1. q.start \in 3 .. Top - 1 /\ q.end \in 3 .. Top - 1
      BY <1>1, <1>2, Stands
    <2>2. /\ Past(c, me) \in Int
          /\ Past(c, me) + SPINSZ >= q.end - q.start => a.done = 1
          /\ Past(c, me) + SPINSZ < q.end - q.start => a.done = 0
      BY <1>1, <1>2, <1>3, NextMark
    <2> HIDE DEF q
    <2> QED BY <2>1, <2>2, Sizes
  <1>6. a.p = c.p
    <2>1. Alike(a, c, {"pe", "done"})
      BY <1>1, AdvanceAlike
    <2> QED BY <2>1, Fields DEF Alike
  <1>7. c.p \in Nat /\ c.pe \in Nat /\ SPINSZ \in Nat /\ SPINSZ > 1 /\ SPINSZ > MOD_SZ
        /\ MOD_SZ \in Nat
    BY <1>1, Sizes, Sections DEF InSpan
  <1>8. CASE loop \in Downward
    BY <1>1, <1>4, <1>5, <1>6, <1>7, <1>8 DEF InSpan
  <1>9. CASE loop \notin Downward
    <2>1. c.p < c.pe + SPINSZ
      <3>1. CASE loop \in Rising
        BY <1>1, <1>7, <3>1 DEF InSpan
      <3>2. CASE loop \in Shortened
        BY <1>1, <1>7, <3>2 DEF InSpan
      <3>3. CASE loop \in {"init", "pairs"}
        BY <1>1, <1>7, <3>3 DEF InSpan
      <3> QED BY <1>9, <3>1, <3>2, <3>3 DEF Sweeping
    <2> QED BY <1>4, <1>5, <1>6, <1>7, <1>9, <2>1
  <1> QED BY <1>8, <1>9

LEMMA InStepSection ==
    ASSUME SweepInv, Together, SameSections(sc), sc.run_cpus > 1, NEW me \in CPUs, Section(me)
    PROVE  Together'
  <1> DEFINE c == cpu[me]
             a == Advance(c, me)
             k0 == a.k
             pat0 == IF LoopOf(a) = "init" THEN 1 ELSE a.pat
             seed0 == SeedFor(cpu[me], me)
             acc == [m |-> mem, errs |-> <<>>, wrote |-> {}, k |-> k0, pat |-> pat0, seed |-> seed0]
             out == Swept(a, acc)
             h == Behind(a)
             b == [h EXCEPT !.k = out.k, !.pat = out.pat, !.errs = out.errs]
             loop == LoopOf(c)
             r == Region(c.args.fn, c.j, me)
  <1>1. /\ c.at = "test" /\ ~c.wait /\ sc' = sc /\ sc \in Scenarios
        /\ LoopOf(a) \notin Unticked \cup {"sync"}
        /\ a.p = a.pe => cpu' = [cpu EXCEPT ![me] = NextSegment(a, me)]
        /\ a.p # a.pe => cpu' = [cpu EXCEPT ![me] = NextSection(b, me)]
    BY DEF Section, SweepInv
  <1>2. IsAcc(acc, WordsOf(r))
    <2> HIDE DEF k0, pat0, seed0, r
    <2> QED BY NoErrs DEF IsAcc
  <1> HIDE DEF acc
  <1>3. Placed(c, me) /\ Steady(c, me) /\ InCall(c) /\ DOMAIN c = CpuFields
    BY <1>1, InTest DEF SweepInv, Together
  <1>4. Alike(a, c, {"pe", "done"})
    BY <1>3, AdvanceAlike
  <1>5. LoopOf(a) = loop
    BY <1>4, SameCall DEF Places
  <1>6. loop \in Sweeping /\ loop \in Shared /\ loop \notin {"sync", "move"}
    BY <1>1, <1>3, <1>5, SharedLoops DEF Steady, Unticked
  <1>7. c.j \in 1 .. segs
    BY <1>1, <1>3, <1>6, Stands
  <1>8. PICK e : e = c
    OBVIOUS
  <1>9. /\ SameCourse(a, e) /\ SameCourse(h, e)
        /\ h.done = a.done /\ a.rep = e.rep /\ h.rep = e.rep
        /\ a.done = 0 => Past(h, me) \in Marks(loop)
    BY <1>1, <1>3, <1>6, <1>8, SectionEnds
  <1>10. Onward(e, me) = NextSection(h, me)
    BY <1>1, <1>6, <1>8 DEF Onward
  <1>11. \E y : GetsTo(me, y)
    BY SectionKeeps
  <1>12. ~Rests(e)
    BY <1>1, <1>8 DEF Rests
  <1>13. /\ e.at = "test" /\ LoopOf(e) = loop /\ e.j \in 1 .. segs
    BY <1>1, <1>7, <1>8
  <1>14. Level(a, h)
    BY <1>6, <1>9, <1>13 DEF Level, SameCourse
  <1>15. CASE a.p = a.pe
    <2> DEFINE z == NextSegment(a, me)
    <2>1. a.done > 0
      BY <1>1, <1>3, <1>6, <1>15, EmptyIsLast
    <2>2. Onward(e, me) = NextSegment(h, me)
      BY <1>9, <1>10, <2>1 DEF NextSection
    <2>3. SamePlace(z, me, Onward(e, me), me) /\ Steady(z, me)
      <3> HIDE DEF a, h
      <3> QED BY <1>1, <1>14, <2>2, NextSegmentAlike
    <2>4. cpu' = [cpu EXCEPT ![me] = z]
      BY <1>1, <1>15
    <2> HIDE DEF z
    <2> QED BY <1>1, <1>8, <1>11, <1>12, <2>3, <2>4, OneGoesOn
  <1>16. CASE a.p # a.pe
    <2> DEFINE z == NextSection(b, me)
    <2>1. IsAcc(out, WordsOf(r))
      BY <1>1, <1>2, <1>6, <1>16, SectionSweeps
    <2>2. IsErrs(out.errs)
      BY <2>1 DEF IsAcc
    <2>3. a.done \in {0, 1}
      <3>1. SamePlace(c, me, c, me) /\ c.done = 0
        BY <1>3, <1>1, <1>6 DEF SamePlace, Steady
      <3> HIDE DEF c
      <3> QED BY <1>1, <1>3, <1>6, <3>1, NextAlike
    <2> HIDE DEF h, a, out, c, loop, r
    <2>4. InCall(h) /\ Known(h) /\ DOMAIN h = CpuFields
      BY <1>9 DEF SameCourse, InCall, Known
    <2>5. Alike(b, h, {"k", "pat", "errs"}) /\ b.errs = out.errs
      BY <2>4 DEF Alike, CpuFields
    <2> HIDE DEF b
    <2>6. /\ b.at = h.at /\ b.call = h.call /\ b.args = h.args /\ b.ph = h.ph /\ b.j = h.j
          /\ b.pe = h.pe /\ b.done = h.done /\ b.rep = h.rep /\ DOMAIN b = CpuFields
      BY <2>5, Fields DEF Alike
    <2>7. LoopOf(b) = LoopOf(h)
      BY <2>6 DEF LoopOf
    <2>8. InCall(b)
      BY <2>2, <2>4, <2>5, <2>6 DEF InCall, Known
    <2>9. Past(b, me) = Past(h, me)
      BY <2>6, <2>7 DEF Past, Reach
    <2>10. Level(b, h) /\ LoopOf(b) = loop
      BY <1>9, <1>13, <1>14, <2>6, <2>7, <2>8 DEF Level, SameCourse
    <2>11. SamePlace(z, me, Onward(e, me), me) /\ Steady(z, me)
      BY <1>1, <1>6, <1>9, <1>10, <2>3, <2>6, <2>9, <2>10, NextSectionAlike
    <2>12. cpu' = [cpu EXCEPT ![me] = z]
      BY <1>1, <1>16
    <2> HIDE DEF z
    <2> QED BY <1>1, <1>8, <1>11, <1>12, <2>11, <2>12, OneGoesOn DEF c
  <1> QED BY <1>15, <1>16

(* A report changes nothing but errs. *)
LEMMA InStepReport ==
    ASSUME SweepInv, Together, SameSections(sc), sc.run_cpus > 1, NEW me \in CPUs, Report(me)
    PROVE  Together'
  <1> DEFINE c == cpu[me]
             tail == Tail(c.errs)
             z == [c EXCEPT !.errs = tail]
  <1>1. cpu' = [cpu EXCEPT ![me] = z] /\ sc' = sc /\ sc \in Scenarios
    BY DEF Report, SweepInv
  <1>2. Placed(c, me) /\ Steady(c, me) /\ DOMAIN c = CpuFields
    BY DEF SweepInv, Together, Placed, Known
  <1>3. \E x : GetsTo(me, x)
    BY ReportKeeps
  <1>4. Placed(z, me)
    BY <1>1, <1>3 DEF GetsTo, SweepInv
  <1> HIDE DEF tail
  <1>5. /\ z.at = c.at /\ z.wait = c.wait /\ z.call = c.call /\ z.args = c.args /\ z.ph = c.ph
        /\ z.j = c.j /\ z.pe = c.pe /\ z.done = c.done /\ z.rep = c.rep
    BY <1>2, Fields
  <1> HIDE DEF z
  <1>6. LoopOf(z) = LoopOf(c) /\ Past(z, me) = Past(c, me)
    BY <1>5 DEF LoopOf, Past, Reach
  <1>7. SamePlace(z, me, c, me) /\ Steady(z, me)
    BY <1>2, <1>5, <1>6 DEF SamePlace, Steady
  <1>8. PICK d : d = c
    OBVIOUS
  <1>9. SamePlace(Goal(z, me), me, Goal(d, me), me)
    BY <1>1, <1>2, <1>4, <1>7, <1>8, GoalAlike DEF Going
  <1> QED BY <1>1, <1>7, <1>8, <1>9, OneMoves

(* All that have met are at the same place. *)
LEMMA InStepMeet ==
    ASSUME SweepInv, Together, SameSections(sc), sc.run_cpus > 1, Meet
    PROVE  Together'
  <1> DEFINE Freed(c) == [c EXCEPT !.wait = FALSE]
  <1>1. /\ cpu' = [me \in CPUs |-> Freed(cpu[me])] /\ sc' = sc /\ sc \in Scenarios
        /\ \A me \in CPUs : cpu[me].wait
    BY DEF Meet, SweepInv
  <1>2. ASSUME NEW i \in CPUs, NEW c, c = cpu[i], NEW y, y = cpu'[i]
        PROVE  /\ Going(y, i) /\ Goal(c, i) = c /\ c.at = "test"
               /\ Alike(y, c, {"wait"}) /\ y.wait = FALSE
    <2>1. Placed(c, i) /\ Steady(c, i) /\ DOMAIN c = CpuFields /\ IsErrs(c.errs) /\ c.wait
      BY <1>1, <1>2 DEF SweepInv, Together, Placed, Known
    <2>2. y = [c EXCEPT !.wait = FALSE]
      BY <1>1, <1>2
    <2>3. Alike(y, c, {"wait"}) /\ y.wait = FALSE
      BY <2>1, <2>2, Fields DEF Alike, CpuFields
    <2>4. Alike(y, c, {"wait", "errs"}) /\ y.errs = c.errs
      BY <2>3, Fields DEF Alike
    <2>5. Placed(y, i)
      BY <2>1, <2>4, PlacedAlike
    <2>6. y.at = c.at /\ y.done = c.done /\ y.rep = c.rep /\ LoopOf(y) = LoopOf(c)
      <3>1. LoopOf(y) = LoopOf(c)
        BY <2>3, SameCall DEF Places
      <3> QED BY <2>3, <3>1, Fields DEF Alike
    <2>7. Past(y, i) = Past(c, i)
      <3>1. {"wait"} \subseteq Places \ {"pe", "done"}
        BY DEF Places
      <3> QED BY <2>3, <3>1, PastKept
    <2>8. Steady(y, i) /\ c.at = "test"
      BY <2>1, <2>3, <2>6, <2>7 DEF Steady
    <2> QED BY <2>1, <2>3, <2>5, <2>8 DEF Going, Goal, Rests
  <1>3. ASSUME NEW i \in CPUs, NEW j \in CPUs, NEW c, c = cpu[i], NEW d, d = cpu[j],
               NEW y, y = cpu'[i], NEW z, z = cpu'[j]
        PROVE  SamePlace(Goal(y, i), i, Goal(z, j), j)
    <2>1. /\ Going(y, i) /\ Goal(c, i) = c /\ Alike(y, c, {"wait"}) /\ y.wait = FALSE
          /\ Going(z, j) /\ Goal(d, j) = d /\ Alike(z, d, {"wait"}) /\ z.wait = FALSE
      BY <1>2, <1>3
    <2>2. SamePlace(c, i, d, j)
      <3>1. SamePlace(Goal(c, i), i, Goal(d, j), j)
        BY <1>3 DEF Together
      <3> QED BY <2>1, <3>1
    <2>3. /\ y.args = c.args /\ y.ph = c.ph /\ y.j = c.j /\ LoopOf(y) = LoopOf(c)
          /\ z.args = d.args /\ z.ph = d.ph /\ z.j = d.j /\ LoopOf(z) = LoopOf(d)
      BY <2>1, SameCall DEF Places
    <2>4. /\ y.at = c.at /\ y.call = c.call /\ y.rep = c.rep /\ y.done = c.done
          /\ z.at = d.at /\ z.call = d.call /\ z.rep = d.rep /\ z.done = d.done
      BY <2>1, Fields DEF Alike
    <2>5. Past(y, i) = Past(c, i) /\ Past(z, j) = Past(d, j)
      <3>1. {"wait"} \subseteq Places \ {"pe", "done"}
        BY DEF Places
      <3> QED BY <2>1, <3>1, PastKept
    <2>6. SamePlace(y, i, z, j)
      BY <2>1, <2>2, <2>3, <2>4, <2>5 DEF SamePlace
    <2> QED BY <1>1, <2>1, <2>6, GoalAlike
  <1>4. ASSUME NEW i \in CPUs PROVE \E y : y = cpu'[i] /\ Steady(y, i)
    BY <1>2 DEF Going
  <1>5. ASSUME NEW i \in CPUs, NEW j \in CPUs
        PROVE  \E y, z : y = cpu'[i] /\ z = cpu'[j] /\ SamePlace(Goal(y, i), i, Goal(z, j), j)
    BY <1>3
  <1> QED BY <1>1, <1>4, <1>5, TogetherStill

LEMMA InStepStep ==
    ASSUME SweepInv, Together, SameSections(sc), [Next]_vars
    PROVE  Together'
  <1>1. sc' = sc
    <2>1. CASE \E me \in CPUs : Call(me) \/ Synced(me) \/ Section(me) \/ Move(me)
      BY <2>1 DEF Call, Synced, Section, Move
    <2>2. CASE \E me \in CPUs : Walk(me) \/ Sleep(me) \/ Report(me)
      BY <2>2 DEF Walk, Sleep, Report
    <2>3. CASE Meet \/ UNCHANGED vars
      BY <2>3 DEF Meet, vars
    <2> QED BY <2>1, <2>2, <2>3 DEF Next
  <1>2. CASE ~(sc.run_cpus > 1)
    BY <1>1, <1>2 DEF Together
  <1>3. CASE sc.run_cpus > 1
    <2>1. CASE UNCHANGED vars
      <3>1. cpu' = cpu
        BY <2>1 DEF vars
      <3>2. ASSUME NEW i \in CPUs PROVE \E y : y = cpu'[i] /\ Steady(y, i)
        BY <1>3, <3>1 DEF Together
      <3>3. ASSUME NEW i \in CPUs, NEW j \in CPUs
            PROVE  \E y, z : y = cpu'[i] /\ z = cpu'[j] /\ SamePlace(Goal(y, i), i, Goal(z, j), j)
        BY <1>3, <3>1 DEF Together
      <3> QED BY <1>1, <3>2, <3>3, TogetherStill
    <2>2. CASE Meet
      BY <1>3, <2>2, InStepMeet
    <2>3. ASSUME NEW me \in CPUs, Walk(me) \/ Sleep(me) PROVE FALSE
      <3>1. LoopOf(cpu[me]) \in Walking \cup {"sleep"} /\ cpu[me].at = "test"
        BY <2>3 DEF Walk, Sleep
      <3>2. LoopOf(cpu[me]) \in Shared
        BY <1>3, <3>1 DEF Together, Steady
      <3> QED BY <3>1, <3>2, SharedLoops
    <2>4. ASSUME NEW me \in CPUs, Call(me) \/ Synced(me) \/ Section(me) \/ Move(me) \/ Report(me)
          PROVE  Together'
      BY <1>3, <2>4, InStepCall, InStepSynced, InStepSection, InStepMove, InStepReport
    <2> QED BY <2>1, <2>2, <2>3, <2>4 DEF Next
  <1> QED BY <1>2, <1>3

LEMMA InitTogether ==
    ASSUME Init, SameSections(sc)
    PROVE  Together
  <1>1. sc \in Scenarios /\ SweepInv
    BY InitPlaces DEF SweepInv
  <1>2. ASSUME NEW i \in CPUs, NEW c, c = cpu[i]
        PROVE  c.at = "do_test" /\ c.wait = FALSE /\ c.call = 0 /\ Going(c, i)
    <2>1. c.at = "do_test" /\ c.wait = FALSE /\ c.call = 0
      BY <1>2 DEF Init
    <2> QED BY <1>1, <1>2, <2>1 DEF Going, Steady, SweepInv
  <1>3. ASSUME sc.run_cpus > 1, NEW a \in CPUs, NEW b \in CPUs
        PROVE  SamePlace(Goal(cpu[a], a), a, Goal(cpu[b], b), b)
    <2>1. PICK c, d : c = cpu[a] /\ d = cpu[b]
      OBVIOUS
    <2>2. Going(c, a) /\ Going(d, b) /\ SamePlace(c, a, d, b)
      BY <1>2, <2>1 DEF SamePlace
    <2>3. SamePlace(Goal(c, a), a, Goal(d, b), b)
      BY <1>1, <1>3, <2>2, GoalAlike
    <2> QED BY <2>1, <2>3
  <1>4. \A i \in CPUs : Steady(cpu[i], i)
    BY <1>2 DEF Going
  <1> QED BY <1>3, <1>4 DEF Together

(* Those that wait for each other wait in the same loop of the same call    *)
(* (test.c:49, main.c:886), whatever the number of CPUs, the test, the      *)
(* faults and the sizes are, as long as all shares of a segment have as many*)
(* sections as each other.  Where they do not, one CPU's tick of a section  *)
(* is another's of the next sweep.                                          *)
THEOREM TestsInStep ==
    ASSUME \A s \in Scenarios : SameSections(s)
    PROVE  Spec => []InStep
  <1>1. Init => Together
    BY InitTogether DEF Init
  <1>2. SweepInv /\ Together /\ [Next]_vars => Together'
    BY InStepStep DEF SweepInv
  <1>3. SweepInv /\ Together => InStep
    <2> SUFFICES ASSUME SweepInv, Together, NEW a \in CPUs, NEW b \in CPUs,
                        cpu[a].wait, cpu[b].wait
                 PROVE  cpu[a].call = cpu[b].call /\ cpu[a].ph = cpu[b].ph
      BY DEF InStep
    <2>1. CASE ~(sc.run_cpus > 1)
      <3>1. sc.run_cpus = 1
        BY <2>1, Counts DEF SweepInv
      <3> QED BY <3>1 DEF CPUs
    <2>2. CASE sc.run_cpus > 1
      <3>1. Goal(cpu[a], a) = cpu[a] /\ Goal(cpu[b], b) = cpu[b]
        BY DEF Goal, Rests
      <3>2. SamePlace(cpu[a], a, cpu[b], b) /\ cpu[a].at = "test"
        BY <2>2, <3>1 DEF Together, Steady
      <3> QED BY <3>2 DEF SamePlace
    <2> QED BY <2>1, <2>2
  <1> QED BY <1>1, <1>2, <1>3, CpusArePlaced, PTL DEF Spec
=============================================================================
