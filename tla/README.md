# A verification of memtest86 (v4.3.7)

This directory holds TLA+ models of memtest86, the TLC configurations that check
them, and TLAPS proofs about the barrier everything else rests on, the start-up of the
CPUs, the test loop (its barriers, relocation, windows, and that it does not test itself),
the CPUs' shares of the memory and the tests' sweeps through them, the error log, and the
BadRAM patterns. File and line numbers refer to `src/src/src/`.

memtest86 boots on bare hardware, starts every CPU it finds, and runs a sequence
of memory tests over all of memory for ever. There is no operating system: the
CPUs run the same loop (`test_start`, main.c), share the program's globals, meet at
spin-lock barriers, and move the program itself out of the way when the memory
it occupies has to be tested. What can go wrong is that the program tests itself,
misses memory, reports errors that are not there, or hangs; none of it shows in a
test of one function.

## 1. The system

| Component | State | Operations | Talks to | Hard part | Correct when |
|---|---|---|---|---|---|
| Main barrier, spin lock (smp.c, smp.h) | `barr->lck, count, st1, st2` | `spin_lock`, `spin_unlock`, `spin_wait`, `barrier`, `s_barrier` | every CPU, by shared memory | fast CPUs call again while slow ones leave | nobody passes before all came; nobody is stranded |
| Test loop (main.c) | `test, ltest, c_iter, window, win_next, winx, segs, v->map, cpu_sel, mstr_cpu, run_cpus, bitf_seq, bail, restart flags`, where each CPU executes | scheduling a window, relocation, choosing CPUs, the tests' ticks, the end of a test | menu, tests, barriers | CPUs that are not selected run ahead; globals read while the master writes them | all memory in the limits tested, never the program's own, always the same barrier |
| Menu (config.c) | `tseq[].sel, v->plim_*, v->pass, cpu_mode, restart_flag, bail` | `get_config` from `do_tick` or from the end of a test | test loop | changes a test in progress | the test restarts or ends cleanly |
| Tick (error.c) | `nticks`, percentages | `do_tick` | menu, sub barrier | one CPU reads the keyboard for all | all CPUs see one decision |
| Tests (test.c, `do_test`) | patterns, seeds, `v->map` bounds | 10 test functions, `calculate_chunk`, `sleep` | tick, error log, random numbers | shares, sections, sweeps that turn round in the middle of a pattern | every word of it is written and compared, no error is reported where there is none, a fault is found |
| Windows (vmem.c) | `mapped_win`, page tables | `map_page`, `mapping`, `emapping`, `page_of` | test loop | aliases above 2 GB | the address reached is the one meant |
| Start-up (smp.c, main.c, init.c) | `AP[].started, cpu_ord, num_to_ord, act_cpus, num_cpus, start_seq` | `initialise_cpus`, `smp_boot_ap`, `smp_ap_booted`, ordinals, `get_mem_speed` | barrier, CPU tables, memory map | a CPU that answers late or never | every counted CPU gets one ordinal; nobody starts early |
| CPU tables (smp.c) | `num_cpus, found_cpus, cpu_num_to_apic_id` | `parse_madt`, `read_mp_config_table`, `smp_find_cpus`, `smp_my_cpu_num` | start-up, command line | threads of a core, repeated entries, too many CPUs | one CPU of each core, which knows its number |
| Memory map (memsize.c, `adj_mem`) | `v->pmap, msegs, selected_pages` | `sanitize_e820_map`, `memsize_820`, `memsize_801`, `sort_pmap`, `adj_mem` | start-up, test loop | regions that overlap, touch or are tiny | exactly the whole pages of RAM, but for the barrier's |
| BadRAM patterns (patn.c) | `v->patn, numpatn` | `insertaddress` and its helpers | error log | merging masks | every faulty address is covered |
| Error log (error.c) | `v->ecount, v->erri, len`, `barr->mutex` | `error`, `ad_err1`, `ad_err2`, `common_err` | tests, BadRAM patterns | sums beside counters that stop; all by comparison with the last error | what is shown holds of all errors reported |
| Random numbers (random.c) | `SEED_X, SEED_Y` | `rand`, `rand_seed` | tests | a seed per CPU | the checking sweep draws what the filling sweep drew |
| ELF relocation, hardware identification, screen/serial/keyboard, boot assembly | | | | | not modelled, see section 7 |

`PROJECT.json` lists every component with its status, and every hazard at its line.

## 2. The modules

* **Rendezvous** is what the callers of `barrier()` rely on: each CPU is at work, has
  arrived or has been released; all are released together, and a released CPU may
  come again while others are still leaving.
* **Barrier** is the code: the spin lock's `lock; decb` and retry loop on a signed byte,
  and `barrier()` with one action per access to `barr`. `Call` is the test of `num_cpus`,
  `WaitEntry` is smp.c:54, and so on line by line to `Return`; `pc` is the place in the
  function. The `monitor/mwait` branches are left out: `get_cpuid` clears the `mon` bit
  before a second CPU runs. `s_barrier` is the same code on the fields `s_*`.
  `ImplementsRendezvous` states that Barrier implements Rendezvous under the mapping
  `Place`.
* **Barrier_proofs** proves the inductive invariant and the refinement (section 5).
* **Scheduler** is the loop of `test_start` from the first barrier on, with the functions
  it calls. `g` holds the program's globals under their source names, `pc` the place of
  each CPU, `cpu` its locals and where it executes (`loc`), `at`, `sub` and `mutex` the
  main barrier (an instance of Rendezvous), the sub barrier and `barr->mutex`. `hist` is
  read by properties only. Each action is a piece of the loop between two accesses to
  globals that another CPU may use at the same time; the rest of a CPU's local work is
  merged into them. The menu is an operator from globals to globals (`Menu`), applied by
  the master in `Tick` and at the end of a test (`HouseInput`).

* **BadRam** is patn.c. A machine word is the set of its 1 bits, so `&`, `|`, `~` are set
  operations and `combine` is one intersection. `Relocate` is one call of `relocateiffree`
  up to its recursive call, whose argument is `idx`; `InsertAddress` is the rest of
  `insertaddress`; `Restart` is set_defaults, which empties the list. `faulty` is read by
  properties only.
* **Chunks** is `calculate_chunk`: which words of a segment a CPU works on.
* **ErrorLog** is error.c without the screen: operators from a log and an error to a log.
  `CommonErr` is `common_err`, with one operator for each group of fields it keeps.
* **MemTest** is test.c as `do_test` calls it, on the segments of one window (`sc.map`, the
  scenario's `v->map`). `Calls` says what a `pat` calls and with which arguments, `Loops` of
  which loops over the segments a function consists of, `Advance` moves `pe` by a section.
  Of an inner loop (mostly assembly) `Visited` says which words it comes by from `p` to `pe`,
  `AtWord` what it does at one, `Swept` folds the one over the other, and `Behind` says where
  that leaves `p`. addr_tst1 is none of these loops; `Walk` follows it bit by bit. The loop "tick, advance, sweep, while not done" is
  written out over twenty times in test.c; here it is the one action `Section`, and the map
  names one of the places for each operator. Memory is a function from words to words with
  a fault model: bits that are stuck or fade, or a stuck address line. The errors that a
  sweep finds are logged one by one (`Report`), interleaved with those of other CPUs. `hist`
  is read by properties only.
* **SmpBoot** is the start of `test_start` for all CPUs, with `initialise_cpus` and
  `smp_boot_ap`. `at` is where a CPU is; the other variables have the source's names.
  `alive` are the CPUs that will answer a startup IPI, some time: CPU 0 may have given
  them up by then (`late`). `cpu_ord++` is a read and a write.
* **MemoryMap** (memsize.c, `adj_mem`) and **CpuTables** (smp.c, `cpumask`) are operators from
  what the firmware says to `v->pmap` and to `cpu_num_to_apic_id`.
* **StartUp** composes the three: `SizeMemory` is SmpBoot's `Begin` with `mem_size()`, `FindCpus` its
  `InitialiseCpus` with the CPUs found. `SafeSpec`, SmpBoot's own specification, in which tables
  and command line may say anything, is a property of the composition.
* **BadRam_proofs**, **SmpBoot_proofs**, **StartUp_proofs**, **Scheduler_proofs**,
  **SchedulerWindows_proofs** (which builds on it), **Sweeps_proofs** and **MemTest_proofs** (likewise):
  section 5.

Memory in Scheduler is a row of blocks instead of pages. A block is the unit in which
segments, windows and limits can differ, and block 0 is what the BIOS uses (the code
excludes addresses below 0x500). `Segments` is `compute_segments`, and `FindChunks` is
what the `find_chunks` family does to `v->map`, which it uses as scratch memory. A test
is `TicksPerTest` rounds of: read the bounds, tick, leave if `bail`, work on the memory. Its CPUs
first wait for each other (`Sync`, do_test's `s_barrier`), and each reads its own share of every
segment (`Chunk`, which is `calculate_chunk` in blocks; `hist.covered` is the union of the shares), unless
all of them go over the whole (`whole`: the address tests and bit fade). The first loop of `block_move` has no
`s_barrier` before it; Scheduler gives it one (see the hazard at main.c:874).

Definitions whose names end in `Mutant` belong to no specification. Each is a plausible
bug in the definition that follows it; with it in place the property named in
`PROJECT.json` fails.

## 3. The runs

| Run | Instance | Shows |
|---|---|---|
| `MCBarrier.cfg` | 4 CPUs | the inductive invariant, refinement of Rendezvous with its fairness, every call returns |
| `MCBarrierLone.cfg` | 1 selected CPU of 2 | finding: the second call hangs |
| `MCSchedulerLone.cfg` | 1 CPU; a test on each CPU in turn, a parallel test, bit fade; skip, select, limits, restart at any tick | tests keep to the limits, also to new ones and to one inside the hole, and off the BIOS's block; full coverage of tests nobody interrupted; iterations |
| `MCSchedulerTwo.cfg` | 2 CPUs in turn; restart and a new lower limit at any tick | never tests itself, copies to a free place, same barrier, start-up code exclusive |
| `MCSchedulerAll.cfg` | 2 CPUs; CPU mode changed at any tick, two of them in each window | never tests itself; full coverage, also when it is made up of the CPUs' shares; exactly `run_cpus` testers with the ordinals their shares go by; CPUs wait for ever only if a key overtakes a late CPU (finding 2) |
| `MCSchedulerSkip.cfg` | 2 CPUs in parallel, skip | finding: deadlock between `s_barrier` and `barrier` |
| `MCSchedulerDefault.cfg` | 1 CPU, "Default Tests" | finding: the test goes on over the program |
| `MCSchedulerFade.cfg` | 1 CPU, bit fade, skip | finding: unfilled memory is checked |
| `MCBadRam.cfg` | 3 patterns, words of 6 bits, 7 addresses in any order, restarts | an address is known exactly if covered; all addresses inserted stay covered until a relocation goes astray; a live step uncovers nothing; relocation ends |
| `MCMemTest.cfg` | all patterns; 1 to 3 CPUs; 195 scenarios of segments, faults and error modes | no false errors, no writes outside the own share, ticks in step, faults found wherever they lie, and a log that is true of the errors reported |
| `MCStartUp.cfg` | 4 CPUs; memory maps, CPU tables with the boot CPU's id anywhere in them, command lines, CPUs that are late or dead | ordinals unique and dense, nobody early, one CPU on the boot stack, all whole pages of RAM and no others are tested, the barrier is kept out, CPUs know their numbers; start-up implements SmpBoot; it ends or hangs in one of two known ways |
| `MCBadRamLost.cfg` | 5 patterns, 4 neighbouring addresses | finding: all patterns are lost |

**Bounds.** Four CPUs give every role in a barrier round at once: the last to arrive, the
last to leave, one in between and one that already calls again. In the scheduler two
CPUs are a master and another, which is all `test_start` distinguishes. Nine blocks in
two segments give the segments of a PC (below 640K, above 1M) a window 0 with the high
copy right behind it, a first window, one above 2 GB reached through the alias, and an
empty one. With one CPU, one tick per test lets each input come before, in and after it; with
several, two are needed for one CPU to be at the next tick while another has not yet looked at
`bail` after the last, and all runs with several CPUs have two. The segments divide into shares of
equal and of unequal size, and with one block left over. `v->pass` is -1, 0 or "more", the only
cases the code tells apart.

In BadRam a list of three is full after few errors, so that widening and merging of wide
pairs happen; six bits leave four to choose from, which is enough for masks of every
width down to none, where the count of addresses wraps. The addresses are a block of
four that merge for free and three that do not.

In MemTest all sizes are scaled but keep their ratios, which `SizesAssumption` states: an address
has 7 bits, a pattern 4, a page 8 words, a section 16, shares in movinv32 and block_move
are multiples of 4 words, and modtst looks at every third word. Segments begin and end
inside sections, one is several sections long, one starts where the BIOS's block ends, one
ends at the top of the address space, where `pe` wraps. With two and three CPUs shares are
and are not a divisor of the segment. Bad bits lie at every edge: of segments, shares and
sections. All shares of a scenario have as many sections as each other (`SectionsAlike`), which is not so in
general (see the hazard at test.c:54), and none is empty, nor a word longer than whole sections
(`ScenariosAssumption`, section 4). Counters stop at five
errors, so that they do stop. Each test runs on its own, from a memory of ones, with `c_iter` 2; the
random pattern is drawn from two each time, so that a stale one shows.

In StartUp a page has three units of address, so that a region can lie strictly inside one, the hole from
640K to 1M is pages 3 to 5, and the new map has room for five entries. The memory maps are typical ones, an
empty one, and each pair of a region that matters with any other on twelve points, of three types: inside,
across, equal, touching, out of order, in the middle of a page. One map has an entry of no size
in the middle of a page, which makes `sanitize_e820_map` end one entry there and begin another, so that
`memsize_820` loses the page: `Whole` excepts it. A map with nothing usable
below the hole is left out: the program itself lies there. Tables are good and bad, with
threads, repeated and disabled entries (also in the first place, also all of them), too many CPUs, a table for a
default configuration, entries after a broken one, and the boot CPU first, last, not reached, or with an id
other than 0 (`bsp`, 0 to 3). With four CPUs each of three others is alive or not.

What is taken for granted of the firmware is `TellsApart`: a MADT's first enabled CPU is the boot CPU, as smp.c:574
says; an MP table gives the boot flag to the boot CPU and ids of their own to all others; a default configuration's other
CPU, which has id 1, is not the boot CPU. On a machine that violates it the program takes the boot CPU's entry for
another CPU and sends the boot CPU, on which it runs, an INIT. What then happens is no longer in the program,
so no machine of the run is of that kind; the theorem has the condition in its statement.

**Deadlock** is checked in all runs but `MCBarrierLone` and `MCSchedulerSkip`, whose
finding is that the program stops, and `MCSchedulerAll`, where it stops for the reason of the latter:
a change of the CPU mode sets `bail` as a skip does. `StopsOnlyOvertaken` says there that it is the only reason.

**Fairness.** In Barrier every CPU is weakly fair: CPUs run in parallel, no scheduler
suspends them, and the code between two barriers is finite. The lock is not assumed to
be fair; `CallsReturn` holds because a CPU takes it at most twice in a round. Scheduler
assumes only that the machine does not stop while some CPU can take a step. In BadRam a
pending `relocateiffree` takes its next step, because it is straight-line code. At start-up each
CPU runs on its own (`Other(c)` is weakly fair for each), the boot CPU's loop has a timeout,
and a CPU that is alive answers some time, before or after it. MemTest states safety only.

## 4. Findings

1. **One selected CPU of several hangs** (`CallsReturn` in `MCBarrierLone`). `barrier()` returns
   at once if `num_cpus == 1` but counts `act_cpus`. With `cpumask=1` on a machine with two
   CPUs the first call closes the entry and nobody is left to open it.
2. **Skip in parallel mode can hang** (`KeepsScheduling` in `MCSchedulerSkip`). `bail` is read
   after the tick's barrier. A CPU that is late reads the `bail` of the next tick, leaves for
   the main barrier, and the master waits for it at that tick.
   A change of the CPU mode does the same.
3. **"Default Tests" redirects the test in progress** (`NeverTestsItself` in
   `MCSchedulerDefault`). It recomputes the ticks, which overwrites `v->map`, without ending
   the test; in window 0 the new bounds contain the running program.
4. **Skipping a bit fade fill still checks** (`FadeChecksFilled` in `MCSchedulerFade`): the
   skip ends the stage and the next stages follow, so errors are reported in memory that was
   never filled.

5. **BadRAM patterns get lost** (`FaultyCovered` in `MCBadRamLost`). `relocateiffree` goes on
   from `newidx`, but when that was the last slot its pair has just been moved to `idx`. The
   slot it reads is beyond the list and still holds the old copy, so the pair is "merged"
   with itself and the list shortened once more. Faults at 8, 4, 0, 0xC leave no pattern;
   the arithmetic does not depend on the word size.

Other disagreements came up that have no run of their own; the models do as the code does, and
the properties say where they stop:

* main.c:965: `sp2 = ~p1`, and `p1` is 0. The random pattern's complement is always all ones.
* test.c:1455, 1494: bit fade neither fills nor checks the last word of each section; test.c:1002:
  modtst checks nothing in the last 21 words of a share. `FaultFound` leaves these words out.
* test.c:97-163: addr_tst1 writes to words outside all segments, tests every fourth bank only
  (`p += bank` counts words), no bank that a segment starts with, and not bit 17.
* test.c:54: shares with different numbers of sections bring the ticks out of step; a segment
  of less than 256 bytes for each CPU makes shares of movinv32 that end before they begin, each CPU
  works on one word outside its share, and on healthy memory they report errors. This takes 17 CPUs and a
  segment of a page; test.c:63 says that it "probably will never happen".
* test.c:634, 885: a sweep down through a share one word longer than whole sections would begin its last
  section at `p = start - 1` and run round the address space. Segments are whole pages, or begin at
  0x500, and CPUs are at most 32, so that no share has such a length.
* error.c:207, 383: the numbers of the tests are old ones. Block move is test 6 now, the test
  whose errors are kept from the BadRAM patterns is the random pattern (5), and the step of
  8 bytes is that of movinv32 (7).
* error.c:208: two neighbours that fail in turn make a run that grows without end.
* error.c:154-183: page and offset of the lowest (highest) error are taken on their own, so
  that the address shown may be that of no error; it is still a bound.
* smp.c:810: "Turning off SMP" turns nothing off. A CPU that never answers stops all others at the
  first barrier; one that answers late may share the boot stack with the next.
* smp.c:331: the MP table's CPUs count though they are not enabled or threads of one core; smp.c:361: an interrupt entry
  swallows the one that follows.
* main.c:77: `bin_mask` begins as all ones and is shifted, so that fewer than eight digits leave the
  upper CPUs selected.
* memsize.c:70-93: `sort_pmap` moves the wrong elements: of a segment that is out of order, or that begins where
  another does, one may be lost or doubled, though mem_size says "Guarantee that pmap entries are in ascending
  order" (memsize.c:60). `Tame` leaves such maps out of the properties.
* memsize.c:141: an entry that holds all of the hole from 640K to 1M is not cut, though "Don't ever use memory
  between 640 and 1024k". memsize.c:153: an entry inside of a page becomes a segment that ends before it begins, and
  adj_mem then counts one page less than there are (`Forward`, which `BarrierKeptOut` supposes).
* smp.c:622-650, 663-665: the comments say that the MP table is searched first, "since there is no way to distinguish
  real cores from hyper-threads in the MADT". The code takes a good MADT if there is one, tells threads by the bits of
  their ids, and looks for an MP table only without it. The model does as the code.

Four more concern several CPUs in the test loop:

* The restart of main.c:566-569 is done by every CPU after a barrier, and the master's `next_test` (main.c:765-800)
  can come between, so that the tests go on with the second; main.c:81 says "Restart from first test".
* main.c:874: from the high copy the master takes the lower limit for the start of the first segment. If it lies in a
  hole of the memory map, the hole is tested (`KeepsToLimits` says only that it is within the limits); with the
  limit at page 0x9f even the page of the barrier is, which main.c:426-427 wants to be "reserved for locks". And between main.c:874 and 881 the start is 0 for a moment, in which another CPU may read it, though
  main.c:877 says "We must not touch test below 0x500": the CPUs of the parallel address test (test 2) and of the
  first loop of block_move, which do not wait for the master before they read `v->map`. If in block_move they then divide
  segments of different sizes, a few words between their shares are left out.
* A CPU that was not selected and is late (main.c:596) can read a `win_next` that is already
  advanced, leave the loop over the windows first, and reset `win_next`, `window` and `bail`
  (main.c:737-739); the master then does the test once more. Two CPUs may also both increment `window`
  (main.c:611-613), which does no harm: it is assigned anew at each turn.
* `c_iter` can be computed from a test number that is about to change (`ItersRight`).

With one CPU `ItersRight` fails too if a list of tests may be entered (config.c:106-153, which `AnyInput`
leaves out). Unlike "Select test" that entry sets `pass` to -1 without
`restart_single_flag`. If the search for the next test then comes back to the test in progress, `test_setup`
finds `test == ltest` and keeps the iterations of a later pass, though `pass` is 0 again.

## 5. The proofs

`Barrier_proofs` proves for any set of 1 to 32 CPUs (`CPUsAssumption`; `MAX_CPUS` is 32):

* `Typing`: `Spec => []TypeOK`
* `Invariance`: `Spec => []BarrierInv`
* `Refinement`: `Spec => ImplementsSafe`, the safety part of Rendezvous

The invariant has four parts that need each other. `MutualExclusion` alone is not
inductive: it needs `LockByte`, which ties the byte to the number of CPUs that hold the
lock or spin, and bounds how far it can be decremented (so that a signed byte does not
wrap). `CountInv` says that the count is the number of CPUs that are not absent, which
makes "the last one" in the code really the last one. `PhaseInv` says for each value of
`(st1, st2)` where CPUs can be. There is one lemma for each part (`LockStep`, `CountStep`,
`PhaseStep`, `LabelStep`) with a step per action, and `NextInv` combines them. The
refinement then reads the meeting point's steps off `PhaseInv`: raising `st2` is `Open`
because everyone else is waiting, `Reopen` to `Return` is invisible.

`BadRam_proofs` proves for any word size and length of the list:

* `Typing`: `Spec => []TypeOK`
* `KeepsCover`: `Spec => LiveStepsKeepCover`
* `KnownAreCovered`: `Spec => []KnownIsCovered`
* `CoveredAtLeast`: `Spec => []CoveredUntilAstray`

`CombineCovers` says that the combination of two pairs covers what either does.
`CheapIndexRange` says that a search ends with an index of the list or none; the `CHOOSE`
in it needs a cheapest index to exist, which comes from the well-foundedness of `<`. A
step of `relocateiffree` then keeps each address covered: if `idx` is in the list and is
not found itself, the pair that covered the address is still in the list, merged, or
moved. `Live` is exactly what finding 5 breaks.

The code does not compare an address with a pattern. It asks whether adding it would cost
nothing, where the cost is a difference of counts of addresses, modulo 2^W. `Counted` reduces a
count to a power of two and `FreeIsCovered` shows that a cost of 0 means that the combined
mask has as many bits as the old one, hence is the old one. That needs every mask to
leave out the two lowest bits (`Masked`, inductive): otherwise a count could wrap to 0. In the other direction,
`EvenCount` and `CostBelowAny` show that no cost reaches the "infinite" one from which the search starts, as
costs are even. So `insertaddress` covers its address also in a full list (`InsertCovers`), and with `KeepsCover`
all that was ever inserted stays covered, until a call of `relocateiffree` is not live (`astray`). `PowerAssumption` says what 2^n means, of which the provers know nothing.

`SmpBoot_proofs` proves for every `MAX_CPUS`, whoever answers and when, `SafeSpec => []P` for
`TypeOK`, `OrdinalsUnique`, `NobodyEarly`, `OneOnBootStack` and `OrdinalsDense`. The invariant `IInv`
has parts that need each other:

* `PlaceInv`: which CPUs can be where, given CPU 0's place: those not yet started are off, and
  only CPUs below `next` can have answered.
* `NumberInv`: mutual exclusion between `Lock` and `SetOrd`; `cpu_ord` is the number of numbered CPUs,
  each has an ordinal below it, and no two have the same. The value read is still `cpu_ord`
  when it is written, because of the mutex.
* `StackInv`: whoever is on the boot stack is the one CPU 0 waits for, or has been given up.
* `NobodyEarly` itself: the barrier opens when `act_cpus` CPUs have come, `act_cpus` is the number of
  those selected, and only selected ones come; a finite set with as many elements as a
  set that contains it is that set.
* `StartedInv`: the tests have begun only when somebody is past the barriers.

`OrdinalsDense` then follows by counting: n different numbers below n are all of them.

`StartUp_proofs` proves, for any firmware tables, memory maps and command lines:

* `StartsAsSmpBoot`: `StartSpec => SafeSpec`, so that all of the above holds of the composition
  (`StartIsSafe`). A step of the composition is one of SmpBoot because the number of CPUs found is between
  1 and `MAX_CPUS`, whatever the tables say.
* `CpusAreIdentified`: `StartSpec => []CpusIdentified`. On machines with `TellsApart` each CPU counted finds its own
  number by the id it really has; CPU 0's is that of the CPU the program was booted on, not what the table says. That
  there is one CPU for each core is said of a MADT only.
* `RamIsTested`: `StartSpec => []TestsTheRam` and `BarrierIsKeptOut`: `StartSpec => []BarrierKeptOut`, for e820 maps of
  any length, in any order and with any overlaps, and any sizes of a page and the hole
  (`MapsAssumption` says only that they are natural numbers, and that a page is not empty). Both
  properties speak of maps for which the new map has room and that give segments in
  ascending order (`Tame`), as `sort_pmap` moves the wrong elements of others; the second only of maps no segment of which
  ends before it begins (`Forward`).

The tables are parsed by folds over sets of indices, taken in ascending order. `FoldExists` shows by induction
over the greatest index that such a fold has a value; `MadtFold` and `MpFold` then carry through the
fold how many CPUs have been counted and that those counted have different APIC ids. `MadtStep` and `MpBootStep` carry
that the boot CPU, wherever its entry is, becomes CPU 0 and no other.

The proof about the memory map follows `mem_size()` through its four loops; `FoldRuns` turns each into
a run whose k-th value is that after k elements, and the facts are invariants of the run.

* `Ranked` (elements of a finite set, each with as many before it as its rank says, are a list of
  all of them in order) gives `PointPlaces`: the change points are sorted, and each entry's start comes
  before its end. So the entries open after k points (`Opened`) are those that have each
  address up to the next one (`OpenBetween`), whatever the order of points at the same address.
* `RightSoFar` is the invariant of `sanitize_e820_map`. Its entries tell the type of what they hold and
  ascend; what lies before `Frontier` and has a type is in one; what lies from there to the last
  point is of the type that is open. It also needs to say where an entry ends: the type changes
  there, or an entry of no size lies there. Without it a page of one kind could be cut in two and lost.
  `NoChange` is why: between two addresses of the same type no order of the points makes the open type another.
* `KeptSoFar` is that of `memsize_820`: segments are those of the usable entries beside the hole, and
  ascend. `PageRounds` has the arithmetic of pages.
* `SortedAlready`: `sort_pmap` leaves a map alone whose starts ascend. Its first step writes
  before the array all the same, which is why `Sorting` says nothing of that place.
* `AllSelected`: `adj_mem` between 0 and the last page is the number of different pages.

`Scheduler_proofs` proves, for any number of CPUs, tests, memory map and menu
(`SchedulerAssumption`: at least one CPU, and windows that are not empty; `PlacesAssumption`: where the two
copies lie, and that a test asks for one CPU or for all; `CoverAssumption`, for coverage only: the copies'
windows leave no gap, 0x100 pages to 3 or 32 MB in main.c:447-479, and a test ticks at least once), `SafeSpec => []P` for

* `StartupExclusive` (`OneInStartup`). The invariant says who may be between `run_at`'s
  `spin_lock` and the `spin_unlock` at the top of `test_start`, two functions of two copies
  of the program: only the holder of the mutex. All other steps stay outside (`Elsewhere`).
* `SameBarrier` (`MeetAtSameBarrier`), `CopiesToFreePlace` (`CopyIsElsewhere`) and `TestersCounted` (`RunCpusTest`).

The last three are one invariant, `StagesInv`. Between two openings of the main barrier the CPUs are in one of
a few *stages*: choosing a window (with the copy low, or high), moving, returning, picking the CPUs
of a test, in a window, after it. `Stages` says that all CPUs are in the same stage: on its way, or waiting at
its end, or not yet gone from the barrier before. For each stage it says what the globals
and each CPU's `loc` can be meanwhile. Who decides whether to relocate reads `window`, which the CPUs set each on their own;
the invariant has to say that they all decide the same, and `MeetStep` that when the barrier opens one stage
leads to one other. `RunInv` counts: who has been picked by `PickCpu` for this window, and that `run_cpus` and the master
are what all of them have made of it, so that exactly they test.

For one CPU (`OneCpu`: also without "Enter Test List") it proves what is false of several (section 4):

* `LoneIterations`: `ASSUME OneCpu PROVE SafeSpec => []ItersRight`. The invariant `OneInv` has three parts.
  `Findable`: some test is selected, so that the search ends at one and `test` is one whenever a test is set up
  (`TestsAssumption`: there is a test, and config.c:91 takes only numbers of tests). `Leaving`: a test that the menu
  has replaced ends before it accesses memory again, and `restart_single_flag` is off
  when the next is looked for. `Iterated`: as long as it is off, `ltest` is -1 or `c_iter` belongs to `ltest` and this pass.

`WindowShowsSegment` proves that the blocks of a segment within a window, written through
`mapping()` and `emapping()` and read with the window mapped in, are those blocks: the
aliases above 2 GB lose none and reach no other window.

`SchedulerWindows_proofs` proves that no CPU tests the program's running copy if the menu has no "Default Tests"
(`SelfIsNotTested`: `ASSUME NoDefault PROVE SafeSpec => []NeverTestsItself`); with that entry the property is
false (finding 3). The high copy lies beyond the end of window 1, so the danger is window 0 tested from the low
copy, and any other window reaching the high one. `SelfInv` is `StagesInv` with

* `Fields`, types of what the menu can change, and that without "default" it does not touch `v->map`;
* `Teamed` and `Chosen`, who takes part in a test and that they all do before the sub barrier opens;
* `Numbered`, which windows and limits are possible in which stage;
* `Inner`, the place of each CPU in the window: from which block on it tests (`TestFrom`), or that it is past
  the end of the windows (`PastEnd`). CPUs read `window`, `segs` and `v->map` at their own pace,
  so each must be right until the slowest has read it.

`SegmentsAvoid` and `SegmentsBeyond` say what `compute_segments` yields. It lists the entries of the map that
reach into the window in their order: `Numbering` shows that a finite set of numbers has a k-th element,
and `SegmentsFound` reduces the list to its elements.

The same module proves, for any number of CPUs and a menu without "Default Tests", that nothing is left out
(`TestCoversAll`: `SafeSpec => []FullCoverage`), if each test goes over whole segments or no CPUs are put in parallel mode. With
shares the coverage of a window is not the master's progress but the sum of all, at a moment when the others may
already be gone; that case is model-checked in `MCSchedulerAll`, and `ChunksCover` proves of the shares themselves
that they leave nothing out. What has to be shown is that relocation, which makes the order of the windows
depend on where the copy is, and a window with no memory in it, which is skipped by a path of its own, lose nothing, and that
the CPUs, which read `window`, `v->map` and `bail` at their own pace, do not spoil it for each other. `CoverInv` is

* `Order`: what `win_next` says of the next window, and that only the master (`Master`) takes windows and ends a test;
* `MasterProgress`, how far the master has come, wherever the others are: between windows all blocks to be covered below
  `Frontier`, the end of the last window, have been tested (`Below`). Inside one, they are framed by the window's bounds
  (`Framed`), are in its segments (`Listed`), and at its end they are tested (`Tested`). At the end of a test nothing
  is left. `TakeStep` shows that a test of the windows above 3 or 32 MB starts where window 1 has ended;
* `RestartWaits` and `Defaulting`: another CPU can only add to what is tested, or start the windows over, which it must not do
  under a master that tests. A restart therefore waits: the flag stays up until the master ends the test, and while any CPU sets
  the defaults the window is 0 and the master is not in one;
* `BailKnown`: a master that reads `bail` and leaves a loop knows of a key that interrupted the test. This is recorded, so
  a loop left for any other reason would have to keep the progress;
* `Exempt`, when nothing has to be shown: a test that a key has interrupted, and a bit fade that sleeps or is over.

`ProgressStep` does the steps of the master, `OthersLeave` and `Undisturbed` those of the others. When the CPUs of the next test are
chosen the master changes, or there is none for a while (`PickCpu`); then nobody tests, and the progress is of no one.

`Sweeps_proofs` first proves of `calculate_chunk`, for every segment, number of CPUs and unit, that the
shares lie inside the segment (`ChunkInside`), have no word in common (`ChunksDisjoint`) and
leave none out (`ChunksCover`). The provers know little of products and quotients; the
lemmas derive what is needed from `x = (x \div m) * m + x % m`.

On this it proves, for all scenarios, faults and sizes (`SizesAssumption`, `ScenariosAssumption`), that a CPU writes nowhere outside
its share: `Spec => []StaysInShare` (`CpusStayInShares`). The invariant `SweepInv` (`CpusArePlaced`) says of each CPU
where `p` and `pe` can be. `InSpan` has a case for each kind of loop, as they leave `p` in different places: one past
the section upwards, one before it downwards, on the last word looked at in modtst, on the last pair in
block_move's check. When a segment is not whole sections long the last one is cut at `end`, and
`pe` then does not move, which is how the code knows that it is done; the proof shows that at each
tick `p` lies in the share and what is left of it beyond `p`. `InWalk` is addr_tst1. Then:

* `UpwardsWithin`, `BlocksWithin`, `DownWithin`, `EveryWithin`, `BelowWithin`: the words an inner loop comes by lie between
  `p` and `pe`, although it compares with `pe` after it has worked on a word, for equality downwards, and modulo 2^A.
* `SweepExists`, `SweepKeeps`: a sweep is a fold over those words; by induction over their number it writes only to them
  and finds only errors of the kind it looks for.
* `KindsOfCall`, `LoopKinds`: what the calls and loops of every test are.

`MemTest_proofs` proves for the same memory tests that what the screen shows is true of the errors reported, `Spec => []P` for
`SummaryRight`, `RunNeedsNeighbours` and `ErrorsShown`. The counters are updated from each other and from
the last error only, so each property needs to know what the others' fields mean: `LogInv` has a part for the sums and extremes
(`Summed`), the length of a run (`Running`), lines shown (`Shown`) and addresses collected for the
patterns (`Collected`). That an error reported is one the log expects comes from `Sweeps_proofs` (`ErrorsAreKnown`).

The same module proves that CPUs which wait for each other wait in the same loop of the same call (`TestsInStep`), under the one
hypothesis that all shares of a segment have as many sections as each other: `ASSUME \A s \in Scenarios : SameSections(s) PROVE
Spec => []InStep`. Without it the property is false: one CPU's tick of a section is then another's of the next sweep (hazard at
test.c:54). TLC evaluates `SameSections` for the scenarios of the run (`SectionsAlike`). `InStep` is not
inductive: it says nothing of CPUs that do not wait, and they go at their own pace and report errors in between. The invariant,
`Together`, is about where they will be:

* `Goal` is the place where a CPU will wait next, however many errors it reports and calls it begins before that. It is found
  without taking a step, from its place, its share and the list of calls;
* `SamePlace` compares two CPUs in their own shares: the same call, sweep and segment, and as much of the share behind them (`Past`).
  `Together` says that the goals of all are the same place. A CPU that moves does not change its goal (`GoalKept`, `OneMoves`). When the barrier
  lets all go, all are at their goals, and `OnwardAlike` shows that from the same place they get to the same next one;
* `Marks` says what a section can begin with. In `block_move`'s check each section begins two words short of where the
  one before has ended, so the beginnings are not multiples of a section; `SectionEnds` derives each from the one before, and `SameEnds` that
  then all shares are at their last section or none is.

Only model-checked:

* Liveness, fairness in the refinement of Rendezvous, deadlock: out of the prover's reach.
* `KeepsToLimits`, which is false of several CPUs (section 4).
* `FullCoverage` where CPUs in parallel each test a share.
* `FullCoverage` after "Default Tests", which `SelfIsNotTested` needs excluded as well: no run or proof says anything of it.
* `Scheduler.TypeOK`: only the parts needed are proved (`Typed`, `Fields`). Its bound on `test` depends on the numbers
  the user types being those of tests, which the code does not check in all entries and the runs' inputs are.
* `NoFalseErrors`, `FaultFound` and `MemTest.TypeOK` depend on what the memory holds, that is, on the arithmetic of patterns
  and of powers of two.
* `InStep` for shares with different numbers of sections, where it does not hold.
* What `sort_pmap` makes of segments that are out of order: in the model, but no property speaks of it.

## 6. Plan

Done: all modules of section 2, with proofs about Barrier, BadRam, SmpBoot, StartUp, Scheduler, Chunks,
MemTest and ErrorLog.

Left: MemTest with CPUs that leave a test early, so that what Scheduler says of ticks and what
MemTest says of sections meet in one model.

## 7. Not modelled, and why

ELF relocation (reloc.c) and boot assembly are sequential transformations of bytes, and what they
must preserve, that the program goes on as if nothing had happened, is what Scheduler takes for
granted. Hardware identification (init.c, cpuid.c) reads registers and prints names. Screen
and serial output are display; the keyboard enters as the menu. Of the command line only what
decides which CPUs start is modelled, of the MP and ACPI tables only their entries; searching
the memory for a table is a loop over addresses with a checksum. `memsize_linuxbios` is called by
nothing. Page tables (`map_page`) enter as what an address reaches. Caches and
memory ordering are taken to be those of x86 with locked and volatile accesses: stores of
one CPU become visible in order.
