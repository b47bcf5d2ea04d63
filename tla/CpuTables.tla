----------------------------- MODULE CpuTables -----------------------------
(***************************************************************************)
(* How many CPUs there are, and their APIC ids, from what the firmware left*)
(* in memory: the ACPI MADT or, failing that, the MP floating pointer with *)
(* its configuration table (smp_find_cpus in smp.c); and what the command  *)
(* line makes of them (parse_command_line in main.c).                      *)
(*                                                                         *)
(* Signatures and checksums are right or wrong.  r is what is filled in:   *)
(* num_cpus, found_cpus and cpu_num_to_apic_id.                            *)
(***************************************************************************)
EXTENDS Integers, SequencesExt

CONSTANT MAX_CPUS       \* 32

NoCpus == [num_cpus |-> 1, found_cpus |-> 0, ids |-> [c \in 0 .. MAX_CPUS - 1 |-> 0]]

----------------------------------------------------------------------------
(* parse_madt(): of the threads of a core only the first counts.  bits is   *)
(* logical_CPU_bits, the number of bits of an APIC id that tell the threads *)
(* of a core apart; how cpuid gives them is left out.                       *)

CoreOf(id, bits) == id \div 2^bits

(* Mutant: the boot CPU is not looked at. *)
SameCoreMutant(r, id, bits) ==
    {i \in 1 .. r.num_cpus - 1 : CoreOf(r.ids[i], bits) = CoreOf(id, bits)}

SameCore(r, id, bits) ==
    {i \in 0 .. r.num_cpus - 1 : CoreOf(r.ids[i], bits) = CoreOf(id, bits)}

(* Mutant: there is room for one CPU more. *)
FullMutant(r) == r.num_cpus > MAX_CPUS

Full(r) == r.num_cpus >= MAX_CPUS

MadtCpu(r, e, bits) ==
    LET same  == SameCore(r, e.id, bits)
        first == CHOOSE i \in same : \A j \in same : i <= j
    IN  IF ~e.enabled THEN r
        ELSE IF Full(r) THEN [r EXCEPT !.found_cpus = @ + 1]
        ELSE IF r.found_cpus = 0 THEN [r EXCEPT !.ids[0] = e.id, !.found_cpus = 1]
        ELSE IF same = {}
        THEN [r EXCEPT !.ids[r.num_cpus] = e.id, !.num_cpus = @ + 1, !.found_cpus = @ + 1]
        ELSE [r EXCEPT !.found_cpus = IF r.ids[first] = e.id THEN @ ELSE @ + 1]

ParseMadt(r, madt) == FoldLeft(LAMBDA s, e : MadtCpu(s, e, madt.bits), r, madt.cpus)

----------------------------------------------------------------------------
(* read_mp_config_table(): s has r, whether all is well so far, and whether *)
(* the next entry is passed over: MP_INTSRC lacks a break.  A CPU that is   *)
(* not enabled counts.                                                      *)

MpCpu(r, e) ==
    IF e.boot THEN [r EXCEPT !.ids[0] = e.id, !.found_cpus = @ + 1]
    ELSE IF ~Full(r)
    THEN [r EXCEPT !.ids[r.num_cpus] = e.id, !.num_cpus = @ + 1, !.found_cpus = @ + 1]
    ELSE [r EXCEPT !.found_cpus = @ + 1]

MpEntry(s, e) ==
    IF ~s.good THEN s
    ELSE IF s.skip THEN [s EXCEPT !.skip = FALSE]
    ELSE CASE e.kind = "cpu"    -> [s EXCEPT !.r = MpCpu(s.r, e), !.good = e.local]
           [] e.kind = "intsrc" -> [s EXCEPT !.skip = TRUE]
           [] e.kind = "bus"    -> s            \* MP_BUS, MP_IOAPIC, MP_LINTSRC
           [] OTHER             -> [s EXCEPT !.good = FALSE]

ReadMpConfigTable(r, table) ==
    IF ~table.good THEN r
    ELSE FoldLeft(MpEntry, [r |-> r, good |-> TRUE, skip |-> FALSE], table.entries).r

----------------------------------------------------------------------------
(* smp_find_cpus(): the first MADT that is good, of those the RSDT or XSDT  *)
(* lists; else the MP floating pointer.  What a bad MP table has put into r *)
(* stays there.                                                             *)

GoodMadts(t) == {i \in DOMAIN t.madts : t.rsdp = "good" /\ t.madts[i].good}
FirstMadt(t) ==
    t.madts[CHOOSE i \in GoodMadts(t) : \A j \in GoodMadts(t) : i <= j]

SmpFindCpus(t) ==
    IF GoodMadts(t) # {} THEN ParseMadt(NoCpus, FirstMadt(t))
    ELSE CASE t.fp = "default" -> [NoCpus EXCEPT !.num_cpus = 2, !.ids = [@ EXCEPT ![1] = 1]]
           [] t.fp = "table"   -> ReadMpConfigTable(NoCpus, t.mp)
           [] OTHER            -> NoCpus

(* The first half of initialise_cpus(). *)
CpusFound(t, maxcpus) ==
    IF maxcpus > 1
    THEN LET r == SmpFindCpus(t)
         IN  IF r.num_cpus > maxcpus THEN [r EXCEPT !.num_cpus = maxcpus] ELSE r
    ELSE [NoCpus EXCEPT !.found_cpus = 1]

(* smp_my_cpu_num(): 0 for an id that is not in the table. *)
MyCpuNum(r, id) ==
    LET is == {i \in 0 .. MAX_CPUS - 1 : r.ids[i] = id}
    IN  IF is = {} THEN 0 ELSE CHOOSE i \in is : \A j \in is : i <= j

(* cpumask=: digits, each of which stands for one CPU here, are shifted into*)
(* a mask that begins as all ones; those of them that are not shifted out   *)
(* stay.  CPU 0 is always selected.                                         *)
(* Mutant: CPU 0 is selected only if its digit says so. *)
MaskMutant(digits) ==
    {c \in 0 .. MAX_CPUS - 1 : c < Len(digits) => digits[Len(digits) - c] = 1}

CpuMask(digits) ==
    {0} \cup {c \in 0 .. MAX_CPUS - 1 :
                 c < Len(digits) => digits[Len(digits) - c] = 1}

=============================================================================
