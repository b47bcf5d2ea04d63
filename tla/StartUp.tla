------------------------------ MODULE StartUp ------------------------------
(***************************************************************************)
(* Start-up as a whole (main.c:400-567): module SmpBoot, with the memory   *)
(* map of module MemoryMap, which also says where the barrier is, and the  *)
(* CPUs that module CpuTables finds.                                       *)
(***************************************************************************)
EXTENDS SmpBoot, MemoryMap

Tables == INSTANCE CpuTables

CONSTANTS
    Machines,           \* what the firmware says, the command line, and the
                        \* APIC id, bsp, of the CPU the program runs on
    HIGH, LOW, ENOUGH   \* high_test_adr, in pages

VARIABLES
    sc,                 \* the machine; chosen once
    pmap,               \* v->pmap
    selected_pages,     \* v->selected_pages
    barr,               \* the page of the barrier
    high_test_page,     \* high_test_adr
    found               \* what the CPU tables have given

(* Room for the two CPUs of an MP default configuration; lists that are     *)
(* lists, of entries of any kind; CPU 0 is running.                         *)
IsList(s) == Len(s) \in Nat /\ DOMAIN s = 1 .. Len(s)
ASSUME MachinesAssumption ==
    /\ MAX_CPUS > 1
    /\ \A m \in Machines :
          /\ m.alive \subseteq CPUs \ {0} /\ m.maxcpus \in Int
          /\ IsList(m.tables.madts) /\ IsList(m.tables.mp.entries)
          /\ \A i \in DOMAIN m.tables.madts : IsList(m.tables.madts[i].cpus)

(* Entries with addresses, sizes and types.                                 *)
ASSUME MapsAssumption ==
    /\ PG \in Nat \ {0} /\ E820MAX \in Nat
    /\ RES_START \in Nat /\ RES_END \in Nat /\ ADDR_TOP \in Nat
    /\ \A m \in Machines : m.e820 \in Seq([addr : Nat, size : Nat, type : Nat])

allVars == <<vars, sc, pmap, selected_pages, barr, high_test_page, found>>
own == <<pmap, selected_pages, barr, high_test_page, found>>

StartInit ==
    /\ sc \in Machines
    /\ alive = sc.alive
    /\ num_cpus = 1 /\ act_cpus = 0 /\ next = 1
    /\ cpu_mask = CPUs
    /\ at = [c \in CPUs |-> IF c = 0 THEN "begin" ELSE "off"]
    /\ AP = {} /\ late = {} /\ mutex = Free /\ cpu_ord = 0 /\ start_seq = 0
    /\ read = [c \in CPUs |-> 0]
    /\ num_to_ord = [c \in CPUs |-> 0]
    /\ pmap = <<>> /\ selected_pages = 0 /\ barr = 0 /\ high_test_page = 0
    /\ found = Tables!NoCpus

(* Mutant: the barrier's page is not taken from the map. *)
SizeMemoryMutant ==
    LET map == MemSize(sc.e820, sc.alt_mem, sc.ext_mem)
    IN  /\ Begin
        /\ pmap' = map
        /\ selected_pages' = AdjMem(map, 0, map[Len(map)].end)
        /\ barr' = map[1].end - 1
        /\ UNCHANGED <<sc, high_test_page, found>>

(* mem_size(), the page for the barrier, and barrier_init(1). *)
SizeMemory ==
    LET map == MemSize(sc.e820, sc.alt_mem, sc.ext_mem)
    IN  /\ Begin
        /\ pmap' = WithoutBarrier(map)
        /\ selected_pages' = AdjMem(map, 0, map[Len(map)].end)
        /\ barr' = pmap'[1].end
        /\ UNCHANGED <<sc, high_test_page, found>>

FindCpus ==
    LET r == Tables!CpusFound(sc.tables, sc.maxcpus)
    IN  /\ InitialiseCpus(r.num_cpus, Tables!CpuMask(sc.digits))
        /\ found' = r
        /\ UNCHANGED <<sc, pmap, selected_pages, barr, high_test_page>>

GetReady ==
    /\ Ready
    /\ high_test_page' = HighTestPage(pmap, HIGH, LOW, ENOUGH)
    /\ UNCHANGED <<sc, pmap, selected_pages, barr, found>>

BootStep == (BootAp \/ Answered \/ TimedOut) /\ UNCHANGED <<sc, own>>
ApStep(c) == Other(c) /\ UNCHANGED <<sc, own>>
MeetStep == (\E b \in Barriers : Meet(b)) /\ UNCHANGED <<sc, own>>

StartNext ==
    \/ SizeMemory \/ FindCpus \/ BootStep \/ GetReady
    \/ \E c \in CPUs \ {0} : ApStep(c)
    \/ MeetStep
    \/ (Started \/ Hangs) /\ UNCHANGED allVars

StartSpec == StartInit /\ [][StartNext]_allVars /\ Fairness

----------------------------------------------------------------------------
(* Properties.                                                              *)

Sized == at[0] # "begin"

(* The type of a unit of memory: the greatest of all entries that have it.  *)
TypeAt(map, a) ==
    LET types == {map[i].type : i \in {j \in 1 .. Len(map) : map[j].addr <= a /\ a < EndOf(map[j])}}
    IN  IF types = {} THEN 0 ELSE CHOOSE t \in types : \A u \in types : t >= u

Ram(a)  == TypeAt(sc.e820, a) \in {E820_RAM, E820_ACPI}
Hole(a) == RES_START <= a /\ a < RES_END
Units(p) == p * PG .. (p * PG) + PG - 1

New == SanitizeE820Map(sc.e820)
Useful == {i \in 1 .. Len(New) : Usable(New[i])}

(* A map that is reasonable, and which the new map has room for, gives      *)
(* segments, of which each begins after the one before it: those that begin *)
(* together are not sorted but lost or doubled (memsize.c:70).              *)
Built == Memsize820(New)
Tame == /\ Len(New) < E820MAX /\ Built # <<>>
        /\ \A i \in 2 .. Len(Built) : Built[i - 1].start < Built[i].start

(* No segment ends before it begins, as that of an entry inside of a page   *)
(* does: adj_mem() takes a page off for it.                                 *)
Forward == \A i \in 1 .. Len(Built) : Built[i].start <= Built[i].end

(* Entries that hold all of the hole are not cut (memsize.c:141-150).       *)
Covers(e) == e.addr <= RES_START /\ EndOf(e) >= RES_END

(* A page that is RAM of one kind, and in which no entry of no size divides *)
(* one part from the other.                                                 *)
Whole(p) ==
    /\ \E t \in {E820_RAM, E820_ACPI} : \A a \in Units(p) : TypeAt(sc.e820, a) = t
    /\ ~\E i \in 1 .. Len(sc.e820) :
          sc.e820[i].size = 0 /\ sc.e820[i].addr \in Units(p) \ {p * PG}

(* Which pages are tested is what the firmware says of each byte: all pages *)
(* that are RAM, whole, and of one kind, and no others (memsize.c:116,      *)
(* 198).  Only an entry that holds all of it lets the hole be tested.       *)
TestsTheRam ==
    Sized /\ Tame =>
        /\ \A p \in PagesOf(pmap) : \A a \in Units(p) :
              Ram(a) /\ (Hole(a) => \E i \in Useful : Covers(New[i]))
        /\ \A p \in 0 .. PageDown(ADDR_TOP) - 1 : Whole(p) =>
              p \in PagesOf(pmap) \/ p = barr \/ \E a \in Units(p) : Hole(a)

(* The barrier all CPUs meet at lies in RAM and is in no page that is       *)
(* tested, and no page but it is counted and not tested, or counted twice   *)
(* (main.c:428, memsize.c:70).                                              *)
BarrierKeptOut ==
    Sized /\ Tame /\ Forward /\ Built[1].start < Built[1].end =>
        /\ barr \notin PagesOf(pmap)
        /\ \A a \in Units(barr) : Ram(a)
        /\ selected_pages = Cardinality(PagesOf(pmap)) + 1

(* What the program takes for granted of the tables.  A MADT begins with    *)
(* the CPU the program runs on ("the first CPU is the BSP", smp.c:574); in a*)
(* default configuration that is not the one with id 1; the boot CPU's entry*)
(* of an MP table, and no other, has the flag, the others have ids of their *)
(* own, and where one of those is 0, as ids are that are not filled in, the *)
(* boot CPU's entry is read.                                                *)
EnabledIn(cpus) == {i \in DOMAIN cpus : cpus[i].enabled}
FirstIs(cpus, id) ==
    \A i \in EnabledIn(cpus) : (\A j \in EnabledIn(cpus) : i <= j) => cpus[i].id = id

CpusIn(es) == {i \in DOMAIN es : es[i].kind = "cpu"}
ApsIn(es)  == {i \in CpusIn(es) : ~es[i].boot}
IsRead(es, i) == \A j \in 1 .. i - 1 : j \in CpusIn(es) /\ es[j].local
OwnIds(es, bsp) ==
    /\ \A i \in CpusIn(es) : es[i].boot <=> es[i].id = bsp
    /\ \A i, j \in ApsIn(es) : i # j => es[i].id # es[j].id
    /\ (\E i \in ApsIn(es) : es[i].id = 0) => \E i \in CpusIn(es) : es[i].boot /\ IsRead(es, i)

TellsApart(m) ==
    IF Tables!GoodMadts(m.tables) # {} THEN FirstIs(Tables!FirstMadt(m.tables).cpus, m.bsp)
    ELSE /\ m.tables.fp = "default" => m.bsp # 1
         /\ m.tables.fp = "table" => OwnIds(m.tables.mp.entries, m.bsp)

(* The ids the CPUs really have: a CPU that is started is the one with the  *)
(* id the startup IPI was sent to (smp.c:231).                              *)
RealId(c) == IF c = 0 THEN sc.bsp ELSE found.ids[c]

(* Each CPU finds its own number by its APIC id, and of each core of a MADT,*)
(* that of the boot CPU included, one CPU runs, unless there are too many   *)
(* (smp.c:466, 818).                                                        *)
CpusIdentified ==
    at[0] \notin {"begin", "tables"} /\ TellsApart(sc) =>
        /\ \A c \in Counted : Tables!MyCpuNum(found, RealId(c)) = c
        /\ Tables!GoodMadts(sc.tables) # {} /\ sc.maxcpus > 1 =>
             LET madt  == Tables!FirstMadt(sc.tables)
                 ids   == {sc.bsp} \cup {madt.cpus[i].id : i \in EnabledIn(madt.cpus)}
                 cores == {Tables!CoreOf(id, madt.bits) : id \in ids}
                 limit == IF sc.maxcpus < MAX_CPUS THEN sc.maxcpus ELSE MAX_CPUS
             IN  /\ num_cpus = IF Cardinality(cores) > limit THEN limit ELSE Cardinality(cores)
                 /\ \A c, d \in 0 .. num_cpus - 1 : c # d =>
                      Tables!CoreOf(RealId(c), madt.bits) # Tables!CoreOf(RealId(d), madt.bits)

(* The tests begin, on all CPUs, unless one that is selected never answers: *)
(* then all wait for it, whatever the message says (smp.c:808).             *)
Settles == <>(Started \/ Hangs)

=============================================================================
