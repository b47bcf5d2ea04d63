----------------------------- MODULE MCStartUp -----------------------------
EXTENDS StartUp

Entry(a, b, type) == [addr |-> a, size |-> b - a, type |-> type]

(* Three units to a page, the hole from page 3 to page 5.  Entries begin and*)
(* end at pages and inside of them, two in the same page among them.        *)
Points == {0, 3, 4, 5, 8, 9, 12, 15, 16, 17, 18, 24}
Spans  == {<<a, b>> \in Points \X Points : a < b}
Some   == {Entry(0, 9, 1), Entry(0, 8, 1), Entry(3, 18, 1), Entry(18, 24, 2), Entry(12, 30, 1)}

(* Maps as BIOSes give them, and two entries that may overlap, be out of    *)
(* order, or cut pages.                                                     *)
Typical ==
    {<<Entry(0, 9, 1), Entry(12, 15, 2), Entry(15, 30, 1)>>,
     <<Entry(0, 7, 1), Entry(7, 9, 2), Entry(15, 26, 1), Entry(26, 30, 3), Entry(30, 36, 2)>>,
     <<Entry(15, 36, 1), Entry(0, 9, 1), Entry(21, 22, 2), Entry(30, 33, 4)>>,
     <<Entry(0, 9, 1), Entry(9, 15, 2), Entry(15, 21, 1), Entry(21, 24, 3), Entry(24, 30, 1)>>,
     <<Entry(0, 6, 1), Entry(9, 15, 1), Entry(15, 45, 1), Entry(45, 51, 2)>>,
     <<Entry(0, 9, 1), Entry(15, 30, 1), Entry(20, 20, 2)>>,
     <<Entry(0, 6, 1), Entry(7, 8, 1), Entry(15, 30, 1)>>,
     <<>>}
Pairs == {m \in {<<e, Entry(s[1], s[2], t)>> : e \in Some, s \in Spans, t \in 1 .. 3} :
            MemSize(m, 0, 12) # <<>>}

Cpu(id) == [id |-> id, enabled |-> TRUE]
Madt(cpus, bits) == [good |-> TRUE, cpus |-> cpus, bits |-> bits]
NoMp == [good |-> FALSE, entries |-> <<>>]
NoTables == [rsdp |-> "none", madts |-> <<>>, fp |-> "none", mp |-> NoMp]
Acpi(madts) == [NoTables EXCEPT !.rsdp = "good", !.madts = madts]

MpCpu(id, boot) == [kind |-> "cpu", id |-> id, boot |-> boot, local |-> TRUE]
MpOther(kind) == [kind |-> kind]
Mp(entries) == [NoTables EXCEPT !.fp = "table", !.mp = [good |-> TRUE, entries |-> entries]]

FirmwareTables ==
    {Acpi(<<Madt(<<Cpu(2), Cpu(4), Cpu(6)>>, 0)>>),
     Acpi(<<Madt(<<Cpu(0), Cpu(1), Cpu(2), Cpu(3), Cpu(2)>>, 1)>>),
     Acpi(<<Madt(<<Cpu(0), Cpu(2), [Cpu(1) EXCEPT !.enabled = FALSE], Cpu(4), Cpu(5), Cpu(6)>>, 0)>>),
     Acpi(<<[Madt(<<>>, 0) EXCEPT !.good = FALSE], Madt(<<Cpu(0), Cpu(0), Cpu(8)>>, 2)>>),
     Acpi(<<Madt(<<[Cpu(1) EXCEPT !.enabled = FALSE], Cpu(3), Cpu(0), Cpu(5)>>, 0)>>),
     Acpi(<<Madt(<<[Cpu(1) EXCEPT !.enabled = FALSE]>>, 0)>>),
     [Acpi(<<>>) EXCEPT !.fp = "default"],
     [NoTables EXCEPT !.rsdp = "bad", !.fp = "default"],
     Mp(<<MpCpu(3, FALSE), MpCpu(1, TRUE), MpOther("bus"), MpOther("intsrc"), MpOther("lintsrc")>>),
     Mp(<<MpCpu(1, TRUE), MpCpu(2, FALSE), [MpCpu(3, FALSE) EXCEPT !.local = FALSE], MpCpu(4, FALSE)>>),
     Mp(<<MpCpu(1, TRUE), MpOther("intsrc"), MpOther("unknown"), MpCpu(2, FALSE)>>),
     Mp(<<MpCpu(0, FALSE), MpCpu(2, TRUE), MpCpu(3, FALSE)>>),
     Mp(<<MpCpu(3, FALSE), MpOther("unknown"), MpCpu(1, TRUE)>>),
     [NoTables EXCEPT !.fp = "table"]}

Machine ==
    [e820 |-> <<Entry(0, 9, 1), Entry(15, 30, 1)>>, alt_mem |-> 0, ext_mem |-> 12,
     tables |-> NoTables, bsp |-> 0, maxcpus |-> 32, digits |-> <<>>, alive |-> CPUs \ {0}]

MCMachines ==
    {[Machine EXCEPT !.e820 = m] : m \in Typical \cup Pairs}
    \cup {m \in {[Machine EXCEPT !.tables = t, !.maxcpus = n, !.bsp = id] :
                     t \in FirmwareTables, n \in {1, 2, 32}, id \in 0 .. 3} : TellsApart(m)}
    \cup {[Machine EXCEPT !.tables = t, !.bsp = 2, !.digits = d, !.alive = a] :
             t \in {Acpi(<<Madt(<<Cpu(2), Cpu(4), Cpu(6), Cpu(8)>>, 0)>>)},
             d \in {<<>>, <<1, 0, 1>>, <<0, 1, 1, 0>>, <<0, 0, 0, 1>>}, a \in SUBSET {1, 2, 3}}
=============================================================================
