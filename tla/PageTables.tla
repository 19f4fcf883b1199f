----------------------------- MODULE PageTables -----------------------------
(***************************************************************************)
(* Translation of kernel virtual addresses by the page tables found in the *)
(* dump, for every architecture.                                           *)
(*                                                                         *)
(* The walks of the architectures are the same walk with differences that  *)
(* are exactly what can be wrong in them, so a walk is described by        *)
(*   levels    the level of the root; 1 is the level of the pages          *)
(*   checked   the levels where an entry that is not present ends the walk *)
(*   large     the levels where an entry may map memory                    *)
(*   aligned   whether the address of such an entry is cut to its size     *)
(*   whole     whether the offset in a large page is the whole offset      *)
(*   foldedAs  the level whose size is used for a large page of a level    *)
(*   span      the levels whose index keeps the bits of the level above    *)
(*   unscaled  whether the index of the last table counts bytes, not words *)
(* An entry is [p |-> present, large |-> maps memory, to |-> the frame of  *)
(* the next table or of the memory, attr |-> an attribute bit that large   *)
(* entries keep in the lowest bit of their address].                       *)
(***************************************************************************)
EXTENDS Integers, Sequences, FiniteSets

CONSTANTS
    PageBits,     \* PAGESHIFT()
    IndexBits     \* bits of the index of each table

NotPaddr == -1

\* What an entry read by mistake holds.
Garbage == -2

PageSize == 2 ^ PageBits

Entries == 2 ^ IndexBits

\* The bytes an entry of a level maps: 1 << PTE_SHIFT, PMD_SHIFT, ...
Size(l) == 2 ^ (PageBits + (l - 1) * IndexBits)

Index(v, l) == (v \div Size(l)) % Entries

Paddr(frame) == frame * PageSize

Offset(v, size) == v % size

Aligned(v, size) == (v \div size) * size

-----------------------------------------------------------------------------
(***************************************************************************)
(* The walk.                                                               *)
(***************************************************************************)
NoEntry == [p |-> FALSE, large |-> FALSE, to |-> 0, attr |-> 0]

Readable(mem, frame) == frame \in DOMAIN mem

\* The word that is read at index i of a table; i may be past its end.
WordAt(mem, table, i) == mem[table + i \div Entries][i % Entries]

IndexRead(mmu, v, l) ==
    IF l \in mmu.span THEN (v \div Size(l)) % (Entries * Entries) ELSE Index(v, l)

\* Variant: the offset in a page of the last level.
LargePaddrShort(mmu, e, v, l) ==
    Aligned(Paddr(e.to + e.attr), Size(mmu.foldedAs[l])) + Offset(v, PageSize)

LargePaddr(mmu, e, v, l) ==
    LET size == Size(mmu.foldedAs[l])
        addr == Paddr(e.to + e.attr)
    IN  (IF mmu.aligned THEN Aligned(addr, size) ELSE addr)
          + Offset(v, IF mmu.whole THEN size ELSE PageSize)

RECURSIVE Walk(_, _, _, _, _)
Walk(mmu, mem, table, v, l) ==
    LET i == IndexRead(mmu, v, l)
        e == WordAt(mem, table, i)
    IN  IF ~Readable(mem, table + i \div Entries) THEN NotPaddr
        ELSE IF l = 1 /\ mmu.unscaled /\ i # 0 THEN Garbage
        ELSE IF l \in mmu.checked /\ ~e.p THEN NotPaddr
        ELSE IF l = 1 THEN Paddr(e.to) + Offset(v, PageSize)
        ELSE IF l \in mmu.large /\ e.large THEN LargePaddr(mmu, e, v, l)
        ELSE Walk(mmu, mem, e.to, v, l - 1)

Plain(levels) ==
    [levels |-> levels, checked |-> 1 .. levels, large |-> {}, aligned |-> TRUE,
     whole |-> TRUE, foldedAs |-> [l \in 1 .. levels |-> l], span |-> {}, unscaled |-> FALSE]

vtop4_x86_64(la57) == [Plain(IF la57 THEN 5 ELSE 4) EXCEPT !.large = {2, 3}]

kvtop_xen_x86_64 == [Plain(4) EXCEPT !.large = {2, 3}]

vtop_x86_PAE == [Plain(3) EXCEPT !.large = {2}, !.aligned = FALSE]

kvtop_xen_x86 == [Plain(3) EXCEPT !.large = {2}, !.aligned = FALSE]

\* With two levels the entry of the root is read as a pgd, a pud and a pmd.
vaddr_to_paddr_arm64(levels) ==
    [Plain(levels) EXCEPT !.checked = {1}, !.large = {2, 3} \cap 1 .. levels,
                          !.foldedAs[2] = IF levels = 2 THEN 3 ELSE 2]

vtop_arm == [Plain(2) EXCEPT !.large = {2}]

vaddr_to_paddr_mips64 == [Plain(3) EXCEPT !.checked = {1, 2}, !.large = {2}]

vaddr_to_paddr_loongarch64 == [Plain(3) EXCEPT !.checked = {1}, !.large = {2}]

vtop_riscv64(levels) ==
    [Plain(levels) EXCEPT !.large = 2 .. levels, !.aligned = FALSE, !.whole = FALSE]

vtop3_sparc64 == [Plain(3) EXCEPT !.large = {2}, !.aligned = FALSE, !.unscaled = TRUE]

vtop4_sparc64 == [Plain(4) EXCEPT !.large = {2, 3}, !.aligned = FALSE, !.unscaled = TRUE]

vtop3_ia64 == [Plain(3) EXCEPT !.checked = {}]

vtop4_ia64 == [Plain(4) EXCEPT !.checked = {}, !.span = {3}]

kvtop_xen_ia64 == Plain(3)

\* Without a level 3 (l3_index_size = 0) the walk goes from the pgd to the pmd.
ppc64_vtop_level4(levels) ==
    [Plain(levels) EXCEPT !.large = 2 .. levels, !.aligned = FALSE]

-----------------------------------------------------------------------------
(***************************************************************************)
(* s390x: the first entry of the root says how many levels there are and   *)
(* how long the root is.  An entry is [type, len, large, bad, invalid,     *)
(* zero, to]: the level it belongs to, the length of the table it points   *)
(* to, reserved bits that are set, the invalid bit, no bit set at all.     *)
(* Levels are numbered as above: 2 is the segment table, 3 to 5 are the    *)
(* region tables.                                                          *)
(***************************************************************************)
RegionDeref(mem, v, table, len, l) ==
    LET e == mem[table][Index(v, l)]
    IN  IF Index(v, l) >= len + 1 \/ ~Readable(mem, table) THEN << >>
        ELSE IF e.zero \/ e.bad \/ (e.type # l /\ e.invalid) THEN << >>
        ELSE << e >>

\* A page table that cannot be read leaves the entry uninitialised.
PageDeref(mem, v, table) ==
    LET e == mem[table][Index(v, 1)]
    IN  IF ~Readable(mem, table) THEN Garbage
        ELSE IF e.zero \/ e.bad \/ e.invalid THEN NotPaddr
        ELSE Paddr(e.to) + Offset(v, PageSize)

RECURSIVE WalkRegions(_, _, _, _, _)
WalkRegions(mem, v, table, len, l) ==
    LET d == RegionDeref(mem, v, table, len, l)
    IN  IF d = << >> THEN NotPaddr
        ELSE IF d[1].large /\ l \in {2, 3}
             THEN Aligned(Paddr(d[1].to), Size(l)) + Offset(v, Size(l))
        ELSE IF l = 2 THEN PageDeref(mem, v, d[1].to)
        ELSE WalkRegions(mem, v, d[1].to, d[1].len, l - 1)

vtop_s390x(mem, root, v) ==
    IF ~Readable(mem, root) THEN NotPaddr
    ELSE LET first == mem[root][0]
         IN  IF v >= Size(first.type + 1) THEN NotPaddr
             ELSE WalkRegions(mem, v, root, first.len, first.type)

-----------------------------------------------------------------------------
(***************************************************************************)
(* Reference: the tables a kernel builds for a mapping, a set of pages     *)
(* [l, vpn, frame], l the level of the entry that maps the page.  The      *)
(* tables lie one after the other from frame 1 on; frame 0 is not a table  *)
(* but can be read.                                                        *)
(***************************************************************************)
TableFrame(levels, l, prefix) == Entries ^ (levels - l) + prefix

Inside(page, l, vpn) == page.l <= l /\ page.vpn \div (Entries ^ (l - page.l)) = vpn

EntryFor(mapping, levels, attr, l, vpn) ==
    IF \E page \in mapping : page.l = l /\ page.vpn = vpn
    THEN LET page == CHOOSE page \in mapping : page.l = l /\ page.vpn = vpn
         IN  [p |-> TRUE, large |-> l > 1, to |-> page.frame, attr |-> IF l > 1 THEN attr ELSE 0]
    ELSE IF \E page \in mapping : Inside(page, l, vpn)
    THEN [p |-> TRUE, large |-> FALSE, to |-> TableFrame(levels, l - 1, vpn), attr |-> 0]
    ELSE NoEntry

\* The tables on the way to some page, as <<level, prefix>>.
TablesOf(mapping, levels) ==
    {<<levels, 0>>} \cup
    {t \in UNION {{l} \X (0 .. Entries ^ (levels - l) - 1) : l \in 1 .. levels - 1} :
        \E page \in mapping : page.l <= t[1] /\ Inside(page, t[1] + 1, t[2])}

MemoryOf(mapping, levels, attr, lost) ==
    LET tables == {t \in TablesOf(mapping, levels) : t \notin lost}
        frame(t) == TableFrame(levels, t[1], t[2])
        of(f) == CHOOSE t \in tables : frame(t) = f
    IN  [f \in {0} \cup {frame(t) : t \in tables} |->
            [i \in 0 .. Entries - 1 |->
                IF f = 0 THEN NoEntry
                ELSE EntryFor(mapping, levels, attr, of(f)[1], of(f)[2] * Entries + i)]]

\* What the mapping says of an address, if the tables needed can be read.
MappedTo(mapping, levels, lost, v) ==
    LET page == CHOOSE page \in mapping : page.vpn = v \div Size(page.l)
    IN  IF \A q \in mapping : q.vpn # v \div Size(q.l) THEN NotPaddr
        ELSE IF \E l \in page.l .. levels : <<l, v \div Size(l + 1)>> \in lost THEN NotPaddr
        ELSE Paddr(page.frame) + Offset(v, Size(page.l))
=============================================================================
