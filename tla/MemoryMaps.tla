----------------------------- MODULE MemoryMaps -----------------------------
(***************************************************************************)
(* Finding the page descriptors: get_mem_map() fills mem_map_data with     *)
(* [start, end, map] entries, map the address of the descriptor of page    *)
(* start, for the three memory models.  k is the kernel in the dump; its   *)
(* data can be read except where a field says otherwise.                   *)
(***************************************************************************)
EXTENDS Integers, Sequences, FiniteSets, TLC, SequencesExt

CONSTANTS
    PageStructSize,    \* SIZE(page)
    SectionPages,      \* PAGES_PER_SECTION()
    SectionSize,       \* SIZE(mem_section)
    PerRoot            \* SECTIONS_PER_ROOT()

LOCAL Least(a, b) == IF a < b THEN a ELSE b

NotMemmap == -1

Entry(s, e, m) == [start |-> s, end |-> e, map |-> m]

\* num is the number of entries that mem_map_data was allocated for.
Failed == [ok |-> FALSE, maps |-> << >>, num |-> 0]

Maps(maps) == [ok |-> TRUE, maps |-> maps, num |-> Len(maps)]

-----------------------------------------------------------------------------
(***************************************************************************)
(* Nodes.  k.online is the set of online nodes, or << >> when the kernel   *)
(* has no map of them.  A pgdat is [start, spanned, map], found at the     *)
(* address that is its index in k.pgdats; 0 is no address.                 *)
(*   k.nodeData  the addresses in the array node_data, << >> without it    *)
(*   k.list      pgdat_list: its kind is array, linked or none; at         *)
(*   k.contig    the address of contig_page_data, or 0                     *)
(*   k.vmem      the address in vmem_map, or 0                             *)
(*   k.memblks   the entries [start, size, nid] of node_memblk; the nodes  *)
(*               of those before the empty one are online                  *)
(***************************************************************************)
get_nodes_online(k) == IF k.online = << >> THEN 0 ELSE Cardinality(k.online[1])

numnodes(k) == IF get_nodes_online(k) = 0 THEN 1 ELSE get_nodes_online(k)

next_online_node(k, first) ==
    LET later == {n \in (IF k.online = << >> THEN {} ELSE k.online[1]) : n >= first}
    IN  IF later = {} THEN -1 ELSE CHOOSE n \in later : \A m \in later : n <= m

\* A word of an array of addresses.
WordOf(s, node) == IF node + 1 \in DOMAIN s THEN s[node + 1] ELSE 0

\* The ways to the pgdat of a node, in the order they are tried.
next_online_pgdat(k, node) ==
    LET fromArray == WordOf(k.nodeData, node)
        fromList == IF k.list.kind = "array" \/ node = 0 THEN WordOf(k.list.at, node) ELSE 0
        fromLinks == IF k.list.kind = "linked" THEN WordOf(k.list.at, node) ELSE 0
        found == SelectSeq(<< fromArray, fromList, fromLinks, IF node = 0 THEN k.contig ELSE 0 >>,
                           LAMBDA a : a # 0)
    IN  IF found = << >> THEN 0 ELSE found[1]

-----------------------------------------------------------------------------
(***************************************************************************)
(* Flat memory.                                                            *)
(***************************************************************************)
get_mm_flatmem(k) ==
    IF k.mem_map = 0 THEN Failed
    ELSE Maps(<< Entry(IF k.riscv THEN k.first ELSE 0, IF k.xen THEN k.dom0 ELSE k.max, k.mem_map) >>)

-----------------------------------------------------------------------------
(***************************************************************************)
(* Discontiguous memory.                                                   *)
(***************************************************************************)
\* The memory blocks before the first empty one.
MemBlocks(k) ==
    LET empty(b) == b.start = 0 /\ b.size = 0 /\ b.nid = 0
        ends == {i \in DOMAIN k.memblks : empty(k.memblks[i])}
    IN  IF ends = {} THEN k.memblks
        ELSE SubSeq(k.memblks, 1, (CHOOSE i \in ends : \A j \in ends : i <= j) - 1)

get_num_mm_discontigmem(k) ==
    IF MemBlocks(k) = << >> THEN numnodes(k) ELSE Len(MemBlocks(k))

Clipped(k, s, e, m) == Entry(s, Least(e, k.max), m)

separate_mem_map(k, node, p) ==
    LET mine == SelectSeq(MemBlocks(k), LAMBDA b : b.nid = node)
    IN  [ok |-> \A i \in DOMAIN mine : mine[i].start >= p.start,
         mmd |-> [i \in DOMAIN mine |->
                    Clipped(k, mine[i].start, mine[i].start + mine[i].size,
                            p.map + PageStructSize * (mine[i].start - p.start))]]

\* The i-th online node, -1 when there are fewer.
RECURSIVE NodeAt(_, _)
NodeAt(k, i) ==
    IF i = 1 THEN next_online_node(k, 0)
    ELSE IF NodeAt(k, i - 1) < 0 THEN -1 ELSE next_online_node(k, NodeAt(k, i - 1) + 1)

PgdatAt(k, i) ==
    LET a == next_online_pgdat(k, NodeAt(k, i))
        p == k.pgdats[a]
    IN  IF k.vmem = 0 THEN p ELSE [p EXCEPT !.map = k.vmem + PageStructSize * p.start]

NodesOk(k) ==
    \A i \in 1 .. numnodes(k) : NodeAt(k, i) >= 0 /\ next_online_pgdat(k, NodeAt(k, i)) # 0

\* The entries of each node, and whether they could be had.
NodeMaps(k, separate) ==
    [i \in 1 .. numnodes(k) |->
        IF separate THEN separate_mem_map(k, NodeAt(k, i), PgdatAt(k, i))
        ELSE LET p == PgdatAt(k, i)
             IN  [ok |-> TRUE, mmd |-> << Clipped(k, p.start, p.start + p.spanned, p.map) >>]]

SortMaps(mmd) == SortSeq(mmd, LAMBDA a, b : a.start < b.start)

Gap(from, to) == IF from # to THEN << Entry(from, to, NotMemmap) >> ELSE << >>

\* The holes before, between and after the entries.
Filled(k, mmd) ==
    LET n == Len(mmd)
        top == IF k.xen THEN k.dom0 ELSE k.max
        with(i) == << mmd[i] >> \o (IF i < n THEN Gap(mmd[i].end, mmd[i + 1].start)
                                    ELSE IF mmd[n].end < top THEN Gap(mmd[n].end, top) ELSE << >>)
    IN  Gap(0, mmd[1].start) \o FlattenSeq([i \in 1 .. n |-> with(i)])

NumMemMap(k, mmd) ==
    LET n == Len(mmd)
    IN  n + Cardinality({i \in 1 .. n - 1 : mmd[i].end # mmd[i + 1].start})
          + (IF mmd[1].start # 0 THEN 1 ELSE 0) + (IF mmd[n].end < k.max THEN 1 ELSE 0)

get_mm_discontigmem(k) ==
    LET num == get_num_mm_discontigmem(k)
        maps == NodeMaps(k, numnodes(k) < num)
        mmd == SortMaps(FlattenSeq([i \in DOMAIN maps |-> maps[i].mmd]))
        overlap == \E i \in 1 .. Len(mmd) - 1 : mmd[i].end > mmd[i + 1].start
    IN  IF num < numnodes(k) \/ ~NodesOk(k) THEN Failed
        ELSE IF (\E i \in DOMAIN maps : ~maps[i].ok) \/ overlap THEN Failed
        ELSE [ok |-> TRUE, maps |-> Filled(k, mmd), num |-> NumMemMap(k, mmd)]

-----------------------------------------------------------------------------
(***************************************************************************)
(* Sparse memory.  k.mem maps an address to the word there, [to, present]: *)
(* an address or the coded address of the descriptors of a section, and    *)
(* the bit SECTION_MARKED_PRESENT.                                         *)
(*   k.symbol   the address of mem_section                                 *)
(*   k.extreme  is_sparsemem_extreme(); k.roots  NR_SECTION_ROOTS()        *)
(*   k.pointer  vmlinux is given and says that mem_section is no array     *)
(***************************************************************************)
SectionNrToRoot(nr) == nr \div PerRoot

is_kvaddr(k, a) == a \in k.kv

\* Variant: the whole number of the section is the index in its root.
nr_to_section_unrooted(k, roots, nr) ==
    IF ~k.extreme THEN k.symbol + nr * SectionSize
    ELSE IF roots[SectionNrToRoot(nr)].to = 0 THEN 0
    ELSE roots[SectionNrToRoot(nr)].to + nr * SectionSize

\* 0 stands for NOT_KV_ADDR.
nr_to_section(k, roots, nr) ==
    IF ~k.extreme THEN k.symbol + nr * SectionSize
    ELSE IF roots[SectionNrToRoot(nr)].to = 0 THEN 0
    ELSE roots[SectionNrToRoot(nr)].to + (nr % PerRoot) * SectionSize

SectionWord(k, a) ==
    IF is_kvaddr(k, a) /\ a \in DOMAIN k.mem THEN k.mem[a] ELSE [to |-> 0, present |-> FALSE]

sparse_decode_mem_map(coded, nr) == coded + nr * SectionPages * PageStructSize

\* The descriptors of every section, and whether what was read is plausible.
validate_mem_section(k, at, sections) ==
    LET roots == [r \in 0 .. k.roots - 1 |-> k.mem[at + r]]
        word(nr) == SectionWord(k, nr_to_section(k, roots, nr))
        map(nr) == IF word(nr).present THEN sparse_decode_mem_map(word(nr).to, nr) ELSE NotMemmap
        present == {nr \in sections : word(nr).present}
    IN  IF \E r \in 0 .. k.roots - 1 : at + r \notin DOMAIN k.mem THEN [ok |-> FALSE, maps |-> << >>]
        ELSE [ok |-> present # {} /\ \A nr \in present : is_kvaddr(k, map(nr)),
              maps |-> [nr \in sections |-> map(nr)]]

get_mem_section(k, sections) ==
    LET direct == validate_mem_section(k, k.symbol, sections)
        indirect == validate_mem_section(k, k.mem[k.symbol].to, sections)
    IN  IF ~(k.extreme /\ k.pointer) /\ (direct.ok \/ ~k.extreme) THEN direct
        ELSE IF k.symbol \in DOMAIN k.mem THEN indirect
        ELSE [ok |-> FALSE, maps |-> << >>]

get_mm_sparsemem(k) ==
    LET n == (k.max + SectionPages - 1) \div SectionPages
        sec == get_mem_section(k, 0 .. n - 1)
    IN  IF ~sec.ok THEN Failed
        ELSE Maps([i \in 1 .. n |-> Entry((i - 1) * SectionPages, Least(i * SectionPages, k.max),
                                          sec.maps[i - 1])])

-----------------------------------------------------------------------------
(***************************************************************************)
(* get_mem_map(), with the max_mapnr it leaves: Linux may use less memory  *)
(* than is dumped.                                                         *)
(***************************************************************************)
MapsOf(k) ==
    CASE k.type \in {"SPARSEMEM", "SPARSEMEM_EX"} -> get_mm_sparsemem(k)
      [] k.type = "DISCONTIGMEM" -> get_mm_discontigmem(k)
      [] k.type = "FLATMEM" -> get_mm_flatmem(k)
      [] k.type = "NOT_FOUND" -> Failed

MaxMapnr(k, maps) ==
    LET ends == {maps[i].end : i \in {j \in DOMAIN maps : maps[j].map # NotMemmap}}
    IN  IF k.xen \/ ends = {} THEN k.max
        ELSE Least(k.max, CHOOSE e \in ends : \A f \in ends : f <= e)

get_mem_map(k) == LET m == MapsOf(k) IN [res |-> m, max |-> MaxMapnr(k, m.maps)]
=============================================================================
