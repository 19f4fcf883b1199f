---------------------------- MODULE MCMemoryMaps ----------------------------
(***************************************************************************)
(* Kernels of up to twelve page frames in every memory model.  truth is    *)
(* the address of the page struct of a frame, NotMemmap in a hole.  Page   *)
(* structs have two bytes, sections two pages, roots two sections of two   *)
(* words.                                                                  *)
(***************************************************************************)
EXTENDS MemoryMaps, TLC

Nothing ==
    [type |-> "NOT_FOUND", max |-> 8, dom0 |-> 8, xen |-> FALSE, riscv |-> FALSE, first |-> 0,
     mem_map |-> 0, online |-> << >>, nodeData |-> << >>, list |-> [kind |-> "none", at |-> << >>],
     contig |-> 0, vmem |-> 0, memblks |-> << >>, pgdats |-> << >>, mem |-> << >>, symbol |-> 0,
     extreme |-> FALSE, roots |-> 0, pointer |-> FALSE, kv |-> {}, truth |-> << >>]

Flat == {[Nothing EXCEPT !.type = "FLATMEM", !.mem_map = 100, !.max = m, !.xen = x,
                         !.truth = [p \in 0 .. 9 |-> 100 + 2 * p]] : m \in {5, 8}, x \in BOOLEAN}
        \cup {[Nothing EXCEPT !.type = "FLATMEM", !.mem_map = 100, !.riscv = TRUE, !.first = f,
                              !.truth = [p \in 0 .. 9 |-> IF p < f THEN NotMemmap ELSE 100 + 2 * (p - f)]]
                : f \in {0, 3}}

-----------------------------------------------------------------------------
(***************************************************************************)
(* DISCONTIGMEM: up to three nodes, with the identifiers ids, found by     *)
(* node_data, by a list or by contig_page_data, with node_mem_map or, on   *)
(* ia64, with vmem_map.                                                    *)
(***************************************************************************)
Node(s, n, m) == [start |-> s, spanned |-> n, map |-> m]

Layouts == {<< Node(0, 4, 100), Node(4, 4, 200) >>, << Node(1, 3, 100), Node(5, 2, 200) >>,
            << Node(4, 3, 100), Node(0, 3, 200) >>, << Node(0, 4, 100), Node(6, 6, 200) >>,
            << Node(2, 2, 100) >>, << Node(6, 1, 100), Node(0, 2, 200), Node(3, 2, 300) >>}

TruthOf(l) ==
    [p \in 0 .. 11 |->
        LET of == {k \in DOMAIN l : l[k].start <= p /\ p < l[k].start + l[k].spanned}
            k == CHOOSE k \in of : TRUE
        IN  IF of = {} THEN NotMemmap ELSE l[k].map + 2 * (p - l[k].start)]

NodesOf(l, ids) ==
    LET n == Len(l)
        at(k) == IF \E j \in 1 .. n : ids[j] = k - 1 THEN CHOOSE j \in 1 .. n : ids[j] = k - 1 ELSE 0
        array == [k \in 1 .. 5 |-> at(k)]
        base == [Nothing EXCEPT !.type = "DISCONTIGMEM", !.online = << {ids[j] : j \in 1 .. n} >>,
                                !.pgdats = l, !.truth = TruthOf(l)]
    IN  {[base EXCEPT !.nodeData = array, !.max = m, !.dom0 = m, !.xen = x] : m \in {5, 8, 12}, x \in BOOLEAN}
        \cup {[base EXCEPT !.list = [kind |-> "array", at |-> array]]}
        \cup {[base EXCEPT !.nodeData = array, !.vmem = 600,
                           !.truth = [p \in DOMAIN @ |-> IF @[p] = NotMemmap THEN NotMemmap ELSE 600 + 2 * p]]}
        \cup (IF ids = << 0, 1, 2 >>
              THEN {[base EXCEPT !.list = [kind |-> "linked", at |-> [k \in 1 .. n |-> k]]]} ELSE {})
        \cup (IF n = 1 /\ ids[1] = 0 THEN {[base EXCEPT !.contig = 1]} ELSE {})

Discontig == UNION {NodesOf(l, ids) : l \in Layouts, ids \in {<< 0, 1, 2 >>, << 0, 2, 3 >>, << 1, 2, 4 >>}}

\* A node inside another one, told apart by node_memblk.
Blk(s, n, id) == [start |-> s, size |-> n, nid |-> id]

Nested ==
    {[Nothing EXCEPT !.type = "DISCONTIGMEM", !.online = << {0, 1} >>, !.nodeData = << 1, 2 >>,
                     !.pgdats = << Node(0, 8, 100), Node(2, 2, 200) >>, !.memblks = b,
                     !.truth = [p \in 0 .. 11 |-> IF p \in {2, 3} THEN 200 + 2 * (p - 2)
                                                  ELSE IF p < 8 THEN 100 + 2 * p ELSE NotMemmap]]
        : b \in {<< Blk(0, 2, 0), Blk(2, 2, 1), Blk(4, 4, 0), Blk(0, 0, 0), Blk(0, 0, 0) >>,
                 << Blk(2, 2, 1), Blk(0, 2, 0), Blk(4, 4, 0) >>}}

-----------------------------------------------------------------------------
(***************************************************************************)
(* SPARSEMEM: the sections s are present; the section numbers are found by *)
(* an array, by roots, or by a pointer to the roots.                       *)
(***************************************************************************)
Word(to, present) == [to |-> to, present |-> present]
MapAddr(nr) == 400 + 50 * nr

SectionWords(base, first, n, s) ==
    [a \in base .. base + n * SectionSize - 1 |->
        LET nr == first + (a - base) \div SectionSize
        IN  IF nr \in s /\ (a - base) % SectionSize = 0
            THEN Word(MapAddr(nr) - nr * SectionPages * PageStructSize, TRUE) ELSE Word(0, FALSE)]

Sections(s) ==
    LET mem == SectionWords(50, 0, 2, s) @@ SectionWords(60, 2, 2, s)
        root(dead) == [a \in {30, 31} |-> Word(IF a - 30 \in dead THEN 0 ELSE 50 + 10 * (a - 30), FALSE)]
        dead == {r \in 0 .. 1 : \A nr \in s : nr \div PerRoot # r}
        base == [Nothing EXCEPT !.kv = 10 .. 900, !.roots = 2,
                    !.truth = [p \in 0 .. 11 |->
                        IF p \div SectionPages \in s
                        THEN MapAddr(p \div SectionPages) + PageStructSize * (p % SectionPages)
                        ELSE NotMemmap]]
        rooted == [base EXCEPT !.type = "SPARSEMEM_EX", !.extreme = TRUE]
    IN  {[rooted EXCEPT !.mem = mem @@ root(d), !.symbol = 30, !.max = m] : d \in {{}, dead}, m \in {5, 8}}
        \cup {[rooted EXCEPT !.mem = mem @@ root(d) @@ (20 :> Word(30, FALSE)) @@ (21 :> Word(junk, FALSE)),
                             !.symbol = 20, !.pointer = p]
                : d \in {{}, dead}, p \in BOOLEAN, junk \in {0, 35, 999}}
        \cup {[rooted EXCEPT !.mem = mem @@ root({}) @@ (20 :> Word(30, FALSE)) @@ (21 :> Word(60, FALSE)),
                             !.symbol = 20, !.pointer = TRUE]}
        \cup {[base EXCEPT !.type = "SPARSEMEM", !.mem = SectionWords(50, 0, 4, s), !.symbol = 50, !.max = m]
                : m \in {5, 8}}

Sparse == UNION {Sections(s) : s \in {t \in SUBSET (0 .. 3) : t \cap 0 .. 2 # {}}}

MCKernels == Flat \cup Discontig \cup Nested \cup Sparse

-----------------------------------------------------------------------------
In(e, p) == e.start <= p /\ p < e.end

\* Memory begins with frame first on riscv64, and with 0 otherwise.
OncePerFrame(k, a) ==
    a.res.ok =>
        /\ Len(a.res.maps) = a.res.num
        /\ \A p \in k.first .. a.max - 1 : Cardinality({j \in DOMAIN a.res.maps : In(a.res.maps[j], p)}) = 1

TrueDescriptors(k, a) ==
    /\ a.res.ok
    /\ \A p \in 0 .. a.max - 1 : \A j \in DOMAIN a.res.maps :
           LET e == a.res.maps[j]
           IN  In(e, p) => IF e.map = NotMemmap THEN k.truth[p] = NotMemmap
                           ELSE k.truth[p] = e.map + PageStructSize * (p - e.start)
    /\ \A q \in a.max .. k.max - 1 : k.truth[q] = NotMemmap
=============================================================================
