--------------------------- MODULE MCTranslation ---------------------------
(***************************************************************************)
(* Kernels of every architecture: areas is the layout of the address       *)
(* space, pieces [lo, hi, to] where to is the physical address of lo; tabs *)
(* is the window [lo, hi] whose pages the tables map.  The root of the     *)
(* tables is at physical address PageSize.                                 *)
(***************************************************************************)
EXTENDS AddressTranslation, TLC

Page(l, vpn) == [l |-> l, vpn |-> vpn, frame |-> 2 ^ (l - 1) * (40 + 3 * vpn)]

Maps(levels, large) ==
    {{Page(1, 1)}, {Page(1, 0), Page(1, 2 ^ levels - 1)}}
      \cup (IF large THEN {{Page(1, 0), Page(2, 1)}} ELSE {})

Common(arch, levels, mapping, linear, base) ==
    [arch |-> arch, levels |-> levels, mapping |-> mapping,
     mem |-> MemoryOf(mapping, levels, 0, {}),
     areas |-> << [lo |-> linear, hi |-> linear + 63, to |-> base] >>,
     tabs |-> << >>, swapper |-> linear + PageSize - base, loads |-> << >>, xen |-> FALSE,
     number |-> NotFound, constant |-> 0, physBase |-> 0, vmallocStart |-> 0,
     vmallocInfo |-> TRUE, areaList |-> linear + 40, areaStart |-> 0, words |-> << >>]

Window(k, lo) == [k EXCEPT !.tabs = << [lo |-> lo, hi |-> lo + Size(k.levels + 1) - 1] >>]

Load(virt, n, phys) == [virt |-> virt, vend |-> virt + n, phys |-> phys]
NoLoad == [virt |-> NotPaddr, vend |-> NotPaddr, phys |-> NotPaddr]

X86_64 ==
    {Window([Common("x86_64", IF la THEN 5 ELSE 4, m, 256, b) EXCEPT !.areas = << >>,
             !.loads = CASE by = "loads" -> << NoLoad, Load(64, 8, 0), Load(258, 8, b + 2) >>
                         [] OTHER -> << >>,
             !.number = IF by = "number" THEN b ELSE NotFound]
       @@ [la57 |-> la, textMap |-> 256, noPhysBaseSymbol |-> FALSE, pageOffset |-> 0,
           kaslr |-> 0, vmlinux |-> FALSE], 0)
     : la \in BOOLEAN, m \in Maps(4, TRUE), b \in {0, 2}, by \in {"loads", "number"}}

Xen86 ==
    {Window([Common("x86_64", 4, m, 256, 0) EXCEPT !.areas = << >>, !.xen = TRUE, !.swapper = 256 + 2 * n]
       @@ [la57 |-> FALSE, textMap |-> 256, noPhysBaseSymbol |-> TRUE, pageOffset |-> 0,
           kaslr |-> 0, vmlinux |-> FALSE,
           lists |-> << << 50, 51 >>, << 52, 0 >> >>,
           mfns |-> 50 :> (0 :> 9 @@ 1 :> n0[1]) @@ 51 :> (0 :> n0[2] @@ 1 :> 8) @@ 52 :> (0 :> n0[3] @@ 1 :> 7)], 0)
     : m \in Maps(4, TRUE), n \in {1}, n0 \in {<<1, 3, 4>>}}

\* The first area of the list is at d from what the list points to, at 128.
Areas(k, d) == [k EXCEPT !.areaStart = d, !.words = 40 :> 110 @@ 46 + d :> 128]

X86 ==
    {[Window([Areas(Common("x86", 3, m, 64, 0), d) EXCEPT !.loads = l], 128)
       EXCEPT !.areas = IF r = << >> THEN @ ELSE << [lo |-> 96, hi |-> 99, to |-> 60] >> \o @]
       @@ [remap |-> r, kernelStart |-> 64, pae |-> TRUE]
     : m \in Maps(3, TRUE), d \in {-2, 1}, l \in {<< >>, << NoLoad, Load(64, 8, 0) >>},
       r \in {<< >>, << [virt |-> 96, vend |-> 100, pfn |-> 30] >>}}

Arm ==
    {[Common("arm", 2, m, 64, b) EXCEPT !.loads = << Load(80, 8, 16 + b), Load(64, 8, b) >>,
             !.areas = IF vt = 0 THEN @ ELSE << >>,
             !.tabs = IF vt = 0 THEN << >> ELSE << [lo |-> vt, hi |-> vt] >>]
       @@ [pageOffset |-> 64, vtop |-> vt]
     : m \in Maps(2, TRUE), b \in {0, 2}, vt \in {0} \cup 128 .. 135}

Arm64 ==
    {Window([Common("arm64", n, m, 256, b)
         EXCEPT !.areas = << >>, !.number = IF by THEN b ELSE NotFound,
                !.loads = IF by THEN << >> ELSE << NoLoad, Load(260, 4, 4 + b) >>,
                !.swapper = IF img THEN 512 + 2 ELSE @], 0)
       @@ [voffset |-> IF img THEN 512 ELSE -1, linear |-> 256, linearEnd |-> 320]
     : n \in {3, 4}, m \in Maps(3, TRUE), b \in {0, 2}, img \in BOOLEAN, by \in BOOLEAN}

Mips64 ==
    {Window([Common("mips64", 3, m, 64, 0) EXCEPT !.swapper = 2,
             !.areas = << [lo |-> 64, hi |-> 95, to |-> 0], [lo |-> 128, hi |-> 143, to |-> 0] >>], 0)
       @@ [ckseg |-> 64, cksegEnd |-> 96, cksegSize |-> 32, xkphys |-> 128, xkphysEnd |-> 192, maxPhys |-> 16]
     : m \in Maps(3, TRUE)}

Loongarch64 ==
    {Window(Common("loongarch64", 3, m, 64, 0), 128) @@ [xkprange |-> 64, xkvrange |-> 128, maxPhys |-> 64]
     : m \in Maps(3, TRUE)}

Riscv64 ==
    {Window([Common("riscv64", n, m, 128, b)
        EXCEPT !.areas = @ \o << [lo |-> 240, hi |-> 255, to |-> 100] >>,
               !.constant = IF by THEN 9 ELSE b, !.number = IF by THEN b ELSE NotFound], 0)
       @@ [pageOffset |-> 128, modules |-> 200, modulesEnd |-> 231, link |-> 240, kernelPa |-> 140]
     : n \in {3, 4, 5}, m \in Maps(3, FALSE), b \in {0, 2}, by \in BOOLEAN}

Sparc64 ==
    {Window([Common("sparc64", n, {p \in m : p.vpn % 2 = 0}, 64, 0)
        EXCEPT !.loads = << Load(64, 64, 0) >>,
               !.areas = @ \o (IF n = 3 THEN << [lo |-> 256, hi |-> 259, to |-> 100],
                                               [lo |-> 260, hi |-> 263, to |-> 88],
                                               [lo |-> 264, hi |-> 267, to |-> 72] >> ELSE << >>),
               !.vmallocStart = 128], 128)
       @@ [vmemmap |-> n = 3, vmemmapStart |-> 256, vmemmapEnd |-> 320, tableSize |-> 8, chunkSize |-> 4,
           vmemmapTable |-> [i \in 0 .. 7 |-> i], chunks |-> 0 :> (0 :> 100 @@ 1 :> 88) @@ 1 :> (0 :> 72)]
     : n \in {3, 4}, m \in Maps(3, TRUE)}

Ia64 ==
    {Window([Common("ia64", n, m, 64, b)
        EXCEPT !.loads = l, !.constant = b,
               !.areas = << [lo |-> 64, hi |-> 127, to |-> b], [lo |-> 192, hi |-> 223, to |-> 0],
                            [lo |-> 256, hi |-> 319, to |-> 0] >>,
               !.swapper = 64 + PageSize - b], 128)
       @@ [vmallocRegion |-> 64, uncached |-> 192, cached |-> 256, stext |-> 64, kernelStart |-> 0, trSize |-> 64]
     : n \in {3, 4}, m \in Maps(3, FALSE), b \in {0}, l \in {<< >>, << Load(256, 8, 0), Load(64, 8, 0) >>}}

Ppc64 ==
    {Window([IF by = "number" THEN [Common("ppc64", n, m, 64, 0) EXCEPT !.number = 128, !.vmallocInfo = FALSE]
             ELSE Areas(Common("ppc64", n, m, 64, 0), IF by = "vmlist" THEN 1 ELSE -2) EXCEPT
            !.areas = @ \o << [lo |-> 256, hi |-> 259, to |-> 80], [lo |-> 264, hi |-> 267, to |-> 68] >>], 128)
       @@ [kernelStart |-> 64, vmemmap |-> TRUE, vmemmapStart |-> 256, psize |-> 4, head |-> 1,
           next |-> 1 :> 2 @@ 2 :> h, virt |-> 1 :> 264 @@ 2 :> 256, phys |-> 1 :> 68 @@ 2 :> 80]
     : n \in {3, 4}, m \in Maps(3, TRUE), h \in {0, 1}, by \in {"number", "vmap_area_list", "vmlist"}}
    \cup {Window(Areas(Common("ppc64", 4, m, 64, 0), -2), 256)
       @@ [kernelStart |-> 64, vmemmap |-> TRUE, vmemmapStart |-> 256, psize |-> 4, head |-> 0,
           next |-> << >>, virt |-> << >>, phys |-> << >>] : m \in Maps(4, TRUE)}

Ppc ==
    {Areas(Common("ppc", 2, m, 64, 0), d) @@ [kernelStart |-> 64] : m \in Maps(2, FALSE), d \in {-2, 1}}

\* The tables of s390x: a missing entry has the invalid bit, every entry the
\* level of its table.
S390Mem(mapping, levels) ==
    LET mem == MemoryOf(mapping, levels, 0, {})
        level(f) == IF f = 0 THEN 1 ELSE CHOOSE l \in 1 .. levels : f \in Entries ^ (levels - l) .. 2 * Entries ^ (levels - l) - 1
    IN  [f \in DOMAIN mem |-> [i \in 0 .. Entries - 1 |->
            [type |-> level(f), len |-> Entries - 1, large |-> mem[f][i].large, bad |-> FALSE,
             invalid |-> ~mem[f][i].p, zero |-> FALSE, to |-> mem[f][i].to]]]

\* Half of what the tables can map is the identity map.
S390Maps(n) == {{Page(1, 2 ^ n - 1)}, {Page(1, 2 ^ (n - 1)), Page(2, 2 ^ (n - 1) - 1)}}
                 \cup (IF n > 3 THEN {{Page(3, 2 ^ (n - 2) - 1)}} ELSE {})

S390x ==
    UNION {{[Common("s390x", n, m, 0, 0)
        EXCEPT !.mem = S390Mem(m, n), !.areas = << [lo |-> 0, hi |-> 2 ^ n - 1, to |-> 0] >>,
               !.tabs = << [lo |-> 2 ^ n, hi |-> 2 ^ (n + 1) - 1] >>, !.loads = l,
               !.swapper = 2, !.vmallocStart = 2 ^ n]
       @@ [highMemory |-> TRUE] : m \in S390Maps(n)} : n \in {3, 4, 5}, l \in {<< >>, << Load(0, 8, 0) >>}}

S390xVr ==
    {[Common("s390x_vr", 5, m, 0, 0)
        EXCEPT !.mem = S390Mem(m, 5), !.swapper = 64 + 2 - p,
               !.areas = << [lo |-> 0, hi |-> 1, to |-> 0], [lo |-> 12, hi |-> 13, to |-> 12],
                            [lo |-> 4, hi |-> 31, to |-> 0], [lo |-> 64, hi |-> 71, to |-> p] >>,
               !.tabs = << [lo |-> 32, hi |-> 63] >>]
       @@ [lowcore |-> 2, amode31 |-> 12, amode31End |-> 14, identity |-> 4, vmemmapStart |-> 32,
           kvbase |-> 64, kaslrPhys |-> p]
     : m \in S390Maps(5), p \in {0, 2}}

XenVtop ==
    {[Window(Common("xen", IF a = "x86_64" THEN 4 ELSE 3, m, 320, 0), 256)
        EXCEPT !.areas = << [lo |-> 320, hi |-> 383, to |-> 0] >> \o
                         (IF a = "x86_64" THEN << [lo |-> 384, hi |-> 390, to |-> 12] >> ELSE << >>)]
       @@ [machine |-> a, text |-> 384, textEnd |-> IF a = "x86_64" THEN 391 ELSE 384, xenPhys |-> 12,
           direct |-> 320, directEnd |-> 384, xenStart |-> 256, xenEnd |-> 400,
           frameTable |-> 256, frameTableEnd |-> 272]
     : a \in {"x86_64", "x86", "ia64"}, m \in Maps(3, FALSE)}

MCKernels == X86_64 \cup Xen86 \cup X86 \cup Arm \cup Arm64 \cup Mips64 \cup Loongarch64 \cup Riscv64
             \cup Sparc64 \cup Ia64 \cup Ppc64 \cup Ppc
             \cup S390x \cup S390xVr \cup XenVtop

-----------------------------------------------------------------------------
\* Every address of the areas and of the window of the tables.
TranslateAll(c) ==
    LET k == Learn(c)
        parts == {c.areas[j] : j \in DOMAIN c.areas}
        windows == {c.tabs[j] : j \in DOMAIN c.tabs}
    IN  [v \in UNION {p.lo .. p.hi : p \in {[lo |-> q.lo, hi |-> q.hi] : q \in parts \cup windows}} |->
            VaddrToPaddr(k, v)]

\* Where the layout and the mapping put an address; the first area counts.
Truth(k, v) ==
    LET hits == {j \in DOMAIN k.areas : k.areas[j].lo <= v /\ v <= k.areas[j].hi}
        j == CHOOSE j \in hits : \A n \in hits : j <= n
    IN  IF hits # {} THEN v - k.areas[j].lo + k.areas[j].to
        ELSE MappedTo(k.mapping, k.levels, {}, Offset(v, Size(k.levels + 1)))

LikeKernel(k, a) == \A v \in DOMAIN a : Truth(k, v) # NotPaddr => a[v] = Truth(k, v)

-----------------------------------------------------------------------------
(***************************************************************************)
(* What is learnt of the kernel besides: the bits of physical addresses    *)
(* from the length of mem_section[], the offset of the linear map from the *)
(* PT_LOADs of /proc/kcore or from page_offset_base, and what KASLR adds   *)
(* to a symbol.                                                            *)
(***************************************************************************)
Fact(kind, bits, extreme, loads, offset, symbol) ==
    [kind |-> kind, bits |-> bits, extreme |-> extreme, loads |-> loads, offset |-> offset,
     symbol |-> symbol, textMap |-> 256, imageSize |-> 16, constant |-> 64, kaslr |-> 8, vmlinux |-> FALSE]

\* page_offset_base is in the text, which KASLR has moved by 8; its page may be
\* missing in the tables.
BaseAt == 256 + 2

BasePhys(k) == MappedTo(k.mapping, k.levels, {}, BaseAt + 8 - 256)

Based ==
    {[k EXCEPT !.kaslr = 8, !.vmlinux = TRUE, !.words = IF BasePhys(k) = NotPaddr THEN << >> ELSE BasePhys(k) :> 32]
       @@ [kind |-> "base", pageOffsetBase |-> BaseAt]
     : k \in {[x EXCEPT !.mapping = m, !.mem = MemoryOf(m, x.levels, 0, {})]
                 : x \in X86_64, m \in {{Page(1, 5)}, {Page(2, 2)}, {Page(1, 4)}}}}

Candidates(kind) == IF kind = "ppc64" THEN << 44, 46, 47, 51 >> ELSE << 42, 46 >>
SectionBits(kind) == IF kind = "ppc64" THEN 24 ELSE 28
RootBits(kind) == IF kind = "ppc64" THEN 11 ELSE 7

Facts ==
    UNION {{Fact(kind, Candidates(kind)[c], x, << >>, 0, 0) : c \in DOMAIN Candidates(kind), x \in BOOLEAN}
              : kind \in {"ppc64", "s390x"}}
    \cup {Fact("offset", 0, FALSE, before \o linear \o after, IF linear = << >> THEN 64 ELSE 32, 0)
              : before \in {<< >>, << Load(96, 4, 2) >>, << NoLoad, Load(260, 4, 2) >>},
                linear \in {<< >>, << Load(36, 4, 4) >>, << Load(32, 2, 0), Load(40, 4, 8) >>},
                after \in {<< >>, << NoLoad >>, << Load(258, 8, 2) >>}}
    \cup {Fact("kaslr", 0, FALSE, << >>, 0, s) : s \in {0, 4, 255, 256, 271, 272}}
    \cup Based

\* A kernel with KCORE_REMAP loads has loads of the linear map after them.
Learnable(f) == f.kind = "offset" /\ f.offset = 64 => \A k \in DOMAIN f.loads : f.loads[k].virt # 96

LearnFact(f) ==
    CASE f.kind = "offset" -> get_page_offset_x86_64(f)
      [] f.kind = "base"   -> Learn(f).pageOffset
      [] f.kind = "kaslr"  -> f.symbol + get_kaslr_offset_x86_64(f, f.symbol)
      [] OTHER             ->
           LET n == 2 ^ (f.bits - SectionBits(f.kind))
               root == 2 ^ RootBits(f.kind)
           IN  MaxPhysmemBits(NotFound, Candidates(f.kind), IF f.extreme THEN n \div root ELSE n,
                              SectionBits(f.kind), root)

Recovered(f, a) ==
    a = CASE f.kind = "offset" -> f.offset
          [] f.kind = "base"   -> IF BasePhys(f) = NotPaddr THEN NotFound ELSE 32
          [] f.kind = "kaslr"  -> IF f.symbol \in 256 .. 271 THEN f.symbol + 8 ELSE f.symbol
          [] OTHER             -> f.bits

-----------------------------------------------------------------------------
\* The vmemmap of up to six pieces of two page structs, in three tables; the
\* second of them, or the first two with the table above, may not be there.
Vmemmaps ==
    {[pieces |-> p \o q, high |-> h, absent |-> {}]
       : p \in [1 .. 4 -> {0, 4, 5, 6}], q \in {<< 0, 4 >>, << 5, 0 >>, << 5, 6 >>}, h \in {7, 9, 11}}
    \cup {[pieces |-> p \o << 0, 0 >> \o q, high |-> 11, absent |-> {2}]
             : p \in [1 .. 2 -> {0, 4, 5}], q \in [1 .. 2 -> {0, 5, 6}]}
    \cup {[pieces |-> << 0, 0, 0, 0, p, 5 >>, high |-> 11, absent |-> {1, 2}] : p \in {0, 4}}
    \cup {[pieces |-> << 4, p, q, NotHuge, 5, 6 >>, high |-> h, absent |-> {}]
             : p \in {0, 5}, q \in {0, NotHuge}, h \in {5, 11}}

Tables(c) ==
    LET page(i) == IF i \in c.absent THEN << >> ELSE SubSeq(c.pieces, 2 * i - 1, 2 * i)
    IN  << IF {1, 2} \subseteq c.absent THEN << >> ELSE << page(1), page(2) >>, << page(3) >> >>

FindAll(c) == find_vmemmap_x86_64(Tables(c), c.high, 2, 4)

\* Piece q, from 0, holds the page structs of frames 2 * q and 2 * q + 1.
Covers(g, q) == g.rep <= 2 * q /\ 2 * q < g.repEnd

\* The pieces before the first table that is not there.
Before(c) == IF c.absent = {} THEN 6 ELSE 2 * ((CHOOSE i \in c.absent : \A j \in c.absent : i <= j) - 1)

\* A group stands for no piece that is not there, the last one excepted, which
\* takes in the hole that ends the tables.
Contiguous(c, groups) ==
    LET counted == VmemmapPieces(Tables(c), c.high, 2, 4)
        n == Len(counted)
    IN  IF \E i \in 1 .. n : counted[i] = NotHuge THEN groups = NotFound
        ELSE \A q \in {x \in 0 .. n - 1 : x < Before(c)} :
            /\ \A j \in DOMAIN groups :
                 Covers(groups[j], q) /\ (j < Len(groups) \/ \E x \in q + 1 .. n : counted[x] # 0) =>
                   c.pieces[q + 1] = groups[j].vmap + q - groups[j].rep \div 2
            /\ c.pieces[q + 1] # 0 /\ q < n - 1 => \E j \in DOMAIN groups : Covers(groups[j], q)
=============================================================================
