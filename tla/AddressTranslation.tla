------------------------- MODULE AddressTranslation -------------------------
(***************************************************************************)
(* vaddr_to_paddr() of every architecture: which part of the address space *)
(* an address is in decides between arithmetic, the PT_LOADs of the dump   *)
(* and the page tables.  k is what is known of the crashed kernel:         *)
(* symbols, numbers of vmcoreinfo, the PT_LOADs (loads) and the memory of  *)
(* the page tables (mem).                                                  *)
(***************************************************************************)
EXTENDS PageTables, SequencesExt

-----------------------------------------------------------------------------
(***************************************************************************)
(* PT_LOADs, domain-0 frames.                                              *)
(***************************************************************************)
vaddr_to_paddr_general(loads, v) ==
    LET hits == {i \in DOMAIN loads : loads[i].virt <= v /\ v < loads[i].vend}
        i == CHOOSE i \in hits : \A j \in hits : i <= j
    IN  IF hits = {} THEN NotPaddr ELSE v - loads[i].virt + loads[i].phys

(***************************************************************************)
(* get_machdep_info_x86_64(): lists is the page of frames of the list of   *)
(* lists, each a page of frame numbers; 0 ends a page.  The copy stops     *)
(* after the first list that is not full, the count does not: what was     *)
(* counted and not copied is whatever malloc() returned.                   *)
(***************************************************************************)
Used(page) == IF \E j \in DOMAIN page : page[j] = 0
              THEN (CHOOSE j \in DOMAIN page : page[j] = 0 /\ \A i \in 1 .. j - 1 : page[i] # 0) - 1
              ELSE Len(page)

P2mFrames(lists) ==
    LET full == {i \in DOMAIN lists : \A j \in 1 .. i - 1 : Used(lists[j]) = Len(lists[j])}
        RECURSIVE copied(_), counted(_)
        copied(i) == IF i \notin full THEN << >>
                     ELSE SubSeq(lists[i], 1, Used(lists[i])) \o copied(i + 1)
        counted(i) == IF i \notin DOMAIN lists THEN 0 ELSE Used(lists[i]) + counted(i + 1)
    IN  copied(1) \o [n \in 1 .. counted(1) - Len(copied(1)) |-> Garbage]

\* The frame list points to pages of machine frames.
ptom_xen(p2m, mfns, paddr) ==
    LET perFrame == Entries
        pfn == paddr \div PageSize
        idx == pfn \div perFrame
    IN  IF paddr = NotPaddr \/ idx >= Len(p2m) THEN NotPaddr
        ELSE IF p2m[idx + 1] \notin DOMAIN mfns THEN NotPaddr
        ELSE Paddr(mfns[p2m[idx + 1]][pfn % perFrame]) + Offset(paddr, PageSize)

Machine(k, paddr) == IF k.xen THEN ptom_xen(P2mFrames(k.lists), k.mfns, paddr) ELSE paddr

WalkFrom(k, mmu, root, v) ==
    IF root = NotPaddr THEN NotPaddr ELSE Walk(mmu, k.mem, root \div PageSize, v, mmu.levels)

is_vmalloc_addr(k, v) == k.vmallocStart # 0 /\ v >= k.vmallocStart

-----------------------------------------------------------------------------
(***************************************************************************)
(* What is learnt before: get_phys_base(), get_versiondep_info(),          *)
(* get_machdep_info().  A load is [virt, vend, phys]; virt or phys may be  *)
(* NotPaddr (NOT_KV_ADDR, NOT_PADDR).  A number of vmcoreinfo is NotFound  *)
(* when the kernel did not write it.                                       *)
(***************************************************************************)
NotFound == -3

\* The first of the PT_LOADs hits, if there is one.
FirstLoad(loads, hits) ==
    IF hits = {} THEN << >> ELSE << loads[CHOOSE i \in hits : \A j \in hits : i <= j] >>

get_phys_base_x86_64(k) ==
    LET text == FirstLoad(k.loads, {i \in DOMAIN k.loads : k.loads[i].virt >= k.textMap /\ k.loads[i].phys # NotPaddr})
    IN  IF k.number # NotFound THEN k.number
        ELSE IF k.noPhysBaseSymbol \/ text = << >> THEN 0
        ELSE text[1].phys - (text[1].virt - k.textMap)

VtopX86_64(k, v) ==
    WalkFrom(k, vtop4_x86_64(k.la57), Machine(k, k.swapper - k.textMap + k.physBase), v)

\* With KASLR and a vmlinux page_offset_base is read from the dump; else it is
\* the last PT_LOAD below the kernel text, for Linux 4.19 has others before.
get_page_offset_x86_64(k) ==
    LET hits == {i \in DOMAIN k.loads : /\ k.loads[i].virt # NotPaddr
                                        /\ k.loads[i].virt < k.textMap
                                        /\ k.loads[i].phys # NotPaddr}
        l == k.loads[CHOOSE i \in hits : \A j \in hits : j <= i]
        base == VtopX86_64(k, k.pageOffsetBase + k.kaslr)
    IN  IF k.kaslr # 0 /\ k.vmlinux
        THEN IF base \in DOMAIN k.words THEN k.words[base] ELSE NotFound
        ELSE IF hits # {} /\ l.virt # l.phys THEN l.virt - l.phys ELSE k.constant

\* The kernel text alone is moved by KASLR.
get_kaslr_offset_x86_64(k, v) ==
    IF v # 0 /\ k.textMap <= v /\ v < k.textMap + k.imageSize THEN k.kaslr ELSE 0

get_phys_base_arm(k) ==
    LET starts == {k.loads[i].phys : i \in DOMAIN k.loads}
    IN  IF starts = {} THEN NotFound ELSE CHOOSE x \in starts : \A y \in starts : x <= y

get_phys_base_arm64(k) ==
    LET linear == FirstLoad(k.loads, {i \in DOMAIN k.loads : k.loads[i].virt >= k.linear /\ k.loads[i].phys # NotPaddr})
    IN  IF k.number # NotFound THEN k.number
        ELSE IF linear = << >> THEN NotFound
        ELSE linear[1].phys - (linear[1].virt - k.linear)

get_phys_base_ia64(k) ==
    LET text == FirstLoad(k.loads, {i \in DOMAIN k.loads : k.vmallocRegion <= k.loads[i].virt /\ k.loads[i].virt < k.uncached})
    IN  IF text = << >> THEN k.constant ELSE text[1].phys

get_phys_base_riscv64(k) == IF k.number # NotFound THEN k.number ELSE k.constant

\* The kernel is linked at the start of the space of vmalloc() of a region.
MachdepIa64(k) ==
    [k EXCEPT !.kernelStart = k.stext,
              !.vmallocStart = IF k.vmallocRegion <= k.stext /\ k.stext < k.uncached
                               THEN k.stext + k.trSize ELSE k.vmallocRegion]

(***************************************************************************)
(* set_ppc64_max_physmem_bits(), set_s390x_max_physmem_bits(): the length  *)
(* of mem_section[] tells the number of bits; candidates are tried in      *)
(* order.                                                                  *)
(***************************************************************************)
Fits(bits, len, sectionBits, perRoot) ==
    \/ len = 2 ^ (bits - sectionBits) \div perRoot
    \/ len = 2 ^ (bits - sectionBits)

MaxPhysmemBits(number, candidates, len, sectionBits, perRoot) ==
    LET hits == {i \in DOMAIN candidates : Fits(candidates[i], len, sectionBits, perRoot)}
    IN  IF number # NotFound THEN number
        ELSE IF hits = {} THEN NotFound
        ELSE candidates[CHOOSE i \in hits : \A j \in hits : i <= j]

-----------------------------------------------------------------------------
(***************************************************************************)
(* The architectures.                                                      *)
(***************************************************************************)
vtop_x86_remap(k, v) ==
    LET hits == {i \in DOMAIN k.remap : k.remap[i].virt <= v /\ v < k.remap[i].vend}
        i == CHOOSE i \in hits : \A j \in hits : i <= j
    IN  IF hits = {} THEN NotPaddr ELSE Paddr(k.remap[i].pfn) + v - k.remap[i].virt

DirectX86(k, v) ==
    LET remapped == vtop_x86_remap(k, v)
        general == vaddr_to_paddr_general(k.loads, v)
    IN  IF remapped # NotPaddr THEN Machine(k, remapped)
        ELSE IF general # NotPaddr THEN general
        ELSE IF ~k.vmallocInfo \/ is_vmalloc_addr(k, v) THEN NotPaddr
        ELSE Machine(k, v - k.kernelStart)

VaddrToPaddrX86(k, v) ==
    IF DirectX86(k, v) = NotPaddr /\ k.vmallocInfo /\ is_vmalloc_addr(k, v) /\ k.pae
    THEN WalkFrom(k, vtop_x86_PAE, DirectX86(k, k.swapper), v)
    ELSE DirectX86(k, v)

VaddrToPaddrArm(k, v) ==
    LET pa(x) == x - k.pageOffset + k.physBase
    IN  IF k.vtop = v THEN WalkFrom(k, vtop_arm, pa(k.swapper), v) ELSE pa(v)

\* Variant: every address is in the linear map.
PaArm64Linear(k, v) == v - k.linear + k.physBase

\* The kernel image is outside of the linear map since kimage_voffset exists.
PaArm64(k, v) ==
    IF k.voffset = -1 \/ (k.linear <= v /\ v < k.linearEnd)
    THEN v - k.linear + k.physBase
    ELSE v - k.voffset

VaddrToPaddrArm64(k, v) ==
    WalkFrom(k, vaddr_to_paddr_arm64(k.levels), PaArm64(k, k.swapper), v)

\* The symbol of the root is taken as a physical address.
VaddrToPaddrMips64(k, v) ==
    IF k.ckseg <= v /\ v < k.cksegEnd THEN Offset(v, k.cksegSize)
    ELSE IF k.xkphys <= v /\ v < k.xkphysEnd THEN Offset(v, k.maxPhys)
    ELSE WalkFrom(k, vaddr_to_paddr_mips64, k.swapper, v)

VaddrToPaddrLoongarch64(k, v) ==
    LET direct(x) == k.xkprange <= x /\ x < k.xkvrange
    IN  IF direct(v) THEN Offset(v, k.maxPhys)
        ELSE IF direct(k.swapper)
        THEN WalkFrom(k, vaddr_to_paddr_loongarch64, Offset(k.swapper, k.maxPhys), v)
        ELSE NotPaddr

VaddrToPaddrRiscv64(k, v) ==
    LET vtop(x) == IF x >= k.link THEN x - k.kernelPa ELSE x - k.pageOffset + k.physBase
    IN  IF v >= k.pageOffset /\ ~(k.modules <= v /\ v <= k.modulesEnd)
        THEN vtop(v)
        ELSE WalkFrom(k, vtop_riscv64(k.levels), vtop(k.swapper), v)

\* The table of chunks of the vmemmap.
vmemmap_to_phys_sparc64(k, v) ==
    LET table == k.vmemmapTable[(v - k.vmemmapStart) \div k.tableSize]
    IN  IF table \notin DOMAIN k.chunks THEN NotPaddr
        ELSE k.chunks[table][(v % k.tableSize) \div k.chunkSize] + Offset(v - k.vmemmapStart, k.chunkSize)

VaddrToPaddrSparc64(k, v) ==
    LET general == vaddr_to_paddr_general(k.loads, v)
    IN  IF general # NotPaddr THEN general
        ELSE IF k.vmemmap /\ k.vmemmapStart <= v /\ v < k.vmemmapEnd
        THEN vmemmap_to_phys_sparc64(k, v)
        ELSE IF v >= k.vmallocStart
        THEN WalkFrom(k, IF k.levels = 4 THEN vtop4_sparc64 ELSE vtop3_sparc64,
                      vaddr_to_paddr_general(k.loads, k.swapper), v)
        ELSE NotPaddr

\* vtop_ia64() before the page tables.
DirectIa64(k, v) ==
    LET general == vaddr_to_paddr_general(k.loads, v)
    IN  IF general # NotPaddr THEN general
        ELSE IF k.vmallocStart <= v /\ v < k.uncached THEN NotPaddr
        ELSE Machine(k, v - k.kernelStart + Aligned(k.physBase, k.trSize))

VaddrToPaddrIa64(k, v) ==
    IF v >= k.cached THEN v - k.cached
    ELSE IF v >= k.uncached THEN v - k.uncached
    ELSE IF v < k.vmallocRegion THEN 0
    ELSE IF DirectIa64(k, v) # NotPaddr THEN DirectIa64(k, v)
    ELSE WalkFrom(k, IF k.levels = 4 THEN vtop4_ia64 ELSE vtop3_ia64, DirectIa64(k, k.swapper), v)

(***************************************************************************)
(* get_vmemmap_list_info(): the list is read once to count and once to     *)
(* copy; it ends at 0 or at its head.  next maps a node to the next one.   *)
(***************************************************************************)
VmemmapList(head, next) ==
    LET RECURSIVE from(_, _)
        from(n, seen) == IF n \notin DOMAIN next THEN << >>
                         ELSE IF next[n] \in {0, head} THEN Append(seen, n)
                         ELSE from(next[n], Append(seen, n))
    IN  from(head, << >>)

VmemmapBase(k) ==
    LET virts == {k.virt[n] : n \in {VmemmapList(k.head, k.next)[i] : i \in DOMAIN VmemmapList(k.head, k.next)}}
    IN  CHOOSE x \in virts \cup {k.vmemmapStart} : \A y \in virts \cup {k.vmemmapStart} : x <= y

ppc64_vmemmap_to_phys(k, v) ==
    LET list == VmemmapList(k.head, k.next)
        hits == {i \in DOMAIN list : k.virt[list[i]] <= v /\ v < k.virt[list[i]] + k.psize}
        i == CHOOSE i \in hits : \A j \in hits : i <= j
    IN  IF hits = {} THEN NotPaddr ELSE k.phys[list[i]] + v - k.virt[list[i]]

DirectPpc64(k, v) ==
    LET general == vaddr_to_paddr_general(k.loads, v)
    IN  IF general # NotPaddr THEN general
        ELSE IF is_vmalloc_addr(k, v) THEN NotPaddr ELSE v - k.kernelStart

VaddrToPaddrPpc64(k, v) ==
    LET walk == WalkFrom(k, ppc64_vtop_level4(k.levels), DirectPpc64(k, k.swapper), v)
    IN  IF k.vmemmap /\ v >= (IF k.head # 0 THEN VmemmapBase(k) ELSE k.vmemmapStart)
        THEN IF k.head = 0 THEN walk ELSE ppc64_vmemmap_to_phys(k, v)
        ELSE IF DirectPpc64(k, v) # NotPaddr \/ ~(k.vmallocInfo \/ k.number # NotFound)
        THEN DirectPpc64(k, v)
        ELSE walk

VaddrToPaddrPpc(k, v) ==
    LET general == vaddr_to_paddr_general(k.loads, v)
    IN  IF general # NotPaddr THEN general
        ELSE IF ~k.vmallocInfo \/ is_vmalloc_addr(k, v) THEN NotPaddr
        ELSE v - k.kernelStart

\* vmalloc_start is a number of vmcoreinfo (ppc64), or the start of the first
\* area of a list, which is read with the translation of the architecture while
\* vmalloc_start is still 0.  areaList is vmap_area_list or vmlist, and areaStart
\* what is added to the address read there.
DirectMap(k, v) ==
    CASE k.arch = "x86"   -> DirectX86(k, v)
      [] k.arch = "ppc64" -> DirectPpc64(k, v)
      [] k.arch = "ppc"   -> VaddrToPaddrPpc(k, v)

VmallocStart(k) ==
    LET word(v) == LET at == DirectMap([k EXCEPT !.vmallocStart = 0], v)
                   IN  IF at \in DOMAIN k.words THEN k.words[at] ELSE NotFound
    IN  IF k.arch = "ppc64" /\ k.number # NotFound THEN k.number
        ELSE IF ~k.vmallocInfo THEN 0
        ELSE IF word(k.areaList) = NotFound THEN NotFound
        ELSE word(word(k.areaList) + k.areaStart)

VaddrToPaddrS390x(k, v) ==
    LET general == vaddr_to_paddr_general(k.loads, v)
    IN  IF general # NotPaddr THEN general
        ELSE IF ~k.highMemory THEN NotPaddr
        ELSE IF is_vmalloc_addr(k, v)
        THEN vtop_s390x(k.mem, (IF vaddr_to_paddr_general(k.loads, k.swapper) # NotPaddr
                                THEN vaddr_to_paddr_general(k.loads, k.swapper)
                                ELSE k.swapper) \div PageSize, v)
        ELSE v

\* Kernels with os_info: the identity map and the kernel have their own bases.
VaddrToPaddrS390xVr(k, v) ==
    LET direct(x) == IF x < k.lowcore \/ (k.amode31 <= x /\ x < k.amode31End) THEN x
                     ELSE IF x < k.vmemmapStart THEN x - k.identity
                     ELSE IF x >= k.kvbase THEN x - k.kvbase + k.kaslrPhys
                     ELSE NotPaddr
    IN  IF direct(v) # NotPaddr THEN direct(v)
        ELSE vtop_s390x(k.mem, direct(k.swapper) \div PageSize, v)
\* The hypervisor's own addresses.  x86 has no text area; ia64 walks from the
\* start of the frame table.
kvtop_xen(k, v) ==
    LET direct(x) == IF k.text <= x /\ x < k.textEnd THEN x - k.text + k.xenPhys
                     ELSE IF k.direct <= x /\ x < k.directEnd THEN x - k.direct
                     ELSE NotPaddr
        mmu == CASE k.machine = "x86_64" -> kvtop_xen_x86_64
                 [] k.machine = "x86"    -> kvtop_xen_x86
                 [] k.machine = "ia64"   -> kvtop_xen_ia64
    IN  IF ~(k.xenStart <= v /\ v < k.xenEnd) THEN NotPaddr
        ELSE IF direct(v) # NotPaddr THEN direct(v)
        ELSE IF k.machine = "ia64" /\ ~(k.frameTable <= v /\ v < k.frameTableEnd) THEN NotPaddr
        ELSE WalkFrom(k, mmu, direct(k.swapper), IF k.machine = "ia64" THEN v - k.frameTable ELSE v)

-----------------------------------------------------------------------------
(***************************************************************************)
(* The functions a build for one architecture uses; each header selects    *)
(* its own.                                                                *)
(***************************************************************************)
Learn(k) ==
    CASE k.arch = "x86_64"  -> LET based == [k EXCEPT !.physBase = get_phys_base_x86_64(k)]
                               IN  [based EXCEPT !.pageOffset = get_page_offset_x86_64(based)]
      [] k.arch = "x86"     -> [k EXCEPT !.vmallocStart = VmallocStart(k)]
      [] k.arch = "arm"     -> [k EXCEPT !.physBase = get_phys_base_arm(k)]
      [] k.arch = "arm64"   -> [k EXCEPT !.physBase = get_phys_base_arm64(k)]
      [] k.arch = "riscv64" -> [k EXCEPT !.physBase = get_phys_base_riscv64(k)]
      [] k.arch = "ia64"    -> [MachdepIa64(k) EXCEPT !.physBase = get_phys_base_ia64(k)]
      [] k.arch = "ppc64"   -> [k EXCEPT !.vmallocStart = VmallocStart(k)]
      [] k.arch = "ppc"     -> [k EXCEPT !.vmallocStart = VmallocStart(k)]
      [] OTHER              -> k

VaddrToPaddr(k, v) ==
    CASE k.arch = "x86_64"      -> VtopX86_64(k, v)
      [] k.arch = "x86"         -> VaddrToPaddrX86(k, v)
      [] k.arch = "arm"         -> VaddrToPaddrArm(k, v)
      [] k.arch = "arm64"       -> VaddrToPaddrArm64(k, v)
      [] k.arch = "mips64"      -> VaddrToPaddrMips64(k, v)
      [] k.arch = "loongarch64" -> VaddrToPaddrLoongarch64(k, v)
      [] k.arch = "riscv64"     -> VaddrToPaddrRiscv64(k, v)
      [] k.arch = "sparc64"     -> VaddrToPaddrSparc64(k, v)
      [] k.arch = "ia64"        -> VaddrToPaddrIa64(k, v)
      [] k.arch = "ppc64"       -> VaddrToPaddrPpc64(k, v)
      [] k.arch = "ppc"         -> VaddrToPaddrPpc(k, v)
      [] k.arch = "s390x"       -> VaddrToPaddrS390x(k, v)
      [] k.arch = "s390x_vr"    -> VaddrToPaddrS390xVr(k, v)
      [] k.arch = "xen"         -> kvtop_xen(k, v)

-----------------------------------------------------------------------------
(***************************************************************************)
(* find_vmemmap_x86_64(): groups of pages of page structs that are         *)
(* contiguous in memory.  pgd is a sequence of pages of the next level, a  *)
(* page that is not there is empty; the last level holds the physical page *)
(* of a piece of the vmemmap, of HugeSize bytes, or 0, or NotHuge for a    *)
(* table of small pages, which ends the search.  A piece is counted only   *)
(* in pages that are there.  All pages that are there can be read.         *)
(***************************************************************************)
NotHuge == -4

VmemmapPieces(pgd, highPfn, structSize, hugeSize) ==
    LET all == FlattenSeq(FlattenSeq(pgd))
        n == (highPfn * structSize + hugeSize - 1) \div hugeSize
    IN  SubSeq(all, 1, IF n < Len(all) THEN n ELSE Len(all))

Group(s, structSize, hugeSize) ==
    [vmap |-> s.first, vmapEnd |-> s.last, rep |-> s.offset \div structSize,
     repEnd |-> (s.end - hugeSize) \div structSize]

\* Variant: the end of a hole does not start a group.
FindStepThroughHole(s, piece, structSize, hugeSize) ==
    LET valid == piece # 0
        data == IF valid THEN piece ELSE s.data
        first == IF valid /\ s.atStart THEN data ELSE s.first
        last == IF valid /\ (s.atStart \/ s.afterHole) THEN data - 1 ELSE s.last
        gap == IF valid THEN data # last + 1 ELSE s.afterValid
        now == [s EXCEPT !.first = first, !.last = last, !.end = @ + hugeSize]
    IN  [atStart |-> s.atStart /\ ~valid, afterHole |-> ~valid, afterValid |-> valid,
         data |-> data, last |-> data, end |-> now.end,
         first |-> IF gap THEN data ELSE first,
         offset |-> IF gap THEN now.end - hugeSize ELSE s.offset,
         groups |-> IF gap THEN Append(s.groups, Group(now, structSize, hugeSize)) ELSE s.groups]

\* One turn of the loop over the pieces.
FindStep(s, piece, structSize, hugeSize) ==
    LET valid == piece # 0
        data == IF valid THEN piece ELSE s.data
        fresh == valid /\ (s.atStart \/ s.afterHole)
        first == IF fresh THEN data ELSE s.first
        last == IF fresh THEN data - 1 ELSE s.last
        gap == IF valid THEN data # last + 1 ELSE s.afterValid
        stop == gap \/ (valid /\ s.afterHole)
        now == [s EXCEPT !.first = first, !.last = last, !.end = @ + hugeSize]
    IN  [atStart |-> s.atStart /\ ~valid, afterHole |-> ~valid, afterValid |-> valid,
         data |-> data, last |-> data, end |-> now.end,
         first |-> IF stop THEN data ELSE first,
         offset |-> IF stop THEN now.end - hugeSize ELSE s.offset,
         groups |-> IF gap THEN Append(s.groups, Group(now, structSize, hugeSize)) ELSE s.groups]

find_vmemmap_x86_64(pgd, highPfn, structSize, hugeSize) ==
    LET start == [atStart |-> TRUE, afterHole |-> FALSE, afterValid |-> FALSE, data |-> 0,
                  last |-> 0, end |-> 0, first |-> 0, offset |-> 0, groups |-> << >>]
        pieces == VmemmapPieces(pgd, highPfn, structSize, hugeSize)
        s == FoldLeft(LAMBDA acc, piece : FindStep(acc, piece, structSize, hugeSize), start, pieces)
    IN  IF \E i \in DOMAIN pieces : pieces[i] = NotHuge THEN NotFound
        ELSE Append(s.groups, Group(s, structSize, hugeSize))
=============================================================================
