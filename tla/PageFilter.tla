----------------------------- MODULE PageFilter -----------------------------
(***************************************************************************)
(* Which pages go into the dump: the 1st bitmap (pages that exist), the    *)
(* 2nd bitmap (pages to dump), the exclusion of pages by their descriptors *)
(* or by the free lists, and the passes that count and then write pages,   *)
(* cycle by cycle or over the bitmap file.                                 *)
(*                                                                         *)
(* Memory and options are one record, in, chosen at the start:             *)
(*   max, pfn_cyclic    info->max_mapnr, and info->pfn_cyclic when cyclic   *)
(*   loads    the PT_LOADs, in page frames: those of [start, data) have    *)
(*            data in the input file, those of [data, end) do not          *)
(*   memmaps  mem_map_data, ascending: page frames [start, end)            *)
(*   page     struct page of every frame: attr its flags, order the        *)
(*            compound order or, of a free page, page.private              *)
(*   zero     the frames filled with zero                                  *)
(*   mfn      domain-0 frame to machine frame, the identity without Xen    *)
(*   gvmem    gvmem_pfns: the frames vmap.. that hold the page structs of  *)
(*            the frames rep .. repEnd                                     *)
(*   level    the bits of the dump level                                   *)
(*   cyclic, elf, buddy (info->page_is_buddy is set), excludevm            *)
(*   poison   the VMCOREINFO has PG_hwpoison                               *)
(*   broken   a free list that is broken                                   *)
(* Addresses are whole frames; a PT_LOAD that ends inside a page is left   *)
(* out.                                                                    *)
(***************************************************************************)
EXTENDS DumpBitmap, Sequences, FiniteSets

CONSTANTS
    NrFreeAreas,   \* ARRAY_LENGTH(zone.free_area)
    WordPfns,      \* BITS_PER_WORD
    PageStruct,    \* SIZE(page)
    PageSize,      \* info->page_size
    SaveEntries,   \* entries of struct sc_entry in one page
    Inputs         \* the values of in

VARIABLES
    in,        \* memory and options
    pc,        \* what the program does next
    range,     \* the PT_LOAD of in.loads an ELF pass is in
    cycle,     \* struct cycle
    bitmap1, bitmap2,
    count,     \* pfn_free, pfn_cache, ... and pfn_memhole
    num,       \* num_dumpable, from the counting pass
    kept,      \* the frames the writing pass has dumped
    deletes    \* the vmemmap frames deleted from the 2nd bitmap

vars == <<in, pc, range, cycle, bitmap1, bitmap2, count, num, kept, deletes>>

LOCAL Min2(a, b) == IF a < b THEN a ELSE b
LOCAL Max2(a, b) == IF a > b THEN a ELSE b

Frames == 0 .. in.max - 1

Counters == {"zero", "cache", "cachepri", "user", "free", "hwpoison", "offline", "memhole"}

NoCounts == [c \in Counters |-> IF c = "memhole" THEN in.max ELSE 0]

\* paddr_to_offset() finds the page in the input file.
InSegs(m) == \E i \in 1 .. Len(in.loads) : in.loads[i].start <= m /\ m < in.loads[i].data

-----------------------------------------------------------------------------
(***************************************************************************)
(* The bits of memory.  A part of a PT_LOAD is set bit by bit up to a byte *)
(* of the bitmap, byte by byte, and bit by bit at the end.                 *)
(***************************************************************************)
\* Variant: the end of the cycle is not looked at.
LoadPartUncut(l, c) == [start |-> Max2(l.start, c.start), end |-> l.end]

LoadPart(l, c) == [start |-> Max2(l.start, c.start), end |-> Min2(l.end, c.end)]

HeadBits(p) == p.start .. Min2(Roundup(p.start, BitPerByte), p.end) - 1

TailBits(p) == Max2(Round(p.end, BitPerByte), p.start) .. p.end - 1

\* The bytes set by memset(), counted from the start of the cycle.
WholeBytes(p, c) ==
    (Min2(Roundup(p.start, BitPerByte), p.end) - c.start) \div BitPerByte
        .. (Max2(Round(p.end, BitPerByte), p.start) - c.start) \div BitPerByte - 1

LoadBits(l, c) ==
    LET p == LoadPart(l, c)
    IN  {m - c.start : m \in HeadBits(p) \cup TailBits(p)}
          \cup {b \in 0 .. c.end - c.start : b \div BitPerByte \in WholeBytes(p, c)}

\* How often pfn_memhole is decremented for a PT_LOAD.
LoadCounted(l, c) ==
    LET p == LoadPart(l, c)
    IN  Cardinality(HeadBits(p)) + Cardinality(TailBits(p))
          + BitPerByte * Cardinality(WholeBytes(p, c))

LoadsIn(c) ==
    {i \in 1 .. Len(in.loads) : LET p == LoadPart(in.loads[i], c) IN p.start < p.end}

RECURSIVE SumCounted(_, _)
SumCounted(S, c) ==
    IF S = {} THEN 0
    ELSE LET i == CHOOSE i \in S : TRUE
         IN  LoadCounted(in.loads[i], c) + SumCounted(S \ {i}, c)

\* create_bitmap_from_memhole()
CreateBitmapFromMemhole(bm, c) ==
    [InitializeBitmap(bm) EXCEPT
        !.buf = UNION {LoadBits(in.loads[i], c) : i \in LoadsIn(c)}]

\* create_1st_bitmap_file()
CreateFirstBitmapFile(bm) ==
    [bm EXCEPT !.disk = {m \in Frames : \E i \in 1 .. Len(in.loads) :
                            in.loads[i].start <= m /\ m < in.loads[i].end}]

-----------------------------------------------------------------------------
(***************************************************************************)
(* Excluding pages.  st is what the exclusion changes: the 2nd bitmap, the *)
(* cycle and the counters.                                                 *)
(***************************************************************************)
ClearOne(st, counter, pfn) ==
    IF CanSetBit(st.bm, in.mfn[pfn], st.cyc)
    THEN [st EXCEPT !.bm = SetBitmap(@, in.mfn[pfn], FALSE, st.cyc),
                    !.cnt[counter] = @ + 1]
    ELSE st

RECURSIVE ClearRange(_, _, _, _)
ClearRange(st, counter, pfn, endpfn) ==
    IF pfn >= endpfn THEN st
    ELSE ClearRange(ClearOne(st, counter, pfn), counter, pfn + 1, endpfn)

\* Variant: what is beyond the cycle is forgotten.
ExcludeRangeForgetting(st, counter, pfn, endpfn) ==
    ClearRange(st, counter, pfn, Min2(endpfn, st.cyc.end))

\* exclude_range(): what is beyond the cycle is left for the next one.
ExcludeRange(st, counter, pfn, endpfn) ==
    ClearRange([st EXCEPT !.cyc.exStart = st.cyc.end,
                          !.cyc.exEnd = endpfn,
                          !.cyc.exCounter = counter],
               counter, pfn, Min2(endpfn, st.cyc.end))

Has(d, a) == a \in d.attr

isAnon(d) == Has(d, "anon") /\ ~ Has(d, "slab")

isOffline(d) == Has(d, "offline") /\ ~ Has(d, "slab")

\* The test for a slab is that of page_is_buddy_v3(), which goes by _mapcount;
\* PG_buddy, which page_is_buddy_v2() goes by, is on no slab page.
isBuddy(d) == in.buddy /\ Has(d, "buddy") /\ ~ Has(d, "slab")

\* An order the page is not aligned to is invalid.
CompoundOrder(d, pfn) == IF Has(d, "head") /\ pfn % 2 ^ d.order = 0 THEN d.order ELSE 0

\* is_cache_page(): "swapcache" is PG_swapcache where that bit means it.
is_cache_page(d) == Has(d, "lru") \/ Has(d, "swapcache")

\* The tests of __exclude_unnecessary_pages() in their order: whether one
\* applies, the counter and the number of pages it excludes.
Tests(pfn) ==
    LET d == in.page[pfn]
        n == 2 ^ CompoundOrder(d, pfn)
    IN  << [on |-> Has(d, "tail"), counter |-> "none", n |-> n],
           [on |-> "free" \in in.level /\ isBuddy(d),
            counter |-> IF d.order >= NrFreeAreas THEN "none" ELSE "free", n |-> 2 ^ d.order],
           [on |-> "free" \in in.level /\ Has(d, "unaccepted"),
            counter |-> "free", n |-> 2 ^ (NrFreeAreas - 1)],
           [on |-> "cache" \in in.level /\ is_cache_page(d) /\ ~ Has(d, "private") /\ ~ isAnon(d),
            counter |-> "cache", n |-> n],
           [on |-> "cachepri" \in in.level /\ is_cache_page(d) /\ ~ isAnon(d),
            counter |-> IF Has(d, "private") THEN "cachepri" ELSE "cache", n |-> n],
           [on |-> "user" \in in.level /\ (isAnon(d) \/ Has(d, "hugetlb")),
            counter |-> "user", n |-> n],
           [on |-> in.poison /\ Has(d, "hwpoison"), counter |-> "hwpoison", n |-> n],
           [on |-> isOffline(d), counter |-> "offline", n |-> n],
           [on |-> TRUE, counter |-> "none", n |-> n] >>

FirstOn(t) == t[CHOOSE i \in DOMAIN t : t[i].on /\ \A j \in DOMAIN t : t[j].on => i <= j]

Skipped(st, pfn) ==
    \/ in.cyclic /\ ~ InCycle(pfn, st.cyc)
    \/ ~ InSegs(in.mfn[pfn])

\* The loop of __exclude_unnecessary_pages() from frame pfn on, with v the test
\* that applies to that frame.
RECURSIVE ScanPages(_, _, _), ScanPage(_, _, _, _)
ScanPage(st, pfn, pfn_end, v) ==
    IF Skipped(st, pfn) \/ v.counter = "none" THEN ScanPages(st, pfn + 1, pfn_end)
    ELSE IF v.n = 1 THEN ScanPages(ClearOne(st, v.counter, pfn), pfn + 1, pfn_end)
    ELSE ScanPages(ExcludeRange(st, v.counter, pfn, pfn + v.n), pfn + v.n, pfn_end)

ScanPages(st, pfn, pfn_end) ==
    IF pfn >= pfn_end THEN st ELSE ScanPage(st, pfn, pfn_end, FirstOn(Tests(pfn)))

\* __exclude_unnecessary_pages(): a pending exclusion first.
ExcludeMemMap(st, mm) ==
    IF st.cyc.exStart < st.cyc.exEnd
    THEN LET s == ExcludeRange(st, st.cyc.exCounter, st.cyc.exStart, st.cyc.exEnd)
         IN  ScanPages(s, s.cyc.exEnd, mm.end)
    ELSE ScanPages(st, mm.start, mm.end)

RECURSIVE ExcludeUnnecessary(_, _)
ExcludeUnnecessary(st, k) ==
    IF k > Len(in.memmaps) THEN st
    ELSE LET mm == in.memmaps[k]
         IN  ExcludeUnnecessary(
                 IF mm.end >= st.cyc.start /\ mm.start <= st.cyc.end
                 THEN ExcludeMemMap(st, mm) ELSE st,
                 k + 1)

\* reset_bitmap_of_free_pages(): the blocks on the free lists.
FreeBlocks == {p \in Frames : Has(in.page[p], "buddy")}

RECURSIVE ExcludeFreeLists(_, _)
ExcludeFreeLists(st, heads) ==
    IF heads = {} THEN st
    ELSE LET h == CHOOSE h \in heads : TRUE
         IN  ExcludeFreeLists(ClearRange(st, "free", h, h + 2 ^ in.page[h].order),
                              heads \ {h})

\* exclude_nodata_pages(): pages a PT_LOAD has no data for.
NodataFrames(c) ==
    UNION {Max2(in.loads[i].data, c.start) .. Min2(in.loads[i].end, c.end) - 1
              : i \in 1 .. Len(in.loads)}

RECURSIVE ClearFrames(_, _, _)
ClearFrames(bm, frames, c) ==
    IF frames = {} THEN bm
    ELSE LET m == CHOOSE m \in frames : \A k \in frames : m <= k
         IN  ClearFrames(SetBitmap(bm, m, FALSE, c), frames \ {m}, c)

(***************************************************************************)
(* exclude_zero_pages_cyclic(), one page.  The bitmap is written out       *)
(* before it is asked about a page.                                        *)
(***************************************************************************)
ZeroStepFrom(st, pfn) ==
    LET asked == [st EXCEPT !.bm = AfterAsking(@, pfn)]
    IN  IF IsDumpable(st.bm, pfn, st.cyc) /\ pfn \in in.zero
        THEN [asked EXCEPT !.bm = SetBitmap(@, pfn, FALSE, st.cyc), !.cnt["zero"] = @ + 1]
        ELSE asked

ZeroStep(st, pfn) ==
    IF InSegs(pfn) THEN ZeroStepFrom([st EXCEPT !.bm = SyncBitmap(@)], pfn) ELSE st

RECURSIVE ExcludeZero(_, _)
ExcludeZero(st, pfn) ==
    IF pfn >= st.cyc.end THEN st ELSE ExcludeZero(ZeroStep(st, pfn), pfn + 1)

(***************************************************************************)
(* create_2nd_bitmap() up to the unused vmemmap pages, for the cycle c and *)
(* the counters cnt.                                                       *)
(***************************************************************************)
FirstSecondBitmap(c) ==
    IF in.cyclic THEN CreateBitmapFromMemhole(bitmap2, c)
    ELSE [bitmap2 EXCEPT !.disk = CreateFirstBitmapFile(bitmap1).disk]

Synced(st) == [st EXCEPT !.bm = SyncBitmap(@)]

\* The descriptors are looked at only if they can exclude a page.
DescriptorsWanted ==
    \/ in.level \cap {"cache", "cachepri", "user"} # {}
    \/ in.poison
    \/ "free" \in in.level /\ in.buddy

DescriptorPass(st) == IF DescriptorsWanted THEN ExcludeUnnecessary(st, 1) ELSE st

FreePass(st) ==
    IF "free" \in in.level /\ ~ in.buddy THEN ExcludeFreeLists(st, FreeBlocks) ELSE st

ZeroPass(st) ==
    IF "zero" \in in.level /\ in.elf THEN ExcludeZero(Synced(st), st.cyc.start) ELSE st

SecondBitmapOf(c, cnt) ==
    LET st == [bm |-> ClearFrames(FirstSecondBitmap(c), NodataFrames(c), c),
               cyc |-> c, cnt |-> cnt]
    IN  Synced(ZeroPass(FreePass(DescriptorPass(st))))

\* exclude_free_page() fails on a broken list.
FreeListBroken == in.broken /\ "free" \in in.level /\ ~ in.buddy

-----------------------------------------------------------------------------
(***************************************************************************)
(* --exclude-unused-vm: the frames that hold only page structs of excluded *)
(* pages.  Runs of words of existing and excluded pages are looked for     *)
(* block by block.                                                         *)
(***************************************************************************)
UnusedWord(w, bm) ==
    \A p \in w * WordPfns .. (w + 1) * WordPfns - 1 : p \in bitmap1.disk /\ p \notin bm.disk

SameBlock(v, w) == BlockOf(v * WordPfns) = BlockOf(w * WordPfns)

\* Runs of at least two words that cannot be made longer in their block.
UnusedRuns(bm) ==
    LET W == 0 .. Roundup(in.max, BlockPfns) \div WordPfns - 1
        Run(a, b) == SameBlock(a, b) /\ \A w \in a .. b : UnusedWord(w, bm)
    IN  {r \in W \X W :
            /\ r[1] < r[2] /\ Run(r[1], r[2])
            /\ r[1] - 1 \in W => ~ Run(r[1] - 1, r[2])
            /\ r[2] + 1 \in W => ~ Run(r[1], r[2] + 1)}

\* find_vmemmap_pages(): whole frames only, so up at the start, down at the end.
VmemmapFirst(g, startpfn) ==
    g.vmap + Roundup((startpfn - g.rep) * PageStruct, PageSize) \div PageSize

VmemmapEnd(g, endpfn) ==
    g.vmap + ((endpfn + 1 - g.rep) * PageStruct) \div PageSize

FoundFrames(startpfn, endpfn) ==
    LET fits == {i \in 1 .. Len(in.gvmem) : in.gvmem[i].rep <= startpfn /\ endpfn <= in.gvmem[i].repEnd}
        g == in.gvmem[CHOOSE i \in fits : \A j \in fits : i <= j]
    IN  IF fits = {} THEN {} ELSE VmemmapFirst(g, startpfn) .. VmemmapEnd(g, endpfn) - 1

(***************************************************************************)
(* The file of deletes: a buffer of SaveEntries entries in front of it.    *)
(***************************************************************************)
NoSaves == [buf |-> [i \in 1 .. SaveEntries |-> {}], pos |-> 0, file |-> << >>, len |-> 0]

SaveDeletes(sc, e) ==
    LET s == IF sc.pos = SaveEntries
             THEN [sc EXCEPT !.file = @ \o sc.buf, !.len = @ + SaveEntries, !.pos = 0]
             ELSE sc
    IN  [s EXCEPT !.buf[s.pos + 1] = e, !.pos = @ + 1]

\* Variant: only a page that is full is written.
ResetSaveControlFull(sc) ==
    IF sc.pos # SaveEntries THEN sc
    ELSE [sc EXCEPT !.file = @ \o sc.buf, !.len = @ + sc.pos, !.pos = SaveEntries]

\* reset_save_control() writes a whole page but counts the entries in it.
ResetSaveControl(sc) ==
    IF sc.pos = 0 THEN sc
    ELSE [sc EXCEPT !.file = @ \o sc.buf, !.len = @ + sc.pos, !.pos = SaveEntries]

RECURSIVE SaveRuns(_, _)
SaveRuns(sc, runs) ==
    IF runs = {} THEN sc
    ELSE LET r == CHOOSE r \in runs : \A q \in runs : r[1] <= q[1]
             found == FoundFrames(r[1] * WordPfns, (r[2] + 1) * WordPfns - 1)
         IN  SaveRuns(IF found = {} THEN sc ELSE SaveDeletes(sc, found), runs \ {r})

\* What get_deletes() returns until there is no more.
DeletedFrames(bm) ==
    LET sc == ResetSaveControl(SaveRuns(NoSaves, UnusedRuns(bm)))
    IN  UNION {sc.file[i] : i \in 1 .. sc.len}

RECURSIVE ClearAll(_, _)
ClearAll(bm, frames) ==
    IF frames = {} THEN bm
    ELSE LET m == CHOOSE m \in frames : TRUE
         IN  ClearAll(SetBitmapFile(bm, in.mfn[m], FALSE), frames \ {m})

\* find_unused_vmemmap_pages() leaves the last block in the buffer.
WithoutVmemmap(bm) ==
    SyncBitmap(ClearAll(LoadBlock(bm, BlockOf(in.max - 1)), DeletedFrames(bm)))

-----------------------------------------------------------------------------
(***************************************************************************)
(* The passes.                                                             *)
(***************************************************************************)
PfnCycle == IF in.cyclic THEN in.pfn_cyclic ELSE in.max

WholeCycle == FirstCycle(0, in.max, PfnCycle, in.elf)

Init ==
    /\ in \in Inputs
    /\ pc = IF in.cyclic THEN "count" ELSE "create"
    /\ range = 0
    /\ cycle = WholeCycle
    /\ bitmap1 = NewBitmap(~ in.cyclic)
    /\ bitmap2 = NewBitmap(~ in.cyclic)
    /\ count = NoCounts
    /\ num = 0 /\ kept = {} /\ deletes = {}

\* create_dump_bitmap() without cycles.
CreateDumpBitmap ==
    /\ pc = "create"
    /\ ~ FreeListBroken
    /\ bitmap1' = CreateFirstBitmapFile(bitmap1)
    /\ \E st \in {SecondBitmapOf(cycle, [count EXCEPT !["memhole"] = in.max - Cardinality(bitmap1'.disk)])} :
           bitmap2' = st.bm /\ cycle' = st.cyc /\ count' = st.cnt
    /\ pc' = IF in.excludevm THEN "vmemmap" ELSE "count"
    /\ UNCHANGED <<in, range, num, kept, deletes>>

DeleteVmemmap ==
    /\ pc = "vmemmap"
    /\ bitmap1' = LoadBlock(bitmap1, BlockOf(in.max - 1))
    /\ bitmap2' = WithoutVmemmap(bitmap2)
    /\ deletes' = DeletedFrames(bitmap2)
    /\ pc' = "count"
    /\ UNCHANGED <<in, range, cycle, count, num, kept>>

\* The second bitmap of the current cycle: made now, or in the file already.
CycleBitmap ==
    IF in.cyclic THEN SecondBitmapOf(cycle, count)
    ELSE [bm |-> bitmap2, cyc |-> cycle, cnt |-> count]

Dumpable(bm, first, c) == {p \in first .. c.end - 1 : IsDumpable(bm, p, c)}

\* Variant: the cycle that create_2nd_bitmap() changed is not the one counted with.
CountCycleForgetting ==
    /\ pc = "count" /\ ~ EndCycle(cycle, in.max)
    /\ ~ (in.cyclic /\ FreeListBroken)
    /\ \E st \in {CycleBitmap} :
           /\ num' = num + Cardinality(Dumpable(st.bm, cycle.start, cycle))
           /\ bitmap2' = st.bm /\ count' = st.cnt
           /\ cycle' = UpdateCycle(cycle, in.max, PfnCycle)
    /\ UNCHANGED <<in, pc, range, bitmap1, kept, deletes>>

\* get_num_dumpable_cyclic(), a cycle.
CountCycle ==
    /\ pc = "count" /\ ~ EndCycle(cycle, in.max)
    /\ ~ (in.cyclic /\ FreeListBroken)
    /\ \E st \in {CycleBitmap} :
           /\ num' = num + Cardinality(Dumpable(st.bm, cycle.start, cycle))
           /\ bitmap2' = st.bm /\ count' = st.cnt
           /\ cycle' = UpdateCycle(st.cyc, in.max, PfnCycle)
    /\ UNCHANGED <<in, pc, range, bitmap1, kept, deletes>>

\* The range of a pass of the writers: all of memory, or a PT_LOAD.
RangeStart(r) == IF in.elf THEN in.loads[r].start ELSE 0
RangeEnd(r) == IF in.elf THEN in.loads[r].end ELSE in.max

CycleOf(r) == FirstCycle(RangeStart(r), RangeEnd(r), PfnCycle, in.elf)

\* num_dumpable is known; the counters start again in cyclic mode.
StartWriting ==
    /\ pc = "count" /\ EndCycle(cycle, in.max) /\ num > 0
    /\ pc' = IF in.cyclic /\ ~ in.elf THEN "bitmap1" ELSE "write"
    /\ range' = 1
    /\ cycle' = CycleOf(1)
    /\ count' = IF in.cyclic THEN NoCounts ELSE count
    /\ UNCHANGED <<in, bitmap1, bitmap2, num, kept, deletes>>

\* create_1st_bitmap() of a cycle, for write_kdump_bitmap1().
WriteBitmap1Cycle ==
    /\ pc = "bitmap1"
    /\ bitmap1' = CreateBitmapFromMemhole(bitmap1, cycle)
    /\ count' = [count EXCEPT !["memhole"] = @ - SumCounted(LoadsIn(cycle), cycle)]
    /\ LET c == UpdateCycle(cycle, in.max, PfnCycle)
       IN  IF EndCycle(c, in.max)
           THEN pc' = "write" /\ cycle' = CycleOf(1)
           ELSE pc' = pc /\ cycle' = c
    /\ UNCHANGED <<in, range, bitmap2, num, kept, deletes>>

\* A cycle of write_kdump_pages_and_bitmap_cyclic() or write_elf_pages_cyclic().
WriteCycle ==
    /\ pc = "write" /\ ~ EndCycle(cycle, RangeEnd(range))
    /\ \E st \in {CycleBitmap} :
           /\ kept' = kept \cup Dumpable(st.bm, Max2(RangeStart(range), cycle.start), cycle)
           /\ bitmap2' = st.bm /\ count' = st.cnt
           /\ cycle' = UpdateCycle(st.cyc, RangeEnd(range), PfnCycle)
    /\ UNCHANGED <<in, pc, range, bitmap1, num, deletes>>

NextRange ==
    /\ pc = "write" /\ EndCycle(cycle, RangeEnd(range))
    /\ IF in.elf /\ range < Len(in.loads)
       THEN range' = range + 1 /\ cycle' = CycleOf(range + 1) /\ pc' = pc
       ELSE pc' = "done" /\ UNCHANGED <<range, cycle>>
    /\ UNCHANGED <<in, bitmap1, bitmap2, count, num, kept, deletes>>

Fails ==
    /\ \/ pc = "create" /\ FreeListBroken
       \/ pc = "count" /\ in.cyclic /\ FreeListBroken /\ ~ EndCycle(cycle, in.max)
       \/ pc = "count" /\ EndCycle(cycle, in.max) /\ num = 0
    /\ pc' = "failed"
    /\ UNCHANGED <<in, range, cycle, bitmap1, bitmap2, count, num, kept, deletes>>

Returned == pc \in {"done", "failed"} /\ UNCHANGED vars

Next ==
    \/ CreateDumpBitmap \/ DeleteVmemmap \/ CountCycle \/ StartWriting
    \/ WriteBitmap1Cycle \/ WriteCycle \/ NextRange \/ Fails \/ Returned

Spec == Init /\ [][Next]_vars

-----------------------------------------------------------------------------
(***************************************************************************)
(* Properties.  in.kind says what the block of pages a frame is in is used *)
(* for and in.head where that block starts.                                *)
(***************************************************************************)
TypeOK ==
    /\ pc \in {"create", "vmemmap", "count", "bitmap1", "write", "done", "failed"}
    /\ count \in [Counters -> Nat]
    /\ kept \subseteq Frames /\ num \in 0 .. in.max
    /\ bitmap2.no_block < 0 => bitmap2.fd \/ bitmap2.buf \subseteq 0 .. in.pfn_cyclic - 1

\* What the dump levels exclude (makedumpfile.8: -d).
ExcludedKind(k) ==
    \/ k = "free" /\ "free" \in in.level
    \/ k \in {"cache", "swap"} /\ in.level \cap {"cache", "cachepri"} # {}
    \/ k = "cachepri" /\ "cachepri" \in in.level
    \/ k = "user" /\ "user" \in in.level
    \/ k = "hwpoison" /\ in.poison
    \/ k = "offline" /\ DescriptorsWanted

HasData(f) == \E i \in 1 .. Len(in.loads) : in.loads[i].start <= f /\ f < in.loads[i].data

MfnHead(f) == LET p == CHOOSE p \in Frames : in.mfn[p] = f IN in.head[p]
MfnKind(f) == LET p == CHOOSE p \in Frames : in.mfn[p] = f IN in.kind[p]

\* A frame belongs in the dump: it has data and it is in no block that is to
\* be excluded.  The descriptors are not looked at if the first one is in a hole.
Wanted(f) ==
    /\ HasData(f)
    /\ ExcludedKind(MfnKind(f)) =>
           (in.buddy \/ MfnKind(f) # "free") /\ ~ HasData(in.mfn[MfnHead(f)])
    /\ ~ (in.elf /\ "zero" \in in.level /\ f \in in.zero)

\* No block is cut by the end of a PT_LOAD and goes on in another one.
BlocksInLoads ==
    \A p \in Frames : \A i \in 1 .. Len(in.loads) :
        LET l == in.loads[i] IN (l.start <= p /\ p < l.end) => l.start <= in.head[p] \/ ~ HasData(in.head[p])

Done == pc = "done"

\* exclude_range(), first_cycle(), update_cycle() and the two bitmap stores:
\* wherever the cycles cut memory and its blocks of pages, and whichever of the
\* descriptors and the free lists say what is free, the pages written so far are
\* exactly those that the dump level leaves; of an ELF dump with a block across
\* two PT_LOADs, no fewer.
KeptExact ==
    LET seen == IF Done THEN Frames
                ELSE IF in.elf THEN {} ELSE {f \in Frames : f < cycle.start}
        wanted == {f \in seen : Wanted(f)} \ deletes
    IN  pc \in {"write", "done"} =>
            /\ wanted \subseteq kept
            /\ (~ in.elf \/ (Done /\ BlocksInLoads)) => kept = wanted

\* write_kdump_pages_and_bitmap_cyclic() places page data after num_dumpable
\* descriptors: the writing pass never finds more pages than the counting pass
\* found, and in the end as many.
PassesAgree ==
    ~ in.elf => /\ Cardinality(kept) <= num \/ pc \in {"create", "vmemmap", "count"}
                /\ Done => Cardinality(kept) = num

\* No part of a PT_LOAD in a cycle lies inside one byte of the bitmap.
NoTinyParts ==
    in.cyclic => \A i \in 1 .. Len(in.loads) : \A s \in Frames :
        LET l == in.loads[i]
            c == [start |-> s, end |-> Min2(s + in.pfn_cyclic, in.max)]
            p == LoadPart(l, c)
        IN  (s % in.pfn_cyclic = 0 /\ p.start < p.end) => HeadBits(p) \cap TailBits(p) = {}

AllHaveData == \A i \in 1 .. Len(in.loads) : in.loads[i].data = in.loads[i].end

BlocksInMemory == \A p \in Frames : HasData(in.mfn[p]) <=> HasData(in.mfn[in.head[p]])

Excluded == count["zero"] + count["cache"] + count["cachepri"] + count["user"]
              + count["free"] + count["hwpoison"] + count["offline"]

\* print_report(): in spite of two passes and of blocks excluded in pieces, the
\* pages reported as remaining are the pages dumped, when every block of pages is
\* all in memory or not at all.
ReportExact ==
    (Done /\ ~ in.elf /\ AllHaveData /\ BlocksInMemory /\ NoTinyParts) =>
        in.max - count["memhole"] - Excluded = Cardinality(kept \cup deletes)

\* find_vmemmap_pages() and the save file: no page struct, or part of one, of a
\* page that is dumped is deleted, and what is deleted are frames of page structs.
StructsKept ==
    \A i \in 1 .. Len(in.gvmem) : \A f \in (kept \cup deletes) \cap (in.gvmem[i].rep .. in.gvmem[i].repEnd) :
        LET g == in.gvmem[i]
            at == (f - g.rep) * PageStruct
        IN  deletes \cap (g.vmap + at \div PageSize .. g.vmap + (at + PageStruct - 1) \div PageSize) = {}

\* save_deletes(), reset_save_control() and get_deletes(): whatever number of
\* runs of unused pages there is, each of them is read back and deleted once.
EveryRunDeleted ==
    (Done /\ in.excludevm) =>
        deletes = UNION {FoundFrames(r[1] * WordPfns, (r[2] + 1) * WordPfns - 1)
                            : r \in UnusedRuns([disk |-> {f \in Frames : Wanted(f)}])}
=============================================================================
