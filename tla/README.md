# A TLA+ model of makedumpfile

makedumpfile copies the memory of a crashed kernel from `/proc/vmcore` (or an
older dump) to a dump file, leaving out pages nobody needs. It runs in a small
kernel with little memory, on a machine that has just failed, and its output is
often all that is left to debug with. This directory models how it chooses,
reads, erases, writes, splits and puts together the pages, how it finds its way
in the memory of the crashed kernel, and what its options make of it. Line
numbers below are of `src/makedumpfile.c` unless another file is named.

## The system and its parts

| Part | State | What makes it hard | In this model |
|---|---|---|---|
| Parallel page writer (8561-8998) | `page_flag` lists, `page_data` buffers, `current_pfn`, two mutexes, a semaphore | interleavings, shared buffers, failures, time limit | `ParallelDump`, proved |
| Retry with the next dump level (10848-10926) | `num_retry`, all that the failed attempt left | state that is not reset | `ParallelRetry`, `SplitDump` |
| Serial page writer and write caches (4996-5124, 8424-8512, 9000-9182, 9534-9652) | `cd_header`, `cd_page`, the file | two regions of one file, ENOSPC at any byte | `OutputFile`, `SerialDump` |
| Memory reader and page cache (457-608, 1059-1149, `cache.c`) | LRU list, pool, mmap windows | evicted windows, failed reads, fallback from mmap() | `PageCache` |
| Cycle detection (`detect_cycle.c`) | `struct detect_cycle` | termination on any list | `DetectCycle` |
| Kernel log (5614-5938, `printk.c`) | log buffer, output file | corrupted logs | `DmesgLog` (records of Linux 3.5 to 5.9) |
| Bitmaps and page exclusion (54-95, 4650-4990, 5940-7260) | 1st and 2nd bitmap, in a file with a buffer of one block or one cycle at a time | ranges that cross cycles; two passes that must agree | `DumpBitmap` (proved), `PageFilter` |
| Unused vmemmap pages (6760-7000, `arch/x86_64.c`) | ranges saved in a file | rounding, groups of frames | `PageFilter`, `AddressTranslation` |
| Split dump files (7805-7990, 10690-10830) | splitblock table, child processes | boundaries, failing `fork()`, exit codes of children | `SplitDump` (proved) |
| Reassembling (10930-11500) | headers, bitmaps, ranges of the files | files in any order, incomplete ones | `SplitDump` (proved) |
| ELF dump files (7560-8420) | `PT_LOAD` headers, page data | two passes that must agree on the segments | `ElfDump` |
| Flattened format (5059-5090, 5126-5330) | a stream of (offset, size, data) | a stream cut short | `ElfDump` |
| Erasing data (`erase_info.c`) | sorted list of ranges, the report | overlapping orders, pages in any order, a report sized in advance | `EraseConfig`, `EraseInfo` (proved) |
| Memory maps of the crashed kernel (3200-3966) | `mem_map_data` | three memory models, nodes, holes, sections | `MemoryMaps` |
| Architectures (`arch/*.c`), Xen | what is known of the layout | bits, offsets, levels, pages of several sizes | `PageTables`, `AddressTranslation` |
| Symbols and vmcoreinfo (1700-3100) | the tables of symbols, sizes, offsets, numbers | several sources, in an order | `Vmcoreinfo` |
| Command line, buffer sizes (4500-4660, 11548-11884, 12130-12480) | `struct DumpInfo` | combinations of options, rounding, zero | `StartUp` |
| ELF input (`elf_info.c`) | table of `PT_LOAD`s | gaps, order | its look-ups, where they are used |
| sadump input, DWARF, eppic, messages | - | - | not modelled, see the end |

How they interact: `main()` reads the options, and `initial()` finds out about
the kernel: vmcoreinfo, layout, memory maps. `create_dumpfile()` builds the
bitmaps and calls `writeout_dumpfile()`, which writes headers and, cycle by
cycle, the bitmap and the pages of that cycle, with the serial or the parallel
page writer or as ELF. A kdump file is written through two caches into two
regions: descriptors, one per dumpable page and without a pfn, and page data. So
the number of dumpable pages has to be known first. In cyclic mode the bitmap is
therefore made twice: once to count and once to write. Each page that is written is
passed through the list of ranges to erase. When the disk is full
`create_dumpfile()` deletes the file and tries the next dump level. Everything
that looks into the crashed kernel goes through `readmem()` and its cache, the
log included. Split dumps fork one writer per file; reassembling reads the files
back in a later invocation.

What each part has to get right:

- *Page writers*: the n-th descriptor is that of the n-th dumpable page and
  points to that page's data, whatever the threads do. A call that returns TRUE
  has written all pages. It returns.
- *Caches and file*: what is written is what was put in, in place, whatever the
  sizes. After ENOSPC every descriptor left is one of a page that is there.
- *Page cache*: the page returned is the one asked for. No entry is lost.
- *Log*: an intact log is written once; a corrupted one up to the corruption.
- *Bitmaps*: the pages kept are those the dump level keeps, wherever cycles cut
  memory. Those counted in the first pass are those written in the second.
- *Split and reassemble*: the files cover all pages once, and together they are
  the dump that was not split. A child that failed is never overlooked.
- *ELF*: the segments announced are those written, and lead to their bytes.
- *Flattened*: putting the stream back in order gives the file.
- *Erasing*: what was to be erased is, nothing else is, and the report says so.
- *Addresses*: an address is translated as the kernel's own tables do.
- *vmcoreinfo*: what is written with `-g` is what `-i` reads.
- *Options*: what is accepted can be done, in whatever order it was asked for.

## Modules

### Threads, files and the log

**`PageStream`** is the promise of a page writer: it emits the descriptor of the
smallest dumpable page not yet written, completes when none is left, or gives up.

**`ParallelDump`** is `write_kdump_pages_parallel_cyclic()` and
`kdump_thread_function_cyclic()` over all cycles of a dump. `cpc` and `pc[t]` are
the program counters. The other variables have the names of the C variables; the
`page_flag` list of a thread is four arrays over slots (`ready`, `slotPfn`,
`slotZero`, `slotIndex`). One action is one access to shared memory or one
section under a mutex. `LockData`, `SkipBuffer`, `TakeBuffer` look for a buffer;
`SlotFree` is the spin on `ready`; `LockPfn`, `ScanPfn`, `MarkFilling`, `Post`
take a pfn and publish the slot; `ReadPage`, `ReadZeroPage`, `ReadFails`,
`MarkReady` fill it; `EndOfCycle` leaves the end marker. The consumer's
`ScanThread` is one turn of its `for` loop over the lists. `Candidate` is what it
finds at the chosen slot, and `Found`, `Rescan`, `Timeout` are what it does then.
`WritePage`, `FreeBuffer`, `ReleaseSlot` write the page and give back what held
it. `CancelThread` and `JoinThread` end the call, `NextCycle` starts the next.
A producer that has been cancelled stops at a cancellation point only.
`Faults` says what may go wrong: `alloc` (a producer cannot start), `read`,
`write`, `timeout` (WAIT_TIME passes). Memory is sequentially consistent: `ready`
is accessed with `__atomic` builtins, but `used` is only volatile, and the model
does not show what a weaker memory could do to it.

**`ParallelRetry`** puts `create_dumpfile()`'s retry around it.

**`OutputFile`** is a file that can seek, on a device that takes a limited number
of words, and the write caches. Words are 64 bits. A write that does not fit
writes what fits, as `write_and_check_space()` does. **`SerialDump`** is the
single-threaded writer on top of it, and the reader of such a file. A page has
8 words, which compression may shrink; a descriptor has 3; a cache has 32.
`CachePage` and `FlushCaches` are the two ways through `write_kdump_page()`
that succeed. `HeaderFlushFails` and `PageFlushFails` are the two that fail and
clean up. `NumPages` is `get_nr_pages()`, with its `int`.

**`PageCache`** is `readmem()` for one page, `cache.c` and `mappage_elf()`.
`used` and `pool` are the list and the stack of entries, `maps` the windows that
are mapped, `window` the copy of the latest one in `info`. The actions are the
ways through `readmem()`: `Hit`, `ReadPage`, `MapPage`, `MmapFails`, `ReadFails`.
A pointer into a window that was unmapped gives no page, or a page of the window
that has its address now.

**`DetectCycle`** has Brent's algorithm as operators on its `struct`.
**`DmesgLog`** is the record loop of `dump_dmesg()` with them. A log is the length
found at every place, the first and the next index.

### Choosing pages

**`DumpBitmap`** has the two kinds of bitmaps and the cycles as operators. A
bitmap in a file has one block in its buffer. `SetBitmapFile` stores that block
and loads another when a bit of another block is set, `SyncBitmap` stores it, and
asking for a bit may load a block over it (`AfterAsking`). A cycle is
`struct cycle`, with the exclusion that goes on in the next one.

**`PageFilter`** is `create_dump_bitmap()` and the loops over cycles of the
writers: `CreateDumpBitmap` (not cyclic), `CountCycle` (`get_num_dumpable_cyclic()`),
`StartWriting`, `WriteCycle`, and `DeleteVmemmap`. A page is what the tests of
`__exclude_unnecessary_pages()` tell apart: its kind and, for the head of a
compound page, the order. `Tests` are those tests in their order, `ExcludeRange`
is `exclude_range()` with what it carries over, `ExcludeFreeLists` the walk over
the buddy lists, `ZeroStep` the pass for zero pages, `SaveDeletes` and
`DeletedFrames` the file in which ranges of unused `struct page`s are kept.

### Writing other formats

**`SplitDump`** has `--split` with its processes and `--reassemble` after it. A file
is a header, and cells at offsets. `CountPages` is the counting pass with
`setup_splitting()`; `Fork`, `ForkFails`, `ChildExits`, `WaitChild` are
`writeout_multiple_dumpfiles()`, where a child writes a file with all its pages
or only some; `Finish` deletes the files and retries, or marks them as
incomplete. `StoreSplittingInfo`, `SortSplittingInfo` (one turn of the two loops),
`ReassembleHeader` and `ReassemblePages` are the second invocation, over any
list of the files.

**`ElfDump`** is the ELF writer byte by byte: the count of `PT_LOAD`s, the ELF
header, the loop over pages with its four ways (`ExcludePage`, `ContinueLoad`,
`SplitLoad`, `LastLoad`), the program headers in their cache, the disk that fills up,
and, when the output is flattened, the stream of records and
`rearrange_dumpdata()` over as much of it as arrived.

### Erasing

**`EraseConfig`** reads the configuration file token by token, with the one token
that may be given back and the sections of modules. **`EraseInfo`** takes the
ranges from there: the list `filter_info`, what `extract_filter_info()` takes out
for a page and puts back for the next, several writers that take pages, and the
report with the size reserved for it.

### The crashed kernel

**`PageTables`** has the page table walk of every architecture as a function of
memory, root and address. **`AddressTranslation`** has `vaddr_to_paddr()` of every
architecture around them, what `get_phys_base()`, `get_machdep_info()` and their
like conclude from `PT_LOAD`s and symbols, and `find_vmemmap_x86_64()`.
**`MemoryMaps`** is `get_mem_map()` for the three memory models.
**`Vmcoreinfo`** is which facts are fetched, written with `-g`, read with `-i`, from
the note or with `-x`, in which order, and what KASLR displaces.

### Options

**`StartUp`** is the loop over options, the checks of each mode, the sizes of the
cyclic buffer and the beginning of `initial()`.

### Checks and proofs

`MC*` modules give the constants their values, and for the functions the
reference definitions the answers are compared with. **`MCSequential`** puts the
parts around the threads into one specification: a behaviour is a run of one
part, which `part` names. Parts that are functions answer in one step.

`ParallelDumpInv`, `ParallelDumpProofs` and `ParallelOrderProofs` are the proof of
the threads; `SerialDumpProofs`, `PageCacheProofs`, `DmesgLogProofs` and
`SplitProofs` are those of the modules they are named after; `FilterProofs` has
those of `DumpBitmap` and `EraseInfo`, what decides which bytes reach the dump.
`DataLemmas` has what several of them need about naturals and sequences.

Definitions whose comment begins with "Variant" change one definition the way a
plausible mistake would. They are not part of any specification: they serve to
see that each property fails if the code is wrong in that way.

## What is checked

| Run | Specification | Shows |
|---|---|---|
| `parallel_cycles` | `FairSpec`, no faults | every dump completes (`Completes`), with two cycles, lists of two slots and as few buffers as threads |
| `parallel_faults` | `FairSpec`, read, write, timeout | `TypeOK`, `OrderedWrites`, `OwnData`, `EndsCountedOnce`; it implements `PageStream` (`WritesPageStream`); it `Returns` |
| `parallel_bitmapfile` | `Spec`, all faults, bitmap in a file | `CompleteOnSuccess`, also when producers fail to start or are cancelled inside `is_dumpable()` |
| `parallel_cancel` | `FairSpec`, bitmap in a file | `Returns` is **violated**, see below |
| `parallel_retry` | `RetrySpec` | `OrderedWrites` is **violated**, see below |
| `serial_pages` | `Spec` | `BuffersSuffice` (with the types), `ReadableWhenComplete`, `LostPagesHaveNoOffset` (for files that end below 2 GB, the `IntHalf` of the model) for every size of the device up to the whole file, as a size limit and as a full disk, and for devices with a place that cannot be written |
| `serial_nospace` | `Spec`, zero pages excluded | `OnlyLostPagesHaveNoOffset` is **violated**, see below |
| `cache_read` | `Spec` | `EntriesAccounted` (with the types, and no window lost), `ReadsRightPage`, `RecentPagesCached` |
| `cache_stale` | `Spec`, mmap() and pages that cannot be mapped | `ReadsRightPage` is **violated**, see below |
| `dmesg_walk` | `FairSpec` | `WholeLogWhenDone`, `CycleFound` (with the types), `OnlyUpToCorruption`, `Returns` for every log of five places whose walk does not come back to an end marker and is not twice at the record at the start of the buffer |
| `dmesg_marker` | `Spec`, all logs | `OnlyUpToCorruption` is **violated**, see below |
| `sequential` | `MCSequential` | the properties of the next table |

| Property of `sequential` | Part | Says |
|---|---|---|
| `TypeOK` | `filter`, `split` | bits stay in the buffer of their cycle; the variables keep their types |
| `KeptExact` | `filter` | the bitmaps keep exactly the pages the dump level keeps, wherever cycles cut blocks of pages, holes and segments |
| `PassesAgree` | `filter` | the pages written are as many as were counted, never more on the way; the counters of the report count each page once |
| `UnusedStructsExact` | `filter` | no frame with the `struct page` of a dumped page is deleted; every whole run of unused ones is, through the save file, whose last page may be full or not |
| `FilesPartition` | `split` | every frame is in exactly one file, and no file has a splitblock more than its share |
| `StatusHonest` | `split` | TRUE means that every file is whole, FALSE that a child failed; no child runs on when the parent does, unless `fork()` failed |
| `ReassembledExact` | `split` | reassembling gives the dump one process would have written; order does not matter, with the exceptions listed below |
| `Ends` | `split` | forking, waiting and retrying end |
| `ReadsBack` | `elf` | as many `PT_LOAD`s are written as were announced, but for those without a physical address, whose headers stay zero; every byte to dump is in one of them, at its offset; the excluded pages are counted |
| `NeverWrong` | `elf` | what the file has of a `PT_LOAD` is its memory, also after ENOSPC, which the header then says |
| `RearrangedWhole` | `elf` | rearranging succeeds if and only if the stream arrived to its end |
| `ErasedRight` | `erase` | only bytes asked for are erased; in the page where an order starts, all of them |
| `ReportTrue` | `erase` | a line of the report says no more than an order at its address asked for, and that much was erased from there on; the report exceeds the size reserved before at most by repeated strings |
| `CommandsRead` | `config` | the commands kept are those before the first error in sections that count |
| `TablesFollowed` | `walk` | every walk gives what the tables say, for the pages it supports |
| `TranslatedRight` | `translate`, `fact` | addresses are translated as the layout of the kernel says, from facts found correctly |
| `GroupsContiguous` | `vmemmap` | the frames of a vmemmap group are contiguous, end at a hole, and none but the last is left out, up to the first page of the tables that is not there |
| `RoundTrip` | `generate` | what `-g` writes, `-i` reads |
| `SourcesAgree` | `sources` | all symbols are displaced by KASLR once, whichever source they are from; no default hides a number of the note |
| `MapsTrue` | `memmap` | the memory maps cover each frame once and lead to its `struct page` |
| `OptionsCommute` | `start` | the order of the options makes no difference, if none is given twice and at most one of `-c`, `-l`, `-p`, `-z`, which replace each other |
| `ModesFit` | `start` | no combination is accepted that the writers cannot do, or that has no file to open, except `--dump-dmesg` with `--split` or `--mem-usage`; buffers are not empty and fit the memory |

The component modules also have the parts of these as definitions of their own
(`ReportExact`, `FilesBalanced`, `ChildrenReaped`, `OrderIrrelevant`,
`HeadersFill`, `ElfExcludedExact`, `ReportFits`, `StructsKept`,
`EveryRunDeleted`), with comments on each.

### Bounds, and why they are enough

- *Parallel*: two producers are enough for every conflict between two producers and
  the consumer. Two slots make lists wrap around within a cycle. Two buffers are the
  fewest the code allows, so producers compete for them (three in the runs with a
  bitmap file and with a retry, so that one is left over). Two cycles of three pfns,
  one excluded and one a zero page, give a second cycle that starts in the middle of
  the lists. The safety properties are also proved for all values.
- *Serial*: 7 pages of 3 or 8 words overflow `cd_page` of 32 words more than
  once, in every combination of sizes. 15 pages, 12 of them zero, overflow
  `cd_header`, where 32 is no multiple of 3, so a descriptor is cut in two.
  Devices end at every word of the file, so ENOSPC comes at every place. Both
  files have 78 words; `IntHalf`, the model's 2 GB, is 64, so that the end of the
  file passes it and `get_nr_pages()` computes with a negative `int`. In
  `serial_nospace` it is 1024: what that run shows has another cause.
- *Cache*: three entries and four to six pages evict all the time; windows of up
  to three pages overlap. The last page of a `PT_LOAD` cannot be mapped.
- *Log*: all 1024 contents of five places with lengths 0 to 3, with every first
  and next index. Five places are enough for `slow_p` to jump twice.
- *Bitmaps*: 8 frames (21 with the vmemmap), blocks of 4 bits, bytes of 2, cycles
  of 2, 4 or 6 frames. All tilings of memory by aligned blocks of up to 8 pages,
  so that blocks begin in one cycle and end in any later one; memory with a
  hole, or with a part that has no data. Every kind of page with every level.
  A page of the save file has two entries and memory none to three runs of unused
  pages, so that the last page is empty, full or half full.
  The operators of `DumpBitmap` are also proved for all sizes.
- *Split*: 4 or 5 frames, 2 or 3 files, blocks of 1, 2 or 5 pages with every set of
  dumpable pages: the last block is whole, cut short, or the only one. With two dump
  levels, and with three files in some cases, any child may fail or run out of
  space after any number of pages. `--reassemble` gets every list of two or
  more of the files, repetitions included.
- *ELF*: up to 8 pages of 4 bytes in one or two `PT_LOAD`s, aligned or not, with
  every set of dumpable pages. `PFN_EXCLUDED` is 2 and `PN_XNUM` 4, so that both
  sides of each are met; caches of 5 bytes are cut everywhere. One of three
  `PT_LOAD`s may have no physical address, and addresses wrap at 64. The disk
  fills up in the headers or in the data.
- *Erasing*: three orders with ranges inside a page, over an edge and over three or
  four pages, merged or not, to one writer or two. Config files of three sections,
  each with right and wrong commands, of modules that are loaded or not, with
  debuginfo or not.
- *Walks and maps*: pages of 2 bytes and tables of 2 entries keep every index and
  offset apart; one or two pages of any size are mapped, and a table may be
  unreadable. The walk of s390x is not among these: it is checked with the
  translation of its addresses, on readable tables. Up to three nodes with gaps
  in their numbers and up to four sections. The vmemmap has up to six pieces in
  three tables, of which the second, or the first two, may not be there.
- *Options*: ten options that change the same things, every three of them in every
  order; every two of 18 flags with or without buffer size and threads and with 0
  to 3 file names. Machines of 5 or 10 page frames with 3 to 27 units of free memory,
  so that the buffer is cut, threads are given up, or neither. A byte has three
  bits, so that the bitmaps fill no whole number of bytes; they have at least
  one byte for each file.

### Fairness

`ParallelDump`: weak fairness of the consumer and of every producer. These are
threads the kernel schedules. `SF(Timeout)` says that WAIT_TIME passes when
the consumer keeps waiting for a page: it looks at a clock each time round.
Nothing is assumed of the order in which threads get a mutex: a producer may
wait for one as long as others take it. `DmesgLog` is sequential: weak fairness
of its one process. `SplitDump`: weak fairness of the parent and its children
together (`WF_vars(Creating)`). A child does a bounded amount of work and exits;
nobody has to reassemble the files.

Deadlock is checked in all passing runs except `parallel_bitmapfile`: there a
cancelled producer may keep a mutex, or none may start, and the program hangs.

## What is proved

TLAPS checks the following.

| Theorem | Says |
|---|---|
| `TypeCorrect` (`ParallelDumpProofs`) | `Spec => []TypeOK` |
| `WritesInOrder` (`ParallelOrderProofs`) | `Spec => []OrderedWrites`: pages are written in ascending order, none is left out |
| `SuccessIsComplete` (`ParallelOrderProofs`) | `Spec => []CompleteOnSuccess`: a call that returns TRUE has written every page of its cycle and leaves all slots unused |
| `CountsEachEnd` (`ParallelOrderProofs`) | `Spec => []EndsCountedOnce` |
| `WritesOwnData` (`ParallelOrderProofs`) | `Spec => []OwnData`: a descriptor points to its own page's data |
| `ImplementsPageStream` (`ParallelOrderProofs`) | `Spec => WritesPageStream` |
| `CachesNeverOverflow` (`SerialDumpProofs`) | `Spec => []BuffersSuffice`: `write_cache()` never writes past the end of its buffer |
| `CompleteDumpsReadBack` (`SerialDumpProofs`) | `Spec => []ReadableWhenComplete`: in a complete dump every descriptor leads to the data of its page |
| `NoDescriptorOfALostPage` (`SerialDumpProofs`) | `Spec => []LostPagesHaveNoOffset`: after ENOSPC, in a file that ends below 2 GB, no descriptor points to data that is not in the file |
| `EntriesAlwaysAccounted` (`PageCacheProofs`) | `Spec => []EntriesAccounted`: every entry is in one list, once, and every window but one has an owner |
| `RecentPagesStayCached` (`PageCacheProofs`) | `Spec => []RecentPagesCached`: the pages read last are in the cache |
| `ReadsTheRightPage` (`PageCacheProofs`) | `OnlyMappable` implies `Spec => []ReadsRightPage`: `readmem()` returns the page it was asked for |
| `WholeLogAlways` (`DmesgLogProofs`) | `Spec => []WholeLogWhenDone`: success means every record written once, in order, and no cycle |
| `CycleAlwaysFound` (`DmesgLogProofs`) | `Spec => []CycleFound`: start and length of the cycle are right |
| `OnlyUpToCorruptionAlways` (`DmesgLogProofs`) | `StartIsRecord` and `StartOnce` imply `Spec => []OnlyUpToCorruption` |
| `ReportsHonestly` (`SplitProofs`) | `Spec => []StatusHonest` of `SplitDump` |
| `WaitsForChildren` (`SplitProofs`) | `Spec => []ChildrenReaped` of `SplitDump` |
| `RangesPartition` (`SplitProofs`) | `InputsOK` implies `Spec => []FilesPartition`: no frame is in two files or in none |
| `ReassemblesExactly` (`SplitProofs`) | `InputsOK` implies `Spec => []ReassembledExact`: in the reassembled file every descriptor leads to its own page, and only a dump that says it is incomplete lacks one |
| `AcceptsAnyOrder` (`SplitProofs`) | `InputsOK` implies `Spec => []OrderIrrelevant`: the files of a complete dump are accepted in any order |
| `ErasesRight` (`FilterProofs`) | `CasesOK` implies `Spec => []ErasedRight` of `EraseInfo`: nothing else than what was asked for is erased, and all of it that is reached |
| `ReportsTrue` (`FilterProofs`) | `CasesOK` implies `Spec => []ReportTrue` of `EraseInfo`: a line with a string of its own tells what was erased for the orders at its address |
| `SetChangesOnePage`, `SyncWritesAll`, `AskedAfterSync` (`FilterProofs`) | a bitmap in a file behaves as the set of its pages: setting a bit changes one page, syncing none, and after a sync every question is answered from that set |
| `SetInCycle` (`FilterProofs`) | so does a bitmap of a cycle, for the pages of the cycle |
| `CyclesAdjoin`, `FirstCycleStarts` (`FilterProofs`) | cycles follow each other without gap or overlap, are not empty, fit the buffer, and the first one has the first page |

**Threads.** For all numbers of threads, slots, buffers, pages and cycles, all
sets of dumpable and zero pages, and all faults. The assumptions are those named
in `ParallelDump`: there is a thread, a slot and a page, there are at least as
many buffers as threads, and zero pages are dumpable. None of the properties is
inductive: that the consumer writes the smallest pfn depends on what it saw
several steps ago, and on slots other threads own. The inductive invariant has
seven parts (`ParallelDumpInv`).

1. *Control*: which producers run while the consumer is where it is.
2. *Lists*: the used slots of a list are an interval from the consumer's slot to
   the producer's, with ascending pfns.
3. *Pages*: the pfns taken so far are the dumpable ones in ascending order, with
   the written ones first. The others are each in exactly one list.
4. *Counting*: the semaphore is the number of slots posted and not yet waited for.
   It therefore lets the consumer start a scan only if a page, or an end marker,
   is in some list.
5. *Scanning*: if the first unwritten page is at the head of a list the scan has
   passed, it is the candidate. From this and *Pages*: the candidate of a finished
   scan, once ready, is the first unwritten page.
6. *Ends*: `end_count` counts the end markers that were taken, each thread's once.
7. *Owners*: a used buffer belongs to one producer or to one slot.

Parts 1 to 6 give the order and completeness theorems, part 7 the data. The
refinement uses all of them: `WritePage` is `Emit`, the end of the last cycle is
`Complete`, a failed call is `GiveUp`, and everything else is a stutter.

**Processes of `--split`.** For any number of files from one on, any memory, dump
levels, and failures. `StatusHonest` speaks of the
moment when all children have been waited for; its invariant (`Inv` in
`SplitProofs`) has to follow them there. *Control*: the children forked are the
first k (`ForkedTo`), none runs before the first `fork()` or after the last
`waitpid()`, and `ret` tells the exit codes of those waited for so far (`Told`).
*Files*: until the files are deleted for a retry, a child that exited with 0 has
left a file of the current level with all its pages (`Whole`). The exception is a
`fork()` that fails: the children forked before it are not waited for.

**Splitting and reassembling.** For any number of files, frames and dump levels,
any dumpable, zero and erased pages, any place where a child stops, and any files
named in any order. `InputsOK` says what an invocation is: there is a file, the
dumpable pages lie below `max_mapnr`, and a page and a default splitblock are not
empty (`MCSequential` has it as an assumption, so TLC evaluates it on the
inputs of the run). `JoinInv` adds to `Inv` what must be known at each stage.

1. *Ranged*: the ranges are consecutive from 0 to `max_mapnr` (`Partition`). The
   loop of `setup_splitting()` takes each end from the one before; `SplitEnds`, the
   function it computes, is shown to exist (`EndsIs`), each end to lie between the
   one before and `max_mapnr` (`EndIs`), and the last one to be `max_mapnr`.
2. *Written*: the file of a child that has ended holds the first k pages of its
   range, as descriptors at their ranks in the range and data behind those of all
   pages, and nothing where the next descriptors would be (`Held`). With exit
   code 0 they are all its pages. The proof goes through the order of the pages
   (`AscendingIs`) and the number of those stored before each (`DataCellGrows`).
3. *Entries*: what `sort_splitting_info()` exchanges stays together: each entry has
   the range of the file it names (`Named`). After `check_splitting_info()` every
   frame is in the range of some entry (`EntryIs`), although the files named may
   be any, and more than once.
4. *Headed* and *Rebuilt*: the descriptor found for a page is its own, or a page is
   missing and the header says so (`SourceIs`); copied one after the other the data
   are where the new descriptors point (`CopiedIs`).

`AcceptsAnyOrder` needs in addition that sorting sorts (*Sorting*): before turn
`<<i, j>>` the entries before i are less than all that follow them, and entry i is
less than those up to j (`InPlace`). At the end the starts ascend; as each
file is named once and no two ranges start together, each entry is followed by the one
whose range follows (`SortedPass`).

**Erasing.** For any orders and number of commands, any pages in ascending order
and any number of writers (`CasesOK`, evaluated by TLC in `MCSequential`). An
order is lost from sight in the list: it may be merged with a larger one at
its address, cut at the end of a page, and its rest merged again. The
invariant (`Inv`) follows it: an order is overwritten up to some
place, and there a node begins that reaches at least to its end (`Followed`). With
one writer no node starts in a page already written (`Serial`), which gives
`ErasesRight` for orders longer than a page. For the report, each place of a command's
line has at most one node (`Placed`), and what is counted for it is how far some order
at its address is overwritten (`CountedOf`). Which address that is follows from
the numbers the nodes get (`Numbered`): an order at a new address gets the next
number of its command, and the list ascends (`Ascending`), so that an order at an
address in it finds its node.

**Bitmaps.** For blocks, bytes and cycles of any size. `Contents` maps a bitmap
with its buffer to the set of pages whose bit is set, and each operation to
what it does to that set. The argument is that a page is its block and its bit
in it, and no other page has both (`DivMod`, `DivUnique`).

**The single-threaded writer.** For every set of dumpable and zero pages, all
sizes of pages and caches, every size compression may give each page, and every
device: any limit, any free space, any places it refuses. Assumed are only that a
descriptor is smaller than a page and that a cache holds a page. The invariant
has three parts, each used by the next.

1. `SerialInv`: a cache begins where its part of the file ends and ends where the
   next word belongs, and what `write_cache()` leaves in a buffer is less than
   `CacheSize`. This gives `CachesNeverOverflow`.
2. `ContentInv`: each word of the descriptors and data given to the caches is at
   its place, in the file below the cache's offset or in the buffer above it
   (`Stored`). A flush moves that border and nothing else. When both caches are
   empty all is in the file, which is `CompleteDumpsReadBack`.
3. `SpaceInv`: the two caches are in step. A descriptor that is in the file has
   its data in the file. The descriptors in `cd_header` are whole, and the data
   they point to follow each other up to the end of `cd_page`. Nothing is in the
   file after `cd_page.offset` but a first part of that cache. From this the
   number `get_nr_pages()` derives from the end of the file is that of the
   descriptors whose data is there. It holds without excluded zero pages, and
   while the end of the file fits the `int` it is kept in (`FileEnd(file) <
   IntHalf` in the property). Both restrictions are needed: see `serial_nospace`
   below.

**The cache of `readmem()`.** For any number of entries, any `PT_LOAD`s with parts
of the file of their own (`FileAssumption`), any window size, and every failure.
`ListInv` says that the two lists together hold each entry once, that free
entries have no window, and that each mapped window but that of
`initialize_mmap()` has an owner. `RecentFirst` says that the n-th latest page is
in one of the first n entries, which moving an entry to the front preserves.
`ContentsInv` says that an entry holds its page or the pages of a window that is
still mapped, no window has two owners, and the current window is mapped. The
last is what `cache_stale` refutes; `OnlyMappable` (no page is read that
cannot be mapped, or `--non-mmap`) keeps it.

**The walk over the log.** For logs of any length and contents. What a log
contains is put as the orbit of `log_first_idx` under `log_next()`
(`OrbitExists`), and its cycle as the first repetition in it (`FirstRepeat`).
`Path` and `Records`, with which the properties are stated, are shown to be that
orbit (`AtIs`, `RecordsAre`). The invariant says where in the orbit each
variable is: during the walk `fast_p` is `length` places after `slow_p`, and none
between is equal to it (`DcAt`), so that their meeting gives the exact length
(`RepeatIsLength`); while `dc_find_start()` goes ahead the two pointers are one
length apart, and meet first at the start of the cycle. `OnlyUpToCorruption`
needs more (`Exact`: how much of the cycle is still to be written), and two
assumptions on the logs. `StartIsRecord`: no walk comes back to an end marker.
`StartOnce`: no walk is twice at the record at the start of the buffer. Without
the first the loop does not end, without the second a record is written twice,
as `dmesg_marker` shows.

**How data is handled.** The prover has no induction. Where the proofs need it,
they take the least counterexample (`LeastNatural`, from the well-foundedness
of finite sets in the library), and the longest prefix by `GreatestNatural`. In
this way recursive functions are shown to exist and `Path` to be what the
invariant says.

Only model-checked: liveness (`Completes`, `Returns`, `Ends`), which needs
fairness; everything that uses `RECURSIVE` operators, which is most of
`PageFilter`, `ElfDump`, `EraseConfig`, `MemoryMaps`, `PageTables`,
`AddressTranslation`, `StartUp`; and two properties about sums over data, which need
induction: how even the files of a split dump are (`FilesBalanced`: sums of table
entries written byte by byte) and the length of the erase report (`ReportFits`).

## Where code and documentation disagree

- **`parallel_cancel`** (8645). A producer that is cancelled in the `read(2)` of
  `is_dumpable()` keeps `current_pfn_mutex`. Another one waits for it where it
  cannot be cancelled, and the consumer never returns from `pthread_join()`. It
  takes a bitmap in a file, and a write that fails.
- **`parallel_retry`** (10917). `initial_for_parallel()` runs once. The next
  attempt after ENOSPC finds `page_flag` slots of the failed one, and writes one
  of its pages a second time.
- **`serial_nospace`** (8460). With zero pages excluded, `cd_page` begins with the
  data of the zero page, which `get_nr_pages()` takes for that of the first
  descriptor. The descriptor of one lost page stays in the file. There are two more
  ways to the same result: the end of the file is kept in an `int`, which is
  negative between 2 and 4 GB (without `FileEnd(file) < IntHalf` in
  `LostPagesHaveNoOffset` TLC finds it in `serial_pages`), and the descriptor
  of a zero page may make `write_cache()` write `cd_header` out before the data
  of earlier pages (with `MostlyZero` in place of `NoneZero` in `ZeroMemories`
  that is the trace TLC finds).
- **`cache_stale`** (460). Evicting an entry unmaps its window, but
  `info->mmap_start_offset` still says it is mapped. If the current window's entry
  is the oldest when a page that cannot be mapped is read, the next page of
  that window is read through an address that is no longer mapped.
- **`dmesg_marker`** (5905). The start of a cycle is compared with a place that
  `log_from_ptr()` has already moved away from an end marker. If the cycle
  starts at a marker, the loop that writes "up to the corruption" does not end.
  A marker stands for the record at the start of the buffer: a walk that is there
  too, at place 0 or at a second marker, has this record written twice.

### Limits the properties name

Some properties hold with an exception, which is part of the property or of the
inputs. These are what the code does:

- *Bitmaps*. `create_bitmap_from_memhole()` counts the hole wrongly for a part of
  a `PT_LOAD` inside one byte (`NoTinyParts`). The exclusion that is carried into
  the next cycle relies on `mem_map_data` in ascending order.
- *Serial writer*. Between 2 and 4 GB `get_nr_pages()` fails, see
  `serial_nospace`.
- *Split*. A retry scales the size of `--splitblock-size` again. The entry of a last
  splitblock that is cut short stays 0. If `fork()` fails the parent returns
  without waiting. Files that start at the same frame may be refused, depending
  on their order, and so may files with erase information:
  `sort_splitting_info()` exchanges names and ranges, not the place of the erase
  information. Complete and incomplete files are not accepted together.
- *ELF*. `write_elf_pages_cyclic()` gives a new `PT_LOAD` that begins at the last,
  fractional page the size of a whole page (8375, `TailAlone`). A `PT_LOAD`
  whose physical address is `NOT_PADDR` is counted (8162) and not written (8247):
  the program headers end with as many of type `PT_NULL` (`HeadersFill`).
- *Erasing*. `extract_filter_info()` finds ranges that start in the page: if that page
  is not dumped, or another thread takes the next one, the rest of the range in later
  pages may not be erased (`Reached`). With ELF output `get_size_eraseinfo()` does not
  end when an eppic macro erased something (state `loops`). `write_eraseinfo()` reuses
  the string of the line before it for a size of 0 (`own` tells these lines apart); as
  that string may be longer than the one `get_size_eraseinfo()` counted, the report
  may pass the space reserved in the ELF note, where the comment at 9356 expects it to
  be "less than pre-calculated size" if not the same (`ReportFits` bounds it). A wrong
  command ends the reading of the configuration, and the section after a section with
  one dropped command is skipped (`NextSectionLost`; the comment near
  `erase_info.c`:1845 does not say so).
- *vmcoreinfo*. The comment at 4514 says that what `-x` or `-i` gave is overwritten
  by the note; `READ_*` fills only what is still unknown. `get_value_for_old_linux()`
  may run while `kernel_version` is 0.
- *Memory maps*. With Xen and DISCONTIGMEM the number of entries allocated may
  differ from the number filled. A linked `pgdat` list is taken to have
  contiguous node numbers, and `next_online_node()` finds nothing if the kernel
  has no map of online nodes.
- *Page tables* (`Supported`). What some walks leave out: large pages of riscv64 are
  offset within a small page only, upper levels of arm64 with two levels are not
  checked, the PAT bit of a large x86 PAE page is kept, sparc64 does not
  scale the last index, and the four-level walk of ia64 does not cut the index of
  its third level, so that only addresses whose first index is 0 are followed.
- *vmemmap*. The last group of `find_vmemmap_x86_64()` is one huge page short, which
  only keeps more pages; it takes in a hole that ends the tables. A page of the
  tables that is not there is skipped (`arch/x86_64.c`:747, 761) without
  counting its pieces, so that the groups after it stand for frames other than
  theirs: `GroupsContiguous` is about the pieces before it (`Before`).
- *Options*. `--dump-dmesg` with `--split` or with `--mem-usage` is accepted
  without the name of a file to write and fails in `open_dump_file()`
  (`Nameless`). With `--split` the 60% limit is not divided by the number of files;
  with `--cyclic-buffer` threads are not checked against memory; if the free
  memory cannot be read the buffer has size 0 (no machine of the run is like that).

## What is not modelled

- *sadump input* (`sadump_info.c`): decodes headers of hardware formats and looks
  blocks up; no step depends on another.
- *DWARF* (`dwarf_info.c`): a walk over debug information through libdw. In
  `Vmcoreinfo` it is the set of facts a kernel has.
- *eppic* (`extension_eppic.c`) and resolving an expression of an erase command:
  programs over types and symbols. They appear as the orders they give.
- *`dump_lockless_dmesg()`* (`printk.c`): formats the records of a ring of
  descriptors in one pass, between two ids it reads first.
- *Xen domains*: finding the pages of user domains decodes structures of the
  hypervisor. The page tables and frame lists of Xen are modelled.
- *`makedumpfile-R.pl`*: rearranges the flattened format in Perl.
- *Messages, help, `--mem-usage`, `--dry-run`, progress*: output only.

In what is modelled: `ParallelDump` takes `pthread_create()` to succeed, and its
`WriteFails` is the failure of either of the two writes of a page. In `SplitDump`
a child that fails has written its header and bitmap, and no child is stopped by
a signal, for which `waitpid()` with `WUNTRACED` would return too early.
`PageFilter` leaves out descriptors that cannot be read and frames Xen cannot
translate. `find_vmemmap_x86_64()` reads every table that is there.
`SerialDump` stands one word for headers and bitmaps and leaves out erase
information. `PageCache` leaves out dump files and sadump as input, and the
windows of the producers, which have one each. `DmesgLog` leaves out the text of
records. `ElfDump` takes the signature of a flattened stream to be right. A write
cache, a bitmap, the retry and the list of ranges to erase are checked each with
its own writer; the composition of all of them in one dump is out of TLC's reach.
