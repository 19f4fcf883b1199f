---------------------------- MODULE MCSequential ----------------------------
(***************************************************************************)
(* The sequential parts of makedumpfile.  A behaviour is one run of one    *)
(* part: part says which, in is its input and pc where it is; v1 to v11    *)
(* are the other variables of the module of the part.  A part that is a    *)
(* function computes v1, its answer, in one step.                          *)
(***************************************************************************)
EXTENDS Integers, Sequences, FiniteSets

VARIABLES part, in, pc, v1, v2, v3, v4, v5, v6, v7, v8, v9, v10, v11

vars == << part, in, pc, v1, v2, v3, v4, v5, v6, v7, v8, v9, v10, v11 >>

-----------------------------------------------------------------------------
(***************************************************************************)
(* The modules and their small constants.                                  *)
(***************************************************************************)
FilterCases == INSTANCE MCPageFilter
SplitCases == INSTANCE MCSplitDump
ElfCases == INSTANCE MCElfDump
EraseCases == INSTANCE MCEraseInfo

Filter == INSTANCE PageFilter WITH
    Inputs <- FilterCases!MCInputs, BlockPfns <- 4, BitPerByte <- 2, NrFreeAreas <- 4, WordPfns <- 2,
    PageStruct <- 4, PageSize <- 6, SaveEntries <- 2,
    range <- v1, cycle <- v2, bitmap1 <- v3, bitmap2 <- v4, count <- v5, num <- v6, kept <- v7, deletes <- v8

Split == INSTANCE SplitDump WITH
    Inputs <- SplitCases!MCInputs, Kilo <- 2, PageSize <- 4, DefaultSize <- 20, BitPerByte <- 2,
    attempt <- v1, size <- v2, ranges <- v3, child <- v4, file <- v5, waited <- v6, ret <- v7,
    order <- v8, sorted <- v9, at <- v10, out <- v11

\* What the theorems about splitting and reassembling ask of the invocations.
ASSUME SplitAssumption == Split!InputsOK

Elf == INSTANCE ElfDump WITH
    Dumps <- ElfCases!MCDumps, AddrLimit <- 64, PageSize <- 4, PfnExcluded <- 2, PnXnum <- 4, CacheSize <- 5, StdinSize <- 3,
    BlockPfns <- 4, BitPerByte <- 2,
    i <- v1, cycle <- v2, seg <- v3, hdr <- v4, page <- v5, out <- v6, flat <- v7

Erase == INSTANCE EraseInfo WITH
    Cases <- EraseCases!MCCases, PageSize <- 4, Commands <- 2, Writers <- {1, 2}, ExprLen <- 7, Nullified <- 8,
    taken <- v1, filter_info <- v2, erase_info <- v3, reserved <- v4, work <- v5, erased <- v6,
    written <- v7, report <- v8

\* What the theorems about erasing ask of the orders and the pages.
ASSUME EraseAssumption == Erase!CasesOK

Tables == INSTANCE MCPageTables WITH PageBits <- 1, IndexBits <- 1
Translation == INSTANCE MCTranslation WITH PageBits <- 1, IndexBits <- 1
Info == INSTANCE MCVmcoreinfo
Maps == INSTANCE MCMemoryMaps WITH PageStructSize <- 2, SectionPages <- 2, SectionSize <- 2, PerRoot <- 2
Conf == INSTANCE MCEraseConfig
Start == INSTANCE MCStartUp WITH
    NumLevels <- 2, MaximumSize <- 4, ThreadRegion <- 3, PerByte <- 3, Kilo <- 2

-----------------------------------------------------------------------------
(***************************************************************************)
(* The parts.                                                              *)
(***************************************************************************)
Idle == "idle"

Calls(p, cases) ==
    /\ part = p /\ in \in cases /\ pc = "call"
    /\ v1 = Idle /\ v2 = Idle /\ v3 = Idle /\ v4 = Idle /\ v5 = Idle /\ v6 = Idle
    /\ v7 = Idle /\ v8 = Idle /\ v9 = Idle /\ v10 = Idle /\ v11 = Idle

Init ==
    \/ part = "filter" /\ Filter!Init /\ v9 = Idle /\ v10 = Idle /\ v11 = Idle
    \/ part = "split" /\ Split!Init
    \/ part = "elf" /\ Elf!Init /\ v8 = Idle /\ v9 = Idle /\ v10 = Idle /\ v11 = Idle
    \/ part = "erase" /\ Erase!Init /\ v9 = Idle /\ v10 = Idle /\ v11 = Idle
    \/ Calls("walk", Tables!Walks)
    \/ Calls("translate", Translation!MCKernels)
    \/ Calls("fact", {f \in Translation!Facts : Translation!Learnable(f)})
    \/ Calls("vmemmap", Translation!Vmemmaps)
    \/ Calls("generate", Info!Kernels)
    \/ Calls("sources", Info!Sources)
    \/ Calls("memmap", Maps!MCKernels)
    \/ Calls("config", Conf!Files)
    \/ Calls("start", Start!CommandLines)

Answers(p, answer) ==
    /\ part = p /\ pc = "call" /\ pc' = "answered" /\ v1' = answer
    /\ UNCHANGED << part, in, v2, v3, v4, v5, v6, v7, v8, v9, v10, v11 >>

FilterPages == part = "filter" /\ Filter!Next /\ UNCHANGED << part, v9, v10, v11 >>
SplitFiles == part = "split" /\ Split!Next /\ UNCHANGED part
WriteElf == part = "elf" /\ Elf!Next /\ UNCHANGED << part, v8, v9, v10, v11 >>
EraseData == part = "erase" /\ Erase!Next /\ UNCHANGED << part, v9, v10, v11 >>
WalkTables == Answers("walk", Tables!WalkAll(in))
TranslateAddresses == Answers("translate", Translation!TranslateAll(in))
LearnFact == Answers("fact", Translation!LearnFact(in))
FindVmemmap == Answers("vmemmap", Translation!FindAll(in))
GenerateVmcoreinfo == Answers("generate", Info!WriteAndRead(in))
ReadSources == Answers("sources", Info!initial(Info!RunOf(in)))
GetMemMap == Answers("memmap", Maps!get_mem_map(in))
ReadConfig == Answers("config", Conf!ReadFile(in))
StartUp == Answers("start", Start!Main(in))
Answered == pc = "answered" /\ UNCHANGED vars

Next ==
    \/ FilterPages \/ SplitFiles \/ WriteElf \/ EraseData
    \/ WalkTables \/ TranslateAddresses \/ LearnFact \/ FindVmemmap
    \/ GenerateVmcoreinfo \/ ReadSources \/ GetMemMap \/ ReadConfig \/ StartUp
    \/ Answered

\* The processes of --split go on; the others may stop at any point.
Creating == part = "split" /\ Split!Creating /\ UNCHANGED part

Spec == Init /\ [][Next]_vars /\ WF_vars(Creating)

Has(p) == part = p /\ pc = "answered"

-----------------------------------------------------------------------------
(***************************************************************************)
(* Exclusion of pages: create_dump_bitmap() and the cycles.                *)
(***************************************************************************)
\* The variables of the two parts with counters and cursors have their types;
\* bits of a cycle stay in its buffer, pages of a child in its range.
TypeOK ==
    /\ part = "filter" => Filter!TypeOK
    /\ part = "split" => Split!TypeOK

\* Wherever first_cycle() and update_cycle() cut memory and its blocks of pages,
\* and whichever of descriptors and free lists tell what is free, exclude_range()
\* leaves exactly the pages that the dump level leaves.
KeptExact == part = "filter" => Filter!KeptExact

\* The pass that writes pages finds as many as get_num_dumpable_cyclic() counted,
\* and never more on the way: the data would lie over page descriptors.  And
\* print_report() counts each page once although blocks are excluded in pieces,
\* in two passes: the remaining pages it prints are the pages dumped.
PassesAgree == part = "filter" => Filter!PassesAgree /\ Filter!ReportExact

\* --exclude-unused-vm: find_vmemmap_pages() deletes no frame that holds any part
\* of the page struct of a page that is dumped, and every run of unused structs
\* goes through save_deletes() and get_deletes(), at any fill of the buffer.
UnusedStructsExact == part = "filter" => Filter!StructsKept /\ Filter!EveryRunDeleted

-----------------------------------------------------------------------------
(***************************************************************************)
(* --split and --reassemble.                                               *)
(***************************************************************************)
\* setup_splitting() gives every page frame to exactly one file.  Each file but
\* the last gets its share of the dumpable pages, and less than a splitblock
\* more, in spite of table entries cut to bytes and a last block that
\* write_into_splitblock_table() is not called for.
FilesPartition == part = "split" => Split!FilesPartition /\ Split!FilesBalanced

\* writeout_multiple_dumpfiles() says TRUE only if every child wrote all of its
\* pages at the dump level in force, and FALSE whenever some child failed, in
\* whatever order the children end and are waited for.  No child is still
\* writing when the files are deleted for a retry or when the parent returns,
\* unless fork() failed.
StatusHonest == part = "split" => Split!StatusHonest /\ Split!ChildrenReaped

\* reassemble_dumpfile() writes the dump one process would have written: each
\* descriptor leads to the data of its page, also for pages that share the zero
\* page of another file; a page is missing only in a dump marked incomplete.
\* After sort_splitting_info() all the files of a complete dump are accepted in
\* every order, if they start at different frames and hold no erase information.
ReassembledExact == part = "split" => Split!ReassembledExact /\ Split!OrderIrrelevant

\* create_dumpfile() ends: children exit and are waited for, and the retries
\* stop at the latest when get_next_dump_level() has no level left.
Ends == <>(part = "split" => Split!Ended)

-----------------------------------------------------------------------------
(***************************************************************************)
(* ELF dumps and the flattened format.                                     *)
(***************************************************************************)
\* write_elf_pages_cyclic() makes exactly the PT_LOADs get_loads_dumpfile_cyclic()
\* counted before, but for those without a physical address, which it skips and
\* which leave a header of type PT_NULL each: every other header promised is
\* there, in order, and none lies over the notes.
\* In a finished dump, also a flattened one that was rearranged, each byte to
\* dump is in one PT_LOAD, and at its offset in the file; pfn_elf_excluded counts
\* exactly the pages without bytes there.
ReadsBack == part = "elf" => Elf!HeadersFill /\ Elf!ReadsBack /\ Elf!ElfExcludedExact

\* What the file has of a PT_LOAD is memory of that PT_LOAD, also when space ran
\* out and write_cache_enospc saved the headers; then e_flags says so.
NeverWrong == part = "elf" => Elf!NeverWrong

\* rearrange_dumpdata() succeeds if and only if the stream arrived to its end.
RearrangedWhole == part = "elf" => Elf!RearrangedWhole

-----------------------------------------------------------------------------
(***************************************************************************)
(* Erasing data.                                                           *)
(***************************************************************************)
\* However orders overlap, are merged by insert_filter_info() or cut at the end
\* of a page, and whichever thread takes a page: only bytes asked for are erased,
\* and in the page where an order starts all of them are.
ErasedRight == part = "erase" => Erase!ErasedRight

\* A line of write_eraseinfo() never claims more than was erased from the address
\* of its order on, nor more than was asked for there; and the report outgrows
\* what get_size_eraseinfo() reserved before the pages were written only by what
\* the strings are longer that lines of orders no page met repeat.
ReportTrue == part = "erase" => Erase!ReportTrue /\ Erase!ReportFits

\* process_config_file(): the commands kept are those before the first error, in
\* sections whose module is loaded and has debuginfo, unless the only command
\* of a section without debuginfo took the next section with it.
CommandsRead == Has("config") /\ ~Conf!NextSectionLost(in) => v1 = Conf!Meant(in)

-----------------------------------------------------------------------------
(***************************************************************************)
(* Addresses.                                                              *)
(***************************************************************************)
\* The page table walks of all architectures but s390x, whose walk is a part of
\* its translation, translate an address as the tables do, for the kinds of pages
\* they support, and stop at what is not present or cannot be read where they
\* check it.
TablesFollowed == Has("walk") /\ Tables!Supported(in) => Tables!Follows(in, v1)

\* vaddr_to_paddr() of every architecture agrees with the layout of the kernel,
\* from phys_base and the other facts get_machdep_info() and its like find in
\* PT_LOADs, symbols and numbers.  What set_*_max_physmem_bits(),
\* get_page_offset_x86_64() and get_kaslr_offset() infer from the traces of a
\* property of the kernel is the property it has.
TranslatedRight ==
    /\ Has("translate") => Translation!LikeKernel(in, v1)
    /\ Has("fact") => Translation!Recovered(in, v1)

\* find_vmemmap_x86_64(): the pieces of a group are contiguous, so that an offset
\* in it leads to the page struct, a group ends at a hole, and no piece but the
\* last is left out.  This is said of the pieces up to the first page of the
\* tables that is not there: such a page is skipped without counting its pieces,
\* and the groups after it stand for other frames than theirs.
GroupsContiguous == Has("vmemmap") => Translation!Contiguous(in, v1)

-----------------------------------------------------------------------------
(***************************************************************************)
(* What is known of the kernel.                                            *)
(***************************************************************************)
\* What -g writes, -i reads back: every item that read_vmcoreinfo() asks for has
\* the value the debuginfo gave, and the memory model found is the same.
RoundTrip == Has("generate") => Info!SameAfter(in, v1)

\* Whatever mix of -x, -i and note the symbols come from, all of them are
\* displaced by the KASLR offset of the note, and by it once; and the defaults of
\* get_value_for_old_linux() never hide a number that the note gives.
SourcesAgree == Has("sources") => Info!Displaced(in, v1) /\ Info!NotHidden(in, v1)

\* get_mem_map(): in every memory model the num_mem_map entries of mem_map_data
\* cover each frame of memory up to max_mapnr once.  The entry of a frame leads
\* to its page struct, is NOT_MEMMAP_ADDR only for a hole, and no frame that has
\* a page struct is beyond max_mapnr.
MapsTrue == Has("memmap") => Maps!OncePerFrame(in, v1) /\ Maps!TrueDescriptors(in, v1)

-----------------------------------------------------------------------------
(***************************************************************************)
(* Start-up.                                                               *)
(***************************************************************************)
\* The order of the options makes no difference to what main() does, where no
\* option is given twice and no two of -c, -l, -p and -z are given, of which the
\* last one wins.
OptionsCommute == Has("start") => Start!Commute(in, v1)

\* No combination that check_param_for_creating_dumpfile() and initial() accept
\* has threads, ELF, --split, flattening or cycles where the writer has none, and
\* every operation that calls open_dump_file() has a file named, except
\* --dump-dmesg with --split or with --mem-usage: these are accepted with
\* name_dumpfile NULL and fail where the file is opened.  After
\* calculate_cyclic_buffer_size() a cycle has at least one page, where the
\* bitmaps have a byte for each dump file, and the buffer with the threads left
\* by it keeps within 60% of the free memory.
ModesFit == Has("start") => Start!Fit(v1) /\ Start!HasFile(v1) /\ Start!FreeEnough(v1)
=============================================================================
