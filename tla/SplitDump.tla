------------------------------ MODULE SplitDump ------------------------------
(***************************************************************************)
(* makedumpfile --split and makedumpfile --reassemble (makedumpfile.c).    *)
(*                                                                         *)
(* The parent counts the dumpable pages of every splitblock, cuts the page *)
(* frames into one range per output file, forks one child per file, waits  *)
(* for all of them and, when a child ran out of space, deletes the files   *)
(* and starts again with the next dump level of -d.  Each file carries the *)
(* whole bitmap and the pages of its own range.  Later a second invocation *)
(* reads the files in the order of its command line, sorts them, checks    *)
(* that no range is missing and writes the pages into one file.            *)
(*                                                                         *)
(* A file is a sequence of cells: page descriptor i is cell i, and page    *)
(* data and erase information follow the descriptors of ALL the dumpable   *)
(* pages.  Every cell is one unit long.                                    *)
(***************************************************************************)
EXTENDS Integers, Sequences, FiniteSetsExt

CONSTANTS Inputs,       \* the invocations: vmcore contents and options
          Kilo,         \* 1 << 10, the unit of --splitblock-size
          PageSize,     \* info->page_size in bytes
          DefaultSize,  \* DEFAULT_SPLITBLOCK_SIZE in bytes
          BitPerByte    \* BITPERBYTE

InputOK(x) ==
    /\ x.files \in Nat \ {0} /\ x.max \in Nat /\ x.option \in Nat
    /\ x.dumpable \in Seq(SUBSET (0 .. (x.max - 1))) /\ x.dumpable # << >>

(* A default splitblock has at least one page.                             *)
InputsOK ==
    /\ Kilo \in Nat \ {0} /\ PageSize \in Nat \ {0}
    /\ DefaultSize \in Nat /\ DefaultSize >= PageSize
    /\ \A x \in Inputs : InputOK(x)

VARIABLES
    in,       \* the invocation: max, dumpable (one set per level), zero,
              \* dropZero, erased, files, option, faults
    pc,       \* where create_dumpfile, or later reassemble_dumpfile, is
    attempt,  \* num_retry + 1
    size,     \* info->splitblock_size
    ranges,   \* SPLITTING_START_PFN / END_PFN, one per file
    child,    \* one state per child: "none", "run", or its exit code
    file,     \* the output files on disk
    waited,   \* children waited for
    ret,      \* what writeout_multiple_dumpfiles returns
    order,    \* the files named on the --reassemble command line
    sorted,   \* the splitting_info of the reassembling process
    at,       \* i and j of its sorting loops
    out       \* the file it writes
vars == <<in, pc, attempt, size, ranges, child, file, waited, ret, order, sorted, at, out>>

NoFile == [status |-> "none"]
(* A cell: a page descriptor, a page, the zero page, one erased item, a    *)
(* hole of a sparse file, or what a read behind the end of the file gives. *)
Cell(kind, off, sz, page) == [kind |-> kind, off |-> off, size |-> sz, page |-> page]
Desc(off, sz) == Cell("desc", off, sz, 0)
Page(p) == Cell("page", 0, 0, p)
ZeroPage == Cell("zero", 0, 0, 0)
Erased(p) == Cell("erased", 0, 0, p)
Hole == Cell("hole", 0, 0, 0)
Eof == Cell("eof", 0, 0, 0)
Divideup(x, y) == (x + (y - 1)) \div y
Frames(r) == r.start .. (r.end - 1)
Ascending(S) == [k \in 1 .. Cardinality(S) |-> CHOOSE p \in S : Cardinality({q \in S : q < p}) = k - 1]

-----------------------------------------------------------------------------
(* The splitblock table.                                                   *)

Kept == in.dumpable[attempt]
PerBlock(sz) == sz \div PageSize

(* Bits, and then bytes, of an entry that can count PerBlock pages.        *)
EntryBits(per) == 1 + CHOOSE k \in 0 .. per : 2^k >= per /\ \A j \in 0 .. (k - 1) : 2^j < per
CalculateEntrySize(per) == Divideup(EntryBits(per), BitPerByte)

(* write_into_splitblock_table stores entry_size bytes, low byte first,    *)
(* and read_from_splitblock_table puts them together again.                *)
WriteEntry(value, bytes) == [i \in 1 .. bytes |-> (value \div 2^(BitPerByte * (i - 1))) % 2^BitPerByte]
ReadEntry(entry) ==
    MapThenSumSet(LAMBDA i : entry[i] * 2^(BitPerByte * (i - 1)), DOMAIN entry)

(* The counting pass writes an entry each time a block is full: a last     *)
(* block that is cut short by max_mapnr keeps the zero of calloc.          *)
Table(dumpable, max, per) ==
    [b \in 0 .. (Divideup(max, per) - 1) |->
        WriteEntry(IF (b + 1) * per <= max
                   THEN Cardinality({p \in dumpable : p \div per = b}) ELSE 0,
                   CalculateEntrySize(per))]

(* The pages counted in n blocks, and the blocks taken for one file: until *)
(* pfn_needed pages are gathered.                                          *)
Gathered(table, cur, n) ==
    MapThenSumSet(LAMBDA b : ReadEntry(table[b]), cur .. (cur + n - 1))

BlocksTaken(table, cur, needed) ==
    LET most == Cardinality(DOMAIN table) - cur
        Enough(n) == Gathered(table, cur, n) >= needed
    IN  IF \E n \in 0 .. most : Enough(n)
        THEN CHOOSE n \in 0 .. most : Enough(n) /\ \A m \in 0 .. (n - 1) : ~Enough(m)
        ELSE most

MinOf(a, b) == IF a < b THEN a ELSE b

\* Variant: the end of a file may lie beyond max_mapnr.
EndOfFileUncapped(table, per, max, needed, from) ==
    LET cur == from.cur + BlocksTaken(table, from.cur, needed)
    IN  [end |-> cur * per, cur |-> cur]

(* calculate_end_pfn_by_splitblock: the new end and the next block.        *)
EndOfFile(table, per, max, needed, from) ==
    IF from.end >= max THEN [end |-> max, cur |-> from.cur]
    ELSE LET cur == from.cur + BlocksTaken(table, from.cur, needed)
         IN  [end |-> MinOf(cur * per, max), cur |-> cur]

(* setup_splitting: end_pfn and cur_splitblock_num after i files, and the  *)
(* ranges; the last file takes whatever is left.                           *)
SplitEnds(table, per, max, needed, files) ==
    LET ends[i \in 0 .. (files - 1)] ==
            IF i = 0 THEN [end |-> 0, cur |-> 0]
            ELSE EndOfFile(table, per, max, needed, ends[i - 1])
    IN  ends

SetupSplitting(dumpable, max, files, per) ==
    LET ends == SplitEnds(Table(dumpable, max, per), per, max, Cardinality(dumpable) \div files, files)
    IN  [i \in 1 .. files |-> [start |-> ends[i - 1].end,
                              end |-> IF i = files THEN max ELSE ends[i].end]]

-----------------------------------------------------------------------------
(* One output file: what a child has written after its first k pages.      *)

IsZero(p) == in.dropZero /\ p \in in.zero
ZeroCells == IF in.dropZero THEN 1 ELSE 0

(* write_kdump_header and the bitmap, with the cells that follow them.     *)
KdumpFile(r, eOff, eSize, cells) ==
    [status |-> "complete", level |-> attempt, max |-> in.max, bitmap |-> Kept,
     start |-> r.start, end |-> r.end, eOff |-> eOff, eSize |-> eSize, cells |-> cells]

(* The cell of the data of page number j of a file.                        *)
DataCell(pages, j) ==
    Cardinality(Kept) + ZeroCells + Cardinality({i \in 1 .. (j - 1) : ~IsZero(pages[i])})

(* The cells after k of the pages, and the erase information in noted.     *)
FileCells(pages, k, noted) ==
    LET base == Cardinality(Kept)
        stored == {j \in 1 .. k : ~IsZero(pages[j])}
        eOff == DataCell(pages, Len(pages) + 1)
        At(c) == CASE c < k -> Desc(IF IsZero(pages[c + 1]) THEN base ELSE DataCell(pages, c + 1), 1)
                   [] in.dropZero /\ c = base -> ZeroPage
                   [] \E j \in stored : DataCell(pages, j) = c ->
                         Page(pages[CHOOSE j \in stored : DataCell(pages, j) = c])
                   [] OTHER -> Erased(noted[c - eOff + 1])
    IN  [c \in (0 .. (k - 1)) \cup (IF in.dropZero THEN {base} ELSE {})
               \cup {DataCell(pages, j) : j \in stored} \cup (eOff .. (eOff + Len(noted) - 1)) |-> At(c)]

WrittenFile(r, k, whole) ==
    LET pages == Ascending(Kept \cap Frames(r))
        noted == IF whole THEN Ascending(in.erased \cap Kept \cap Frames(r)) ELSE <<>>
    IN  KdumpFile(r, IF noted = <<>> THEN 0 ELSE DataCell(pages, Len(pages) + 1),
                  Len(noted), FileCells(pages, k, noted))

Pages(i) == Cardinality(Kept \cap Frames(ranges[i]))

-----------------------------------------------------------------------------
(* Creating the files.                                                     *)

Init ==
    /\ in \in Inputs
    /\ pc = "count" /\ attempt = 1 /\ size = in.option
    /\ ranges = <<>> /\ child = [i \in 1 .. in.files |-> "none"]
    /\ file = [i \in 1 .. in.files |-> NoFile]
    /\ waited = 0 /\ ret = "TRUE" /\ order = <<>> /\ sorted = <<>> /\ at = <<1, 1>> /\ out = NoFile

(* check_splitblock_size: the option is scaled in place, on each attempt.  *)
ScaledSize == IF size # 0 THEN size * Kilo ELSE DefaultSize

(* create_dump_bitmap, which fails when no page is dumpable, and           *)
(* setup_splitting.                                                        *)
CountPages ==
    /\ pc = "count"
    /\ size' = ScaledSize
    /\ IF (size = 0 \/ ScaledSize % PageSize = 0) /\ Kept # {}
       THEN /\ ranges' = SetupSplitting(Kept, in.max, in.files, PerBlock(ScaledSize))
            /\ pc' = "fork" /\ UNCHANGED ret
       ELSE pc' = "returned" /\ ret' = "FALSE" /\ UNCHANGED ranges
    /\ child' = [i \in 1 .. in.files |-> "none"] /\ waited' = 0
    /\ UNCHANGED <<in, attempt, file, order, sorted, at, out>>

Forked == Cardinality({i \in 1 .. in.files : child[i] # "none"})

Fork ==
    /\ pc = "fork"
    /\ child' = [child EXCEPT ![Forked + 1] = "run"]
    /\ pc' = IF Forked + 1 = in.files THEN "wait" ELSE "fork"
    /\ ret' = "TRUE"
    /\ UNCHANGED <<in, attempt, size, ranges, file, waited, order, sorted, at, out>>

(* fork() fails: the parent returns; the children already forked run on.   *)
ForkFails ==
    /\ pc = "fork" /\ in.faults /\ ret' = "fork" /\ pc' = "returned"
    /\ UNCHANGED <<in, attempt, size, ranges, child, file, waited, order, sorted, at, out>>

(* writeout_dumpfile in a child: all its pages, or some of them and then   *)
(* no space (exit 2) or another failure (exit 1).  A child that fails has  *)
(* written its header and bitmap.                                          *)
ChildExits(i, k, code) ==
    /\ i \in 1 .. in.files /\ child[i] = "run"
    /\ IF code = "0" THEN k = Pages(i) ELSE in.faults
    /\ child' = [child EXCEPT ![i] = code]
    /\ file' = [file EXCEPT ![i] = WrittenFile(ranges[i], k, code = "0")]
    /\ UNCHANGED <<in, pc, attempt, size, ranges, waited, ret, order, sorted, at, out>>

\* Variant: the child waited for last decides.
StatusAfterLast(r, code) == IF code = "1" THEN "FALSE"
                            ELSE IF code = "2" THEN "NOSPACE" ELSE r

StatusAfter(r, code) == IF code = "1" THEN "FALSE"
                        ELSE IF r = "TRUE" /\ code = "2" THEN "NOSPACE" ELSE r

(* waitpid: a child has exited; none is stopped by a signal.               *)
WaitChild ==
    /\ pc = "wait" /\ child[waited + 1] \in {"0", "1", "2"}
    /\ waited' = waited + 1
    /\ ret' = StatusAfter(ret, child[waited + 1])
    /\ pc' = IF waited' = in.files THEN "waited" ELSE "wait"
    /\ UNCHANGED <<in, attempt, size, ranges, child, file, order, sorted, at, out>>

\* Variant: a retry uses the same dump level again.
FinishSameLevel ==
    /\ pc = "waited"
    /\ IF ret = "NOSPACE"
       THEN /\ pc' = "count" /\ size' = in.option
            /\ file' = [i \in 1 .. in.files |-> NoFile]
       ELSE pc' = "returned" /\ UNCHANGED <<size, file>>
    /\ UNCHANGED <<in, attempt, ranges, child, waited, ret, order, sorted, at, out>>

(* delete_dumpfile.                                                        *)
DeleteDumpfile == [i \in 1 .. in.files |-> NoFile]
(* check_and_modify_multiple_kdump_headers.                                *)
MarkIncomplete == [i \in 1 .. in.files |-> [file[i] EXCEPT !.status = "incomplete"]]

(* create_dumpfile after writeout_multiple_dumpfiles: retry with the next  *)
(* level, or mark what there is as incomplete.                             *)
Finish ==
    /\ pc = "waited"
    /\ IF ret = "NOSPACE" /\ attempt < Len(in.dumpable)
       THEN /\ attempt' = attempt + 1 /\ pc' = "count"
            /\ file' = DeleteDumpfile
       ELSE /\ pc' = "returned" /\ UNCHANGED attempt
            /\ file' = IF ret = "NOSPACE" THEN MarkIncomplete ELSE file
    /\ UNCHANGED <<in, size, ranges, child, waited, ret, order, sorted, at, out>>

-----------------------------------------------------------------------------
(* Reassembling.                                                           *)

(* store_splitting_info refuses files whose disk_dump_header differs.      *)
Header(f) == [status |-> f.status, max |-> f.max]
SplittingInfo(o) ==
    [i \in 1 .. Len(o) |-> [name |-> o[i], start |-> file[o[i]].start, end |-> file[o[i]].end,
                            eOff |-> file[o[i]].eOff, eSize |-> file[o[i]].eSize]]

(* sort_splitting_info exchanges range and name of two entries, not the    *)
(* place and the size of the erase information.                            *)
Swapped(s, i, j) ==
    [s EXCEPT ![i] = [s[i] EXCEPT !.name = s[j].name, !.start = s[j].start, !.end = s[j].end],
              ![j] = [s[j] EXCEPT !.name = s[i].name, !.start = s[i].start, !.end = s[i].end]]
Exchange(s, i, j) == IF s[i].start < s[j].start THEN s ELSE Swapped(s, i, j)

CheckSplittingInfo(s, max) ==
    /\ s[1].start = 0
    /\ \A i \in 2 .. Len(s) : s[i - 1].end = s[i].start
    /\ s[Len(s)].end = max

(* A run of --reassemble over the files of a dump that was created, or     *)
(* that was left marked as incomplete.                                     *)
StoreSplittingInfo(o) ==
    /\ pc = "returned" /\ ret \in {"TRUE", "NOSPACE"}
    /\ order' = o /\ sorted' = SplittingInfo(o) /\ at' = <<1, 1>>
    /\ pc' = IF \A i \in 1 .. Len(o) : Header(file[o[i]]) = Header(file[o[1]]) THEN "sort" ELSE "refused"
    /\ UNCHANGED <<in, attempt, size, ranges, child, file, waited, ret, out>>

(* One turn of the two loops of sort_splitting_info, at <<i, j>>, and the  *)
(* check that follows the last turn.                                       *)
SortSplittingInfo ==
    /\ pc = "sort"
    /\ sorted' = Exchange(sorted, at[1], at[2])
    /\ at' = IF at[2] < Len(sorted) THEN <<at[1], at[2] + 1>> ELSE <<at[1] + 1, at[1] + 1>>
    /\ pc' = IF at'[1] < Len(sorted) THEN "sort"
             ELSE IF CheckSplittingInfo(sorted', file[order[1]].max) THEN "header" ELSE "refused"
    /\ UNCHANGED <<in, attempt, size, ranges, child, file, waited, ret, order, out>>

(* reassemble_kdump_header: the header of the first incomplete file, or of *)
(* the last one; the bitmap of the first.                                  *)
HeaderFrom(s) ==
    LET bad == {i \in 1 .. Len(s) : file[s[i].name].status = "incomplete"}
    IN  file[s[IF bad = {} THEN Len(s) ELSE CHOOSE i \in bad : \A j \in bad : i <= j].name]

ReassembleHeader ==
    /\ pc = "header" /\ pc' = "pages"
    /\ out' = [status |-> HeaderFrom(sorted).status, bitmap |-> file[sorted[1].name].bitmap,
               eOff |-> 0, eSize |-> 0, cells |-> <<>>]
    /\ UNCHANGED <<in, attempt, size, ranges, child, file, waited, ret, order, sorted, at>>

(* read(2): a cell, a hole of a sparse file, or the end of the file.         *)
ReadCell(f, c) ==
    IF c \in DOMAIN f.cells THEN f.cells[c]
    ELSE IF \E d \in DOMAIN f.cells : d > c THEN Hole ELSE Eof

(* The descriptor the copying loop reads for page p: descriptors start     *)
(* again at offset_first_ph in each file.                                  *)
EntryOf(p) == CHOOSE e \in Range(sorted) : p \in Frames(e)

\* Variant: descriptors are counted through all the files.
SourceDescRunning(p) == ReadCell(file[EntryOf(p).name], Cardinality({q \in out.bitmap : q < p}))

SourceDesc(p) == ReadCell(file[EntryOf(p).name],
                          Cardinality({q \in out.bitmap \cap Frames(EntryOf(p)) : q < p}))

(* The descriptor of the zero page is recognised by its offset; any other  *)
(* page is appended and its descriptor moved.                              *)
CopiedPages(base) ==
    LET pages == Ascending(out.bitmap)
        pd == [k \in 1 .. Len(pages) |-> SourceDesc(pages[k])]
        zero == {k \in 1 .. Len(pages) : in.dropZero /\ pd[k].off = base}
        stored == Ascending({k \in 1 .. Len(pages) : pd[k].size = 1} \ zero)
        Place(k) == base + ZeroCells + Cardinality({i \in 1 .. Len(stored) : stored[i] < k})
    IN  [ok |-> Eof \notin Range(pd),
         descs |-> [k \in 1 .. Len(pages) |-> IF k \in zero THEN Desc(base, 1) ELSE Desc(Place(k), pd[k].size)],
         data |-> (IF in.dropZero THEN <<ZeroPage>> ELSE <<>>)
                  \o [i \in 1 .. Len(stored) |->
                        ReadCell(file[EntryOf(pages[stored[i]]).name], pd[stored[i]].off)]]

(* The erase information of every file, in the order of the sorted files.  *)
Chained(seqs) ==
    LET upto[i \in 1 .. Len(seqs)] == IF i = 1 THEN seqs[i] ELSE upto[i - 1] \o seqs[i]
    IN  upto[Len(seqs)]
CopiedEraseinfo ==
    Chained([i \in 1 .. Len(sorted) |->
        [k \in 1 .. sorted[i].eSize |-> ReadCell(file[sorted[i].name], sorted[i].eOff + k - 1)]])

ReassemblePages ==
    /\ pc = "pages"
    /\ LET base == Cardinality(out.bitmap)
           copied == CopiedPages(base)
           erase == CopiedEraseinfo
           cells == copied.descs \o copied.data \o erase
       IN  /\ out' = [out EXCEPT !.cells = [c \in 0 .. (Len(cells) - 1) |-> cells[c + 1]],
                                 !.eOff = IF erase = <<>> THEN 0 ELSE base + Len(copied.data),
                                 !.eSize = Len(erase)]
           /\ pc' = IF copied.ok /\ Eof \notin Range(erase) THEN "reassembled" ELSE "refused"
    /\ UNCHANGED <<in, attempt, size, ranges, child, file, waited, ret, order, sorted, at>>

-----------------------------------------------------------------------------
Orders == UNION {[1 .. m -> 1 .. in.files] : m \in 2 .. in.files}
Running == \E i \in 1 .. in.files : child[i] = "run"
Done == pc \in {"reassembled", "refused"} \/ (pc = "returned" /\ ret \in {"FALSE", "fork"})
Stop == Done /\ ~Running /\ UNCHANGED vars

ChildStep == \E i \in 1 .. in.files, code \in {"0", "1", "2"} :
                child[i] = "run" /\ \E k \in 0 .. Pages(i) : ChildExits(i, k, code)
Creating == CountPages \/ Fork \/ ForkFails \/ ChildStep \/ WaitChild \/ Finish
Reassembling == (\E o \in Orders : StoreSplittingInfo(o)) \/ SortSplittingInfo \/ ReassembleHeader \/ ReassemblePages

Next == Creating \/ Reassembling \/ Stop

(* Every process that creates the dump runs until it exits; nobody needs   *)
(* to reassemble it.                                                       *)
Spec == Init /\ [][Next]_vars /\ WF_vars(Creating)

-----------------------------------------------------------------------------
(* Every variable has its type, and files exist only once written.         *)
TypeOK ==
    /\ pc \in {"count", "fork", "wait", "waited", "returned", "sort", "header", "pages", "reassembled", "refused"}
    /\ attempt \in 1 .. Len(in.dumpable) /\ size \in Nat
    /\ Len(ranges) \in {0, in.files} /\ waited \in 0 .. in.files
    /\ child \in [1 .. in.files -> {"none", "run", "0", "1", "2"}]
    /\ \A i \in 1 .. in.files : child[i] = "run" => file[i] = NoFile
    /\ ret \in {"TRUE", "FALSE", "NOSPACE", "fork"}

(* The ranges setup_splitting hands to the children are consecutive, start *)
(* at 0 and end at max_mapnr: no frame is in two files or in none.         *)
FilesPartition ==
    pc \in {"fork", "wait", "waited"} =>
        /\ ranges[1].start = 0 /\ ranges[in.files].end = in.max
        /\ \A i \in 1 .. in.files : ranges[i].start <= ranges[i].end
        /\ \A i \in 2 .. in.files : ranges[i].start = ranges[i - 1].end

(* "try to make every output file have the same size": each file but the   *)
(* last gathers the share num_dumpable / num_dumpfile, and overshoots it   *)
(* by less than one splitblock, in spite of the byte-wise table entries    *)
(* and of a last block that is never counted.                              *)
ShareOf(i) == Cardinality(Kept \cap Frames(ranges[i]))
FilesBalanced ==
    pc = "fork" =>
        LET share == Cardinality(Kept) \div in.files
        IN  \A i \in 1 .. (in.files - 1) :
               /\ ShareOf(i) < share + PerBlock(size)
               /\ ShareOf(i) >= share \/ ranges[i].end = in.max

(* writeout_multiple_dumpfiles returns TRUE only when every child wrote    *)
(* all its pages with the dump level now in force; a failed child (exit 1) *)
(* is never hidden by one that ran out of space, which would start a retry.*)
StatusHonest ==
    pc \in {"waited", "returned"} /\ ret # "fork" /\ waited = in.files =>
        /\ (ret = "FALSE") = (\E i \in 1 .. in.files : child[i] = "1")
        /\ ret = "TRUE" => \A i \in 1 .. in.files :
              /\ file[i].level = attempt /\ file[i].status = "complete"
              /\ \A c \in 0 .. (Pages(i) - 1) : c \in DOMAIN file[i].cells

(* No child is left running when the parent goes on, to a retry that       *)
(* deletes and recreates the same files or to its return.  A failing       *)
(* fork() is the exception: the children forked before are not waited for. *)
ChildrenReaped ==
    pc \in {"count", "waited", "returned"} /\ ret # "fork" => ~Running

(* What reassembling writes is the dump one makedumpfile would have        *)
(* written: descriptor i belongs to the i-th dumpable page and leads to    *)
(* that page's data, whatever files were named and in whatever order.  An  *)
(* incomplete dump may lack pages, never have a wrong one, and says so.    *)
ReassembledExact ==
    pc = "reassembled" =>
        LET pages == Ascending(Kept)
            Right(k) == LET pd == ReadCell(out, k - 1)
                        IN  IF pd.size = 0 THEN out.status = "incomplete"
                            ELSE ReadCell(out, pd.off) = IF IsZero(pages[k]) THEN ZeroPage ELSE Page(pages[k])
        IN  out.bitmap = Kept /\ \A k \in 1 .. Len(pages) : Right(k)

(* The files of a complete dump, each named once, are accepted in any      *)
(* order when no two of them start at the same frame and none carries      *)
(* erase information.                                                      *)
Permutation == \A i, j \in 1 .. Len(order) : i # j => order[i] # order[j]
AllNamed == Len(order) = in.files /\ Permutation
DistinctStarts == \A i, j \in 1 .. in.files : i # j => ranges[i].start # ranges[j].start
OrderIrrelevant ==
    pc = "refused" /\ order # <<>> /\ AllNamed /\ ret = "TRUE" => ~DistinctStarts \/ in.erased \cap Kept # {}

Ended == pc \notin {"count", "fork", "wait", "waited"} /\ ~Running

(* Forking, waiting and retrying come to an end: at the latest when the    *)
(* dump levels of -d are used up.                                          *)
Ends == <>Ended
=============================================================================
