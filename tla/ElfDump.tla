------------------------------ MODULE ElfDump -------------------------------
(***************************************************************************)
(* Writing a dump in the ELF format, to a file or to the standard output   *)
(* in the flattened format, and rearranging the flattened format.          *)
(*                                                                         *)
(* The dump memory has PT_LOADs [paddr, memsz, filesz, offset]; a byte of  *)
(* memory is named by its physical address; a PT_LOAD of paddr NOT_PADDR   *)
(* has none.  Addresses wrap at AddrLimit.  What the dump file holds at    *)
(* an offset is a cell [kind, val]: a byte of memory, a program header, a  *)
(* byte of a note, ...; headers are one cell each.                         *)
(***************************************************************************)
EXTENDS DumpBitmap, Sequences, FiniteSets, SequencesExt

CONSTANTS
    Dumps,         \* the dumps to make: see MCElfDump
    AddrLimit,     \* 2^64
    PageSize,      \* info->page_size
    PfnExcluded,   \* PFN_EXCLUDED
    PnXnum,        \* PN_XNUM
    CacheSize,     \* cache_size of the caches of write_cache()
    StdinSize      \* SIZE_BUF_STDIN

VARIABLES
    in,        \* the dump memory, the options and the pages to dump
    pc,        \* the function that runs next
    i,         \* the PT_LOAD in the loop of write_elf_pages_cyclic()
    cycle,     \* its cycle
    seg,       \* its other variables
    hdr,       \* cd_header
    page,      \* cd_page
    out,       \* what was written
    flat       \* where rearrange_dumpdata() is

vars == << in, pc, i, cycle, seg, hdr, page, out, flat >>

NotPaddr == AddrLimit - 1

Cell(kind, val) == [kind |-> kind, val |-> val]

Zeros(n) == [k \in 1 .. n |-> Cell("zero", << >>)]

-----------------------------------------------------------------------------
(***************************************************************************)
(* Output.  To a file, a write that passes the limit stores what fits and  *)
(* fails; to the standard output, a header with the offset goes before     *)
(* every buffer.                                                           *)
(***************************************************************************)
Stored(file, offset, data) ==
    [o \in DOMAIN file \cup offset .. offset + Len(data) - 1 |->
        IF o \in offset .. offset + Len(data) - 1 THEN data[o - offset + 1] ELSE file[o]]

WriteBuffer(o, offset, data) ==
    LET room == IF offset > in.limit THEN 0 ELSE in.limit - offset
        fits == Len(data) <= room
    IN  IF ~o.ok THEN o
        ELSE IF in.flatten
             THEN [o EXCEPT !.stream = Append(@, [offset |-> offset, data |-> data])]
        ELSE [o EXCEPT !.file = Stored(@, offset, IF fits THEN data ELSE SubSeq(data, 1, room)),
                       !.ok = fits, !.nospace = ~fits]

\* write_cache() of data, a piece no longer than the cache at a time.
Chunk(cd, data, k) == SubSeq(cd.buf \o data, (k - 1) * CacheSize + 1, k * CacheSize)

Chunks(cd, data) == (Len(cd.buf) + Len(data)) \div CacheSize

WriteCache(cd, data) ==
    [offset |-> cd.offset + Chunks(cd, data) * CacheSize,
     buf |-> SubSeq(cd.buf \o data, Chunks(cd, data) * CacheSize + 1, Len(cd.buf) + Len(data))]

RECURSIVE WriteChunks(_, _, _, _)
WriteChunks(o, cd, data, k) ==
    IF k > Chunks(cd, data) THEN o
    ELSE WriteChunks(WriteBuffer(o, cd.offset + (k - 1) * CacheSize, Chunk(cd, data, k)),
                     cd, data, k + 1)

CacheWritten(o, cd, data) == WriteChunks(o, cd, data, 1)

WriteCacheBufsz(o, cd) == IF cd.buf = << >> THEN o ELSE WriteBuffer(o, cd.offset, cd.buf)

Flushed(cd) == [offset |-> cd.offset + Len(cd.buf), buf |-> << >>]

\* reserve_diskspace() in pieces of a page.
RECURSIVE Reserve(_, _, _)
Reserve(o, from, to) ==
    LET n == IF PageSize < to - from THEN PageSize ELSE to - from
    IN  IF in.flatten \/ from >= to THEN o
        ELSE Reserve(WriteBuffer(o, from, Zeros(n)), from + n, to)

-----------------------------------------------------------------------------
(***************************************************************************)
(* PT_LOADs of the dump file.  An excluded run of PFN_EXCLUDED pages or    *)
(* more ends a PT_LOAD; a shorter one is written all the same.             *)
(***************************************************************************)
EndAddr(l) == (l.paddr + l.memsz) % AddrLimit

FracHead(l) == PageSize - (l.paddr % PageSize)

FracTail(l) == EndAddr(l) % PageSize

HasHead(l) == FracHead(l) # PageSize

PfnStart(l) == l.paddr \div PageSize + (IF HasHead(l) THEN 1 ELSE 0)

PfnEnd(l) == EndAddr(l) \div PageSize + (IF FracTail(l) > 0 THEN 1 ELSE 0)

NewLoads(l) ==
    1 + Cardinality({p \in PfnStart(l) + PfnExcluded .. PfnEnd(l) - 1 :
            p \in in.dumpable /\ \A q \in p - PfnExcluded .. p - 1 : q \notin in.dumpable})

RECURSIVE LoadsFrom(_)
LoadsFrom(k) == IF k > Len(in.loads) THEN 0 ELSE NewLoads(in.loads[k]) + LoadsFrom(k + 1)

get_loads_dumpfile_cyclic == LoadsFrom(1)

\* The eraseinfo note: its header, its name and its contents.
SizeErase == IF in.erase = 0 THEN 0 ELSE 2 + in.erase

\* Extended numbering: the number is in a section header after the headers.
Xnum(n) == in.elf64 /\ n >= PnXnum

OffsetNote(n) == 1 + n + (IF Xnum(n) THEN 1 ELSE 0)

Note == Cell("phdr", << "note", OffsetNote(get_loads_dumpfile_cyclic + 1), 0, in.note + SizeErase, 0 >>)

Ehdr(n) == Cell("ehdr", << IF Xnum(n) THEN PnXnum ELSE n, 0 >>)

\* A failure of write_elf_pages_cyclic() goes to write_cache_enospc.
Fail(o, next) == IF o.ok THEN next ELSE "enospc"

WriteElfHeader ==
    LET n == get_loads_dumpfile_cyclic + 1
        reserved == Reserve(out, 1, 1 + n)
        section == IF Xnum(n)
                   THEN WriteBuffer(reserved, 1 + n, << Cell("shdr", << n >>) >>) ELSE reserved
        cd == [offset |-> 1, buf |-> << >>]
        noted == CacheWritten(section, cd, << Note >>)
        headed == WriteBuffer(noted, 0, << Ehdr(n) >>)
        written == WriteBuffer(headed, OffsetNote(n), [k \in 1 .. in.note |-> Cell("note", << k >>)])
    IN  /\ pc = "header"
        /\ get_loads_dumpfile_cyclic > 0
        /\ hdr' = WriteCache(cd, << Note >>)
        /\ page' = [offset |-> OffsetNote(n) + in.note + SizeErase, buf |-> << >>]
        /\ seg' = [seg EXCEPT !.off_seg_load = OffsetNote(n) + in.note + SizeErase]
        /\ out' = written
        /\ i' = 1
        /\ pc' = IF written.ok THEN "load" ELSE "failed"
        /\ UNCHANGED << in, cycle, flat >>

-----------------------------------------------------------------------------
(***************************************************************************)
(* write_elf_pages_cyclic().                                               *)
(***************************************************************************)
L == in.loads[i]

\* get_loads_dumpfile_cyclic() has counted it all the same.
SkipLoad ==
    /\ pc = "load"
    /\ i <= Len(in.loads)
    /\ L.paddr = NotPaddr
    /\ i' = i + 1
    /\ UNCHANGED << in, pc, cycle, seg, hdr, page, out, flat >>

StartLoad ==
    /\ pc = "load"
    /\ i <= Len(in.loads)
    /\ L.paddr # NotPaddr
    /\ cycle' = FirstCycle(PfnStart(L), PfnEnd(L), in.pfn_cyclic, TRUE)
    /\ seg' = [seg EXCEPT !.memsz = IF HasHead(L) THEN FracHead(L) ELSE 0,
                          !.filesz = IF HasHead(L) THEN FracHead(L) ELSE 0,
                          !.excluded = 0, !.paddr = L.paddr, !.pfn = PfnStart(L)]
    /\ pc' = "page"
    /\ UNCHANGED << in, i, hdr, page, out, flat >>

NextCycle ==
    /\ pc = "page"
    /\ ~EndCycle(cycle, PfnEnd(L))
    /\ seg.pfn >= cycle.end
    /\ cycle' = UpdateCycle(cycle, PfnEnd(L), in.pfn_cyclic)
    /\ UNCHANGED << in, pc, i, seg, hdr, page, out, flat >>

\* The bytes of the current page that the PT_LOAD has.
SizeOfPage == IF seg.pfn = PfnEnd(L) - 1 /\ FracTail(L) > 0 THEN FracTail(L) ELSE PageSize

IsExcluded == ~(InCycle(seg.pfn, cycle) /\ seg.pfn \in in.dumpable)

ExcludePage ==
    /\ pc = "page"
    /\ seg.pfn < cycle.end
    /\ IsExcluded
    /\ seg' = [seg EXCEPT !.excluded = @ + 1, !.memsz = @ + SizeOfPage, !.pfn = @ + 1]
    /\ UNCHANGED << in, pc, i, cycle, hdr, page, out, flat >>

\* Variant: the excluded pages before it are not counted in p_filesz.
ContinueLoadShort ==
    /\ pc = "page"
    /\ seg.pfn < cycle.end
    /\ ~IsExcluded
    /\ seg.excluded < PfnExcluded
    /\ seg' = [seg EXCEPT !.memsz = @ + SizeOfPage, !.filesz = @ + SizeOfPage,
                          !.excluded = 0, !.pfn = @ + 1, !.dumped = @ + 1]
    /\ UNCHANGED << in, pc, i, cycle, hdr, page, out, flat >>

\* The page continues the PT_LOAD, with the few excluded pages before it.
ContinueLoad ==
    /\ pc = "page"
    /\ seg.pfn < cycle.end
    /\ ~IsExcluded
    /\ seg.excluded < PfnExcluded
    /\ seg' = [seg EXCEPT !.memsz = @ + SizeOfPage,
                          !.filesz = @ + PageSize * seg.excluded + SizeOfPage,
                          !.excluded = 0, !.pfn = @ + 1, !.dumped = @ + 1]
    /\ UNCHANGED << in, pc, i, cycle, hdr, page, out, flat >>

\* The bytes at an offset of the dump memory, and where an address is in it.
ByteAt(o) ==
    LET l == CHOOSE l \in Range(in.loads) : l.offset <= o /\ o < l.offset + l.filesz
    IN  Cell("byte", << l.paddr + o - l.offset >>)

Readable(o) == \E l \in Range(in.loads) : l.offset <= o /\ o < l.offset + l.filesz

paddr_to_offset2(paddr, hint) ==
    LET has(l) == /\ paddr >= l.paddr /\ paddr < l.paddr + l.filesz
                  /\ hint >= l.offset /\ hint < l.offset + l.filesz
        l == CHOOSE l \in Range(in.loads) : has(l)
    IN  IF \E x \in Range(in.loads) : has(x) THEN paddr - l.paddr + l.offset ELSE 0

\* write_elf_load_segment() reads a page at a time, and no further than one it
\* cannot read.
SegmentData(size) ==
    LET from == paddr_to_offset2(seg.paddr, L.offset)
        missing == {k \in 1 .. size : from = 0 \/ ~ Readable(from + k - 1)}
        read == IF missing = {} THEN size
                ELSE ((Min(missing) - 1) \div PageSize) * PageSize
    IN  [k \in 1 .. read |-> ByteAt(from + k - 1)]

\* Both branches that write a PT_LOAD: its header, then its bytes.
Phdr(offset) ==
    Cell("phdr", << "load", offset, seg.paddr, seg.filesz, seg.memsz >>)

WriteLoad(offset, next) ==
    LET headed == CacheWritten(out, hdr, << Phdr(offset) >>)
        data == SegmentData(seg.filesz)
        copied == CacheWritten(headed, page, data)
        written == [copied EXCEPT !.ok = @ /\ Len(data) = seg.filesz]
    IN  /\ hdr' = IF headed.ok THEN WriteCache(hdr, << Phdr(offset) >>)
                  ELSE [hdr EXCEPT !.buf = Append(@, Phdr(offset))]
        /\ page' = IF headed.ok THEN WriteCache(page, data) ELSE page
        /\ out' = written
        /\ pc' = Fail(written, next)

\* Variant: the next PT_LOAD keeps the offset of this one.
SplitLoadSameOffset ==
    /\ pc = "page"
    /\ seg.pfn < cycle.end
    /\ ~IsExcluded
    /\ seg.excluded >= PfnExcluded
    /\ WriteLoad(IF seg.filesz > 0 THEN seg.off_seg_load ELSE 0, "page")
    /\ seg' = [seg EXCEPT !.elf_excluded = @ + seg.excluded, !.paddr = @ + seg.memsz,
                          !.excluded = 0, !.memsz = PageSize, !.filesz = PageSize,
                          !.pfn = @ + 1, !.dumped = @ + 1]
    /\ UNCHANGED << in, i, cycle, flat >>

SplitLoad ==
    /\ pc = "page"
    /\ seg.pfn < cycle.end
    /\ ~IsExcluded
    /\ seg.excluded >= PfnExcluded
    /\ WriteLoad(IF seg.filesz > 0 THEN seg.off_seg_load ELSE 0, "page")
    /\ seg' = [seg EXCEPT !.elf_excluded = @ + seg.excluded, !.paddr = @ + seg.memsz,
                          !.off_seg_load = @ + seg.filesz, !.excluded = 0,
                          !.memsz = PageSize, !.filesz = PageSize,
                          !.pfn = @ + 1, !.dumped = @ + 1]
    /\ UNCHANGED << in, i, cycle, flat >>

LastLoad ==
    /\ pc = "page"
    /\ EndCycle(cycle, PfnEnd(L))
    /\ WriteLoad(seg.off_seg_load, "load")
    /\ seg' = [seg EXCEPT !.elf_excluded = @ + seg.excluded, !.off_seg_load = @ + seg.filesz]
    /\ i' = i + 1
    /\ UNCHANGED << in, cycle, flat >>

EndPages ==
    LET o == WriteCacheBufsz(WriteCacheBufsz(out, hdr), page)
    IN  /\ pc = "load"
        /\ i > Len(in.loads)
        /\ out' = o
        /\ hdr' = IF WriteCacheBufsz(out, hdr).ok THEN Flushed(hdr) ELSE hdr
        /\ page' = IF o.ok THEN Flushed(page) ELSE page
        /\ pc' = Fail(o, "eraseinfo")
        /\ UNCHANGED << in, i, cycle, seg, flat >>

\* write_elf_eraseinfo(): less than was reserved may be there to write; whether
\* the rest could be filled with zeros is not asked.
WriteElfEraseinfo ==
    LET at == OffsetNote(get_loads_dumpfile_cyclic + 1) + in.note
        text == [k \in 1 .. in.erased |-> Cell("erase", << k >>)]
        first == << Cell("nhdr", << in.erase >>), Cell("name", << >>) >> \o text
        cd == [offset |-> at, buf |-> << >>]
        o == WriteCacheBufsz(CacheWritten(out, cd, first), WriteCache(cd, first))
    IN  /\ pc = "eraseinfo"
        /\ out' = IF in.erase = 0 THEN out
                  ELSE IF in.erased = in.erase THEN o
                  ELSE [WriteBuffer(o, at + 2 + in.erased, Zeros(in.erase - in.erased)) EXCEPT !.ok = o.ok]
        /\ pc' = IF out'.ok THEN "end" ELSE "failed"
        /\ UNCHANGED << in, i, cycle, seg, hdr, page, flat >>

-----------------------------------------------------------------------------
(***************************************************************************)
(* The end of writeout_dumpfile(), and what create_dumpfile() does with an *)
(* incomplete dump when there is no higher dump level.                     *)
(***************************************************************************)
EndFlag == [offset |-> -1, data |-> << >>]

EndDump ==
    /\ pc = "end"
    /\ out' = IF in.flatten THEN [out EXCEPT !.stream = Append(@, EndFlag)] ELSE out
    /\ pc' = IF in.flatten THEN "rearrange" ELSE "done"
    /\ UNCHANGED << in, i, cycle, seg, hdr, page, flat >>

\* The program headers of what was written are saved at least.
WriteCacheEnospc ==
    /\ pc = "enospc"
    /\ out' = IF out.nospace /\ ~in.flatten
              THEN [WriteCacheBufsz([out EXCEPT !.ok = TRUE], hdr) EXCEPT !.ok = FALSE, !.nospace = TRUE]
              ELSE out
    /\ pc' = "failed"
    /\ UNCHANGED << in, i, cycle, seg, hdr, page, flat >>

IsEhdr(file) == 0 \in DOMAIN file /\ file[0].kind = "ehdr"

check_and_modify_elf_headers ==
    /\ pc = "failed"
    /\ out' = IF out.nospace /\ IsEhdr(out.file)
              THEN [out EXCEPT !.file[0].val[2] = 1] ELSE out
    /\ pc' = "done"
    /\ UNCHANGED << in, i, cycle, seg, hdr, page, flat >>

-----------------------------------------------------------------------------
(***************************************************************************)
(* rearrange_dumpdata(), in a second run of makedumpfile -R.  What arrives *)
(* may end early: read_buf_from_stdin() gives up after TIMEOUT_STDIN.      *)
(***************************************************************************)
Arrives == flat.pos <= Len(out.stream) /\ flat.pos <= in.arrives

Current == out.stream[flat.pos]

RearrangePiece ==
    LET left == Len(Current.data) - flat.read
        n == IF StdinSize < left THEN StdinSize ELSE left
    IN  /\ pc = "rearrange"
        /\ Arrives
        /\ left > 0
        /\ out' = [out EXCEPT !.file = Stored(@, Current.offset + flat.read,
                                              SubSeq(Current.data, flat.read + 1, flat.read + n))]
        /\ flat' = IF n = left THEN [flat EXCEPT !.pos = @ + 1, !.read = 0]
                   ELSE [flat EXCEPT !.read = @ + n]
        /\ UNCHANGED << in, pc, i, cycle, seg, hdr, page >>

\* Variant: a stream that ends early is taken for whole.
RearrangeEndUnchecked ==
    /\ pc = "rearrange"
    /\ ~Arrives \/ Current.data = << >>
    /\ flat' = [flat EXCEPT !.ok = TRUE]
    /\ pc' = "done"
    /\ UNCHANGED << in, i, cycle, seg, hdr, page, out >>

RearrangeEnd ==
    /\ pc = "rearrange"
    /\ ~Arrives \/ Current.data = << >>
    /\ flat' = [flat EXCEPT !.ok = Arrives /\ Current = EndFlag]
    /\ pc' = "done"
    /\ UNCHANGED << in, i, cycle, seg, hdr, page, out >>

Finished == pc = "done" /\ UNCHANGED vars

Init ==
    /\ in \in Dumps
    /\ pc = "header"
    /\ i = 0
    /\ cycle = FirstCycle(0, 0, 1, TRUE)
    /\ seg = [pfn |-> 0, memsz |-> 0, filesz |-> 0, excluded |-> 0, paddr |-> 0,
              off_seg_load |-> 0, elf_excluded |-> 0, dumped |-> 0]
    /\ hdr = [offset |-> 0, buf |-> << >>]
    /\ page = [offset |-> 0, buf |-> << >>]
    /\ out = [file |-> << >>, stream |-> << >>, ok |-> TRUE, nospace |-> FALSE]
    /\ flat = [pos |-> 1, read |-> 0, ok |-> FALSE]

Next ==
    \/ WriteElfHeader \/ SkipLoad \/ StartLoad \/ NextCycle \/ ExcludePage \/ ContinueLoad
    \/ SplitLoad \/ LastLoad \/ EndPages \/ WriteElfEraseinfo \/ EndDump
    \/ WriteCacheEnospc \/ check_and_modify_elf_headers
    \/ RearrangePiece \/ RearrangeEnd \/ Finished

Spec == Init /\ [][Next]_vars

-----------------------------------------------------------------------------
(***************************************************************************)
(* Properties.                                                             *)
(***************************************************************************)
\* The headers a reader of the finished file finds where the ELF header says.
Number(file) ==
    IF in.elf64 /\ file[0].val[1] = PnXnum
    THEN LET s == CHOOSE o \in DOMAIN file : file[o].kind = "shdr" IN file[s].val[1]
    ELSE file[0].val[1]

Headers(file) == {file[o] : o \in DOMAIN file \cap 1 .. Number(file)}

Loads(file) == {h \in Headers(file) : h.kind = "phdr" /\ h.val[1] = "load"}

InLoad(h, b) == h.val[3] <= b /\ b < h.val[3] + h.val[5]

RealLoads == {l \in Range(in.loads) : l.paddr # NotPaddr}

\* Headers that were counted and are not written: zero, so of type PT_NULL.
NullHeaders == Cardinality({k \in DOMAIN in.loads : in.loads[k].paddr = NotPaddr})

IsNull(file, o) == o \in DOMAIN file => file[o].kind = "zero"

Complete == pc = "done" /\ (IF in.flatten THEN flat.ok ELSE out.ok)

Written(file) == pc = "done" /\ IsEhdr(file)

\* The bytes of a page to dump, and of the fractional page at the head.
Wanted ==
    {b \in UNION {l.paddr .. l.paddr + l.memsz - 1 : l \in RealLoads} :
        \/ b \div PageSize \in in.dumpable
        \/ \E l \in RealLoads : HasHead(l) /\ b \in l.paddr .. l.paddr + FracHead(l) - 1}

(***************************************************************************)
(* A PT_LOAD that is split before its last page, a fractional one: the new *)
(* PT_LOAD is given a whole page, so that the bytes after the end of the   *)
(* old one are written as well, or cannot be read.                         *)
(***************************************************************************)
TailAlone ==
    \E l \in RealLoads :
        LET last == PfnEnd(l) - 1
        IN  /\ FracTail(l) > 0
            /\ last \in in.dumpable
            /\ last - PfnExcluded >= PfnStart(l)
            /\ \A q \in last - PfnExcluded .. last - 1 : q \notin in.dumpable

(***************************************************************************)
(* get_loads_dumpfile_cyclic() counts before writing the PT_LOADs that     *)
(* write_elf_pages_cyclic() makes.  It counts one too many for each        *)
(* PT_LOAD without a physical address, which the writer skips: in a        *)
(* finished dump the program headers counted in e_phnum, or in the section *)
(* header, are the ones written and then as many of type PT_NULL as there  *)
(* are such PT_LOADs, and none lies over the notes.                        *)
(***************************************************************************)
HeadersFill ==
    Complete =>
        LET last == Number(out.file) - NullHeaders
        IN  /\ Number(out.file) = get_loads_dumpfile_cyclic + 1
            /\ \A o \in 1 .. last : o \in DOMAIN out.file /\ out.file[o].kind = "phdr"
            /\ \A o \in last + 1 .. Number(out.file) : IsNull(out.file, o)
            /\ \A o \in DOMAIN out.file : out.file[o].kind = "phdr" => o <= last

(***************************************************************************)
(* The dump reads back: in a finished dump, written to a file or flattened *)
(* and rearranged, every byte to dump is in exactly one PT_LOAD, within    *)
(* its p_filesz, and the file holds that byte at its offset.               *)
(***************************************************************************)
ReadsBack ==
    Complete => \A b \in Wanted :
        LET hs == {h \in Loads(out.file) : InLoad(h, b)}
            h == CHOOSE h \in hs : TRUE
            at == h.val[2] + b - h.val[3]
        IN  /\ Cardinality(hs) = 1
            /\ b - h.val[3] < h.val[4]
            /\ at \in DOMAIN out.file
            /\ out.file[at] = Cell("byte", << b >>)

(***************************************************************************)
(* Also when the space ran out (write_cache_enospc saves the headers of    *)
(* what was written, check_and_modify_elf_headers() marks the file), what  *)
(* the file has of a PT_LOAD is memory of that PT_LOAD, never the bytes of *)
(* another one.  Such a file is marked in e_flags, one that was finished   *)
(* is not.                                                                 *)
(***************************************************************************)
NeverWrong ==
    Written(out.file) /\ ~in.flatten /\ ~TailAlone =>
        /\ out.file[0].val[2] = (IF out.nospace /\ ~ out.ok THEN 1 ELSE 0)
        /\ \A h \in Loads(out.file) : \A k \in 0 .. h.val[4] - 1 :
             h.val[2] + k \in DOMAIN out.file => out.file[h.val[2] + k] = Cell("byte", << h.val[3] + k >>)

(***************************************************************************)
(* The report of excluded pages: pfn_elf_excluded counts exactly the pages *)
(* whose bytes are not in the file.                                        *)
(***************************************************************************)
ElfExcludedExact ==
    Complete =>
        seg.elf_excluded = Cardinality({p \in UNION {PfnStart(l) .. PfnEnd(l) - 1 : l \in Range(in.loads)} :
            \A b \in p * PageSize .. (p + 1) * PageSize - 1 :
                \A h \in Loads(out.file) : ~(h.val[3] <= b /\ b < h.val[3] + h.val[4])})

(***************************************************************************)
(* rearrange_dumpdata() succeeds exactly when all of the flattened dump    *)
(* has arrived.                                                            *)
(***************************************************************************)
RearrangedWhole ==
    pc = "done" /\ in.flatten /\ out.ok => (flat.ok <=> in.arrives >= Len(out.stream))
=============================================================================
