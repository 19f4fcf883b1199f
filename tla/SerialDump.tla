----------------------------- MODULE SerialDump -----------------------------
(***************************************************************************)
(* The single-threaded writer of kdump-compressed pages:                   *)
(* write_kdump_pages_cyclic() and write_kdump_page(), inside               *)
(* write_kdump_pages_and_bitmap_cyclic(), down to the words of the file.   *)
(*                                                                         *)
(* A page has a descriptor of three 64-bit words in the first part of the  *)
(* file and its data in the second.  Both parts are written through a      *)
(* cache of CacheSize words, which is no multiple of three.  When the      *)
(* device is full the writer tries to leave only descriptors whose data is *)
(* in the file.                                                            *)
(*                                                                         *)
(* The cycles only decide which part of the bitmap is in memory, so the    *)
(* loops over cycles and pages are one loop here.  The file starts with    *)
(* one word that stands for the headers and bitmaps.                       *)
(***************************************************************************)
EXTENDS OutputFile

CONSTANTS
    Memories,      \* what may be dumped: [dumpable, zero, exclude]
    PageSizes,     \* the sizes compression may leave; page_size if none
    Devices,       \* the [limit, space, bad] the dump may be written to
    IntHalf        \* 2^31: an int holds -IntHalf .. IntHalf - 1

ASSUME PagesAssumption ==
    /\ \A m \in Memories :
          /\ m.dumpable \subseteq Nat /\ IsFiniteSet(m.dumpable)
          /\ m.zero \subseteq m.dumpable
          /\ m.exclude \in BOOLEAN
    /\ PageSizes \subseteq 1 .. PageSize
    /\ IntHalf \in Nat /\ PageSize < IntHalf
ASSUME DevicesAssumption ==
    \A d \in Devices : d.limit \in Nat /\ d.space \in Nat /\ d.bad \subseteq Nat

VARIABLES
    memory,        \* the memory that is dumped
    pc,            \* "begin", "pages", "complete", "nospace" or "failed"
    pfn,           \* the pfn the loop is at
    cd_header,     \* the cache of the descriptors
    cd_page,       \* the cache of the page data
    offset_data,   \* where the data of the next page will be
    file           \* the dump file and its device

vars == <<memory, pc, pfn, cd_header, cd_page, offset_data, file>>

Dumpable == memory.dumpable       \* the pfns whose bit is on in the 2nd bitmap
ZeroPages == memory.zero          \* those that are filled with zeros
ExcludeZero == memory.exclude     \* info->dump_level & DL_EXCLUDE_ZERO

DescSize == 3                      \* sizeof(page_desc_t), in words
ASSUME DescAssumption == DescSize < PageSize
HeaderStart == 1
PageStart == HeaderStart + DescSize * Cardinality(Dumpable)

Descriptor(offset, size) ==
    << [field |-> "offset", value |-> offset],
       [field |-> "size", value |-> size],
       [field |-> "page_flags", value |-> 0] >>

pd_zero == Descriptor(PageStart, PageSize)

\* The (compressed) data of page p, and the data of the zero page.
PageWords(p, size) == [j \in 1 .. size |-> [page |-> p, word |-> j, of |-> size]]
ZeroPageWords == [j \in 1 .. PageSize |-> Zero]

\* A value kept in an int.
AsInt(n) == ((n + IntHalf) % (2 * IntHalf)) - IntHalf

Init ==
    /\ memory \in Memories
    /\ pc = "begin"
    /\ pfn = 0
    /\ cd_header = EmptyCache(HeaderStart)
    /\ cd_page = EmptyCache(PageStart)
    /\ offset_data = PageStart
    /\ \E d \in Devices :
          file = [cells |-> [o \in {0} |-> Zero], limit |-> d.limit,
                  space |-> d.space, bad |-> d.bad, nospace |-> FALSE]

\* "goto out": writeout_dumpfile() drops the caches and returns NOSPACE or
\* FALSE.  pfn and offset_data are not read again.
Out(f) ==
    /\ file' = f
    /\ pc' = IF f.nospace THEN "nospace" ELSE "failed"
    /\ UNCHANGED <<memory, pfn, offset_data>>

-----------------------------------------------------------------------------
\* The data of the zero page comes first and has no descriptor of its own.
Begin ==
    /\ pc = "begin"
    /\ LET r == WriteCache(cd_page, file, ZeroPageWords)
       IN  IF ~ ExcludeZero
           THEN /\ pc' = "pages"
                /\ UNCHANGED <<memory, pfn, cd_header, cd_page, offset_data, file>>
           ELSE /\ cd_page' = r.cd
                /\ UNCHANGED cd_header
                /\ IF r.ok
                   THEN /\ pc' = "pages"
                        /\ file' = r.file
                        /\ offset_data' = offset_data + PageSize
                        /\ UNCHANGED <<memory, pfn>>
                   ELSE Out(r.file)

\* The loop is at page p, the first dumpable one that is left.
At(p) ==
    /\ pc = "pages"
    /\ p >= pfn
    /\ \A q \in Dumpable : q >= pfn => p <= q

\* A buffer cannot be allocated, or read_pfn() fails.
ReadFails ==
    /\ pc \in {"begin", "pages"}
    /\ pc' = "failed"
    /\ UNCHANGED <<memory, pfn, cd_header, cd_page, offset_data, file>>

\* A zero page gets a copy of pd_zero; write_cache() may write cd_header out
\* while the data of other pages is still in cd_page.
WriteZeroPage(p) ==
    /\ At(p)
    /\ ExcludeZero /\ p \in ZeroPages
    /\ LET r == WriteCache(cd_header, file, pd_zero)
       IN  /\ cd_header' = r.cd
           /\ UNCHANGED cd_page
           /\ IF r.ok
              THEN /\ file' = r.file
                   /\ pfn' = p + 1
                   /\ UNCHANGED <<memory, pc, offset_data>>
              ELSE Out(r.file)

-----------------------------------------------------------------------------
(***************************************************************************)
(* write_kdump_page() for page p compressed to size words.                 *)
(***************************************************************************)
NearlyFull(size) ==
    \/ Len(cd_header.buf) + DescSize >= CacheSize
    \/ Len(cd_page.buf) + size >= CacheSize

Compressed(p, size) ==
    /\ At(p)
    /\ ~ (ExcludeZero /\ p \in ZeroPages)
    /\ size \in PageSizes \cup {PageSize}

\* The results of the two write_cache() calls are not looked at.
Cache(p, size, header, page, f) ==
    LET h == WriteCache(header, f, Descriptor(offset_data, size))
        d == WriteCache(page, h.file, PageWords(p, size))
    IN  /\ cd_header' = h.cd
        /\ cd_page' = d.cd
        /\ file' = d.file
        /\ offset_data' = offset_data + size
        /\ pfn' = p + 1
        /\ UNCHANGED <<memory, pc>>

CachePage(p, size) ==
    /\ Compressed(p, size)
    /\ ~ NearlyFull(size)
    /\ Cache(p, size, cd_header, cd_page, file)

FlushCaches(p, size) ==
    LET h == WriteCdBuf(cd_header, file)
        d == WriteCdBuf(cd_page, h.file)
    IN  /\ Compressed(p, size)
        /\ NearlyFull(size)
        /\ h.ok /\ d.ok
        /\ Cache(p, size, EmptyCache(cd_header.offset + Len(cd_header.buf)),
                 EmptyCache(cd_page.offset + Len(cd_page.buf)), d.file)

\* The descriptors do not fit: those that do are overwritten with zeros.
HeaderFlushFails(p, size) ==
    LET h == WriteCdBuf(cd_header, file)
        zeros == [cd_header EXCEPT !.buf = ZeroWords(Len(@))]
    IN  /\ Compressed(p, size)
        /\ NearlyFull(size)
        /\ ~ h.ok
        /\ cd_header' = zeros
        /\ UNCHANGED cd_page
        /\ Out(WriteCdBuf(zeros, h.file).file)

(***************************************************************************)
(* get_nr_pages(): how many descriptors at the start of cd_header have     *)
(* their data in the file f, by the sizes in them and the end of the file. *)
(* It reads words 2, 5, 8... as sizes, whatever they are, and what follows *)
(* the last one is not initialized: it may stop there or go on.            *)
(***************************************************************************)
NumDescriptors(buf) == (Len(buf) + 1) \div DescSize
SizeWord(buf, k) == AsInt(buf[DescSize * (k - 1) + 2].value)

SizeSum(buf) ==
    LET sum[k \in 0 .. NumDescriptors(buf)] ==
            IF k = 0 THEN 0 ELSE sum[k - 1] + SizeWord(buf, k)
    IN  sum

NumPages(buf, f, offset) ==
    LET present == AsInt(FileEnd(f)) - offset
        n == NumDescriptors(buf)
        fit == {k \in 0 .. n : \A m \in 1 .. k : SizeSum(buf)[m] <= present}
    IN  IF AsInt(FileEnd(f)) < 0 THEN {-1}
        ELSE IF n \in fit THEN {n, n + 1}
        ELSE {CHOOSE k \in fit : \A m \in fit : m <= k}

\* Variant: the descriptors of the pages that are lost are left in the file.
PageFlushFailsKeeping(p, size) ==
    LET h == WriteCdBuf(cd_header, file)
        d == WriteCdBuf(cd_page, h.file)
    IN  /\ Compressed(p, size)
        /\ NearlyFull(size)
        /\ h.ok /\ ~ d.ok
        /\ UNCHANGED <<cd_header, cd_page>>
        /\ Out(d.file)

\* The data does not fit: the descriptors of the pages whose data does stay,
\* the others are overwritten with zeros.  A buf_size below zero is a huge
\* size_t, for which write() fails.
PageFlushFails(p, size) ==
    LET h == WriteCdBuf(cd_header, file)
        d == WriteCdBuf(cd_page, h.file)
    IN  /\ Compressed(p, size)
        /\ NearlyFull(size)
        /\ h.ok /\ ~ d.ok
        /\ UNCHANGED cd_page
        /\ \E n \in NumPages(cd_header.buf, d.file, cd_page.offset) :
              LET left == Len(cd_header.buf) - DescSize * n
                  zeros == [buf |-> ZeroWords(left),
                            offset |-> cd_header.offset + DescSize * n]
              IN  IF n >= 0 /\ left >= 0
                  THEN /\ cd_header' = zeros
                       /\ Out(WriteCdBuf(zeros, d.file).file)
                  ELSE /\ UNCHANGED cd_header
                       /\ Out(d.file)

-----------------------------------------------------------------------------
\* The remainder: the data first, then the descriptors.
WriteRemainder ==
    LET d == WriteCacheBufsz(cd_page, file)
        h == WriteCacheBufsz(cd_header, d.file)
    IN  /\ pc = "pages"
        /\ \A q \in Dumpable : q < pfn
        /\ cd_page' = d.cd
        /\ IF d.ok
           THEN /\ cd_header' = h.cd
                /\ IF h.ok THEN /\ pc' = "complete"
                                /\ file' = h.file
                                /\ UNCHANGED <<memory, pfn, offset_data>>
                           ELSE Out(h.file)
           ELSE /\ UNCHANGED cd_header
                /\ Out(d.file)

\* The file is closed.
Stopped == pc \in {"complete", "nospace", "failed"} /\ UNCHANGED vars

WritePage(p) ==
    \/ WriteZeroPage(p)
    \/ \E size \in PageSizes \cup {PageSize} :
          \/ CachePage(p, size) \/ FlushCaches(p, size)
          \/ HeaderFlushFails(p, size) \/ PageFlushFails(p, size)

Next ==
    \/ Begin \/ ReadFails \/ WriteRemainder \/ Stopped
    \/ \E p \in Dumpable : WritePage(p)

Spec == Init /\ [][Next]_vars

-----------------------------------------------------------------------------
(***************************************************************************)
(* A reader, readpage_kdump_compressed(): pfn_to_pos() counts the dumpable *)
(* pages before p, which gives the place of its descriptor.                *)
(***************************************************************************)
PfnToPos(p) == Cardinality({q \in Dumpable : q < p})

DescWord(p, k) == WordAt(file, HeaderStart + DescSize * PfnToPos(p) + k - 1)

DataAt(offset, size) == [j \in 1 .. size |-> WordAt(file, offset + j - 1)]

ReadsBack(p, offset) ==
    \E size \in PageSizes \cup {PageSize} :
        /\ offset + size <= FileEnd(file)
        /\ DataAt(offset, size) = IF ExcludeZero /\ p \in ZeroPages
                                  THEN ZeroPageWords ELSE PageWords(p, size)

(***************************************************************************)
(* The types of the variables.                                             *)
(***************************************************************************)
TypeOK ==
    /\ pc \in {"begin", "pages", "complete", "nospace", "failed"}
    /\ pfn \in Nat
    /\ offset_data \in Nat
    /\ cd_header.offset \in Nat
    /\ cd_page.offset \in Nat
    /\ DOMAIN file.cells \subseteq Nat
    /\ file.space \in Nat

(***************************************************************************)
(* Neither cache is ever full when words are added to it, so no write goes *)
(* beyond the cache_size + page_size words of its buffer, and offsets in   *)
(* the file never become negative.                                         *)
(***************************************************************************)
BuffersSuffice ==
    /\ TypeOK
    /\ pc = "pages" =>
        /\ Len(cd_header.buf) + DescSize <= CacheSize + PageSize
        /\ Len(cd_page.buf) <= CacheSize

(***************************************************************************)
(* A dump that is reported complete can be read back: the descriptor found *)
(* for a page has the offset and the size of that page's own data, however *)
(* the caches were filled, flushed and split.                              *)
(***************************************************************************)
ReadableWhenComplete ==
    pc = "complete" =>
        \A p \in Dumpable :
            /\ ReadsBack(p, DescWord(p, 1).value)
            /\ DataAt(DescWord(p, 1).value, DescWord(p, 2).value)
                  \in {ZeroPageWords} \cup
                      {PageWords(p, s) : s \in PageSizes \cup {PageSize}}

(***************************************************************************)
(* A dump that was cut short for lack of space has no descriptor whose     *)
(* page is lost: "only the page lost by ENOSPACE errors has 0 in its       *)
(* corresponding page descriptor's member offset" (IMPLEMENTATION).        *)
(***************************************************************************)
OnlyLostPagesHaveNoOffset ==
    pc = "nospace" =>
        \A p \in Dumpable :
            DescWord(p, 1).value # 0 => ReadsBack(p, DescWord(p, 1).value)

(***************************************************************************)
(* The same for a dump that does not exclude zero pages, where cd_header   *)
(* and cd_page are filled in step by write_kdump_page(), and whose end     *)
(* get_nr_pages() can hold in an int: below 2 GB its flushes leave only    *)
(* descriptors of pages that are in the file, wherever the space ended.    *)
(***************************************************************************)
LostPagesHaveNoOffset ==
    ~ ExcludeZero /\ FileEnd(file) < IntHalf => OnlyLostPagesHaveNoOffset
=============================================================================
