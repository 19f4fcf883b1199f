-------------------------- MODULE SerialDumpProofs --------------------------
(***************************************************************************)
(* Proofs about the single-threaded writer, for every memory, every        *)
(* compressed size of every page, every size of page and cache, and every  *)
(* device: one that is full, has a size limit or refuses some offsets.     *)
(***************************************************************************)
EXTENDS SerialDump, DataLemmas

\* Zenon proves every leaf that names no other prover; the limits, in seconds,
\* leave room for a slower machine.
USE ZenonT(30)

Sizes == PageSizes \cup {PageSize}

DescWords == [field : {"offset", "size", "page_flags", "zero"}, value : Nat]
DataWords == {Zero} \cup [page : Nat, word : Nat, of : Nat]

(***************************************************************************)
(* The file: its cells have an upper end, and but for the first word, which *)
(* stands for what was written before, they are where the device takes     *)
(* them.                                                                   *)
(***************************************************************************)
FileOK(f) ==
    /\ f = [cells |-> f.cells, limit |-> f.limit, space |-> f.space,
            bad |-> f.bad, nospace |-> f.nospace]
    /\ f.limit \in Nat /\ f.space \in Nat
    /\ DOMAIN f.cells \subseteq Nat
    /\ \E top \in Nat : \A x \in DOMAIN f.cells : x <= top
    /\ \A x \in DOMAIN f.cells : x # 0 => x < f.limit /\ x \notin f.bad

CacheOK(cd, W) == cd \in [buf : Seq(W), offset : Nat]

CacheEnd(cd) == cd.offset + Len(cd.buf)

(***************************************************************************)
(* While pages are written: the descriptors follow each other in the first *)
(* part of the file and in cd_header, the data in the second part and in   *)
(* cd_page.                                                                *)
(***************************************************************************)
CachesOK ==
    /\ CacheOK(cd_header, DescWords) /\ CacheOK(cd_page, DataWords)
    /\ Len(cd_header.buf) < CacheSize
    /\ Len(cd_page.buf) <= CacheSize
    /\ HeaderStart <= cd_header.offset
    /\ CacheEnd(cd_header) = HeaderStart + DescSize * PfnToPos(pfn)
    /\ PageStart <= cd_page.offset
    /\ CacheEnd(cd_page) = offset_data

Filling == pc \in {"begin", "pages"}

SerialInv ==
    /\ TypeOK
    /\ memory \in Memories
    /\ FileOK(file)
    /\ Filling => CachesOK
    /\ pc = "begin" => /\ pfn = 0 /\ offset_data = PageStart
                       /\ cd_header = EmptyCache(HeaderStart)
                       /\ cd_page = EmptyCache(PageStart)

(***************************************************************************)
(* Word w is at offset o, in the file or still in the cache.               *)
(***************************************************************************)
Stored(cd, f, o, w) ==
    \/ o < cd.offset /\ o \in DOMAIN f.cells /\ f.cells[o] = w
    \/ /\ cd.offset <= o /\ o < CacheEnd(cd)
       /\ cd.buf[o - cd.offset + 1] = w

\* The n words of a sequence are at o.
AllStored(cd, f, o, words, n) ==
    \A j \in 1 .. n : Stored(cd, f, o + j - 1, words[j])

DataOf(p, size) ==
    IF ExcludeZero /\ p \in ZeroPages THEN ZeroPageWords ELSE PageWords(p, size)

DescPlace(p) == HeaderStart + DescSize * PfnToPos(p)

\* The descriptor of page p and the data it tells of.
PageStored(cdh, cdp, f, p, off, size) ==
    /\ AllStored(cdh, f, DescPlace(p), Descriptor(off, size), DescSize)
    /\ AllStored(cdp, f, off, DataOf(p, size), size)
    /\ ExcludeZero /\ p \in ZeroPages => size = PageSize

ContentInv ==
    pc = "pages" =>
        /\ ExcludeZero => AllStored(cd_page, file, PageStart, ZeroPageWords, PageSize)
        /\ \A p \in Dumpable : p < pfn =>
              \E off \in PageStart .. offset_data, size \in Sizes :
                  PageStored(cd_header, cd_page, file, p, off, size)

\* When all is written, the caches are empty.
CompleteInv ==
    pc = "complete" =>
        /\ cd_header.buf = << >> /\ cd_page.buf = << >>
        /\ \A p \in Dumpable : \E off \in Nat, size \in Sizes :
              PageStored(cd_header, cd_page, file, p, off, size)

(***************************************************************************)
(* Without excluded zero pages, while pages are written, the two caches    *)
(* are in step:                                                            *)
(*   - a descriptor in the file has its data in the file, below cd_page;   *)
(*   - those in cd_header are whole, n of them, and their data follow each *)
(*     other, from the start of cd_page at the latest to its end;          *)
(*   - no other word is in the first part of the file;                     *)
(*   - nothing is in the file after cd_page.offset but a first part of     *)
(*     what is in cd_page.                                                 *)
(***************************************************************************)
OffsetIn(buf, k) == buf[DescSize * (k - 1) + 1].value
SizeIn(buf, k) == buf[DescSize * (k - 1) + 2].value

Whole(buf, n, low, end) ==
    /\ Len(buf) = DescSize * n
    /\ \A k \in 1 .. n : OffsetIn(buf, k) \in Nat /\ SizeIn(buf, k) \in 1 .. PageSize
    /\ \A k \in 1 .. n - 1 : OffsetIn(buf, k + 1) = OffsetIn(buf, k) + SizeIn(buf, k)
    /\ n > 0 => OffsetIn(buf, 1) <= low /\ OffsetIn(buf, n) + SizeIn(buf, n) = end
    /\ n = 0 => low = end

DataInFile(cdh, cdp, f) ==
    \A p \in Dumpable : DescPlace(p) < cdh.offset =>
        \E off \in Nat, size \in Sizes :
            /\ PageStored(cdh, cdp, f, p, off, size)
            /\ PageStart <= off /\ off + size <= cdp.offset

NoStrayDesc(cdh, f) == \A x \in DOMAIN f.cells : x < cdh.offset \/ PageStart <= x

OnlyPrefix(cdp, f, k) ==
    /\ \A x \in DOMAIN f.cells : x < cdp.offset + k
    /\ cdp.offset .. cdp.offset + k - 1 \subseteq DOMAIN f.cells

InStep(cdh, cdp, f) ==
    /\ DataInFile(cdh, cdp, f)
    /\ \E n \in Nat : Whole(cdh.buf, n, cdp.offset, CacheEnd(cdp))
    /\ NoStrayDesc(cdh, f)
    /\ \E k \in 0 .. Len(cdp.buf) : OnlyPrefix(cdp, f, k)

\* The descriptor of page p has no offset, or the page's data is in the file.
DataPresent(f, p, off, size) ==
    \A j \in 1 .. size : /\ off + j - 1 \in DOMAIN f.cells
                         /\ f.cells[off + j - 1] = DataOf(p, size)[j]

NotLost(f, p) ==
    \/ WordAt(f, DescPlace(p)).value = 0
    \/ \E off \in Nat, size \in Sizes :
          WordAt(f, DescPlace(p)).value = off /\ DataPresent(f, p, off, size)

SpaceInv ==
    ~ ExcludeZero =>
        /\ Filling => InStep(cd_header, cd_page, file)
        /\ pc = "nospace" /\ FileEnd(file) < IntHalf =>
              \A p \in Dumpable : NotLost(file, p)
-----------------------------------------------------------------------------
(***************************************************************************)
(* write_buffer(): a first part of the words, n of them, is written; all   *)
(* that lies where the file already has words is.                          *)
(***************************************************************************)
Wrote(f, o, buf, n, w) ==
    /\ DOMAIN w.file.cells = (o .. o + n - 1) \cup DOMAIN f.cells
    /\ \A x \in o .. o + n - 1 : w.file.cells[x] = buf[x - o + 1]
    /\ \A x \in DOMAIN f.cells :
          x \notin o .. o + n - 1 => w.file.cells[x] = f.cells[x]
    /\ w.ok <=> n = Len(buf)
    /\ \A m \in 0 .. Len(buf) : o .. o + m - 1 \subseteq DOMAIN f.cells => m <= n

LEMMA SizeType ==
    ASSUME NEW size \in Sizes
    PROVE  /\ size \in Nat \ {0} /\ size <= PageSize
           /\ PageSize \in Nat \ {0} /\ CacheSize \in Nat /\ PageSize <= CacheSize
BY PagesAssumption, SizesAssumption, SMTT(20) DEF Sizes

LEMMA PrefixIs ==
    ASSUME NEW f, FileOK(f), NEW o \in Nat, NEW W, NEW buf \in Seq(W)
    PROVE  LET n == Prefix(f, o, buf)
           IN  /\ n \in 0 .. Len(buf)
               /\ Takes(f, o, n)
               /\ \A m \in 0 .. Len(buf) : Takes(f, o, m) => m <= n
<1> DEFINE T == {n \in 0 .. Len(buf) : Takes(f, o, n)}
<1>1. Len(buf) \in Nat
    BY SeqLen
<1>2. 0 \in T
    <2>1. o .. o + 0 - 1 = {}
        BY SMTT(20)
    <2>2. PICK z : z = o .. o + 0 - 1
        OBVIOUS
    <2>3. Cardinality(z \ DOMAIN f.cells) = 0
        BY <2>1, <2>2, FS_EmptySet
    <2>4. z \cap f.bad = {} /\ 0 <= f.space
        BY <2>1, <2>2, SMTT(20) DEF FileOK
    <2> QED
        BY <1>1, <2>2, <2>3, <2>4, SMTT(20) DEF Takes
<1>3. T \in SUBSET Nat /\ \A n \in T : n <= Len(buf)
    BY <1>1, SMTT(20)
<1> HIDE DEF T
<1>4. PICK m \in T : \A n \in T : n <= m
    BY <1>1, <1>2, <1>3, GreatestNatural
<1>5. \E n \in 0 .. Len(buf) :
         /\ Takes(f, o, n)
         /\ \A k \in 0 .. Len(buf) : Takes(f, o, k) => k <= n
    BY <1>4 DEF T
<1> QED
    BY <1>5 DEF Prefix

LEMMA TakesWritten ==
    ASSUME NEW f, FileOK(f), NEW o \in Nat \ {0}, NEW m \in Nat,
           o .. o + m - 1 \subseteq DOMAIN f.cells
    PROVE  Takes(f, o, m)
<1>1. PICK z : z = o .. o + m - 1
    OBVIOUS
<1>2. \A x \in z : x < f.limit /\ x \notin f.bad
    BY <1>1, SMTT(20) DEF FileOK
<1>3. z \ DOMAIN f.cells = {} /\ z \cap f.bad = {}
    BY <1>1, <1>2
<1>4. Cardinality(z \ DOMAIN f.cells) <= f.space
    <2>1. f.space \in Nat
        BY DEF FileOK
    <2>2. Cardinality(z \ DOMAIN f.cells) = 0
        BY <1>3, FS_EmptySet
    <2> QED
        BY <2>1, <2>2, SMTT(20)
<1>5. m > 0 => o + m <= f.limit
    <2> SUFFICES ASSUME m > 0 PROVE o + m <= f.limit
        OBVIOUS
    <2>1. o + m - 1 \in z
        BY <1>1, SMTT(20)
    <2> QED
        BY <1>2, <2>1, SMTT(20) DEF FileOK
<1> QED
    BY <1>1, <1>3, <1>4, <1>5 DEF Takes

LEMMA WriteBufferIs ==
    ASSUME NEW f, FileOK(f), NEW o \in Nat \ {0}, NEW W, NEW buf \in Seq(W)
    PROVE  /\ FileOK(WriteBuffer(f, o, buf).file)
           /\ \E n \in 0 .. Len(buf) : Wrote(f, o, buf, n, WriteBuffer(f, o, buf))
<1>1. PICK n \in 0 .. Len(buf) :
         /\ n = Prefix(f, o, buf)
         /\ Takes(f, o, n)
         /\ \A m \in 0 .. Len(buf) : Takes(f, o, m) => m <= n
    BY PrefixIs
<1>2. Len(buf) \in Nat /\ n \in Nat
    BY <1>1, SeqLen, SMTT(20)
<1>3. PICK touched : touched = o .. o + n - 1
    OBVIOUS
<1>4. PICK used : used = Cardinality(touched \ DOMAIN f.cells)
    OBVIOUS
<1>5. used \in Nat /\ used <= f.space
    <2>1. IsFiniteSet(touched)
        BY <1>2, <1>3, FS_Interval, SMTT(20)
    <2>2. IsFiniteSet(touched \ DOMAIN f.cells)
        BY <2>1, FS_Difference
    <2> QED
        BY <1>1, <1>3, <1>4, <2>2, FS_CardinalityType DEF Takes
<1>6. PICK cells : cells = [x \in touched \cup DOMAIN f.cells |->
                              IF x \in touched THEN buf[x - o + 1] ELSE f.cells[x]]
    OBVIOUS
<1>7. PICK nospace : nospace = IF n = Len(buf) THEN f.nospace
                               ELSE ~ (o + n \in f.bad /\ o + n < f.limit)
    OBVIOUS
<1>8. /\ WriteBuffer(f, o, buf).file =
            [cells |-> cells, limit |-> f.limit, space |-> f.space - used,
             bad |-> f.bad, nospace |-> nospace]
      /\ WriteBuffer(f, o, buf).ok <=> n = Len(buf)
    <2>1. WriteBuffer(f, o, buf) =
             [file |-> [f EXCEPT !.cells = cells, !.space = @ - used,
                                 !.nospace = nospace],
              ok |-> n = Len(buf)]
        BY <1>1, <1>3, <1>4, <1>6, <1>7 DEF WriteBuffer
    <2>2. PICK g : g = [f EXCEPT !.cells = cells, !.space = @ - used,
                                 !.nospace = nospace]
        OBVIOUS
    <2>3. g = [cells |-> cells, limit |-> f.limit, space |-> f.space - used,
               bad |-> f.bad, nospace |-> nospace]
        BY <2>2 DEF FileOK
    <2>4. PICK ok : ok = (n = Len(buf))
        OBVIOUS
    <2>5. WriteBuffer(f, o, buf) = [file |-> g, ok |-> ok]
        BY <2>1, <2>2, <2>4
    <2>6. WriteBuffer(f, o, buf).file = g /\ WriteBuffer(f, o, buf).ok = ok
        BY <2>5, SMTT(20)
    <2> QED
        BY <2>3, <2>4, <2>6
<1>9. FileOK(WriteBuffer(f, o, buf).file)
    <2>1. PICK g : g = [cells |-> cells, limit |-> f.limit, space |-> f.space - used,
                        bad |-> f.bad, nospace |-> nospace]
        OBVIOUS
    <2>2. g = [cells |-> g.cells, limit |-> g.limit, space |-> g.space,
               bad |-> g.bad, nospace |-> g.nospace]
        BY <2>1
    <2>3. g.limit \in Nat /\ g.space \in Nat
        BY <1>5, <2>1, SMTT(20) DEF FileOK
    <2>4. DOMAIN g.cells = touched \cup DOMAIN f.cells
        BY <1>6, <2>1
    <2>5. DOMAIN g.cells \subseteq Nat
        BY <1>2, <1>3, <2>4, SMTT(20) DEF FileOK
    <2>6. \E top \in Nat : \A x \in DOMAIN g.cells : x <= top
        <3>1. PICK t \in Nat : \A x \in DOMAIN f.cells : x <= t
            BY DEF FileOK
        <3>2. \A x \in DOMAIN g.cells : x <= t + o + n
            BY <1>2, <1>3, <2>4, <3>1, SMTT(20) DEF FileOK
        <3> QED
            BY <1>2, <3>2, SMTT(20)
    <2>7. \A x \in touched : x < f.limit /\ x \notin f.bad
        BY <1>1, <1>2, <1>3, SMTT(20) DEF Takes, FileOK
    <2>8. \A x \in DOMAIN g.cells : x # 0 => x < g.limit /\ x \notin g.bad
        BY <2>1, <2>4, <2>7 DEF FileOK
    <2> QED
        BY <1>8, <2>1, <2>2, <2>3, <2>5, <2>6, <2>8 DEF FileOK
<1>10. Wrote(f, o, buf, n, WriteBuffer(f, o, buf))
    <2>1. \A m \in 0 .. Len(buf) : o .. o + m - 1 \subseteq DOMAIN f.cells => m <= n
        <3> SUFFICES ASSUME NEW m \in 0 .. Len(buf), o .. o + m - 1 \subseteq DOMAIN f.cells
                     PROVE  m <= n
            OBVIOUS
        <3>1. m \in Nat
            BY <1>2, SMTT(20)
        <3>2. Takes(f, o, m)
            BY <3>1, TakesWritten
        <3> QED
            BY <1>1, <3>2
    <2>2. WriteBuffer(f, o, buf).file.cells = cells
        BY <1>8, SMTT(20)
    <2> QED
        BY <1>3, <1>6, <1>8, <2>1, <2>2 DEF Wrote
<1> QED
    BY <1>9, <1>10
(***************************************************************************)
(* write_cache(): the words come after those of the cache, and none is     *)
(* lost, whether or not the cache is written out and whether or not that   *)
(* fails.  Outside of the cache's part the file stays as it is.            *)
(***************************************************************************)
SameOutside(f, g, lo, hi) ==
    \A x \in Nat : x < lo \/ hi <= x =>
        /\ x \in DOMAIN g.cells <=> x \in DOMAIN f.cells
        /\ x \in DOMAIN f.cells => g.cells[x] = f.cells[x]

Added(cd, f, words, W, r) ==
    /\ FileOK(r.file)
    /\ CacheOK(r.cd, W)
    /\ CacheEnd(r.cd) = CacheEnd(cd) + Len(words)
    /\ cd.offset <= r.cd.offset
    /\ SameOutside(f, r.file, cd.offset, CacheEnd(cd) + Len(words))
    /\ \A o \in Nat : \A w : Stored(cd, f, o, w) => Stored(r.cd, r.file, o, w)
    /\ AllStored(r.cd, r.file, CacheEnd(cd), words, Len(words))

\* Where the cache's own words go.
Placed(cd, f, words, r) ==
    LET b == cd.buf \o words
    IN  \A o \in cd.offset .. CacheEnd(cd) + Len(words) - 1 :
           Stored(r.cd, r.file, o, b[o - cd.offset + 1])

LEMMA PlacedIsStored ==
    ASSUME NEW cd, NEW f, NEW W, CacheOK(cd, W), NEW words \in Seq(W), NEW r,
           Placed(cd, f, words, r), r.cd.offset \in Nat, cd.offset <= r.cd.offset,
           SameOutside(f, r.file, cd.offset, CacheEnd(cd) + Len(words))
    PROVE  /\ \A o \in Nat : \A w : Stored(cd, f, o, w) => Stored(r.cd, r.file, o, w)
           /\ AllStored(r.cd, r.file, CacheEnd(cd), words, Len(words))
<1>1. PICK buf \in Seq(W), offset \in Nat : cd.buf = buf /\ cd.offset = offset
    BY DEF CacheOK
<1>2. Len(buf) \in Nat /\ Len(words) \in Nat
    BY <1>1, SeqLen
<1>3. PICK b \in Seq(W) : b = buf \o words
    BY <1>1, SeqJoin
<1>4. /\ \A j \in 1 .. Len(buf) : b[j] = buf[j]
      /\ \A j \in 1 .. Len(words) : b[Len(buf) + j] = words[j]
    BY <1>1, <1>2, <1>3, SeqJoin, SMTT(20)
<1>5. \A o \in offset .. offset + Len(buf) + Len(words) - 1 :
         Stored(r.cd, r.file, o, b[o - offset + 1])
    BY <1>1, <1>3 DEF Placed, CacheEnd
<1>6. ASSUME NEW o \in Nat, NEW w, Stored(cd, f, o, w)
      PROVE  Stored(r.cd, r.file, o, w)
    <2>1. CASE o < offset
        <3>1. o \in DOMAIN f.cells /\ f.cells[o] = w
            BY <1>1, <1>6, <2>1, SMTT(20) DEF Stored
        <3>2. o \in DOMAIN r.file.cells /\ r.file.cells[o] = w
            BY <1>1, <2>1, <3>1 DEF SameOutside
        <3>3. o < r.cd.offset
            BY <1>1, <2>1, SMTT(20)
        <3> QED
            BY <3>2, <3>3 DEF Stored
    <2>2. CASE ~ (o < offset)
        <3>1. /\ o \in offset .. offset + Len(buf) - 1
              /\ buf[o - offset + 1] = w
            BY <1>1, <1>2, <1>6, <2>2, SMTT(20) DEF Stored, CacheEnd
        <3>2. PICK i \in 1 .. Len(buf) : i = o - offset + 1
            BY <1>2, <3>1, SMTT(20)
        <3>3. b[i] = buf[i]
            BY <1>4
        <3> QED
            BY <1>2, <1>5, <3>1, <3>2, <3>3, SMTT(20)
    <2> QED
        BY <2>1, <2>2
<1>7. ASSUME NEW j \in 1 .. Len(words)
      PROVE  Stored(r.cd, r.file, CacheEnd(cd) + j - 1, words[j])
    <2>1. PICK o \in Nat : o = offset + Len(buf) + j - 1
        <3>1. offset + Len(buf) + j - 1 \in Nat
            BY <1>2, SMTT(20)
        <3> QED
            BY <3>1
    <2>2. o \in offset .. offset + Len(buf) + Len(words) - 1
        BY <1>2, <2>1, SMTT(20)
    <2>3. o - offset + 1 = Len(buf) + j
        BY <1>2, <2>1, SMTT(20)
    <2>4. Stored(r.cd, r.file, o, words[j])
        <3>1. b[o - offset + 1] = words[j]
            BY <1>4, <2>3
        <3> QED
            BY <1>5, <2>2, <3>1
    <2> QED
        BY <1>1, <2>1, <2>4 DEF CacheEnd
<1> QED
    BY <1>6, <1>7 DEF AllStored
\* The two parts of a sequence.
LEMMA Cut ==
    ASSUME NEW W, NEW b \in Seq(W), NEW c \in Nat, c <= Len(b)
    PROVE  /\ SubSeq(b, 1, c) \in Seq(W)
           /\ Len(SubSeq(b, 1, c)) = c
           /\ \A j \in 1 .. c : SubSeq(b, 1, c)[j] = b[j]
           /\ SubSeq(b, c + 1, Len(b)) \in Seq(W)
           /\ Len(SubSeq(b, c + 1, Len(b))) = Len(b) - c
           /\ \A j \in 1 .. Len(b) - c : SubSeq(b, c + 1, Len(b))[j] = b[c + j]
<1>1. PICK n \in Nat : n = Len(b)
    BY SeqLen
<1>2. \A i \in 1 .. n : b[i] \in W
    BY <1>1, SeqElement
<1>3. /\ SubSeq(b, 1, c) \in Seq(W)
      /\ Len(SubSeq(b, 1, c)) = IF 1 <= c THEN c - 1 + 1 ELSE 0
      /\ \A i \in 1 .. c - 1 + 1 : SubSeq(b, 1, c)[i] = b[1 + i - 1]
    <2>1. 1 \in Int /\ c \in Int /\ \A i \in 1 .. c : b[i] \in W
        BY <1>1, <1>2, SMTT(20)
    <2> QED
        BY <2>1, SeqPart, SMTT(20)
<1>4. PICK m \in Nat : m = c + 1
    BY SMTT(20)
<1>5. /\ SubSeq(b, m, n) \in Seq(W)
      /\ Len(SubSeq(b, m, n)) = IF m <= n THEN n - m + 1 ELSE 0
      /\ \A i \in 1 .. n - m + 1 : SubSeq(b, m, n)[i] = b[m + i - 1]
    <2>1. m \in Int /\ n \in Int /\ \A i \in m .. n : b[i] \in W
        BY <1>1, <1>2, <1>4, SMTT(20)
    <2> QED
        BY <2>1, SeqPart, SMTT(20)
<1>6. c <= n
    BY <1>1
<1>7. Len(SubSeq(b, 1, c)) = c /\ \A j \in 1 .. c : SubSeq(b, 1, c)[j] = b[j]
    BY <1>3, SMTT(20)
<1>8. Len(SubSeq(b, m, n)) = n - c
    BY <1>4, <1>5, <1>6, SMTT(20)
<1>9. \A j \in 1 .. n - c : SubSeq(b, m, n)[j] = b[c + j]
    <2> SUFFICES ASSUME NEW j \in 1 .. n - c
                 PROVE  SubSeq(b, m, n)[j] = b[c + j]
        OBVIOUS
    <2>1. j \in 1 .. n - m + 1 /\ m + j - 1 = c + j
        BY <1>4, SMTT(20)
    <2> QED
        BY <1>5, <2>1
<1> QED
    BY <1>1, <1>3, <1>4, <1>5, <1>7, <1>8, <1>9

\* What a call that writes nothing out, or writes cache_size words, leaves.
Small(cd, words) == Len(cd.buf) + Len(words) < CacheSize

Buffered(cd, f, words, r) ==
    r.file = f /\ r.cd = [buf |-> cd.buf \o words, offset |-> cd.offset]

LEMMA SmallIs ==
    ASSUME NEW cd, NEW f, NEW W, CacheOK(cd, W), NEW words \in Seq(W),
           FileOK(f), Small(cd, words)
    PROVE  Buffered(cd, f, words, WriteCache(cd, f, words))
<1>1. PICK buf \in Seq(W), offset \in Nat :
         cd = [buf |-> buf, offset |-> offset] /\ cd.buf = buf /\ cd.offset = offset
    BY DEF CacheOK
<1>2. PICK b \in Seq(W) : b = buf \o words /\ Len(b) = Len(buf) + Len(words)
    BY <1>1, SeqJoin
<1>3. Len(b) < CacheSize
    BY <1>1, <1>2 DEF Small
<1>4. PICK r : r = WriteCache(cd, f, words)
    OBVIOUS
<1>5. r = [cd |-> [cd EXCEPT !.buf = b], file |-> f, ok |-> TRUE]
    BY <1>1, <1>2, <1>3, <1>4 DEF WriteCache
<1>6. r.file = f /\ r.cd = [cd EXCEPT !.buf = b]
    BY <1>5
<1>7. [cd EXCEPT !.buf = b] = [buf |-> b, offset |-> offset]
    BY <1>1, SMTT(20)
<1> QED
    BY <1>1, <1>2, <1>4, <1>6, <1>7 DEF Buffered

LEMMA WriteCacheSmall ==
    ASSUME NEW cd, NEW f, NEW W, CacheOK(cd, W), NEW words \in Seq(W),
           FileOK(f), Len(cd.buf) + Len(words) < CacheSize
    PROVE  Added(cd, f, words, W, WriteCache(cd, f, words))
<1>1. PICK buf \in Seq(W), offset \in Nat :
         cd = [buf |-> buf, offset |-> offset] /\ cd.buf = buf /\ cd.offset = offset
    BY DEF CacheOK
<1>2. Len(buf) \in Nat /\ Len(words) \in Nat
    BY <1>1, SeqLen
<1>3. PICK b \in Seq(W) : b = buf \o words /\ Len(b) = Len(buf) + Len(words)
    BY <1>1, SeqJoin
<1>4. Small(cd, words)
    BY DEF Small
<1>5. PICK r : r = WriteCache(cd, f, words)
    OBVIOUS
<1>6. Buffered(cd, f, words, r)
    BY <1>4, <1>5, SmallIs
<1>7. /\ r.file = f /\ r.cd = [buf |-> b, offset |-> offset]
      /\ r.cd.buf = b /\ r.cd.offset = offset
    BY <1>1, <1>3, <1>6, SMTT(20) DEF Buffered
<1>8. CacheOK(r.cd, W) /\ CacheEnd(r.cd) = CacheEnd(cd) + Len(words)
    BY <1>1, <1>2, <1>3, <1>7, SMTT(20) DEF CacheOK, CacheEnd
<1>9. SameOutside(f, r.file, cd.offset, CacheEnd(cd) + Len(words))
    BY <1>7 DEF SameOutside
<1>10. Placed(cd, f, words, r)
    <2> SUFFICES ASSUME NEW o \in offset .. offset + Len(buf) + Len(words) - 1
                 PROVE  Stored(r.cd, r.file, o, b[o - offset + 1])
        BY <1>1, <1>3 DEF Placed, CacheEnd
    <2> QED
        BY <1>2, <1>3, <1>7, SMTT(20) DEF Stored, CacheEnd
<1>11. Added(cd, f, words, W, r)
    <2>1. r.cd.offset \in Nat /\ cd.offset <= r.cd.offset
        BY <1>1, <1>7, SMTT(20)
    <2>2. /\ \A o \in Nat : \A w : Stored(cd, f, o, w) => Stored(r.cd, r.file, o, w)
          /\ AllStored(r.cd, r.file, CacheEnd(cd), words, Len(words))
        BY <1>9, <1>10, <2>1, PlacedIsStored
    <2> QED
        BY <1>7, <1>8, <1>9, <2>1, <2>2 DEF Added
<1> QED
    BY <1>5, <1>11

LEMMA WriteCacheFull ==
    ASSUME NEW cd, NEW f, NEW W, CacheOK(cd, W), cd.offset # 0,
           NEW words \in Seq(W),
           FileOK(f), Len(cd.buf) + Len(words) >= CacheSize
    PROVE  LET r == WriteCache(cd, f, words)
           IN  /\ Added(cd, f, words, W, r)
               /\ r.ok => r.cd.offset = cd.offset + CacheSize
               /\ ~ r.ok => r.cd.offset = cd.offset
<1>1. PICK buf \in Seq(W), offset \in Nat \ {0} :
         cd = [buf |-> buf, offset |-> offset] /\ cd.buf = buf /\ cd.offset = offset
    BY DEF CacheOK
<1>2. Len(buf) \in Nat /\ Len(words) \in Nat /\ CacheSize \in Nat
    BY <1>1, SeqLen, SizesAssumption
<1>3. PICK b \in Seq(W) : b = buf \o words /\ Len(b) = Len(buf) + Len(words)
    BY <1>1, SeqJoin
<1>4. ~ (Len(b) < CacheSize)
    BY <1>1, <1>2, <1>3, SMTT(20)
<1>5. PICK s \in Seq(W) : /\ s = SubSeq(b, 1, CacheSize)
                          /\ Len(s) = CacheSize
                          /\ \A j \in 1 .. CacheSize : s[j] = b[j]
    <2>1. CacheSize <= Len(b)
        BY <1>2, <1>3, <1>4, SMTT(20)
    <2>2. /\ SubSeq(b, 1, CacheSize) \in Seq(W)
          /\ Len(SubSeq(b, 1, CacheSize)) = CacheSize
          /\ \A j \in 1 .. CacheSize : SubSeq(b, 1, CacheSize)[j] = b[j]
        BY <1>2, <2>1, Cut, SMTT(20)
    <2> QED
        BY <2>2
<1>6. PICK t \in Seq(W) : /\ t = SubSeq(b, CacheSize + 1, Len(b))
                          /\ Len(t) = Len(b) - CacheSize
                          /\ \A j \in 1 .. Len(b) - CacheSize : t[j] = b[CacheSize + j]
    <2>1. CacheSize <= Len(b)
        BY <1>2, <1>3, <1>4, SMTT(20)
    <2>2. /\ SubSeq(b, CacheSize + 1, Len(b)) \in Seq(W)
          /\ Len(SubSeq(b, CacheSize + 1, Len(b))) = Len(b) - CacheSize
          /\ \A j \in 1 .. Len(b) - CacheSize :
                SubSeq(b, CacheSize + 1, Len(b))[j] = b[CacheSize + j]
        BY <1>2, <2>1, Cut, SMTT(20)
    <2> QED
        BY <2>2
<1>7. PICK w : w = WriteBuffer(f, offset, s)
    OBVIOUS
<1>8. FileOK(w.file) /\ \E n \in 0 .. Len(s) : Wrote(f, offset, s, n, w)
    BY <1>7, WriteBufferIs
<1>9. PICK n \in 0 .. CacheSize : Wrote(f, offset, s, n, w)
    BY <1>5, <1>8
<1>10. PICK r : r = WriteCache(cd, f, words)
    OBVIOUS
<1>11. r = [cd |-> IF w.ok THEN [buf |-> t, offset |-> offset + CacheSize]
                   ELSE [cd EXCEPT !.buf = b],
            file |-> w.file, ok |-> w.ok]
    BY <1>1, <1>3, <1>4, <1>5, <1>6, <1>7, <1>10 DEF WriteCache
<1>12. r.file = w.file /\ r.ok = w.ok
    BY <1>11
<1>13. SameOutside(f, r.file, cd.offset, CacheEnd(cd) + Len(words))
    BY <1>1, <1>2, <1>3, <1>4, <1>9, <1>12, SMTT(20) DEF SameOutside, CacheEnd,
       Wrote
<1>14. CASE w.ok
    <2>1. r.cd = [buf |-> t, offset |-> offset + CacheSize]
        BY <1>11, <1>14
    <2>2. r.cd.buf = t /\ r.cd.offset = offset + CacheSize
        BY <2>1, SMTT(20)
    <2>3. /\ DOMAIN r.file.cells = (offset .. offset + CacheSize - 1) \cup DOMAIN f.cells
          /\ \A x \in offset .. offset + CacheSize - 1 :
                r.file.cells[x] = s[x - offset + 1]
        BY <1>5, <1>9, <1>12, <1>14 DEF Wrote
    <2>4. CacheOK(r.cd, W) /\ CacheEnd(r.cd) = CacheEnd(cd) + Len(words)
        <3>1. CacheOK(r.cd, W)
            BY <1>2, <2>1, SMTT(20) DEF CacheOK
        <3>2. Len(t) = Len(buf) + Len(words) - CacheSize
            BY <1>2, <1>3, <1>6, SMTT(20)
        <3> QED
            BY <1>1, <1>2, <2>2, <3>1, <3>2, SMTT(20) DEF CacheEnd
    <2>5. Placed(cd, f, words, r)
        <3> SUFFICES ASSUME NEW o \in offset .. offset + Len(buf) + Len(words) - 1
                     PROVE  Stored(r.cd, r.file, o, b[o - offset + 1])
            BY <1>1, <1>3 DEF Placed, CacheEnd
        <3>1. CASE o < offset + CacheSize
            <4>1. PICK j \in 1 .. CacheSize : j = o - offset + 1
                BY <1>2, <3>1, SMTT(20)
            <4>2. o \in offset .. offset + CacheSize - 1
                BY <1>2, <3>1, SMTT(20)
            <4>3. o \in DOMAIN r.file.cells /\ r.file.cells[o] = b[j]
                BY <1>5, <2>3, <4>1, <4>2
            <4> QED
                BY <2>2, <3>1, <4>1, <4>3 DEF Stored
        <3>2. CASE ~ (o < offset + CacheSize)
            <4>0. PICK lb \in Nat : lb = Len(b) /\ Len(t) = lb - CacheSize
                BY <1>2, <1>3, <1>6, SMTT(20)
            <4>a. o \in offset .. offset + lb - 1 /\ o >= offset + CacheSize
                BY <1>2, <1>3, <3>2, <4>0, SMTT(20)
            <4>1. PICK j \in 1 .. Len(b) - CacheSize : j = o - (offset + CacheSize) + 1
                BY <1>2, <4>0, <4>a, SMTT(20)
            <4>2. t[j] = b[CacheSize + j]
                BY <1>6
            <4>b. CacheSize + j = o - offset + 1
                BY <1>2, <4>1, SMTT(20)
            <4>3. offset + CacheSize <= o /\ o < offset + CacheSize + Len(t)
                BY <1>2, <4>0, <4>a, SMTT(20)
            <4> QED
                BY <2>2, <4>1, <4>2, <4>b, <4>3 DEF Stored, CacheEnd
        <3> QED
            BY <3>1, <3>2
    <2>6. Added(cd, f, words, W, r)
        <3>1. r.cd.offset \in Nat /\ cd.offset <= r.cd.offset
            BY <1>1, <1>2, <2>2, SMTT(20)
        <3>2. /\ \A o \in Nat : \A x : Stored(cd, f, o, x) => Stored(r.cd, r.file, o, x)
              /\ AllStored(r.cd, r.file, CacheEnd(cd), words, Len(words))
            BY <1>13, <2>5, <3>1, PlacedIsStored
        <3> QED
            BY <1>8, <1>12, <1>13, <2>4, <3>1, <3>2 DEF Added
    <2> QED
        BY <1>1, <1>10, <1>12, <1>14, <2>2, <2>6
<1>15. CASE ~ w.ok
    <2>1. r.cd = [buf |-> b, offset |-> offset]
        BY <1>1, <1>11, <1>15
    <2>2. r.cd.buf = b /\ r.cd.offset = offset
        BY <2>1, SMTT(20)
    <2>4. CacheOK(r.cd, W) /\ CacheEnd(r.cd) = CacheEnd(cd) + Len(words)
        BY <1>1, <1>2, <1>3, <2>1, <2>2, SMTT(20) DEF CacheOK, CacheEnd
    <2>5. Placed(cd, f, words, r)
        <3> SUFFICES ASSUME NEW o \in offset .. offset + Len(buf) + Len(words) - 1
                     PROVE  Stored(r.cd, r.file, o, b[o - offset + 1])
            BY <1>1, <1>3 DEF Placed, CacheEnd
        <3> QED
            BY <1>2, <1>3, <2>2, SMTT(20) DEF Stored, CacheEnd
    <2>6. Added(cd, f, words, W, r)
        <3>1. r.cd.offset \in Nat /\ cd.offset <= r.cd.offset
            BY <1>1, <1>2, <2>2, SMTT(20)
        <3>2. /\ \A o \in Nat : \A x : Stored(cd, f, o, x) => Stored(r.cd, r.file, o, x)
              /\ AllStored(r.cd, r.file, CacheEnd(cd), words, Len(words))
            BY <1>13, <2>5, <3>1, PlacedIsStored
        <3> QED
            BY <1>8, <1>12, <1>13, <2>4, <3>1, <3>2 DEF Added
    <2> QED
        BY <1>1, <1>10, <1>12, <1>15, <2>2, <2>6
<1> QED
    BY <1>14, <1>15
(***************************************************************************)
(* write_cd_buf() and write_cache_bufsz(): a cache that is written out.    *)
(***************************************************************************)
LEMMA FlushIs ==
    ASSUME NEW cd, NEW f, NEW W, CacheOK(cd, W), cd.offset # 0, FileOK(f)
    PROVE  LET w == WriteCdBuf(cd, f)
           IN  /\ FileOK(w.file)
               /\ SameOutside(f, w.file, cd.offset, CacheEnd(cd))
               /\ w.ok => \A o \in Nat : \A x : Stored(cd, f, o, x) =>
                             Stored(EmptyCache(CacheEnd(cd)), w.file, o, x)
<1>1. PICK buf \in Seq(W), offset \in Nat \ {0} : cd.buf = buf /\ cd.offset = offset
    BY DEF CacheOK
<1>2. PICK len \in Nat : len = Len(buf)
    BY <1>1, SeqLen
<1>3. PICK w : w = WriteCdBuf(cd, f) /\ w = WriteBuffer(f, offset, buf)
    BY <1>1 DEF WriteCdBuf
<1>4. FileOK(w.file) /\ \E n \in 0 .. len : Wrote(f, offset, buf, n, w)
    BY <1>1, <1>2, <1>3, WriteBufferIs
<1>5. PICK n \in 0 .. len : Wrote(f, offset, buf, n, w)
    BY <1>4
<1>6. SameOutside(f, w.file, offset, offset + len)
    BY <1>5, SMTT(20) DEF SameOutside, Wrote
<1>7. ASSUME w.ok, NEW o \in Nat, NEW x, Stored(cd, f, o, x)
      PROVE  Stored(EmptyCache(offset + len), w.file, o, x)
    <2>1. n = len
        BY <1>2, <1>5, <1>7 DEF Wrote
    <2>2. o < offset + len
        BY <1>1, <1>2, <1>7, SMTT(20) DEF Stored, CacheEnd
    <2>3. o \in DOMAIN w.file.cells /\ w.file.cells[o] = x
        <3>1. CASE o < offset
            BY <1>1, <1>6, <1>7, <3>1, SMTT(20) DEF Stored, SameOutside
        <3>2. CASE ~ (o < offset)
            <4>1. o \in offset .. offset + n - 1 /\ buf[o - offset + 1] = x
                BY <1>1, <1>2, <1>7, <2>1, <3>2, SMTT(20) DEF Stored, CacheEnd
            <4> QED
                BY <1>5, <4>1 DEF Wrote
        <3> QED
            BY <3>1, <3>2
    <2>4. EmptyCache(offset + len).offset = offset + len
        BY DEF EmptyCache
    <2> QED
        BY <2>2, <2>3, <2>4 DEF Stored
<1> QED
    BY <1>1, <1>2, <1>3, <1>4, <1>6, <1>7 DEF CacheEnd

\* The words of one cache stay where they are while the other is written out.
LEMMA StoredOutside ==
    ASSUME NEW cd, NEW f, NEW g, NEW lo, NEW hi, SameOutside(f, g, lo, hi),
           NEW o \in Nat, o < lo \/ hi <= o, NEW x, Stored(cd, f, o, x)
    PROVE  Stored(cd, g, o, x)
BY DEF Stored, SameOutside

LEMMA EmptyCacheOK ==
    ASSUME NEW o \in Nat, NEW W
    PROVE  /\ CacheOK(EmptyCache(o), W) /\ EmptyCache(o).buf = << >>
           /\ EmptyCache(o).offset = o /\ CacheEnd(EmptyCache(o)) = o
BY SMTT(20) DEF CacheOK, EmptyCache, CacheEnd
-----------------------------------------------------------------------------
(***************************************************************************)
(* pfn_to_pos(): the places of the descriptors.                            *)
(***************************************************************************)
LEMMA PosType ==
    ASSUME memory \in Memories, NEW p
    PROVE  /\ IsFiniteSet({q \in Dumpable : q < p})
           /\ PfnToPos(p) \in Nat /\ Cardinality(Dumpable) \in Nat
           /\ PfnToPos(p) <= Cardinality(Dumpable)
           /\ Dumpable \subseteq Nat
           /\ ZeroPages \subseteq Dumpable /\ ExcludeZero \in BOOLEAN
<1>1. IsFiniteSet(Dumpable) /\ Dumpable \subseteq Nat
    BY PagesAssumption DEF Dumpable
<1>2. {q \in Dumpable : q < p} \subseteq Dumpable
    OBVIOUS
<1>3. ZeroPages \subseteq Dumpable /\ ExcludeZero \in BOOLEAN
    BY PagesAssumption DEF Dumpable, ZeroPages, ExcludeZero
<1> QED
    BY <1>1, <1>2, <1>3, FS_Subset, FS_CardinalityType DEF PfnToPos

LEMMA PosAt ==
    ASSUME memory \in Memories, pfn \in Nat, NEW p \in Dumpable, At(p)
    PROVE  /\ PfnToPos(p) = PfnToPos(pfn)
           /\ PfnToPos(p + 1) = PfnToPos(pfn) + 1
           /\ \A q \in Dumpable : q < p + 1 => q < pfn \/ q = p
<1>1. Dumpable \subseteq Nat /\ p \in Nat
    BY PosType
<1>2. p >= pfn /\ \A q \in Dumpable : q >= pfn => p <= q
    BY DEF At
<1>3. {q \in Dumpable : q < p} = {q \in Dumpable : q < pfn}
    <2>1. \A q \in Dumpable : q < p <=> q < pfn
        BY <1>1, <1>2, SMTT(20)
    <2> QED
        BY <2>1
<1>4. PfnToPos(p) = PfnToPos(pfn)
    BY <1>3 DEF PfnToPos
<1>5. PICK S : S = {q \in Dumpable : q < p}
    OBVIOUS
<1>6. {q \in Dumpable : q < p + 1} = S \cup {p} /\ p \notin S
    <2>1. \A q \in Dumpable : q < p + 1 <=> q < p \/ q = p
        BY <1>1, SMTT(20)
    <2>2. ~ (p < p)
        BY <1>1, SMTT(20)
    <2> QED
        BY <1>5, <2>1, <2>2
<1>7. IsFiniteSet(S)
    BY <1>5, PosType
<1>8. Cardinality(S \cup {p}) = Cardinality(S) + 1
    BY <1>6, <1>7, FS_AddElement
<1>9. PfnToPos(p + 1) = PfnToPos(p) + 1
    BY <1>5, <1>6, <1>8 DEF PfnToPos
<1> QED
    BY <1>1, <1>2, <1>4, <1>9, SMTT(20)

LEMMA Places ==
    ASSUME memory \in Memories, NEW p
    PROVE  /\ PageStart \in Nat \ {0} /\ HeaderStart = 1 /\ DescSize = 3
           /\ DescPlace(p) \in Nat \ {0} /\ DescPlace(p) <= PageStart
           /\ DescPlace(p) = HeaderStart + DescSize * PfnToPos(p)
<1>1. /\ PfnToPos(p) \in Nat /\ Cardinality(Dumpable) \in Nat
      /\ PfnToPos(p) <= Cardinality(Dumpable)
    BY PosType
<1> QED
    BY <1>1, SMTT(20) DEF PageStart, DescPlace, HeaderStart, DescSize

\* The words that are added.
LEMMA WordTypes ==
    ASSUME NEW off \in Nat, NEW size \in Nat, NEW p \in Nat
    PROVE  /\ Descriptor(off, size) \in Seq(DescWords)
           /\ Len(Descriptor(off, size)) = DescSize
           /\ PageWords(p, size) \in Seq(DataWords) /\ Len(PageWords(p, size)) = size
           /\ ZeroPageWords \in Seq(DataWords) /\ Len(ZeroPageWords) = PageSize
<1>1. \A v \in Nat : /\ [field |-> "offset", value |-> v] \in DescWords
                     /\ [field |-> "size", value |-> v] \in DescWords
                     /\ [field |-> "page_flags", value |-> v] \in DescWords
    BY DEF DescWords
<1>2. /\ Descriptor(off, size) \in Seq(DescWords)
      /\ Len(Descriptor(off, size)) = DescSize
    <2>1. PICK a \in DescWords, b \in DescWords, c \in DescWords :
             Descriptor(off, size) = << a, b, c >>
        BY <1>1 DEF Descriptor
    <2>2. << a, b, c >> \in Seq(DescWords) /\ Len(<< a, b, c >>) = 3
        BY SMTT(20)
    <2> QED
        BY <2>1, <2>2 DEF DescSize
<1>3. /\ PageWords(p, size) \in [1 .. size -> DataWords]
      /\ ZeroPageWords \in [1 .. PageSize -> DataWords]
    BY SMTT(20) DEF PageWords, ZeroPageWords, DataWords
<1>4. \A n \in Nat : \A s \in [1 .. n -> DataWords] : s \in Seq(DataWords) /\ Len(s) = n
    BY SMTT(20)
<1> QED
    BY <1>2, <1>3, <1>4, SizesAssumption
-----------------------------------------------------------------------------
(***************************************************************************)
(* No word is lost when the caches and the file change.                    *)
(***************************************************************************)
Keeps(cdh, cdp, f, cdh2, cdp2, f2) ==
    \A o \in Nat : \A x :
        /\ o < PageStart /\ Stored(cdh, f, o, x) => Stored(cdh2, f2, o, x)
        /\ PageStart <= o /\ Stored(cdp, f, o, x) => Stored(cdp2, f2, o, x)

\* What the two caches and the file are, with the next descriptor at place.
Ready(cdh, cdp, f, place, data) ==
    /\ CacheOK(cdh, DescWords) /\ CacheOK(cdp, DataWords) /\ FileOK(f)
    /\ HeaderStart <= cdh.offset /\ CacheEnd(cdh) = place
    /\ PageStart <= cdp.offset /\ CacheEnd(cdp) = data

LEMMA HeaderAdded ==
    ASSUME memory \in Memories, NEW cdh, NEW cdp, NEW f, NEW place, NEW data,
           Ready(cdh, cdp, f, place, data),
           NEW words \in Seq(DescWords), NEW r, r = WriteCache(cdh, f, words),
           place + Len(words) <= PageStart
    PROVE  /\ Ready(r.cd, cdp, r.file, place + Len(words), data)
           /\ Keeps(cdh, cdp, f, r.cd, cdp, r.file)
           /\ AllStored(r.cd, r.file, place, words, Len(words))
           /\ cdh.offset <= r.cd.offset
<1>1. /\ CacheOK(cdh, DescWords) /\ FileOK(f) /\ cdh.offset \in Nat \ {0}
      /\ Len(cdh.buf) \in Nat /\ Len(words) \in Nat /\ CacheSize \in Nat
    BY SeqLen, SizesAssumption, SMTT(20) DEF Ready, HeaderStart, CacheOK
<1>2. Added(cdh, f, words, DescWords, r)
    <2>1. CASE Len(cdh.buf) + Len(words) < CacheSize
        BY <1>1, <2>1, WriteCacheSmall
    <2>2. CASE Len(cdh.buf) + Len(words) >= CacheSize
        BY <1>1, <2>2, WriteCacheFull
    <2> QED
        BY <1>1, <2>1, <2>2, SMTT(20)
<1>3. PICK lo, hi : lo = cdh.offset /\ hi = CacheEnd(cdh) + Len(words) /\ lo \in Nat
    BY <1>1
<1>4. SameOutside(f, r.file, lo, hi) /\ hi <= PageStart
    BY <1>2, <1>3 DEF Added, Ready
<1>5. Keeps(cdh, cdp, f, r.cd, cdp, r.file)
    <2> SUFFICES ASSUME NEW o \in Nat, NEW x
                 PROVE  /\ Stored(cdh, f, o, x) => Stored(r.cd, r.file, o, x)
                        /\ PageStart <= o /\ Stored(cdp, f, o, x)
                              => Stored(cdp, r.file, o, x)
        BY DEF Keeps
    <2>1. Stored(cdh, f, o, x) => Stored(r.cd, r.file, o, x)
        BY <1>2 DEF Added
    <2>2. ASSUME PageStart <= o, Stored(cdp, f, o, x)
          PROVE  Stored(cdp, r.file, o, x)
        <3>1. hi <= o
            BY <1>1, <1>3, <1>4, <2>2, Places, SMTT(20) DEF CacheEnd
        <3> QED
            BY <1>4, <2>2, <3>1, StoredOutside
    <2> QED
        BY <2>1, <2>2
<1>6. Ready(r.cd, cdp, r.file, place + Len(words), data)
    <2>1. HeaderStart <= r.cd.offset
        BY <1>1, <1>2, SMTT(20) DEF Added, CacheOK, Ready, HeaderStart
    <2> QED
        BY <1>2, <2>1 DEF Added, Ready
<1> QED
    BY <1>2, <1>5, <1>6 DEF Added, Ready

LEMMA DataAdded ==
    ASSUME memory \in Memories, NEW cdh, NEW cdp, NEW f, NEW place, NEW data,
           Ready(cdh, cdp, f, place, data),
           NEW words \in Seq(DataWords), NEW r, r = WriteCache(cdp, f, words)
    PROVE  /\ Ready(cdh, r.cd, r.file, place, data + Len(words))
           /\ Keeps(cdh, cdp, f, cdh, r.cd, r.file)
           /\ AllStored(r.cd, r.file, data, words, Len(words))
           /\ cdp.offset <= r.cd.offset
<1>1. /\ CacheOK(cdp, DataWords) /\ FileOK(f) /\ cdp.offset \in Nat \ {0}
      /\ Len(cdp.buf) \in Nat /\ Len(words) \in Nat /\ CacheSize \in Nat
      /\ PageStart \in Nat \ {0}
    BY SeqLen, SizesAssumption, Places, SMTT(20) DEF Ready, CacheOK
<1>2. Added(cdp, f, words, DataWords, r)
    <2>1. CASE Len(cdp.buf) + Len(words) < CacheSize
        BY <1>1, <2>1, WriteCacheSmall
    <2>2. CASE Len(cdp.buf) + Len(words) >= CacheSize
        BY <1>1, <2>2, WriteCacheFull
    <2> QED
        BY <1>1, <2>1, <2>2, SMTT(20)
<1>3. PICK lo, hi : lo = cdp.offset /\ hi = CacheEnd(cdp) + Len(words) /\ lo \in Nat
    BY <1>1
<1>4. SameOutside(f, r.file, lo, hi) /\ PageStart <= lo
    BY <1>2, <1>3 DEF Added, Ready
<1>5. Keeps(cdh, cdp, f, cdh, r.cd, r.file)
    <2> SUFFICES ASSUME NEW o \in Nat, NEW x
                 PROVE  /\ Stored(cdp, f, o, x) => Stored(r.cd, r.file, o, x)
                        /\ o < PageStart /\ Stored(cdh, f, o, x)
                              => Stored(cdh, r.file, o, x)
        BY DEF Keeps
    <2>1. Stored(cdp, f, o, x) => Stored(r.cd, r.file, o, x)
        BY <1>2 DEF Added
    <2>2. ASSUME o < PageStart, Stored(cdh, f, o, x)
          PROVE  Stored(cdh, r.file, o, x)
        <3>1. o < lo
            BY <1>1, <1>3, <1>4, <2>2, SMTT(20)
        <3> QED
            BY <1>4, <2>2, <3>1, StoredOutside
    <2> QED
        BY <2>1, <2>2
<1>6. Ready(cdh, r.cd, r.file, place, data + Len(words))
    <2>1. PageStart <= r.cd.offset
        BY <1>1, <1>2, SMTT(20) DEF Added, CacheOK, Ready
    <2> QED
        BY <1>2, <2>1 DEF Added, Ready
<1> QED
    BY <1>2, <1>5, <1>6 DEF Added, Ready
\* write_cd_buf() of both caches, the descriptors first.
LEMMA HeaderFlushed ==
    ASSUME memory \in Memories, NEW cdh, NEW cdp, NEW f, NEW place, NEW data,
           Ready(cdh, cdp, f, place, data), place <= PageStart,
           NEW w, w = WriteCdBuf(cdh, f), w.ok
    PROVE  /\ Ready(EmptyCache(place), cdp, w.file, place, data)
           /\ Keeps(cdh, cdp, f, EmptyCache(place), cdp, w.file)
<1>1. /\ CacheOK(cdh, DescWords) /\ FileOK(f) /\ cdh.offset \in Nat \ {0}
      /\ Len(cdh.buf) \in Nat /\ place = cdh.offset + Len(cdh.buf)
      /\ PageStart \in Nat
    BY SeqLen, Places, SMTT(20) DEF Ready, HeaderStart, CacheOK, CacheEnd
<1>2. /\ FileOK(w.file) /\ SameOutside(f, w.file, cdh.offset, place)
      /\ \A o \in Nat : \A x : Stored(cdh, f, o, x) => Stored(EmptyCache(place), w.file, o, x)
    BY <1>1, FlushIs DEF CacheEnd
<1>3. Keeps(cdh, cdp, f, EmptyCache(place), cdp, w.file)
    <2> SUFFICES ASSUME NEW o \in Nat, NEW x, PageStart <= o, Stored(cdp, f, o, x)
                 PROVE  Stored(cdp, w.file, o, x)
        BY <1>2 DEF Keeps
    <2>1. place <= o
        BY <1>1, SMTT(20)
    <2> QED
        BY <1>2, <2>1, StoredOutside
<1>4. /\ CacheOK(EmptyCache(place), DescWords) /\ EmptyCache(place).offset = place
      /\ CacheEnd(EmptyCache(place)) = place
    BY <1>1, EmptyCacheOK, SMTT(20)
<1>5. HeaderStart <= place
    BY <1>1, SMTT(20) DEF HeaderStart
<1> QED
    BY <1>2, <1>3, <1>4, <1>5 DEF Ready

LEMMA DataFlushed ==
    ASSUME memory \in Memories, NEW cdh, NEW cdp, NEW f, NEW place, NEW data,
           Ready(cdh, cdp, f, place, data),
           NEW w, w = WriteCdBuf(cdp, f), w.ok
    PROVE  /\ Ready(cdh, EmptyCache(data), w.file, place, data)
           /\ Keeps(cdh, cdp, f, cdh, EmptyCache(data), w.file)
<1>1. /\ CacheOK(cdp, DataWords) /\ FileOK(f) /\ cdp.offset \in Nat \ {0}
      /\ Len(cdp.buf) \in Nat /\ data = cdp.offset + Len(cdp.buf)
      /\ PageStart \in Nat \ {0} /\ PageStart <= cdp.offset
    BY SeqLen, Places, SMTT(20) DEF Ready, CacheOK, CacheEnd
<1>2. /\ FileOK(w.file) /\ SameOutside(f, w.file, cdp.offset, data)
      /\ \A o \in Nat : \A x : Stored(cdp, f, o, x) => Stored(EmptyCache(data), w.file, o, x)
    BY <1>1, FlushIs DEF CacheEnd
<1>3. Keeps(cdh, cdp, f, cdh, EmptyCache(data), w.file)
    <2> SUFFICES ASSUME NEW o \in Nat, NEW x, o < PageStart, Stored(cdh, f, o, x)
                 PROVE  Stored(cdh, w.file, o, x)
        BY <1>2 DEF Keeps
    <2>1. o < cdp.offset
        BY <1>1, SMTT(20)
    <2> QED
        BY <1>2, <2>1, StoredOutside
<1>4. /\ CacheOK(EmptyCache(data), DataWords) /\ EmptyCache(data).offset = data
      /\ CacheEnd(EmptyCache(data)) = data
    BY <1>1, EmptyCacheOK, SMTT(20)
<1>5. PageStart <= data
    BY <1>1, SMTT(20)
<1> QED
    BY <1>2, <1>3, <1>4, <1>5 DEF Ready

LEMMA KeepsAll ==
    ASSUME memory \in Memories, NEW h1, NEW d1, NEW f1, NEW h2, NEW d2, NEW f2,
           NEW h3, NEW d3, NEW f3,
           Keeps(h1, d1, f1, h2, d2, f2), Keeps(h2, d2, f2, h3, d3, f3)
    PROVE  Keeps(h1, d1, f1, h3, d3, f3)
BY DEF Keeps

LEMMA DescRoom ==
    ASSUME memory \in Memories, NEW p \in Dumpable
    PROVE  /\ DescPlace(p) + DescSize <= PageStart /\ DescPlace(p) \in Nat
           /\ DescSize = 3 /\ PageStart \in Nat
<1>1. p \notin {q \in Dumpable : q < p}
    <2>1. Dumpable \subseteq Nat
        BY PosType
    <2>2. p \in Nat
        BY <2>1
    <2>3. ~ (p < p)
        BY <2>2, SMTT(20)
    <2> QED
        BY <2>3
<1>2. PICK S : S = {q \in Dumpable : q < p} /\ S \subseteq Dumpable /\ p \notin S
    BY <1>1
<1>3. IsFiniteSet(Dumpable) /\ IsFiniteSet(S)
    BY <1>2, PosType, PagesAssumption DEF Dumpable
<1>4. Cardinality(S \cup {p}) = Cardinality(S) + 1 /\ S \cup {p} \subseteq Dumpable
    BY <1>2, <1>3, FS_AddElement
<1>5. Cardinality(S \cup {p}) <= Cardinality(Dumpable)
    BY <1>3, <1>4, FS_Subset
<1>6. PfnToPos(p) + 1 <= Cardinality(Dumpable)
    BY <1>2, <1>4, <1>5 DEF PfnToPos
<1>7. PfnToPos(p) \in Nat /\ Cardinality(Dumpable) \in Nat
    BY PosType
<1> QED
    BY <1>6, <1>7, SMTT(20) DEF DescPlace, PageStart, HeaderStart, DescSize

\* A page of which nothing is lost.
LEMMA PageKept ==
    ASSUME memory \in Memories, NEW h1, NEW d1, NEW f1, NEW h2, NEW d2, NEW f2,
           Keeps(h1, d1, f1, h2, d2, f2),
           NEW p \in Dumpable, NEW off \in Nat, PageStart <= off, NEW size \in Nat,
           PageStored(h1, d1, f1, p, off, size)
    PROVE  PageStored(h2, d2, f2, p, off, size)
<1>1. /\ DescPlace(p) + DescSize <= PageStart /\ DescPlace(p) \in Nat
      /\ DescSize = 3 /\ PageStart \in Nat
    BY DescRoom
<1>2. AllStored(h2, f2, DescPlace(p), Descriptor(off, size), DescSize)
    <2> SUFFICES ASSUME NEW j \in 1 .. DescSize
                 PROVE  Stored(h2, f2, DescPlace(p) + j - 1, Descriptor(off, size)[j])
        BY DEF AllStored
    <2>1. PICK o \in Nat : o = DescPlace(p) + j - 1 /\ o < PageStart
        BY <1>1, SMTT(20)
    <2>2. Stored(h1, f1, o, Descriptor(off, size)[j])
        BY <2>1 DEF PageStored, AllStored
    <2> QED
        BY <2>1, <2>2 DEF Keeps
<1>3. AllStored(d2, f2, off, DataOf(p, size), size)
    <2> SUFFICES ASSUME NEW j \in 1 .. size
                 PROVE  Stored(d2, f2, off + j - 1, DataOf(p, size)[j])
        BY DEF AllStored
    <2>1. PICK o \in Nat : o = off + j - 1 /\ PageStart <= o
        BY <1>1, SMTT(20)
    <2>2. Stored(d1, f1, o, DataOf(p, size)[j])
        BY <2>1 DEF PageStored, AllStored
    <2> QED
        BY <2>1, <2>2 DEF Keeps
<1> QED
    BY <1>2, <1>3 DEF PageStored
-----------------------------------------------------------------------------
LEMMA SerialReady ==
    ASSUME SerialInv, Filling
    PROVE  /\ memory \in Memories /\ pfn \in Nat /\ offset_data \in Nat
           /\ Ready(cd_header, cd_page, file, DescPlace(pfn), offset_data)
           /\ Len(cd_header.buf) \in Nat /\ Len(cd_header.buf) < CacheSize
           /\ Len(cd_page.buf) \in Nat /\ Len(cd_page.buf) <= CacheSize
<1>1. memory \in Memories /\ pfn \in Nat /\ offset_data \in Nat /\ FileOK(file)
    BY DEF SerialInv, TypeOK
<1>2. CachesOK
    BY DEF SerialInv
<1>3. Len(cd_header.buf) \in Nat /\ Len(cd_page.buf) \in Nat
    BY <1>2, SeqLen DEF CachesOK, CacheOK
<1> QED
    BY <1>1, <1>2, <1>3 DEF CachesOK, Ready, DescPlace

\* While the pages are written, the invariant is what the next call needs.
LEMMA ReadySerial ==
    ASSUME memory \in Memories, memory' = memory, pc' = "pages",
           pfn' \in Nat, offset_data' \in Nat, NEW place, place = DescPlace(pfn'),
           Ready(cd_header', cd_page', file', place, offset_data'),
           Len(cd_header'.buf) < CacheSize, Len(cd_page'.buf) <= CacheSize
    PROVE  SerialInv'
<1>1. TypeOK'
    BY DEF TypeOK, Ready, CacheOK, FileOK
<1>2. place = HeaderStart + DescSize * PfnToPos(pfn)' /\ PageStart' = PageStart
    BY DEF DescPlace, PfnToPos, Dumpable, PageStart
<1>3. CachesOK'
    BY <1>2 DEF CachesOK, Ready
<1>4. FileOK(file')
    BY DEF Ready
<1>5. FileOK(file)'
    BY <1>4 DEF FileOK
<1> QED
    BY <1>1, <1>3, <1>5 DEF SerialInv

\* The pages written before, and maybe one more, can still be found.
LEMMA ContentKept ==
    ASSUME SerialInv, ContentInv, pc = "pages", memory' = memory,
           offset_data' \in Nat, offset_data <= offset_data',
           Keeps(cd_header, cd_page, file, cd_header', cd_page', file'),
           NEW p, \A q \in Dumpable : q < pfn' => q < pfn \/ q = p,
           \E off \in PageStart .. offset_data', size \in Sizes :
               PageStored(cd_header', cd_page', file', p, off, size)
    PROVE  ContentInv'
<1>1. memory \in Memories /\ offset_data \in Nat
    BY DEF SerialInv, TypeOK
<1>2. PageStart \in Nat /\ PageSize \in Nat
    BY <1>1, Places, SizesAssumption
<1>3. Sizes \subseteq Nat
    BY SizeType
<1>4. ASSUME ExcludeZero
      PROVE  AllStored(cd_page', file', PageStart, ZeroPageWords, PageSize)
    <2> SUFFICES ASSUME NEW j \in 1 .. PageSize
                 PROVE  Stored(cd_page', file', PageStart + j - 1, ZeroPageWords[j])
        BY DEF AllStored
    <2>1. PICK o \in Nat : o = PageStart + j - 1 /\ PageStart <= o
        BY <1>2, SMTT(20)
    <2>2. Stored(cd_page, file, o, ZeroPageWords[j])
        BY <1>4, <2>1 DEF ContentInv, AllStored
    <2> QED
        BY <2>1, <2>2 DEF Keeps
<1>5. ASSUME NEW q \in Dumpable, q < pfn'
      PROVE  \E off \in PageStart .. offset_data', size \in Sizes :
                 PageStored(cd_header', cd_page', file', q, off, size)
    <2>1. CASE q < pfn
        <3>1. PICK off \in PageStart .. offset_data, size \in Sizes :
                 PageStored(cd_header, cd_page, file, q, off, size)
            BY <2>1 DEF ContentInv
        <3>2. off \in Nat /\ PageStart <= off /\ size \in Nat
            BY <1>1, <1>2, <1>3, SMTT(20)
        <3>3. PageStored(cd_header', cd_page', file', q, off, size)
            BY <1>1, <3>1, <3>2, PageKept
        <3>4. off \in PageStart .. offset_data'
            BY <1>1, <1>2, SMTT(20)
        <3> QED
            BY <3>3, <3>4
    <2> QED
        BY <1>5, <2>1
<1> QED
    BY <1>4, <1>5 DEF ContentInv, ExcludeZero, PageStart, ZeroPageWords,
       Dumpable, PageStored, DescPlace, PfnToPos, DataOf, ZeroPages
LEMMA CacheGrows ==
    ASSUME NEW cd, NEW cd2, NEW W, CacheOK(cd, W), CacheOK(cd2, W), NEW s \in Nat,
           CacheEnd(cd2) = CacheEnd(cd) + s, cd.offset <= cd2.offset
    PROVE  /\ Len(cd2.buf) \in Nat /\ Len(cd.buf) \in Nat
           /\ Len(cd2.buf) <= Len(cd.buf) + s
<1>1. PICK a \in Nat, a2 \in Nat : a = cd.offset /\ a2 = cd2.offset
    BY DEF CacheOK
<1>2. PICK b \in Nat, b2 \in Nat : b = Len(cd.buf) /\ b2 = Len(cd2.buf)
    BY SeqLen DEF CacheOK
<1>3. a2 + b2 = a + b + s /\ a <= a2
    BY <1>1, <1>2 DEF CacheEnd
<1> QED
    BY <1>2, <1>3, SMTT(20)

LEMMA ReadyPlaces ==
    ASSUME memory \in Memories, NEW cdh, NEW cdp, NEW f, NEW place, NEW data,
           Ready(cdh, cdp, f, place, data)
    PROVE  /\ place \in Nat /\ data \in Nat
           /\ cdh.offset \in Nat \ {0} /\ cdh.offset <= place
           /\ cdp.offset \in Nat \ {0} /\ cdp.offset <= data
           /\ PageStart <= data
<1>1. PICK a \in Nat, a2 \in Nat : a = cdh.offset /\ a2 = cdp.offset
    BY DEF CacheOK, Ready
<1>2. PICK b \in Nat, b2 \in Nat : b = Len(cdh.buf) /\ b2 = Len(cdp.buf)
    <2>1. Len(cdh.buf) \in Nat /\ Len(cdp.buf) \in Nat
        BY SeqLen DEF CacheOK, Ready
    <2> QED
        BY <2>1
<1>3. place = a + b /\ data = a2 + b2 /\ 1 <= a /\ PageStart <= a2
    BY <1>1, <1>2 DEF Ready, CacheEnd, HeaderStart
<1>4. PICK ps \in Nat : ps = PageStart /\ ps # 0
    BY Places
<1>5. a + b \in Nat /\ a # 0 /\ a <= a + b
    BY <1>3, SMTT(20)
<1>6. a2 + b2 \in Nat /\ a2 # 0 /\ a2 <= a2 + b2 /\ ps <= a2 + b2
    BY <1>3, <1>4, SMTT(20)
<1> QED
    BY <1>1, <1>3, <1>4, <1>5, <1>6

LEMMA CacheStep ==
    ASSUME SerialInv, ContentInv, pc = "pages", NEW p \in Dumpable, At(p),
           ~ (ExcludeZero /\ p \in ZeroPages), NEW size \in Sizes,
           NEW header, NEW page, NEW f,
           Ready(header, page, f, DescPlace(pfn), offset_data),
           Keeps(cd_header, cd_page, file, header, page, f),
           Len(header.buf) + DescSize < CacheSize,
           Len(page.buf) + size <= CacheSize,
           Cache(p, size, header, page, f)
    PROVE  SerialInv' /\ ContentInv'
<1>1. /\ memory \in Memories /\ pfn \in Nat /\ offset_data \in Nat
      /\ p \in Nat /\ size \in Nat \ {0} /\ CacheSize \in Nat
    <2>1. memory \in Memories /\ pfn \in Nat /\ offset_data \in Nat
        BY DEF SerialInv, TypeOK
    <2>2. Dumpable \subseteq Nat
        BY <2>1, PosType
    <2>3. size \in Nat \ {0} /\ CacheSize \in Nat
        BY SizeType
    <2> QED
        BY <2>1, <2>2, <2>3
<1>2. PICK h, d : /\ h = WriteCache(header, f, Descriptor(offset_data, size))
                  /\ d = WriteCache(page, h.file, PageWords(p, size))
    OBVIOUS
<1>3. /\ cd_header' = h.cd /\ cd_page' = d.cd /\ file' = d.file
      /\ offset_data' = offset_data + size /\ pfn' = p + 1
      /\ memory' = memory /\ pc' = "pages"
    BY <1>2 DEF Cache
<1>4. /\ DescPlace(p) = DescPlace(pfn) /\ DescPlace(p + 1) = DescPlace(pfn) + DescSize
      /\ DescPlace(pfn) \in Nat /\ DescPlace(pfn) + DescSize <= PageStart
      /\ DescSize = 3 /\ PageStart \in Nat
      /\ \A q \in Dumpable : q < p + 1 => q < pfn \/ q = p
    <2>1. /\ PfnToPos(p) = PfnToPos(pfn) /\ PfnToPos(p + 1) = PfnToPos(pfn) + 1
          /\ \A q \in Dumpable : q < p + 1 => q < pfn \/ q = p
        BY <1>1, PosAt
    <2>2. PfnToPos(pfn) \in Nat
        BY <1>1, PosType
    <2>3. /\ DescPlace(p) + DescSize <= PageStart /\ DescPlace(p) \in Nat
          /\ DescSize = 3 /\ PageStart \in Nat
        BY <1>1, DescRoom
    <2> QED
        BY <2>1, <2>2, <2>3, SMTT(20) DEF DescPlace, HeaderStart
<1>5. PICK place \in Nat : place = DescPlace(pfn)
    BY <1>4
<1>6. PICK dw \in Seq(DescWords), pw \in Seq(DataWords) :
         /\ dw = Descriptor(offset_data, size) /\ Len(dw) = DescSize
         /\ pw = PageWords(p, size) /\ Len(pw) = size
    BY <1>1, WordTypes, SMTT(20)
<1>7. Ready(header, page, f, place, offset_data)
    BY <1>5
<1>8. /\ Ready(h.cd, page, h.file, place + DescSize, offset_data)
      /\ Keeps(header, page, f, h.cd, page, h.file)
      /\ AllStored(h.cd, h.file, place, dw, DescSize)
      /\ header.offset <= h.cd.offset
    <2>1. place + Len(dw) <= PageStart
        BY <1>4, <1>5, <1>6
    <2>2. h = WriteCache(header, f, dw)
        BY <1>2, <1>6
    <2>3. /\ Ready(h.cd, page, h.file, place + Len(dw), offset_data)
          /\ Keeps(header, page, f, h.cd, page, h.file)
          /\ AllStored(h.cd, h.file, place, dw, Len(dw))
          /\ header.offset <= h.cd.offset
        BY <1>1, <1>7, <2>1, <2>2, HeaderAdded
    <2> QED
        BY <1>6, <2>3
<1>9. /\ Ready(h.cd, d.cd, d.file, place + DescSize, offset_data + size)
      /\ Keeps(h.cd, page, h.file, h.cd, d.cd, d.file)
      /\ AllStored(d.cd, d.file, offset_data, pw, size)
      /\ page.offset <= d.cd.offset
    <2>1. d = WriteCache(page, h.file, pw)
        BY <1>2, <1>6
    <2>2. /\ Ready(h.cd, d.cd, d.file, place + DescSize, offset_data + Len(pw))
          /\ Keeps(h.cd, page, h.file, h.cd, d.cd, d.file)
          /\ AllStored(d.cd, d.file, offset_data, pw, Len(pw))
          /\ page.offset <= d.cd.offset
        BY <1>1, <1>8, <2>1, DataAdded
    <2> QED
        BY <1>6, <2>2
<1>10. Len(h.cd.buf) < CacheSize /\ Len(d.cd.buf) <= CacheSize
    <2>1. /\ CacheOK(header, DescWords) /\ CacheOK(h.cd, DescWords)
          /\ CacheOK(page, DataWords) /\ CacheOK(d.cd, DataWords)
          /\ CacheEnd(h.cd) = CacheEnd(header) + DescSize
          /\ CacheEnd(d.cd) = CacheEnd(page) + size
        BY <1>7, <1>9 DEF Ready
    <2>2. /\ Len(h.cd.buf) \in Nat /\ Len(header.buf) \in Nat
          /\ Len(h.cd.buf) <= Len(header.buf) + DescSize
        BY <1>4, <1>8, <2>1, CacheGrows
    <2>3. /\ Len(d.cd.buf) \in Nat /\ Len(page.buf) \in Nat
          /\ Len(d.cd.buf) <= Len(page.buf) + size
        BY <1>1, <1>9, <2>1, CacheGrows
    <2>4. PICK hl \in Nat, dl \in Nat, hl1 \in Nat, dl1 \in Nat, s \in Nat :
             /\ hl = Len(header.buf) /\ dl = Len(page.buf) /\ s = size
             /\ hl1 = Len(h.cd.buf) /\ dl1 = Len(d.cd.buf)
        BY <1>1, <2>2, <2>3
    <2>5. /\ hl + DescSize < CacheSize /\ dl + s <= CacheSize
          /\ hl1 <= hl + DescSize /\ dl1 <= dl + s
        BY <2>2, <2>3, <2>4
    <2>6. hl1 < CacheSize /\ dl1 <= CacheSize
        BY <1>1, <1>4, <2>5, SMTT(20)
    <2> QED
        BY <2>4, <2>6
<1>11. SerialInv'
    <2>1. PICK place2 : place2 = DescPlace(pfn')
        OBVIOUS
    <2>2. place2 = place + DescSize
        BY <1>3, <1>4, <1>5, <2>1
    <2>3. pfn' \in Nat /\ offset_data' \in Nat
        BY <1>1, <1>3, SMTT(20)
    <2> QED
        BY <1>1, <1>3, <1>9, <1>10, <2>1, <2>2, <2>3, ReadySerial
<1>12. Keeps(cd_header, cd_page, file, cd_header', cd_page', file')
    <2>1. Keeps(cd_header, cd_page, file, h.cd, page, h.file)
        BY <1>1, <1>8, KeepsAll
    <2>2. Keeps(cd_header, cd_page, file, h.cd, d.cd, d.file)
        BY <1>1, <1>9, <2>1, KeepsAll
    <2> QED
        BY <1>3, <2>2
<1>13. PageStored(h.cd, d.cd, d.file, p, offset_data, size)
    <2>1. ASSUME NEW j \in 1 .. DescSize
          PROVE  Stored(h.cd, d.file, place + j - 1, dw[j])
        <3>1. PICK o \in Nat : o = place + j - 1 /\ o < PageStart
            BY <1>4, <1>5, SMTT(20)
        <3>2. Stored(h.cd, h.file, o, dw[j])
            BY <1>8, <3>1 DEF AllStored
        <3> QED
            BY <1>9, <3>1, <3>2 DEF Keeps
    <2>2. AllStored(h.cd, d.file, DescPlace(p), Descriptor(offset_data, size), DescSize)
        BY <1>4, <1>5, <1>6, <2>1 DEF AllStored
    <2>3. AllStored(d.cd, d.file, offset_data, DataOf(p, size), size)
        BY <1>6, <1>9 DEF DataOf
    <2> QED
        BY <2>2, <2>3 DEF PageStored
<1>14. offset_data \in PageStart .. offset_data'
    <2>1. PageStart <= offset_data
        BY <1>1, <1>7, ReadyPlaces
    <2> QED
        BY <1>1, <1>3, <1>4, <2>1, SMTT(20)
<1>15. \E off \in PageStart .. offset_data', s \in Sizes :
          PageStored(cd_header', cd_page', file', p, off, s)
    BY <1>3, <1>13, <1>14
<1>16. offset_data' \in Nat /\ offset_data <= offset_data'
    BY <1>1, <1>3, SMTT(20)
<1>17. \A q \in Dumpable : q < pfn' => q < pfn \/ q = p
    BY <1>3, <1>4
<1> QED
    BY <1>3, <1>11, <1>12, <1>15, <1>16, <1>17, ContentKept
\* "goto out": what is left of the invariant is what the file needs.
LEMMA OutStep ==
    ASSUME SerialInv, NEW f, Out(f), FileOK(f),
           cd_header'.offset \in Nat, cd_page'.offset \in Nat
    PROVE  SerialInv' /\ ContentInv' /\ pc' \in {"nospace", "failed"}
<1>1. /\ memory \in Memories /\ pfn \in Nat /\ offset_data \in Nat
      /\ memory' = memory /\ pfn' = pfn /\ offset_data' = offset_data /\ file' = f
      /\ pc' \in {"nospace", "failed"}
    BY DEF SerialInv, TypeOK, Out
<1>2. TypeOK' /\ FileOK(file)'
    BY <1>1 DEF TypeOK, FileOK
<1> QED
    BY <1>1, <1>2 DEF SerialInv, ContentInv, Filling

LEMMA ZeroCache ==
    ASSUME NEW n \in Nat, NEW o \in Nat
    PROVE  /\ CacheOK([buf |-> ZeroWords(n), offset |-> o], DescWords)
           /\ ZeroWords(n) \in Seq(DescWords) /\ Len(ZeroWords(n)) = n
           /\ \A j \in 1 .. n : ZeroWords(n)[j] = Zero
<1>1. ZeroWords(n) \in [1 .. n -> DescWords]
    BY DEF ZeroWords, Zero, DescWords
<1>2. \A s \in [1 .. n -> DescWords] : s \in Seq(DescWords) /\ Len(s) = n
    BY SMTT(20)
<1>3. \A j \in 1 .. n : ZeroWords(n)[j] = Zero
    BY DEF ZeroWords
<1> QED
    BY <1>1, <1>2, <1>3 DEF CacheOK

\* The descriptors that fit: there is a last one.
Fit(n, sum, present) == {k \in 0 .. n : \A m \in 1 .. k : sum[m] <= present}

LastFit(n, sum, present) ==
    CHOOSE k \in Fit(n, sum, present) : \A m \in Fit(n, sum, present) : m <= k

LEMMA FitHasMax ==
    ASSUME NEW n \in Nat, NEW present, NEW sum
    PROVE  LastFit(n, sum, present) \in Fit(n, sum, present)
<1>1. PICK fit : fit = Fit(n, sum, present)
    OBVIOUS
<1>2. 0 \in fit /\ fit \in SUBSET Nat /\ \A k \in fit : k <= n
    BY <1>1, SMTT(20) DEF Fit
<1>3. \E k \in fit : \A m \in fit : m <= k
    BY <1>2, GreatestNatural
<1> QED
    BY <1>1, <1>3 DEF LastFit

LEMMA NumPagesIs ==
    ASSUME NEW buf, NEW f, NEW offset, NEW n, n = NumDescriptors(buf),
           NEW sum, sum = SizeSum(buf), NEW present, present = AsInt(FileEnd(f)) - offset
    PROVE  NumPages(buf, f, offset) =
              IF AsInt(FileEnd(f)) < 0 THEN {-1}
              ELSE IF n \in Fit(n, sum, present) THEN {n, n + 1}
              ELSE {LastFit(n, sum, present)}
BY DEF NumPages, Fit, LastFit

LEMMA NumPagesType ==
    ASSUME NEW buf \in Seq(DescWords), NEW f, NEW offset
    PROVE  NumPages(buf, f, offset) \subseteq Int
<1>1. PICK n, sum, present : /\ n = NumDescriptors(buf) /\ sum = SizeSum(buf)
                             /\ present = AsInt(FileEnd(f)) - offset
    OBVIOUS
<1>2. n \in Nat
    BY <1>1, SeqLen, SMTT(20) DEF NumDescriptors, DescSize
<1>3. LastFit(n, sum, present) \in Int
    BY <1>2, FitHasMax, SMTT(20) DEF Fit
<1> QED
    BY <1>1, <1>2, <1>3, NumPagesIs, SMTT(20)

LEMMA BeginStep ==
    ASSUME SerialInv, ContentInv, Begin
    PROVE  SerialInv' /\ ContentInv'
<1>1. pc = "begin" /\ Filling
    BY DEF Begin, Filling
<1>2. /\ memory \in Memories /\ pfn \in Nat /\ offset_data \in Nat
      /\ Ready(cd_header, cd_page, file, DescPlace(pfn), offset_data)
      /\ Len(cd_header.buf) \in Nat /\ Len(cd_header.buf) < CacheSize
      /\ Len(cd_page.buf) \in Nat /\ Len(cd_page.buf) <= CacheSize
    BY <1>1, SerialReady
<1>3. pfn = 0 /\ offset_data = PageStart /\ cd_page = EmptyCache(PageStart)
    BY <1>1 DEF SerialInv
<1>4. ~ \E q \in Dumpable : q < 0
    <2>1. Dumpable \subseteq Nat
        BY <1>2, PosType
    <2> QED
        BY <2>1, SMTT(20)
<1>5. CASE ~ ExcludeZero
    <2>1. pc' = "pages" /\ UNCHANGED <<memory, pfn, cd_header, cd_page, offset_data, file>>
        BY <1>5 DEF Begin
    <2>2. PICK place : place = DescPlace(pfn')
        OBVIOUS
    <2>3. SerialInv'
        BY <1>2, <2>1, <2>2, ReadySerial
    <2>4. ContentInv'
        BY <1>3, <1>4, <1>5, <2>1 DEF ContentInv, Dumpable, ExcludeZero
    <2> QED
        BY <2>3, <2>4
<1>6. CASE ExcludeZero
    <2>1. PICK zw \in Seq(DataWords) : zw = ZeroPageWords /\ Len(zw) = PageSize
        BY <1>2, WordTypes
    <2>2. PICK r : r = WriteCache(cd_page, file, zw)
        OBVIOUS
    <2>3. /\ cd_page' = r.cd /\ cd_header' = cd_header
          /\ IF r.ok THEN /\ pc' = "pages" /\ file' = r.file
                          /\ offset_data' = offset_data + PageSize
                          /\ UNCHANGED <<memory, pfn>>
             ELSE Out(r.file)
        BY <1>6, <2>1, <2>2 DEF Begin
    <2>4. PICK place : place = DescPlace(pfn)
        OBVIOUS
    <2>5. /\ Ready(cd_header, r.cd, r.file, place, offset_data + Len(zw))
          /\ AllStored(r.cd, r.file, offset_data, zw, Len(zw))
          /\ cd_page.offset <= r.cd.offset
        BY <1>2, <2>2, <2>4, DataAdded
    <2>6. PageSize \in Nat /\ CacheSize \in Nat /\ PageSize <= CacheSize
        BY SizesAssumption
    <2>7. CASE r.ok
        <3>1. /\ pc' = "pages" /\ file' = r.file
              /\ offset_data' = offset_data + PageSize
              /\ UNCHANGED <<memory, pfn>>
            BY <2>3, <2>7
        <3>2. Len(r.cd.buf) <= CacheSize
            <4>1. CacheOK(cd_page, DataWords) /\ CacheOK(r.cd, DataWords)
                  /\ CacheEnd(r.cd) = CacheEnd(cd_page) + PageSize
                BY <1>2, <2>1, <2>5 DEF Ready
            <4>2. /\ Len(r.cd.buf) \in Nat
                  /\ Len(r.cd.buf) <= Len(cd_page.buf) + PageSize
                BY <2>5, <2>6, <4>1, CacheGrows
            <4>3. Len(cd_page.buf) = 0
                BY <1>3 DEF EmptyCache
            <4> QED
                BY <2>6, <4>2, <4>3, SMTT(20)
        <3>3. SerialInv'
            <4>1. place = DescPlace(pfn') /\ offset_data' \in Nat
                BY <1>2, <2>4, <2>6, <3>1, SMTT(20)
            <4> QED
                BY <1>2, <2>1, <2>3, <2>5, <3>1, <3>2, <4>1, ReadySerial
        <3>4. AllStored(cd_page', file', PageStart, ZeroPageWords, PageSize)
            BY <1>3, <2>1, <2>3, <2>5, <3>1
        <3>5. ContentInv'
            BY <1>3, <1>4, <3>1, <3>4 DEF ContentInv, Dumpable, ExcludeZero,
               PageStart, ZeroPageWords
        <3> QED
            BY <3>3, <3>5
    <2>8. CASE ~ r.ok
        <3>1. Out(r.file) /\ FileOK(r.file)
            BY <2>3, <2>5, <2>8 DEF Ready
        <3>2. cd_header'.offset \in Nat /\ cd_page'.offset \in Nat
            BY <2>3, <2>5 DEF Ready, CacheOK
        <3> QED
            BY <3>1, <3>2, OutStep
    <2> QED
        BY <2>7, <2>8
<1> QED
    BY <1>5, <1>6

LEMMA ZeroPageStep ==
    ASSUME SerialInv, ContentInv, NEW p \in Dumpable, WriteZeroPage(p)
    PROVE  SerialInv' /\ ContentInv'
<1>1. /\ pc = "pages" /\ Filling /\ At(p) /\ ExcludeZero /\ p \in ZeroPages
    BY DEF WriteZeroPage, At, Filling
<1>2. /\ memory \in Memories /\ pfn \in Nat /\ offset_data \in Nat
      /\ Ready(cd_header, cd_page, file, DescPlace(pfn), offset_data)
      /\ Len(cd_header.buf) \in Nat /\ Len(cd_header.buf) < CacheSize
      /\ Len(cd_page.buf) \in Nat /\ Len(cd_page.buf) <= CacheSize
    BY <1>1, SerialReady
<1>3. /\ PageStart \in Nat /\ PageSize \in Nat /\ CacheSize \in Nat
      /\ DescSize = 3 /\ DescSize < CacheSize
    BY <1>2, Places, SizesAssumption, DescAssumption, SMTT(20)
<1>4. PICK dw \in Seq(DescWords) : dw = pd_zero /\ Len(dw) = DescSize
                                    /\ dw = Descriptor(PageStart, PageSize)
    BY <1>2, <1>3, WordTypes DEF pd_zero
<1>5. PICK r : r = WriteCache(cd_header, file, dw)
    OBVIOUS
<1>6. /\ cd_header' = r.cd /\ cd_page' = cd_page
      /\ IF r.ok THEN file' = r.file /\ pfn' = p + 1 /\ UNCHANGED <<memory, pc, offset_data>>
         ELSE Out(r.file)
    BY <1>4, <1>5 DEF WriteZeroPage
<1>7. /\ DescPlace(p) = DescPlace(pfn) /\ DescPlace(p + 1) = DescPlace(pfn) + DescSize
      /\ DescPlace(pfn) \in Nat /\ DescPlace(pfn) + DescSize <= PageStart
      /\ p \in Nat
      /\ \A q \in Dumpable : q < p + 1 => q < pfn \/ q = p
    <2>1. /\ PfnToPos(p) = PfnToPos(pfn) /\ PfnToPos(p + 1) = PfnToPos(pfn) + 1
          /\ \A q \in Dumpable : q < p + 1 => q < pfn \/ q = p
        BY <1>1, <1>2, PosAt
    <2>2. PfnToPos(pfn) \in Nat /\ Dumpable \subseteq Nat
        BY <1>2, PosType
    <2>3. DescPlace(p) + DescSize <= PageStart /\ DescPlace(p) \in Nat
        BY <1>2, DescRoom
    <2> QED
        BY <1>3, <2>1, <2>2, <2>3, SMTT(20) DEF DescPlace, HeaderStart
<1>8. PICK place \in Nat : place = DescPlace(pfn)
    BY <1>7
<1>9. /\ Ready(r.cd, cd_page, r.file, place + DescSize, offset_data)
      /\ Keeps(cd_header, cd_page, file, r.cd, cd_page, r.file)
      /\ AllStored(r.cd, r.file, place, dw, DescSize)
      /\ cd_header.offset <= r.cd.offset
    <2>1. place + Len(dw) <= PageStart
        BY <1>4, <1>7, <1>8
    <2>2. /\ Ready(r.cd, cd_page, r.file, place + Len(dw), offset_data)
          /\ Keeps(cd_header, cd_page, file, r.cd, cd_page, r.file)
          /\ AllStored(r.cd, r.file, place, dw, Len(dw))
          /\ cd_header.offset <= r.cd.offset
        BY <1>2, <1>5, <1>8, <2>1, HeaderAdded
    <2> QED
        BY <1>4, <2>2
<1>10. CASE ~ r.ok
    <2>1. Out(r.file) /\ FileOK(r.file)
        BY <1>6, <1>9, <1>10 DEF Ready
    <2>2. cd_header'.offset \in Nat /\ cd_page'.offset \in Nat
        BY <1>6, <1>9 DEF Ready, CacheOK
    <2> QED
        BY <2>1, <2>2, OutStep
<1>11. CASE r.ok
    <2>1. /\ file' = r.file /\ pfn' = p + 1 /\ UNCHANGED <<memory, pc, offset_data>>
          /\ cd_header' = r.cd /\ cd_page' = cd_page
        BY <1>6, <1>11
    <2>2. Len(r.cd.buf) < CacheSize
        <3>1. PICK hl \in Nat : hl = Len(cd_header.buf) /\ hl < CacheSize
            BY <1>2
        <3>2. /\ CacheOK(cd_header, DescWords) /\ CacheOK(r.cd, DescWords)
              /\ FileOK(file) /\ cd_header.offset \in Nat \ {0}
              /\ CacheEnd(r.cd) = CacheEnd(cd_header) + DescSize
            BY <1>2, <1>8, <1>9, ReadyPlaces DEF Ready
        <3>3. CASE Len(cd_header.buf) + DescSize < CacheSize
            <4>1. Len(r.cd.buf) \in Nat /\ Len(r.cd.buf) <= Len(cd_header.buf) + DescSize
                BY <1>3, <1>9, <3>2, CacheGrows
            <4> QED
                BY <1>3, <3>1, <3>3, <4>1, SMTT(20)
        <3>4. CASE ~ (Len(cd_header.buf) + DescSize < CacheSize)
            <4>1. Len(cd_header.buf) + Len(dw) >= CacheSize
                BY <1>3, <1>4, <3>1, <3>4, SMTT(20)
            <4>2. r.cd.offset = cd_header.offset + CacheSize
                BY <1>5, <1>11, <3>2, <4>1, WriteCacheFull, SMTT(20)
            <4>3. PICK a \in Nat, n \in Nat : a = cd_header.offset /\ n = Len(r.cd.buf)
                <5>1. Len(r.cd.buf) \in Nat
                    BY <3>2, SeqLen DEF CacheOK
                <5> QED
                    BY <3>2, <5>1
            <4>4. a + CacheSize + n = a + hl + DescSize
                BY <3>1, <3>2, <4>2, <4>3 DEF CacheEnd
            <4>5. n < CacheSize
                BY <1>3, <3>1, <4>4, SMTT(20)
            <4> QED
                BY <4>3, <4>5
        <3> QED
            BY <3>3, <3>4
    <2>3. SerialInv'
        <3>1. PICK place2 : place2 = DescPlace(pfn')
            OBVIOUS
        <3>2. place2 = place + DescSize /\ pfn' \in Nat /\ offset_data' \in Nat
            BY <1>2, <1>7, <1>8, <2>1, <3>1, SMTT(20)
        <3> QED
            BY <1>1, <1>2, <1>9, <2>1, <2>2, <3>1, <3>2, ReadySerial
    <2>4. PageStored(r.cd, cd_page, r.file, p, PageStart, PageSize)
        <3>1. AllStored(r.cd, r.file, DescPlace(p), Descriptor(PageStart, PageSize), DescSize)
            BY <1>4, <1>7, <1>8, <1>9
        <3>2. AllStored(cd_page, r.file, PageStart, DataOf(p, PageSize), PageSize)
            <4> SUFFICES ASSUME NEW j \in 1 .. PageSize
                         PROVE  Stored(cd_page, r.file, PageStart + j - 1, ZeroPageWords[j])
                BY <1>1 DEF AllStored, DataOf
            <4>1. PICK o \in Nat : o = PageStart + j - 1 /\ PageStart <= o
                BY <1>3, SMTT(20)
            <4>2. Stored(cd_page, file, o, ZeroPageWords[j])
                BY <1>1, <4>1 DEF ContentInv, AllStored
            <4> QED
                BY <1>9, <4>1, <4>2 DEF Keeps
        <3> QED
            BY <3>1, <3>2 DEF PageStored
    <2>5. PageStart \in PageStart .. offset_data' /\ PageSize \in Sizes
        <3>1. PageStart <= offset_data
            BY <1>2, ReadyPlaces
        <3> QED
            BY <1>2, <1>3, <2>1, <3>1, SMTT(20) DEF Sizes
    <2>6. \E off \in PageStart .. offset_data', s \in Sizes :
              PageStored(cd_header', cd_page', file', p, off, s)
        BY <2>1, <2>4, <2>5
    <2>7. /\ offset_data' \in Nat /\ offset_data <= offset_data'
          /\ \A q \in Dumpable : q < pfn' => q < pfn \/ q = p
          /\ Keeps(cd_header, cd_page, file, cd_header', cd_page', file')
        BY <1>2, <1>7, <1>9, <2>1, SMTT(20)
    <2> QED
        BY <1>1, <2>1, <2>3, <2>6, <2>7, ContentKept
<1> QED
    BY <1>10, <1>11
LEMMA CachePageStep ==
    ASSUME SerialInv, ContentInv, NEW p \in Dumpable, NEW size \in Sizes,
           CachePage(p, size)
    PROVE  SerialInv' /\ ContentInv'
<1>1. /\ pc = "pages" /\ Filling /\ At(p) /\ ~ (ExcludeZero /\ p \in ZeroPages)
      /\ ~ NearlyFull(size) /\ Cache(p, size, cd_header, cd_page, file)
    BY DEF CachePage, Compressed, At, Filling
<1>2. /\ Ready(cd_header, cd_page, file, DescPlace(pfn), offset_data)
      /\ Len(cd_header.buf) \in Nat /\ Len(cd_page.buf) \in Nat
    BY <1>1, SerialReady
<1>3. size \in Nat /\ CacheSize \in Nat /\ DescSize = 3
    BY PagesAssumption, SizesAssumption, SMTT(20) DEF Sizes, DescSize
<1>4. Len(cd_header.buf) + DescSize < CacheSize /\ Len(cd_page.buf) + size <= CacheSize
    BY <1>1, <1>2, <1>3, SMTT(20) DEF NearlyFull
<1>5. Keeps(cd_header, cd_page, file, cd_header, cd_page, file)
    BY DEF Keeps
<1>6. PICK header, page, f : header = cd_header /\ page = cd_page /\ f = file
    OBVIOUS
<1> QED
    BY <1>1, <1>2, <1>4, <1>5, <1>6, CacheStep

LEMMA FlushCachesStep ==
    ASSUME SerialInv, ContentInv, NEW p \in Dumpable, NEW size \in Sizes,
           FlushCaches(p, size)
    PROVE  SerialInv' /\ ContentInv'
<1>1. /\ pc = "pages" /\ Filling /\ At(p) /\ ~ (ExcludeZero /\ p \in ZeroPages)
    BY DEF FlushCaches, Compressed, At, Filling
<1>2. /\ memory \in Memories /\ pfn \in Nat /\ offset_data \in Nat
      /\ Ready(cd_header, cd_page, file, DescPlace(pfn), offset_data)
    BY <1>1, SerialReady
<1>3. PICK h, d : h = WriteCdBuf(cd_header, file) /\ d = WriteCdBuf(cd_page, h.file)
    OBVIOUS
<1>4. PICK place \in Nat : place = DescPlace(pfn) /\ place <= PageStart
    BY <1>2, Places
<1>5. CacheEnd(cd_header) = place /\ CacheEnd(cd_page) = offset_data
    BY <1>2, <1>4 DEF Ready
<1>6. /\ h.ok /\ d.ok
      /\ Cache(p, size, EmptyCache(place), EmptyCache(offset_data), d.file)
    BY <1>3, <1>5 DEF FlushCaches, CacheEnd
<1>7. /\ Ready(EmptyCache(place), cd_page, h.file, place, offset_data)
      /\ Keeps(cd_header, cd_page, file, EmptyCache(place), cd_page, h.file)
    BY <1>2, <1>3, <1>4, <1>6, HeaderFlushed
<1>8. /\ Ready(EmptyCache(place), EmptyCache(offset_data), d.file, place, offset_data)
      /\ Keeps(EmptyCache(place), cd_page, h.file,
               EmptyCache(place), EmptyCache(offset_data), d.file)
    BY <1>2, <1>3, <1>6, <1>7, DataFlushed
<1>9. PICK header, page, f :
         header = EmptyCache(place) /\ page = EmptyCache(offset_data) /\ f = d.file
    OBVIOUS
<1>10. Keeps(cd_header, cd_page, file, header, page, f)
    BY <1>2, <1>7, <1>8, <1>9, KeepsAll
<1>11. Len(header.buf) = 0 /\ Len(page.buf) = 0
    BY <1>9 DEF EmptyCache
<1>12. Len(header.buf) + DescSize < CacheSize /\ Len(page.buf) + size <= CacheSize
    <2>1. size \in Nat /\ size <= PageSize /\ CacheSize \in Nat
        BY SizeType
    <2> QED
        BY <1>11, <2>1, SizesAssumption, DescAssumption, SMTT(20) DEF DescSize
<1> QED
    BY <1>1, <1>4, <1>6, <1>8, <1>9, <1>10, <1>12, CacheStep

LEMMA HeaderFlushFailsStep ==
    ASSUME SerialInv, NEW p \in Dumpable, NEW size \in Sizes,
           HeaderFlushFails(p, size)
    PROVE  SerialInv' /\ ContentInv' /\ pc' \in {"nospace", "failed"}
<1>1. pc = "pages" /\ Filling
    BY DEF HeaderFlushFails, Compressed, At, Filling
<1>2. /\ memory \in Memories /\ Len(cd_header.buf) \in Nat
      /\ Ready(cd_header, cd_page, file, DescPlace(pfn), offset_data)
    BY <1>1, SerialReady
<1>3. /\ CacheOK(cd_header, DescWords) /\ CacheOK(cd_page, DataWords) /\ FileOK(file)
      /\ cd_header.offset \in Nat \ {0} /\ cd_page.offset \in Nat
    BY <1>2, ReadyPlaces DEF Ready
<1>4. PICK h : h = WriteCdBuf(cd_header, file) /\ FileOK(h.file)
    BY <1>3, FlushIs
<1>5. PICK zeros : zeros = [buf |-> ZeroWords(Len(cd_header.buf)),
                            offset |-> cd_header.offset]
    OBVIOUS
<1>6. CacheOK(zeros, DescWords) /\ zeros.offset = cd_header.offset
    BY <1>2, <1>3, <1>5, ZeroCache
<1>7. [cd_header EXCEPT !.buf = ZeroWords(Len(@))] = zeros
    BY <1>3, <1>5, SMTT(20) DEF CacheOK
<1>8. /\ cd_header' = zeros /\ cd_page' = cd_page
      /\ Out(WriteCdBuf(zeros, h.file).file)
    BY <1>4, <1>7 DEF HeaderFlushFails
<1>9. FileOK(WriteCdBuf(zeros, h.file).file)
    BY <1>3, <1>4, <1>6, FlushIs
<1>10. cd_header'.offset \in Nat /\ cd_page'.offset \in Nat
    BY <1>3, <1>6, <1>8
<1> QED
    BY <1>8, <1>9, <1>10, OutStep

LEMMA PageFlushFailsStep ==
    ASSUME SerialInv, NEW p \in Dumpable, NEW size \in Sizes,
           PageFlushFails(p, size)
    PROVE  SerialInv' /\ ContentInv' /\ pc' \in {"nospace", "failed"}
<1>1. pc = "pages" /\ Filling
    BY DEF PageFlushFails, Compressed, At, Filling
<1>2. /\ memory \in Memories /\ Len(cd_header.buf) \in Nat
      /\ Ready(cd_header, cd_page, file, DescPlace(pfn), offset_data)
    BY <1>1, SerialReady
<1>3. /\ CacheOK(cd_header, DescWords) /\ CacheOK(cd_page, DataWords) /\ FileOK(file)
      /\ cd_header.offset \in Nat \ {0} /\ cd_page.offset \in Nat \ {0}
    BY <1>2, ReadyPlaces DEF Ready
<1>4. PICK h : h = WriteCdBuf(cd_header, file) /\ FileOK(h.file)
    BY <1>3, FlushIs
<1>5. PICK d : d = WriteCdBuf(cd_page, h.file) /\ FileOK(d.file)
    BY <1>3, <1>4, FlushIs
<1>6. cd_page' = cd_page
    BY DEF PageFlushFails
<1>7. PICK n \in NumPages(cd_header.buf, d.file, cd_page.offset) :
         LET left == Len(cd_header.buf) - DescSize * n
             zeros == [buf |-> ZeroWords(left),
                       offset |-> cd_header.offset + DescSize * n]
         IN  IF n >= 0 /\ left >= 0
             THEN /\ cd_header' = zeros
                  /\ Out(WriteCdBuf(zeros, d.file).file)
             ELSE /\ UNCHANGED cd_header
                  /\ Out(d.file)
    BY <1>4, <1>5 DEF PageFlushFails
<1>8. n \in Int
    <2>1. cd_header.buf \in Seq(DescWords)
        BY <1>3 DEF CacheOK
    <2> QED
        BY <2>1, NumPagesType
<1>9. PICK left \in Int : left = Len(cd_header.buf) - DescSize * n
    <2>1. Len(cd_header.buf) - DescSize * n \in Int
        BY <1>2, <1>8, SMTT(20) DEF DescSize
    <2> QED
        BY <2>1
<1>10. CASE n >= 0 /\ left >= 0
    <2>1. PICK off \in Nat : off = cd_header.offset + DescSize * n /\ off # 0
        BY <1>3, <1>8, <1>10, SMTT(20) DEF DescSize
    <2>2. PICK zeros : zeros = [buf |-> ZeroWords(left), offset |-> off]
        OBVIOUS
    <2>3. left \in Nat
        BY <1>10, SMTT(20)
    <2>4. CacheOK(zeros, DescWords) /\ zeros.offset = off
        BY <2>2, <2>3, ZeroCache
    <2>5. cd_header' = zeros /\ Out(WriteCdBuf(zeros, d.file).file)
        BY <1>7, <1>9, <1>10, <2>1, <2>2
    <2>6. FileOK(WriteCdBuf(zeros, d.file).file)
        BY <1>5, <2>1, <2>4, FlushIs
    <2>7. cd_header'.offset \in Nat /\ cd_page'.offset \in Nat
        BY <1>3, <1>6, <2>4, <2>5
    <2> QED
        BY <2>5, <2>6, <2>7, OutStep
<1>11. CASE ~ (n >= 0 /\ left >= 0)
    <2>1. cd_header' = cd_header /\ Out(d.file)
        BY <1>7, <1>9, <1>11
    <2>2. cd_header'.offset \in Nat /\ cd_page'.offset \in Nat
        BY <1>3, <1>6, <2>1
    <2> QED
        BY <1>5, <2>1, <2>2, OutStep
<1> QED
    BY <1>10, <1>11
\* The end of a file that has a word at o.
LEMMA FileEndIs ==
    ASSUME NEW f, FileOK(f), NEW o \in DOMAIN f.cells
    PROVE  /\ FileEnd(f) \in Nat /\ o + 1 <= FileEnd(f)
           /\ FileEnd(f) - 1 \in DOMAIN f.cells
           /\ \A x \in DOMAIN f.cells : x < FileEnd(f)
<1>1. PICK top \in Nat : \A x \in DOMAIN f.cells : x <= top
    BY DEF FileOK
<1>2. PICK T : T = DOMAIN f.cells /\ T \in SUBSET Nat /\ T # {}
    BY DEF FileOK
<1>3. \E x \in T : \A y \in T : y <= x
    BY <1>1, <1>2, GreatestNatural
<1>4. PICK m : m = CHOOSE x \in T : \A y \in T : y <= x
    OBVIOUS
<1>5. m \in T /\ \A y \in T : y <= m
    BY <1>3, <1>4
<1>6. FileEnd(f) = 1 + m
    BY <1>2, <1>4 DEF FileEnd
<1>7. m \in Nat /\ o \in Nat /\ o <= m
    BY <1>2, <1>5
<1>8. (1 + m) - 1 = m
    BY <1>7, SMTT(20)
<1>9. \A y \in T : y < 1 + m
    BY <1>2, <1>5, <1>7, SMTT(20)
<1> QED
    BY <1>2, <1>5, <1>6, <1>7, <1>8, <1>9, SMTT(20)

\* A page whose descriptor and data are in the file can be read back.
LEMMA InFileReadsBack ==
    ASSUME memory \in Memories, FileOK(file), NEW p \in Dumpable,
           NEW off \in Nat, NEW size \in Sizes,
           \A j \in 1 .. size : /\ off + j - 1 \in DOMAIN file.cells
                                /\ file.cells[off + j - 1] = DataOf(p, size)[j],
           ExcludeZero /\ p \in ZeroPages => size = PageSize
    PROVE  /\ ReadsBack(p, off)
           /\ DataAt(off, size) \in {ZeroPageWords} \cup {PageWords(p, s) : s \in Sizes}
<1>1. size \in Nat \ {0} /\ PageSize \in Nat
    <2>1. Sizes \subseteq Nat \ {0}
        BY SizeType
    <2> QED
        BY <2>1, SizesAssumption
<1>2. \A j \in 1 .. size : WordAt(file, off + j - 1) = DataOf(p, size)[j]
    BY DEF WordAt
<1>3. DataAt(off, size) = DataOf(p, size)
    <2>1. DataAt(off, size) = [j \in 1 .. size |-> DataOf(p, size)[j]]
        BY <1>2 DEF DataAt
    <2>2. DataOf(p, size) = [j \in 1 .. size |-> DataOf(p, size)[j]]
        BY DEF DataOf, ZeroPageWords, PageWords
    <2> QED
        BY <2>1, <2>2
<1>4. off + size <= FileEnd(file)
    <2>1. off + size - 1 \in DOMAIN file.cells
        BY <1>1, SMTT(20)
    <2>2. (off + size - 1) + 1 <= FileEnd(file) /\ FileEnd(file) \in Nat
        BY <2>1, FileEndIs
    <2> QED
        BY <1>1, <2>2, SMTT(20)
<1>5. ReadsBack(p, off)
    BY <1>3, <1>4 DEF ReadsBack, DataOf, Sizes
<1> QED
    BY <1>3, <1>5 DEF DataOf

\* The remainder of both caches: all of it is in the file, or the dump is not
\* complete.
LEMMA RemainderStep ==
    ASSUME SerialInv, ContentInv, WriteRemainder
    PROVE  SerialInv' /\ ContentInv' /\ CompleteInv'
<1>1. pc = "pages" /\ Filling /\ \A q \in Dumpable : q < pfn
    BY DEF WriteRemainder, Filling
<1>2. /\ memory \in Memories /\ pfn \in Nat /\ offset_data \in Nat
      /\ Ready(cd_header, cd_page, file, DescPlace(pfn), offset_data)
    BY <1>1, SerialReady
<1>3. PICK place \in Nat : place = DescPlace(pfn) /\ place <= PageStart
    BY <1>2, Places
<1>4. /\ CacheOK(cd_header, DescWords) /\ CacheOK(cd_page, DataWords) /\ FileOK(file)
      /\ cd_header.offset \in Nat \ {0} /\ cd_page.offset \in Nat \ {0}
      /\ CacheEnd(cd_header) = place /\ CacheEnd(cd_page) = offset_data
    BY <1>2, <1>3, ReadyPlaces DEF Ready
<1>5. PICK d, h : d = WriteCdBuf(cd_page, file) /\ h = WriteCdBuf(cd_header, d.file)
    OBVIOUS
<1>6. FileOK(d.file) /\ FileOK(h.file)
    BY <1>4, <1>5, FlushIs
<1>7. /\ WriteCacheBufsz(cd_page, file).file = d.file
      /\ WriteCacheBufsz(cd_page, file).ok = d.ok
      /\ d.ok => WriteCacheBufsz(cd_page, file).cd = EmptyCache(offset_data)
      /\ ~ d.ok => WriteCacheBufsz(cd_page, file).cd = cd_page
    BY <1>4, <1>5 DEF WriteCacheBufsz, WriteCdBuf, CacheEnd
<1>8. /\ WriteCacheBufsz(cd_header, d.file).file = h.file
      /\ WriteCacheBufsz(cd_header, d.file).ok = h.ok
      /\ h.ok => WriteCacheBufsz(cd_header, d.file).cd = EmptyCache(place)
      /\ ~ h.ok => WriteCacheBufsz(cd_header, d.file).cd = cd_header
    BY <1>4, <1>5 DEF WriteCacheBufsz, WriteCdBuf, CacheEnd
<1>9. CASE ~ d.ok
    <2>1. cd_page' = cd_page /\ cd_header' = cd_header /\ Out(d.file)
        BY <1>7, <1>9 DEF WriteRemainder
    <2> QED
        BY <1>4, <1>6, <2>1, OutStep DEF CompleteInv
<1>10. CASE d.ok /\ ~ h.ok
    <2>1. /\ cd_page' = EmptyCache(offset_data) /\ cd_header' = cd_header
          /\ Out(h.file)
        BY <1>7, <1>8, <1>10 DEF WriteRemainder
    <2>2. cd_page'.offset \in Nat
        BY <1>2, <2>1 DEF EmptyCache
    <2> QED
        BY <1>4, <1>6, <2>1, <2>2, OutStep DEF CompleteInv
<1>11. CASE d.ok /\ h.ok
    <2>1. /\ cd_page' = EmptyCache(offset_data) /\ cd_header' = EmptyCache(place)
          /\ file' = h.file /\ pc' = "complete" /\ UNCHANGED <<memory, pfn, offset_data>>
        BY <1>7, <1>8, <1>11 DEF WriteRemainder
    <2>2. /\ Ready(cd_header, EmptyCache(offset_data), d.file, place, offset_data)
          /\ Keeps(cd_header, cd_page, file, cd_header, EmptyCache(offset_data), d.file)
        BY <1>2, <1>3, <1>5, <1>11, DataFlushed
    <2>3. Keeps(cd_header, EmptyCache(offset_data), d.file,
                EmptyCache(place), EmptyCache(offset_data), h.file)
        BY <1>2, <1>3, <1>5, <1>11, <2>2, HeaderFlushed
    <2>4. Keeps(cd_header, cd_page, file, cd_header', cd_page', file')
        BY <1>2, <2>1, <2>2, <2>3, KeepsAll
    <2>5. ASSUME NEW q \in Dumpable
          PROVE  \E off \in Nat, size \in Sizes :
                    PageStored(cd_header', cd_page', file', q, off, size)
        <3>1. PICK off \in PageStart .. offset_data, size \in Sizes :
                 PageStored(cd_header, cd_page, file, q, off, size)
            BY <1>1 DEF ContentInv
        <3>2. off \in Nat /\ PageStart <= off /\ size \in Nat
            BY <1>2, Places, SizeType, SMTT(20)
        <3>3. PageStored(cd_header', cd_page', file', q, off, size)
            BY <1>2, <2>4, <3>1, <3>2, PageKept
        <3> QED
            BY <3>2, <3>3
    <2>6. cd_header'.buf = << >> /\ cd_page'.buf = << >>
        BY <2>1 DEF EmptyCache
    <2>7. CompleteInv'
        BY <2>1, <2>5, <2>6 DEF CompleteInv, PageStored, DescPlace, PfnToPos,
           DataOf, Dumpable, ExcludeZero, ZeroPages
    <2>8. cd_header'.offset \in Nat /\ cd_page'.offset \in Nat
        BY <1>2, <2>1 DEF EmptyCache
    <2>9. TypeOK' /\ FileOK(file)'
        BY <1>2, <1>6, <2>1, <2>8 DEF TypeOK, FileOK
    <2> QED
        BY <1>2, <2>1, <2>7, <2>9 DEF SerialInv, ContentInv, Filling
<1> QED
    BY <1>9, <1>10, <1>11

LEMMA SerialInvInit == Init => SerialInv /\ ContentInv /\ CompleteInv
<1> SUFFICES ASSUME Init PROVE SerialInv /\ ContentInv /\ CompleteInv
    OBVIOUS
<1>1. /\ memory \in Memories /\ pc = "begin" /\ pfn = 0
      /\ cd_header = EmptyCache(HeaderStart) /\ cd_page = EmptyCache(PageStart)
      /\ offset_data = PageStart
    BY DEF Init
<1>2. PICK dev \in Devices :
         file = [cells |-> [o \in {0} |-> Zero], limit |-> dev.limit,
                 space |-> dev.space, bad |-> dev.bad, nospace |-> FALSE]
    BY DEF Init
<1>3. FileOK(file) /\ DOMAIN file.cells \subseteq Nat /\ file.space \in Nat
    <2>1. DOMAIN file.cells = {0}
        BY <1>2
    <2>2. /\ file.limit \in Nat /\ file.space \in Nat
          /\ file = [cells |-> file.cells, limit |-> file.limit, space |-> file.space,
                     bad |-> file.bad, nospace |-> file.nospace]
        BY <1>2, DevicesAssumption
    <2> QED
        BY <2>1, <2>2, SMTT(20) DEF FileOK
<1>4. PageStart \in Nat /\ CacheSize \in Nat \ {0} /\ HeaderStart \in Nat
    BY <1>1, Places, SizesAssumption, SMTT(20)
<1>5. PfnToPos(0) = 0
    <2>1. Dumpable \subseteq Nat
        BY <1>1, PosType
    <2>2. \A q \in Dumpable : ~ (q < 0)
        BY <2>1, SMTT(20)
    <2>3. {q \in Dumpable : q < 0} = {}
        BY <2>2
    <2> QED
        BY <2>3, FS_EmptySet DEF PfnToPos
<1>6. CachesOK
    <2>1. /\ CacheOK(cd_header, DescWords) /\ CacheOK(cd_page, DataWords)
          /\ cd_header.buf = << >> /\ cd_page.buf = << >>
          /\ cd_header.offset = HeaderStart /\ cd_page.offset = PageStart
          /\ CacheEnd(cd_header) = HeaderStart /\ CacheEnd(cd_page) = PageStart
        BY <1>1, <1>4, EmptyCacheOK
    <2>2. Len(cd_header.buf) = 0 /\ Len(cd_page.buf) = 0
        BY <2>1
    <2>3. CacheEnd(cd_header) = HeaderStart + DescSize * PfnToPos(pfn)
        BY <1>1, <1>5, <2>1, SMTT(20) DEF DescSize, HeaderStart
    <2> QED
        BY <1>1, <1>4, <2>1, <2>2, <2>3, SMTT(20) DEF CachesOK
<1>7. TypeOK
    BY <1>1, <1>3, <1>4 DEF TypeOK, EmptyCache
<1> QED
    BY <1>1, <1>3, <1>6, <1>7 DEF SerialInv, ContentInv, CompleteInv

LEMMA SerialInvNext ==
    SerialInv /\ ContentInv /\ CompleteInv /\ [Next]_vars
        => SerialInv' /\ ContentInv' /\ CompleteInv'
<1> SUFFICES ASSUME SerialInv, ContentInv, CompleteInv, [Next]_vars
             PROVE  SerialInv' /\ ContentInv' /\ CompleteInv'
    OBVIOUS
<1>1. CASE UNCHANGED vars
    BY <1>1 DEF vars, SerialInv, ContentInv, CompleteInv, TypeOK, CachesOK,
       Filling, FileOK, CacheOK, CacheEnd, PfnToPos, PageStart, Dumpable,
       ExcludeZero, PageStored, DescPlace, DataOf, ZeroPages, ZeroPageWords
<1>2. CASE Begin
    <2>1. pc' # "complete"
        BY <1>2 DEF Begin, Out
    <2> QED
        BY <1>2, <2>1, BeginStep DEF CompleteInv
<1>3. CASE ReadFails
    BY <1>3 DEF ReadFails, SerialInv, ContentInv, CompleteInv, TypeOK, Filling,
       FileOK
<1>4. CASE WriteRemainder
    BY <1>4, RemainderStep
<1>5. CASE Stopped
    BY <1>1, <1>5 DEF Stopped
<1>6. ASSUME NEW p \in Dumpable, WritePage(p)
      PROVE  SerialInv' /\ ContentInv' /\ CompleteInv'
    <2>1. CASE WriteZeroPage(p)
        <3>1. pc' # "complete"
            BY <2>1 DEF WriteZeroPage, At, Out
        <3> QED
            BY <2>1, <3>1, ZeroPageStep DEF CompleteInv
    <2>2. ASSUME NEW size \in Sizes, CachePage(p, size) \/ FlushCaches(p, size)
          PROVE  SerialInv' /\ ContentInv' /\ CompleteInv'
        <3>1. pc' # "complete"
            BY <2>2 DEF CachePage, FlushCaches, Compressed, At, Cache
        <3> QED
            BY <2>2, <3>1, CachePageStep, FlushCachesStep DEF CompleteInv
    <2>3. ASSUME NEW size \in Sizes, HeaderFlushFails(p, size) \/ PageFlushFails(p, size)
          PROVE  SerialInv' /\ ContentInv' /\ CompleteInv'
        BY <2>3, HeaderFlushFailsStep, PageFlushFailsStep DEF CompleteInv
    <2> QED
        BY <1>6, <2>1, <2>2, <2>3 DEF WritePage, Sizes
<1> QED
    BY <1>1, <1>2, <1>3, <1>4, <1>5, <1>6 DEF Next
LEMMA SerialInvAlways == Spec => [](SerialInv /\ ContentInv /\ CompleteInv)
<1> QED
    BY SerialInvInit, SerialInvNext, PTL DEF Spec

(***************************************************************************)
(* No word is ever put beyond the end of cd_header's or cd_page's buffer   *)
(* by write_kdump_page() and the loop that calls it, whatever the pages    *)
(* compress to and wherever the writes stop, and the offsets in the file   *)
(* stay offsets.                                                           *)
(***************************************************************************)
THEOREM CachesNeverOverflow == Spec => []BuffersSuffice
<1>1. SerialInv => BuffersSuffice
    <2> SUFFICES ASSUME SerialInv, pc = "pages"
                 PROVE  /\ Len(cd_header.buf) + DescSize <= CacheSize + PageSize
                        /\ Len(cd_page.buf) <= CacheSize
        BY DEF BuffersSuffice, SerialInv
    <2>1. /\ Len(cd_header.buf) \in Nat /\ Len(cd_header.buf) < CacheSize
          /\ Len(cd_page.buf) <= CacheSize
        BY SerialReady DEF Filling
    <2> QED
        BY <2>1, SizesAssumption, DescAssumption, SMTT(20) DEF DescSize
<1> QED
    BY <1>1, SerialInvAlways, PTL

(***************************************************************************)
(* A dump that is reported complete can be read back by                    *)
(* readpage_kdump_compressed(): every page's descriptor, at the place that *)
(* pfn_to_pos() gives, has the offset and the size of that page's data.    *)
(***************************************************************************)
THEOREM CompleteDumpsReadBack == Spec => []ReadableWhenComplete
<1>1. SerialInv /\ CompleteInv => ReadableWhenComplete
    <2> SUFFICES ASSUME SerialInv, CompleteInv, pc = "complete", NEW p \in Dumpable
                 PROVE  /\ ReadsBack(p, DescWord(p, 1).value)
                        /\ DataAt(DescWord(p, 1).value, DescWord(p, 2).value)
                             \in {ZeroPageWords} \cup {PageWords(p, s) : s \in Sizes}
        BY DEF ReadableWhenComplete, Sizes
    <2>1. memory \in Memories /\ FileOK(file)
        BY DEF SerialInv
    <2>2. PICK off \in Nat, size \in Sizes : PageStored(cd_header, cd_page, file, p, off, size)
        BY DEF CompleteInv
    <2>3. cd_header.buf = << >> /\ cd_page.buf = << >>
        BY DEF CompleteInv
    <2>4. cd_header.offset \in Nat /\ cd_page.offset \in Nat
        BY DEF SerialInv, TypeOK
    <2>5. CacheEnd(cd_header) = cd_header.offset /\ CacheEnd(cd_page) = cd_page.offset
        BY <2>3, <2>4, SMTT(20) DEF CacheEnd
    <2>6. ASSUME NEW o \in Nat, NEW x, Stored(cd_header, file, o, x) \/ Stored(cd_page, file, o, x)
          PROVE  o \in DOMAIN file.cells /\ file.cells[o] = x
        BY <2>4, <2>5, <2>6, SMTT(20) DEF Stored
    <2>7. ASSUME NEW j \in 1 .. 3
          PROVE  DescWord(p, j) = Descriptor(off, size)[j]
        <3>1. PICK place \in Nat : place = DescPlace(p)
            BY <2>1, Places
        <3>2. PICK o \in Nat : o = place + j - 1
            BY <3>1, SMTT(20)
        <3>3. Stored(cd_header, file, o, Descriptor(off, size)[j])
            BY <2>2, <3>1, <3>2 DEF PageStored, AllStored, DescSize
        <3>4. WordAt(file, o) = Descriptor(off, size)[j]
            BY <2>6, <3>3 DEF WordAt
        <3> QED
            BY <3>1, <3>2, <3>4 DEF DescWord, DescPlace
    <2>8. DescWord(p, 1).value = off /\ DescWord(p, 2).value = size
        BY <2>7, SMTT(20) DEF Descriptor
    <2>9. size \in Nat \ {0}
        BY SizeType
    <2>10. ASSUME NEW j \in 1 .. size
           PROVE  /\ off + j - 1 \in DOMAIN file.cells
                  /\ file.cells[off + j - 1] = DataOf(p, size)[j]
        <3>1. PICK o \in Nat : o = off + j - 1
            BY <2>9, SMTT(20)
        <3>2. Stored(cd_page, file, o, DataOf(p, size)[j])
            BY <2>2, <3>1 DEF PageStored, AllStored
        <3> QED
            BY <2>6, <3>1, <3>2
    <2>11. ExcludeZero /\ p \in ZeroPages => size = PageSize
        BY <2>2 DEF PageStored
    <2> QED
        BY <2>1, <2>8, <2>10, <2>11, InFileReadsBack
<1> QED
    BY <1>1, SerialInvAlways, PTL
-----------------------------------------------------------------------------
(***************************************************************************)
(* The dump that is cut short for lack of space.  A write keeps the words  *)
(* the file has, wherever it goes.                                         *)
(***************************************************************************)
LEMMA WriteGrows ==
    ASSUME NEW f, FileOK(f), NEW o, NEW buf
    PROVE  DOMAIN f.cells \subseteq DOMAIN WriteBuffer(f, o, buf).file.cells
<1>1. PICK cells, limit, space, bad, nospace :
         f = [cells |-> cells, limit |-> limit, space |-> space, bad |-> bad,
              nospace |-> nospace]
    BY DEF FileOK
<1> QED
    BY <1>1 DEF WriteBuffer

\* One more descriptor, of the data at the end.
LEMMA WholeAdd ==
    ASSUME NEW buf \in Seq(DescWords), NEW n \in Nat, NEW low \in Nat, NEW end \in Nat,
           Whole(buf, n, low, end), NEW size \in 1 .. PageSize,
           NEW low2 \in Nat, low <= low2
    PROVE  Whole(buf \o Descriptor(end, size), n + 1, low2, end + size)
<1>1. DescSize = 3 /\ PageSize \in Nat /\ size \in Nat
    BY SizesAssumption, SMTT(20) DEF DescSize
<1>2. Len(buf) = 3 * n
    BY <1>1 DEF Whole
<1>3. PICK desc \in Seq(DescWords) : desc = Descriptor(end, size) /\ Len(desc) = 3
    BY <1>1, WordTypes, SMTT(20)
<1>4. desc[1].value = end /\ desc[2].value = size
    BY <1>3 DEF Descriptor
<1>5. PICK b \in Seq(DescWords) : b = buf \o desc
    BY <1>3, SeqJoin
<1>6. /\ Len(b) = 3 * n + 3
      /\ \A j \in 1 .. 3 * n : b[j] = buf[j]
      /\ \A j \in 1 .. 3 : b[3 * n + j] = desc[j]
    <2>1. PICK m \in Nat : m = 3 * n
        BY SMTT(20)
    <2>2. Len(buf) = m
        BY <1>2, <2>1
    <2>3. /\ Len(b) = m + 3
          /\ \A j \in 1 .. m + 3 : b[j] = IF j <= m THEN buf[j] ELSE desc[j - m]
        <3>1. /\ Len(buf \o desc) = Len(buf) + Len(desc)
              /\ \A i \in 1 .. Len(buf) + Len(desc) :
                    (buf \o desc)[i] = IF i <= Len(buf) THEN buf[i] ELSE desc[i - Len(buf)]
            BY SeqJoin
        <3> QED
            BY <1>3, <1>5, <2>2, <3>1
    <2>4. \A j \in 1 .. 3 : b[m + j] = desc[j]
        <3> SUFFICES ASSUME NEW j \in 1 .. 3 PROVE b[m + j] = desc[j]
            OBVIOUS
        <3>1. m + j \in 1 .. m + 3 /\ ~ (m + j <= m) /\ m + j - m = j
            BY SMTT(20)
        <3> QED
            BY <2>3, <3>1, SMTT(20)
    <2>5. \A j \in 1 .. m : b[j] = buf[j]
        <3>1. \A j \in 1 .. m : j \in 1 .. m + 3 /\ j <= m
            BY SMTT(20)
        <3> QED
            BY <2>3, <3>1
    <2> QED
        BY <2>1, <2>3, <2>4, <2>5
<1>7. ASSUME NEW k \in 1 .. n
      PROVE  OffsetIn(b, k) = OffsetIn(buf, k) /\ SizeIn(b, k) = SizeIn(buf, k)
    <2>1. 3 * (k - 1) + 1 \in 1 .. 3 * n /\ 3 * (k - 1) + 2 \in 1 .. 3 * n
        BY SMTT(20)
    <2> QED
        BY <1>1, <1>6, <2>1 DEF OffsetIn, SizeIn
<1>8. OffsetIn(b, n + 1) = end /\ SizeIn(b, n + 1) = size
    <2>1. 3 * (n + 1 - 1) + 1 = 3 * n + 1 /\ 3 * (n + 1 - 1) + 2 = 3 * n + 2
        BY SMTT(20)
    <2>2. b[3 * n + 1] = desc[1] /\ b[3 * n + 2] = desc[2]
        BY <1>6, SMTT(20)
    <2>3. b[DescSize * (n + 1 - 1) + 1] = desc[1] /\ b[DescSize * (n + 1 - 1) + 2] = desc[2]
        BY <1>1, <2>1, <2>2
    <2> QED
        BY <1>4, <2>3, SMTT(20) DEF OffsetIn, SizeIn
<1>9. /\ \A k \in 1 .. n : OffsetIn(buf, k) \in Nat /\ SizeIn(buf, k) \in 1 .. PageSize
      /\ \A k \in 1 .. n - 1 : OffsetIn(buf, k + 1) = OffsetIn(buf, k) + SizeIn(buf, k)
      /\ n > 0 => OffsetIn(buf, 1) <= low /\ OffsetIn(buf, n) + SizeIn(buf, n) = end
      /\ n = 0 => low = end
    BY DEF Whole
<1>10. ASSUME NEW k \in 1 .. n + 1
       PROVE  OffsetIn(b, k) \in Nat /\ SizeIn(b, k) \in 1 .. PageSize
    <2>1. CASE k = n + 1
        BY <1>8, <2>1
    <2>2. CASE k # n + 1
        <3>1. k \in 1 .. n
            BY <2>2, SMTT(20)
        <3> QED
            BY <1>7, <1>9, <3>1
    <2> QED
        BY <2>1, <2>2
<1>11. ASSUME NEW k \in 1 .. n
       PROVE  OffsetIn(b, k + 1) = OffsetIn(b, k) + SizeIn(b, k)
    <2>1. CASE k = n
        BY <1>7, <1>8, <1>9, <2>1, SMTT(20)
    <2>2. CASE k # n
        <3>1. k \in 1 .. n - 1 /\ k + 1 \in 1 .. n
            BY <2>2, SMTT(20)
        <3> QED
            BY <1>7, <1>9, <3>1
    <2> QED
        BY <2>1, <2>2
<1>12. OffsetIn(b, 1) <= low2
    <2>1. CASE n = 0
        BY <1>8, <1>9, <2>1, SMTT(20)
    <2>2. CASE n > 0
        <3>1. 1 \in 1 .. n
            BY <2>2, SMTT(20)
        <3>2. OffsetIn(buf, 1) \in Nat /\ OffsetIn(b, 1) = OffsetIn(buf, 1)
            BY <1>7, <1>9, <3>1
        <3> QED
            BY <1>9, <2>2, <3>2, SMTT(20)
    <2> QED
        BY <2>1, <2>2, SMTT(20)
<1>13. Len(b) = DescSize * (n + 1) /\ (n + 1) - 1 = n /\ ~ (n + 1 = 0)
    BY <1>1, <1>6, SMTT(20)
<1>14. Whole(b, n + 1, low2, end + size)
    BY <1>8, <1>10, <1>11, <1>12, <1>13 DEF Whole
<1> QED
    BY <1>3, <1>5, <1>14

\* The caches are still in step when both get a page.
LEMMA InStepAdd ==
    ASSUME memory \in Memories, NEW cdh, NEW cdp, NEW f, NEW place, NEW data,
           Ready(cdh, cdp, f, place, data), InStep(cdh, cdp, f), NEW size \in Sizes,
           NEW h, h.buf = cdh.buf \o Descriptor(data, size), h.offset = cdh.offset,
           NEW c, NEW g, Keeps(cdh, cdp, f, h, c, g),
           c.offset \in Nat, cdp.offset <= c.offset, CacheEnd(c) = data + size,
           NoStrayDesc(h, g), \E k \in 0 .. Len(c.buf) : OnlyPrefix(c, g, k)
    PROVE  InStep(h, c, g)
<1>1. /\ data \in Nat /\ cdp.offset \in Nat /\ PageStart \in Nat
      /\ cdh.buf \in Seq(DescWords) /\ CacheEnd(cdp) = data
    BY ReadyPlaces, Places DEF Ready, CacheOK
<1>2. size \in 1 .. PageSize /\ size \in Nat /\ Sizes \subseteq Nat
    BY SizeType, SMTT(20)
<1>3. PICK n \in Nat : Whole(cdh.buf, n, cdp.offset, data)
    BY <1>1 DEF InStep
<1>4. Whole(h.buf, n + 1, c.offset, data + size)
    BY <1>1, <1>2, <1>3, WholeAdd
<1>5. n + 1 \in Nat
    BY SMTT(20)
<1>6. ASSUME NEW p \in Dumpable, DescPlace(p) < h.offset
      PROVE  \E off \in Nat, s \in Sizes : /\ PageStored(h, c, g, p, off, s)
                                           /\ PageStart <= off /\ off + s <= c.offset
    <2>1. PICK off \in Nat, s \in Sizes : /\ PageStored(cdh, cdp, f, p, off, s)
                                          /\ PageStart <= off /\ off + s <= cdp.offset
        BY <1>6 DEF InStep, DataInFile
    <2>2. PageStored(h, c, g, p, off, s)
        BY <1>2, <2>1, PageKept
    <2>3. off + s <= c.offset
        <3>1. PICK a \in Nat, e \in Nat, z \in Nat : a = cdp.offset /\ e = c.offset /\ z = s
            BY <1>1, <1>2
        <3> QED
            BY <2>1, <3>1, SMTT(20)
    <2> QED
        BY <2>1, <2>2, <2>3
<1>7. DataInFile(h, c, g)
    BY <1>6 DEF DataInFile
<1> QED
    BY <1>4, <1>5, <1>7 DEF InStep
LEMMA PlacesOrdered ==
    ASSUME memory \in Memories, NEW p \in Nat, NEW q \in Nat, p <= q
    PROVE  DescPlace(p) <= DescPlace(q)
<1>1. PICK S, T : S = {x \in Dumpable : x < p} /\ T = {x \in Dumpable : x < q}
    OBVIOUS
<1>2. Dumpable \subseteq Nat /\ IsFiniteSet(T)
    BY <1>1, PosType
<1>3. \A x \in Dumpable : x < p => x < q
    BY <1>2, SMTT(20)
<1>4. S \subseteq T
    BY <1>1, <1>3
<1>5. Cardinality(S) <= Cardinality(T)
    BY <1>2, <1>4, FS_Subset
<1>6. PfnToPos(p) <= PfnToPos(q) /\ PfnToPos(p) \in Nat /\ PfnToPos(q) \in Nat
    BY <1>1, <1>5, PosType DEF PfnToPos
<1> QED
    BY <1>6, SMTT(20) DEF DescPlace, HeaderStart, DescSize

\* Data that is stored ends where cd_page ends.
LEMMA DataEnds ==
    ASSUME NEW cdp, CacheOK(cdp, DataWords), NEW f, NEW off \in Nat,
           NEW size \in Nat \ {0}, NEW words, AllStored(cdp, f, off, words, size)
    PROVE  off + size <= CacheEnd(cdp)
<1>1. PICK a \in Nat, b \in Nat : a = cdp.offset /\ b = Len(cdp.buf)
    BY SeqLen DEF CacheOK
<1>2. Stored(cdp, f, off + size - 1, words[size])
    BY SMTT(20) DEF AllStored
<1>3. off + size - 1 < a + b
    BY <1>1, <1>2, SMTT(20) DEF Stored, CacheEnd
<1> QED
    BY <1>1, <1>3, SMTT(20) DEF CacheEnd

\* Both caches are written out.
LEMMA InStepFlush ==
    ASSUME SerialInv, ContentInv, pc = "pages", InStep(cd_header, cd_page, file),
           NEW h, h = WriteCdBuf(cd_header, file), h.ok,
           NEW d, d = WriteCdBuf(cd_page, h.file), d.ok,
           NEW place, place = DescPlace(pfn)
    PROVE  InStep(EmptyCache(place), EmptyCache(offset_data), d.file)
<1>1. /\ memory \in Memories /\ pfn \in Nat /\ offset_data \in Nat
      /\ Ready(cd_header, cd_page, file, place, offset_data)
    BY SerialReady DEF Filling
<1>2. place \in Nat /\ PageStart \in Nat /\ place <= PageStart
    BY <1>1, Places
<1>3. /\ CacheOK(cd_header, DescWords) /\ CacheOK(cd_page, DataWords) /\ FileOK(file)
      /\ cd_header.offset \in Nat \ {0} /\ cd_page.offset \in Nat \ {0}
      /\ CacheEnd(cd_header) = place /\ CacheEnd(cd_page) = offset_data
      /\ cd_header.offset <= place /\ cd_page.offset <= offset_data
      /\ PageStart <= cd_page.offset
    BY <1>1, ReadyPlaces DEF Ready
<1>4. /\ Ready(EmptyCache(place), cd_page, h.file, place, offset_data)
      /\ Keeps(cd_header, cd_page, file, EmptyCache(place), cd_page, h.file)
    BY <1>1, <1>2, HeaderFlushed
<1>5. Keeps(EmptyCache(place), cd_page, h.file,
            EmptyCache(place), EmptyCache(offset_data), d.file)
    BY <1>1, <1>4, DataFlushed
<1>6. Keeps(cd_header, cd_page, file, EmptyCache(place), EmptyCache(offset_data), d.file)
    BY <1>1, <1>4, <1>5, KeepsAll
<1>7. /\ EmptyCache(place).offset = place /\ EmptyCache(place).buf = << >>
      /\ EmptyCache(offset_data).offset = offset_data
      /\ EmptyCache(offset_data).buf = << >>
      /\ CacheEnd(EmptyCache(offset_data)) = offset_data
    BY <1>1, <1>2, EmptyCacheOK
<1>8. DataInFile(EmptyCache(place), EmptyCache(offset_data), d.file)
    <2> SUFFICES ASSUME NEW p \in Dumpable, DescPlace(p) < place
                 PROVE  \E off \in Nat, size \in Sizes :
                           /\ PageStored(EmptyCache(place), EmptyCache(offset_data),
                                         d.file, p, off, size)
                           /\ PageStart <= off /\ off + size <= offset_data
        BY <1>7 DEF DataInFile
    <2>1. p \in Nat /\ DescPlace(p) \in Nat
        BY <1>1, PosType, Places
    <2>2. p < pfn
        BY <1>1, <1>2, <2>1, PlacesOrdered, SMTT(20)
    <2>3. PICK off \in PageStart .. offset_data, size \in Sizes :
             PageStored(cd_header, cd_page, file, p, off, size)
        BY <2>2 DEF ContentInv
    <2>4. off \in Nat /\ PageStart <= off /\ size \in Nat \ {0}
        BY <1>1, <1>2, SizeType, SMTT(20)
    <2>5. PageStored(EmptyCache(place), EmptyCache(offset_data), d.file, p, off, size)
        BY <1>1, <1>6, <2>3, <2>4, PageKept
    <2>6. off + size <= offset_data
        <3>1. AllStored(cd_page, file, off, DataOf(p, size), size)
            BY <2>3 DEF PageStored
        <3> QED
            BY <1>3, <2>4, <3>1, DataEnds
    <2> QED
        BY <2>4, <2>5, <2>6
<1>9. Whole(EmptyCache(place).buf, 0, offset_data, offset_data)
    BY <1>7, SMTT(20) DEF Whole, DescSize
<1>10. /\ SameOutside(file, h.file, cd_header.offset, place)
       /\ SameOutside(h.file, d.file, cd_page.offset, offset_data)
       /\ FileOK(h.file) /\ FileOK(d.file)
    BY <1>3, <1>4, FlushIs DEF Ready
<1>11. ASSUME NEW x \in DOMAIN d.file.cells
       PROVE  (x < place \/ PageStart <= x) /\ x < offset_data
    <2>1. x \in Nat
        BY <1>10 DEF FileOK
    <2>2. CASE x \in DOMAIN file.cells
        <3>1. x < cd_header.offset \/ PageStart <= x
            BY <2>2 DEF InStep, NoStrayDesc
        <3>2. PICK k \in 0 .. Len(cd_page.buf) : x < cd_page.offset + k
            BY <2>2 DEF InStep, OnlyPrefix
        <3>3. PICK a \in Nat, b \in Nat : a = cd_page.offset /\ b = Len(cd_page.buf)
            BY <1>3, SeqLen DEF CacheOK
        <3>4. offset_data = a + b /\ x < a + k /\ k \in 0 .. b
            BY <1>3, <3>2, <3>3 DEF CacheEnd
        <3>5. x < offset_data
            BY <2>1, <3>3, <3>4, SMTT(20)
        <3> QED
            BY <1>2, <1>3, <2>1, <3>1, <3>5, SMTT(20)
    <2>3. CASE x \notin DOMAIN file.cells
        <3>1. x \in cd_header.offset .. place - 1 \/ x \in cd_page.offset .. offset_data - 1
            BY <1>1, <1>2, <1>3, <1>10, <2>1, <2>3, SMTT(20) DEF SameOutside
        <3> QED
            BY <1>1, <1>2, <1>3, <2>1, <3>1, SMTT(20)
    <2> QED
        BY <2>2, <2>3
<1>12. NoStrayDesc(EmptyCache(place), d.file)
    BY <1>7, <1>11 DEF NoStrayDesc
<1>13. OnlyPrefix(EmptyCache(offset_data), d.file, 0)
    <2>1. offset_data + 0 = offset_data /\ offset_data .. offset_data + 0 - 1 = {}
        BY <1>1, SMTT(20)
    <2> QED
        BY <1>7, <1>11, <2>1 DEF OnlyPrefix
<1>14. 0 \in 0 .. Len(EmptyCache(offset_data).buf)
    BY <1>7, SMTT(20)
<1> QED
    BY <1>7, <1>8, <1>9, <1>12, <1>13, <1>14 DEF InStep
\* The data of one page fills the whole cache and is written out.
LEMMA DataFull ==
    ASSUME NEW data \in Nat \ {0}, NEW f, FileOK(f), \A x \in DOMAIN f.cells : x < data,
           NEW words \in Seq(DataWords), Len(words) = CacheSize,
           NEW d, d = WriteCache(EmptyCache(data), f, words)
    PROVE  \E k \in 0 .. Len(d.cd.buf) : OnlyPrefix(d.cd, d.file, k)
<1>1. CacheSize \in Nat /\ Len(words) \in Nat /\ CacheSize <= Len(words)
    BY SizesAssumption, SMTT(20)
<1>2. << >> \o words = words
    BY SeqJoinNone
<1>3. SubSeq(words, 1, CacheSize) = words
    <2>1. PICK s \in Seq(DataWords) : s = SubSeq(words, 1, CacheSize)
        BY <1>1, Cut
    <2>2. Len(s) = Len(words) /\ \A j \in 1 .. Len(words) : s[j] = words[j]
        BY <1>1, <2>1, Cut, SMTT(20)
    <2> QED
        BY <2>1, <2>2, SeqSame
<1>4. SubSeq(words, CacheSize + 1, Len(words)) = << >>
    <2>1. PICK s \in Seq(DataWords) : s = SubSeq(words, CacheSize + 1, Len(words))
        BY <1>1, Cut
    <2>2. Len(s) = Len(words) - CacheSize
        BY <1>1, <2>1, Cut, SMTT(20)
    <2>3. Len(s) = 0
        BY <1>1, <2>2, SMTT(20)
    <2> QED
        BY <2>1, <2>3, SeqNone
<1>5. PICK w : w = WriteBuffer(f, data, words)
    OBVIOUS
<1>6. PICK k \in 0 .. Len(words) : Wrote(f, data, words, k, w)
    BY <1>5, WriteBufferIs
<1>7. /\ d.file = w.file
      /\ w.ok => d.cd = [buf |-> << >>, offset |-> data + CacheSize]
      /\ ~ w.ok => d.cd = [buf |-> words, offset |-> data]
    <2>1. EmptyCache(data).buf = << >> /\ EmptyCache(data).offset = data
        BY DEF EmptyCache
    <2>2. ~ (Len(words) < CacheSize)
        BY <1>1, SMTT(20)
    <2>3. [EmptyCache(data) EXCEPT !.buf = words] = [buf |-> words, offset |-> data]
        BY SMTT(20) DEF EmptyCache
    <2>4. d = [cd |-> IF w.ok THEN [buf |-> << >>, offset |-> data + CacheSize]
                      ELSE [buf |-> words, offset |-> data],
               file |-> w.file, ok |-> w.ok]
        BY <1>2, <1>3, <1>4, <1>5, <2>1, <2>2, <2>3 DEF WriteCache
    <2> QED
        BY <2>4, SMTT(20)
<1>8. DOMAIN w.file.cells = (data .. data + k - 1) \cup DOMAIN f.cells
    BY <1>6 DEF Wrote
<1>9. DOMAIN f.cells \subseteq Nat
    BY DEF FileOK
<1>10. \A x \in DOMAIN w.file.cells : x < data + k
    BY <1>1, <1>8, <1>9, SMTT(20)
<1>11. CASE w.ok
    <2>1. k = CacheSize
        BY <1>6, <1>11 DEF Wrote
    <2>2. (data + CacheSize) + 0 = data + CacheSize
          /\ data + CacheSize .. data + CacheSize + 0 - 1 = {}
        BY <1>1, SMTT(20)
    <2>3. d.cd.offset = data + CacheSize /\ d.cd.buf = << >>
        BY <1>7, <1>11, SMTT(20)
    <2>4. OnlyPrefix(d.cd, d.file, 0)
        BY <1>7, <1>10, <2>1, <2>2, <2>3 DEF OnlyPrefix
    <2>5. 0 \in 0 .. Len(d.cd.buf)
        BY <2>3, SMTT(20)
    <2> QED
        BY <2>4, <2>5
<1>12. CASE ~ w.ok
    <2>1. d.cd.offset = data /\ d.cd.buf = words
        BY <1>7, <1>12, SMTT(20)
    <2>2. OnlyPrefix(d.cd, d.file, k)
        BY <1>7, <1>8, <1>10, <2>1 DEF OnlyPrefix
    <2> QED
        BY <2>1, <2>2
<1> QED
    BY <1>11, <1>12

LEMMA CacheLonger ==
    ASSUME NEW cd, NEW cd2, NEW W, CacheOK(cd, W), CacheOK(cd2, W), NEW s \in Nat,
           CacheEnd(cd2) = CacheEnd(cd) + s, cd2.offset = cd.offset,
           NEW k \in 0 .. Len(cd.buf)
    PROVE  k \in 0 .. Len(cd2.buf)
<1>1. PICK a \in Nat, b \in Nat, e \in Nat :
         a = cd.offset /\ b = Len(cd.buf) /\ e = Len(cd2.buf)
    BY SeqLen DEF CacheOK
<1>2. a + e = a + b + s
    BY <1>1 DEF CacheEnd
<1> QED
    BY <1>1, <1>2, SMTT(20)

\* A page is put into the caches.
LEMMA InStepCache ==
    ASSUME memory \in Memories, offset_data \in Nat, NEW p \in Nat, NEW size \in Sizes,
           NEW header, NEW page, NEW f, NEW place,
           Ready(header, page, f, place, offset_data), place + DescSize <= PageStart,
           InStep(header, page, f),
           Len(header.buf) + DescSize < CacheSize,
           Len(page.buf) + size < CacheSize \/ page = EmptyCache(offset_data),
           Len(page.buf) + size <= CacheSize,
           Cache(p, size, header, page, f)
    PROVE  InStep(cd_header', cd_page', file')
<1>1. /\ CacheOK(header, DescWords) /\ CacheOK(page, DataWords) /\ FileOK(f)
      /\ header.offset \in Nat \ {0} /\ page.offset \in Nat \ {0}
      /\ CacheEnd(page) = offset_data /\ PageStart <= page.offset
    BY ReadyPlaces DEF Ready
<1>2. /\ PageStart \in Nat /\ DescSize = 3 /\ CacheSize \in Nat
      /\ size \in Nat \ {0} /\ Len(page.buf) \in Nat
    <2>1. PageStart \in Nat /\ DescSize = 3
        BY Places
    <2>2. CacheSize \in Nat /\ size \in Nat \ {0}
        BY SizeType
    <2>3. Len(page.buf) \in Nat
        BY <1>1, SeqLen DEF CacheOK
    <2> QED
        BY <2>1, <2>2, <2>3
<1>3. PICK desc \in Seq(DescWords) :
         desc = Descriptor(offset_data, size) /\ Len(desc) = DescSize
    BY <1>2, WordTypes, SMTT(20)
<1>4. PICK words \in Seq(DataWords) : words = PageWords(p, size) /\ Len(words) = size
    BY <1>2, WordTypes
<1>5. PICK h : h = WriteCache(header, f, desc)
    OBVIOUS
<1>6. /\ h.file = f
      /\ h.cd.buf = header.buf \o desc /\ h.cd.offset = header.offset
    <2>1. Small(header, desc)
        BY <1>3 DEF Small
    <2>2. desc \in Seq(DescWords) /\ CacheOK(header, DescWords) /\ FileOK(f)
        BY <1>1, <1>3
    <2>3. Buffered(header, f, desc, h)
        BY <1>5, <2>1, <2>2, SmallIs
    <2> QED
        BY <2>3, SMTT(20) DEF Buffered
<1>7. PICK d : d = WriteCache(page, f, words)
    OBVIOUS
<1>8. cd_header' = h.cd /\ cd_page' = d.cd /\ file' = d.file
    BY <1>3, <1>4, <1>5, <1>6, <1>7, SMTT(20) DEF Cache
<1>9. /\ Ready(h.cd, page, f, place + DescSize, offset_data)
      /\ Keeps(header, page, f, h.cd, page, f)
    BY <1>3, <1>5, <1>6, HeaderAdded
<1>10. /\ Ready(h.cd, d.cd, d.file, place + DescSize, offset_data + size)
       /\ Keeps(h.cd, page, f, h.cd, d.cd, d.file)
       /\ page.offset <= d.cd.offset
    BY <1>4, <1>7, <1>9, DataAdded
<1>11. Keeps(header, page, f, h.cd, d.cd, d.file)
    BY <1>9, <1>10, KeepsAll
<1>12. CacheEnd(d.cd) = offset_data + size /\ d.cd.offset \in Nat /\ FileOK(d.file)
    BY <1>10 DEF Ready, CacheOK
<1>13. SameOutside(f, d.file, page.offset, offset_data + size)
    <2>1. Added(page, f, words, DataWords, d)
        <3>1. CASE Len(page.buf) + size < CacheSize
            BY <1>1, <1>4, <1>7, <3>1, WriteCacheSmall
        <3>2. CASE Len(page.buf) + size >= CacheSize
            BY <1>1, <1>4, <1>7, <3>2, WriteCacheFull
        <3> QED
            BY <1>2, <3>1, <3>2, SMTT(20)
    <2> QED
        BY <1>1, <1>4, <2>1 DEF Added
<1>14. NoStrayDesc(h.cd, d.file)
    <2> SUFFICES ASSUME NEW x \in DOMAIN d.file.cells
                 PROVE  x < header.offset \/ PageStart <= x
        BY <1>6 DEF NoStrayDesc
    <2>1. x \in Nat
        BY <1>12 DEF FileOK
    <2>2. CASE x \in DOMAIN f.cells
        BY <2>2 DEF InStep, NoStrayDesc
    <2>3. CASE x \notin DOMAIN f.cells
        <3>1. ~ (x < page.offset)
            BY <1>13, <2>1, <2>3 DEF SameOutside
        <3> QED
            BY <1>1, <1>2, <2>1, <3>1, SMTT(20)
    <2> QED
        BY <2>2, <2>3
<1>15. \E k \in 0 .. Len(d.cd.buf) : OnlyPrefix(d.cd, d.file, k)
    <2>1. PICK k \in 0 .. Len(page.buf) : OnlyPrefix(page, f, k)
        BY DEF InStep
    <2>2. CASE Len(page.buf) + size < CacheSize
        <3>1. d.file = f /\ d.cd.offset = page.offset
            <4>1. Small(page, words)
                BY <1>4, <2>2 DEF Small
            <4>2. Buffered(page, f, words, d)
                BY <1>1, <1>4, <1>7, <4>1, SmallIs
            <4> QED
                BY <4>2, SMTT(20) DEF Buffered
        <3>2. OnlyPrefix(d.cd, d.file, k)
            BY <2>1, <3>1 DEF OnlyPrefix
        <3>3. CacheOK(d.cd, DataWords) /\ CacheEnd(d.cd) = CacheEnd(page) + size
            BY <1>1, <1>10, <1>12 DEF Ready
        <3>4. size \in Nat
            BY <1>2
        <3>5. k \in 0 .. Len(d.cd.buf)
            BY <1>1, <2>1, <3>1, <3>3, <3>4, CacheLonger
        <3> QED
            BY <3>2, <3>5
    <2>3. CASE ~ (Len(page.buf) + size < CacheSize)
        <3>1. page = EmptyCache(offset_data) /\ size = CacheSize /\ k = 0
            <4>1. page = EmptyCache(offset_data)
                BY <2>3
            <4>2. page.buf = << >>
                BY <4>1 DEF EmptyCache
            <4>3. Len(page.buf) = 0
                BY <4>2, SMTT(20)
            <4> QED
                BY <1>2, <2>1, <2>3, <4>1, <4>3, SMTT(20)
        <3>2. page.offset = offset_data
            BY <3>1 DEF EmptyCache
        <3>3. \A x \in DOMAIN f.cells : x < offset_data
            BY <2>1, <3>1, <3>2, SMTT(20) DEF OnlyPrefix
        <3> QED
            BY <1>1, <1>4, <1>7, <3>1, <3>2, <3>3, DataFull
    <2> QED
        BY <2>2, <2>3
<1>16. h.cd.buf = header.buf \o Descriptor(offset_data, size) /\ h.cd.offset = header.offset
    BY <1>3, <1>6
<1>17. InStep(h.cd, d.cd, d.file)
    BY <1>10, <1>11, <1>12, <1>14, <1>15, <1>16, InStepAdd
<1> QED
    BY <1>8, <1>17
-----------------------------------------------------------------------------
(***************************************************************************)
(* What is in the file when a write has failed.                            *)
(***************************************************************************)
LEMMA NoDesc ==
    ASSUME NEW g, NEW p,
           DescPlace(p) \notin DOMAIN g.cells \/ g.cells[DescPlace(p)] = Zero
    PROVE  NotLost(g, p)
BY SMTT(20) DEF NotLost, WordAt, Zero

LEMMA DescAndData ==
    ASSUME NEW g, NEW p, NEW off \in Nat, NEW size \in Sizes,
           DescPlace(p) \in DOMAIN g.cells,
           g.cells[DescPlace(p)] = Descriptor(off, size)[1],
           DataPresent(g, p, off, size)
    PROVE  NotLost(g, p)
<1>1. WordAt(g, DescPlace(p)).value = off
    BY SMTT(20) DEF WordAt, Descriptor
<1> QED
    BY <1>1 DEF NotLost

\* A page whose descriptor and data were in the file before the last writes.
LEMMA KeptPage ==
    ASSUME memory \in Memories, NEW p \in Dumpable, NEW cdh, NEW cdp,
           NEW f, DataInFile(cdh, cdp, f), DescPlace(p) < cdh.offset,
           cdh.offset \in Nat, cdp.offset \in Nat,
           NEW g, \A x \in DOMAIN f.cells :
                     x < cdh.offset \/ (PageStart <= x /\ x < cdp.offset) =>
                         x \in DOMAIN g.cells /\ g.cells[x] = f.cells[x]
    PROVE  NotLost(g, p)
<1>1. PICK off \in Nat, size \in Sizes : /\ PageStored(cdh, cdp, f, p, off, size)
                                         /\ PageStart <= off /\ off + size <= cdp.offset
    BY DEF DataInFile
<1>2. PageStart \in Nat /\ size \in Nat \ {0} /\ DescPlace(p) \in Nat /\ DescSize = 3
    BY Places, SizeType
<1>3. /\ DescPlace(p) \in DOMAIN g.cells
      /\ g.cells[DescPlace(p)] = Descriptor(off, size)[1]
    <2>1. DescPlace(p) + 1 - 1 = DescPlace(p) /\ 1 \in 1 .. DescSize
        BY <1>2, SMTT(20)
    <2>2. Stored(cdh, f, DescPlace(p), Descriptor(off, size)[1])
        BY <1>1, <2>1 DEF PageStored, AllStored
    <2>3. DescPlace(p) \in DOMAIN f.cells /\ f.cells[DescPlace(p)] = Descriptor(off, size)[1]
        BY <1>2, <2>2, SMTT(20) DEF Stored
    <2> QED
        BY <2>3
<1>4. ASSUME NEW j \in 1 .. size
      PROVE  /\ off + j - 1 \in DOMAIN g.cells
             /\ g.cells[off + j - 1] = DataOf(p, size)[j]
    <2>1. PICK o \in Nat : o = off + j - 1 /\ PageStart <= o /\ o < cdp.offset
        <3>1. PICK a \in Nat, b \in Nat, s \in Nat :
                 a = PageStart /\ b = cdp.offset /\ s = size
            BY <1>2
        <3>2. a <= off /\ off + s <= b /\ j \in 1 .. s
            BY <1>1, <3>1
        <3>3. off + j - 1 \in Nat /\ a <= off + j - 1 /\ off + j - 1 < b
            BY <3>1, <3>2, SMTT(20)
        <3> QED
            BY <3>1, <3>3
    <2>2. Stored(cdp, f, o, DataOf(p, size)[j])
        BY <1>1, <2>1 DEF PageStored, AllStored
    <2>3. o \in DOMAIN f.cells /\ f.cells[o] = DataOf(p, size)[j]
        BY <2>1, <2>2, SMTT(20) DEF Stored
    <2> QED
        BY <2>1, <2>3
<1>5. DataPresent(g, p, off, size)
    BY <1>4 DEF DataPresent
<1> QED
    BY <1>3, <1>5, DescAndData

\* The descriptors did not fit and were overwritten with zeros.
LEMMA HeaderLost ==
    ASSUME SerialInv, Filling, InStep(cd_header, cd_page, file),
           NEW h, h = WriteCdBuf(cd_header, file),
           NEW zeros, zeros = [buf |-> ZeroWords(Len(cd_header.buf)),
                               offset |-> cd_header.offset],
           NEW w, w = WriteCdBuf(zeros, h.file),
           NEW p \in Dumpable
    PROVE  NotLost(w.file, p)
<1>1. /\ memory \in Memories
      /\ Ready(cd_header, cd_page, file, DescPlace(pfn), offset_data)
    BY SerialReady
<1>2. PICK o \in Nat \ {0}, buf \in Seq(DescWords) :
         o = cd_header.offset /\ buf = cd_header.buf
    BY <1>1, ReadyPlaces DEF Ready, CacheOK
<1>3. PICK len \in Nat : len = Len(buf)
    BY <1>2, SeqLen
<1>4. PICK zw \in Seq(DescWords) : zw = ZeroWords(len) /\ Len(zw) = len
                                   /\ \A j \in 1 .. len : zw[j] = Zero
    BY <1>3, ZeroCache
<1>5. o + len <= PageStart /\ PageStart \in Nat /\ cd_page.offset \in Nat
    <2>1. CacheEnd(cd_header) = DescPlace(pfn) /\ cd_page.offset \in Nat
        BY <1>1, ReadyPlaces DEF Ready
    <2>2. DescPlace(pfn) <= PageStart /\ PageStart \in Nat
        BY <1>1, Places
    <2> QED
        BY <1>2, <1>3, <2>1, <2>2 DEF CacheEnd
<1>6. FileOK(file)
    BY <1>1 DEF Ready
<1>7. FileOK(h.file) /\ \E m \in 0 .. len : Wrote(file, o, buf, m, h)
    BY <1>2, <1>3, <1>6, WriteBufferIs DEF WriteCdBuf
<1>8. PICK m \in 0 .. len : Wrote(file, o, buf, m, h)
    BY <1>7
<1>9. w = WriteBuffer(h.file, o, zw)
    BY <1>2, <1>3, <1>4 DEF WriteCdBuf
<1>10. PICK n \in 0 .. len : Wrote(h.file, o, zw, n, w)
    BY <1>4, <1>7, <1>9, WriteBufferIs
<1>11. DOMAIN h.file.cells = (o .. o + m - 1) \cup DOMAIN file.cells
    BY <1>8 DEF Wrote
<1>12. DOMAIN w.file.cells = (o .. o + n - 1) \cup DOMAIN h.file.cells
    BY <1>10 DEF Wrote
<1>13. m <= n
    <2>1. o .. o + m - 1 \subseteq DOMAIN h.file.cells
        BY <1>11
    <2> QED
        BY <1>4, <1>10, <2>1 DEF Wrote
<1>14. DescPlace(p) \in Nat /\ DescPlace(p) < PageStart
    <2>1. /\ DescPlace(p) + DescSize <= PageStart /\ DescPlace(p) \in Nat
          /\ DescSize = 3 /\ PageStart \in Nat
        BY <1>1, DescRoom
    <2> QED
        BY <2>1, SMTT(20)
<1>15. CASE DescPlace(p) < o
    <2>1. ASSUME NEW x \in DOMAIN file.cells, x < o \/ PageStart <= x
          PROVE  x \in DOMAIN w.file.cells /\ w.file.cells[x] = file.cells[x]
        <3>1. x \in Nat
            BY <1>6 DEF FileOK
        <3>2. x \notin o .. o + m - 1 /\ x \notin o .. o + n - 1
            BY <1>5, <2>1, <3>1, SMTT(20)
        <3>3. h.file.cells[x] = file.cells[x] /\ x \in DOMAIN h.file.cells
            BY <1>8, <1>11, <3>2 DEF Wrote
        <3>4. w.file.cells[x] = h.file.cells[x]
            BY <1>10, <3>2, <3>3 DEF Wrote
        <3> QED
            BY <1>12, <3>3, <3>4
    <2>2. DataInFile(cd_header, cd_page, file)
        BY DEF InStep
    <2> QED
        BY <1>1, <1>2, <1>5, <1>15, <2>1, <2>2, KeptPage, SMTT(20)
<1>16. CASE ~ (DescPlace(p) < o)
    <2>1. DescPlace(p) \notin DOMAIN file.cells
        BY <1>2, <1>5, <1>14, <1>16, SMTT(20) DEF InStep, NoStrayDesc
    <2>2. CASE DescPlace(p) \in o .. o + n - 1
        <3>1. w.file.cells[DescPlace(p)] = zw[DescPlace(p) - o + 1]
            BY <1>10, <2>2 DEF Wrote
        <3>2. DescPlace(p) - o + 1 \in 1 .. len
            BY <1>14, <2>2, SMTT(20)
        <3> QED
            BY <1>4, <3>1, <3>2, NoDesc
    <2>3. CASE DescPlace(p) \notin o .. o + n - 1
        <3>1. DescPlace(p) \notin o .. o + m - 1
            BY <1>13, <1>14, <2>3, SMTT(20)
        <3> QED
            BY <1>11, <1>12, <2>1, <2>3, <3>1, NoDesc
    <2> QED
        BY <2>2, <2>3
<1> QED
    BY <1>15, <1>16

\* The remainder of the data did not fit.
LEMMA RemainderLost ==
    ASSUME SerialInv, Filling, InStep(cd_header, cd_page, file),
           NEW d, d = WriteCdBuf(cd_page, file), NEW p \in Dumpable
    PROVE  NotLost(d.file, p)
<1>1. /\ memory \in Memories
      /\ Ready(cd_header, cd_page, file, DescPlace(pfn), offset_data)
    BY SerialReady
<1>2. /\ cd_header.offset \in Nat /\ cd_page.offset \in Nat \ {0} /\ PageStart \in Nat
      /\ PageStart <= cd_page.offset /\ FileOK(file) /\ CacheOK(cd_page, DataWords)
    BY <1>1, ReadyPlaces, Places DEF Ready
<1>3. \A x \in Nat : x < cd_page.offset =>
         /\ x \in DOMAIN d.file.cells <=> x \in DOMAIN file.cells
         /\ x \in DOMAIN file.cells => d.file.cells[x] = file.cells[x]
    BY <1>2, FlushIs, SMTT(20) DEF SameOutside
<1>4. DescPlace(p) \in Nat /\ DescPlace(p) < PageStart
    <2>1. /\ DescPlace(p) + DescSize <= PageStart /\ DescPlace(p) \in Nat
          /\ DescSize = 3 /\ PageStart \in Nat
        BY <1>1, DescRoom
    <2> QED
        BY <2>1, SMTT(20)
<1>5. CASE DescPlace(p) < cd_header.offset
    <2>1. DOMAIN file.cells \subseteq Nat /\ DataInFile(cd_header, cd_page, file)
        BY <1>2 DEF FileOK, InStep
    <2>2. cd_header.offset <= PageStart
        <3>1. cd_header.offset <= DescPlace(pfn)
            BY <1>1, ReadyPlaces
        <3>2. DescPlace(pfn) <= PageStart /\ DescPlace(pfn) \in Nat
            BY <1>1, Places
        <3> QED
            BY <1>2, <3>1, <3>2, SMTT(20)
    <2>3. \A x \in Nat : x < cd_header.offset \/ (PageStart <= x /\ x < cd_page.offset) =>
             x < cd_page.offset
        BY <1>2, <2>2, SMTT(20)
    <2> QED
        BY <1>1, <1>2, <1>3, <1>5, <2>1, <2>3, KeptPage, SMTT(20)
<1>6. CASE ~ (DescPlace(p) < cd_header.offset)
    <2>1. DescPlace(p) \notin DOMAIN file.cells
        BY <1>2, <1>4, <1>6, SMTT(20) DEF InStep, NoStrayDesc
    <2>2. DescPlace(p) < cd_page.offset
        BY <1>2, <1>4, SMTT(20)
    <2>3. DescPlace(p) \notin DOMAIN d.file.cells
        BY <1>3, <1>4, <2>1, <2>2
    <2> QED
        BY <2>3, NoDesc
<1> QED
    BY <1>5, <1>6

\* The data is in the file, the remainder of the descriptors did not fit.
LEMMA RemainderHeaderLost ==
    ASSUME SerialInv, ContentInv, pc = "pages", \A q \in Dumpable : q < pfn,
           InStep(cd_header, cd_page, file),
           NEW d, d = WriteCdBuf(cd_page, file), d.ok,
           NEW h, h = WriteCdBuf(cd_header, d.file), NEW p \in Dumpable
    PROVE  NotLost(h.file, p)
<1>1. /\ memory \in Memories /\ offset_data \in Nat
      /\ Ready(cd_header, cd_page, file, DescPlace(pfn), offset_data)
    BY SerialReady DEF Filling
<1>2. /\ cd_header.offset \in Nat \ {0} /\ cd_page.offset \in Nat \ {0} /\ PageStart \in Nat
      /\ PageStart <= cd_page.offset /\ FileOK(file)
      /\ CacheOK(cd_header, DescWords) /\ CacheOK(cd_page, DataWords)
      /\ CacheEnd(cd_header) = DescPlace(pfn) /\ CacheEnd(cd_page) = offset_data
    BY <1>1, ReadyPlaces, Places DEF Ready
<1>3. PICK place \in Nat : place = DescPlace(pfn) /\ place <= PageStart
    BY <1>1, Places
<1>4. PICK off \in PageStart .. offset_data, size \in Sizes :
         PageStored(cd_header, cd_page, file, p, off, size)
    BY DEF ContentInv
<1>5. off \in Nat /\ PageStart <= off /\ size \in Nat \ {0}
    <2>1. size \in Nat \ {0}
        BY SizeType
    <2> QED
        BY <1>1, <1>2, <2>1, SMTT(20)
<1>6. /\ FileOK(d.file) /\ SameOutside(file, d.file, cd_page.offset, offset_data)
      /\ \A o \in Nat : \A x : Stored(cd_page, file, o, x) =>
                               Stored(EmptyCache(offset_data), d.file, o, x)
    BY <1>2, FlushIs
<1>7. \A o \in Nat : \A x : Stored(cd_page, file, o, x) =>
                            o \in DOMAIN d.file.cells /\ d.file.cells[o] = x
    <2>1. \A o \in Nat : \A x : Stored(EmptyCache(offset_data), d.file, o, x) =>
                               o \in DOMAIN d.file.cells /\ d.file.cells[o] = x
        BY <1>1, EmptyCacheOK, SMTT(20) DEF Stored
    <2> QED
        BY <1>6, <2>1
<1>8. PICK buf \in Seq(DescWords), o \in Nat \ {0} :
         buf = cd_header.buf /\ o = cd_header.offset
    BY <1>2 DEF CacheOK
<1>9. PICK len \in Nat : len = Len(buf)
    BY <1>8, SeqLen
<1>10. FileOK(h.file) /\ \E m \in 0 .. len : Wrote(d.file, o, buf, m, h)
    BY <1>6, <1>8, <1>9, WriteBufferIs DEF WriteCdBuf
<1>11. PICK m \in 0 .. len : Wrote(d.file, o, buf, m, h)
    BY <1>10
<1>12. o + len = place
    BY <1>2, <1>3, <1>8, <1>9 DEF CacheEnd
<1>13. ASSUME NEW x \in Nat, x < o \/ o + m <= x, x \in DOMAIN d.file.cells
       PROVE  x \in DOMAIN h.file.cells /\ h.file.cells[x] = d.file.cells[x]
    <2>1. x \notin o .. o + m - 1
        BY <1>13, SMTT(20)
    <2> QED
        BY <1>11, <1>13, <2>1 DEF Wrote
<1>14. ASSUME NEW j \in 1 .. size
       PROVE  /\ off + j - 1 \in DOMAIN h.file.cells
              /\ h.file.cells[off + j - 1] = DataOf(p, size)[j]
    <2>1. PICK y \in Nat : y = off + j - 1 /\ PageStart <= y
        BY <1>2, <1>5, SMTT(20)
    <2>2. Stored(cd_page, file, y, DataOf(p, size)[j])
        BY <1>4, <2>1 DEF PageStored, AllStored
    <2>3. y \in DOMAIN d.file.cells /\ d.file.cells[y] = DataOf(p, size)[j]
        BY <1>7, <2>2
    <2>4. o + m <= y
        BY <1>2, <1>3, <1>9, <1>12, <2>1, SMTT(20)
    <2> QED
        BY <1>13, <2>1, <2>3, <2>4
<1>15. PICK t \in Nat : t = DescPlace(p) /\ t < PageStart /\ DataPresent(h.file, p, off, size)
    BY <1>1, <1>14, DescRoom, SMTT(20) DEF DataPresent
<1>16. Stored(cd_header, file, t, Descriptor(off, size)[1])
    <2>1. t + 1 - 1 = t /\ 1 \in 1 .. DescSize
        BY <1>15, SMTT(20) DEF DescSize
    <2> QED
        BY <1>4, <1>15, <2>1 DEF PageStored, AllStored
<1>17. t \in DOMAIN d.file.cells <=> t \in DOMAIN file.cells
    BY <1>2, <1>6, <1>15, SMTT(20) DEF SameOutside
<1>18. CASE t < o
    <2>1. t \in DOMAIN file.cells /\ file.cells[t] = Descriptor(off, size)[1]
        BY <1>8, <1>16, <1>18, SMTT(20) DEF Stored
    <2>2. d.file.cells[t] = file.cells[t]
        BY <1>2, <1>6, <1>15, <2>1, SMTT(20) DEF SameOutside
    <2>3. t \in DOMAIN h.file.cells /\ h.file.cells[t] = Descriptor(off, size)[1]
        BY <1>13, <1>17, <1>18, <2>1, <2>2
    <2> QED
        BY <1>5, <1>15, <2>3, DescAndData
<1>19. CASE t \in o .. o + m - 1
    <2>1. ~ (t < o)
        BY <1>19, SMTT(20)
    <2>2. buf[t - o + 1] = Descriptor(off, size)[1]
        BY <1>8, <1>16, <2>1 DEF Stored
    <2>3. t \in DOMAIN h.file.cells /\ h.file.cells[t] = Descriptor(off, size)[1]
        BY <1>11, <1>19, <2>2 DEF Wrote
    <2> QED
        BY <1>5, <1>15, <2>3, DescAndData
<1>20. CASE ~ (t < o) /\ t \notin o .. o + m - 1
    <2>1. t \notin DOMAIN file.cells
        BY <1>2, <1>8, <1>15, <1>20, SMTT(20) DEF InStep, NoStrayDesc
    <2>2. t \notin DOMAIN h.file.cells
        BY <1>11, <1>17, <1>20, <2>1 DEF Wrote
    <2> QED
        BY <1>15, <2>2, NoDesc
<1> QED
    BY <1>18, <1>19, <1>20
-----------------------------------------------------------------------------
(***************************************************************************)
(* get_nr_pages(): in a file that is not too large for an int, it counts   *)
(* descriptors whose data are all in the file.                             *)
(***************************************************************************)
LEMMA AsIntSmall ==
    ASSUME NEW v \in Nat, v < IntHalf
    PROVE  AsInt(v) = v
<1>1. IntHalf \in Nat \ {0}
    <2>1. PICK h \in Nat : h = IntHalf
        BY PagesAssumption
    <2>2. h \in Nat \ {0}
        BY <2>1, SMTT(20)
    <2> QED
        BY <2>1, <2>2
<1>2. (v + IntHalf) % (2 * IntHalf) = v + IntHalf
    <2>1. PICK a \in Nat, b \in Nat \ {0} : a = v + IntHalf /\ b = 2 * IntHalf
        BY <1>1, SMTT(20)
    <2>2. a < b
        BY <1>1, <2>1, SMTT(20)
    <2>3. a % b = a
        BY <2>2, SMTT(20)
    <2> QED
        BY <2>1, <2>3
<1> QED
    BY <1>1, <1>2, SMTT(20) DEF AsInt

SumStep(buf, n, f) ==
    [k \in 0 .. n |-> IF k = 0 THEN 0 ELSE f[k - 1] + SizeWord(buf, k)]

\* The sum of the first sizes is the distance of the offsets.
LEMMA SizeSumIs ==
    ASSUME NEW buf \in Seq(DescWords), NEW n \in Nat, NEW low, NEW end,
           Whole(buf, n, low, end), PageSize < IntHalf
    PROVE  /\ NumDescriptors(buf) = n
           /\ \A k \in 1 .. n :
                 SizeSum(buf)[k] = OffsetIn(buf, k) + SizeIn(buf, k) - OffsetIn(buf, 1)
<1>1. DescSize = 3 /\ PageSize \in Nat /\ IntHalf \in Nat
    BY SizesAssumption, PagesAssumption DEF DescSize
<1>2. NumDescriptors(buf) = n
    <2>1. Len(buf) = 3 * n
        BY <1>1 DEF Whole
    <2>2. (3 * n + 1) \div 3 = n
        BY SMTT(20)
    <2> QED
        BY <1>1, <2>1, <2>2 DEF NumDescriptors
<1>3. \A k \in 1 .. n : OffsetIn(buf, k) \in Nat /\ SizeIn(buf, k) \in Nat
                        /\ SizeIn(buf, k) <= PageSize
    BY <1>1, SMTT(20) DEF Whole
<1>4. \A k \in 1 .. n - 1 : OffsetIn(buf, k + 1) = OffsetIn(buf, k) + SizeIn(buf, k)
    BY DEF Whole
<1>5. ASSUME NEW k \in 1 .. n
      PROVE  SizeWord(buf, k) = SizeIn(buf, k)
    <2>1. SizeIn(buf, k) \in Nat /\ SizeIn(buf, k) < IntHalf
        BY <1>1, <1>3, SMTT(20)
    <2> QED
        BY <2>1, AsIntSmall DEF SizeWord, SizeIn
<1>6. PICK g : g = [k \in 0 .. n |-> IF k = 0 THEN 0
                      ELSE OffsetIn(buf, k) + SizeIn(buf, k) - OffsetIn(buf, 1)]
    OBVIOUS
<1>7. ASSUME NEW k \in 1 .. n
      PROVE  g[k] = g[k - 1] + SizeWord(buf, k)
    <2>1. g[k] = OffsetIn(buf, k) + SizeIn(buf, k) - OffsetIn(buf, 1)
        BY <1>6, SMTT(20)
    <2>2. CASE k = 1
        <3>1. g[k - 1] = 0
            BY <1>6, <2>2, SMTT(20)
        <3> QED
            BY <1>3, <1>5, <2>1, <2>2, <3>1, SMTT(20)
    <2>3. CASE k # 1
        <3>1. PICK i \in 1 .. n - 1 : i = k - 1 /\ i \in 1 .. n /\ 1 \in 1 .. n
            BY <2>3, SMTT(20)
        <3>2. g[i] = OffsetIn(buf, i) + SizeIn(buf, i) - OffsetIn(buf, 1)
            BY <1>6, <3>1, SMTT(20)
        <3>3. OffsetIn(buf, k) = OffsetIn(buf, i) + SizeIn(buf, i)
            <4>1. i + 1 = k
                BY <3>1, SMTT(20)
            <4> QED
                BY <1>4, <4>1
        <3>4. /\ OffsetIn(buf, i) \in Nat /\ SizeIn(buf, i) \in Nat
              /\ OffsetIn(buf, 1) \in Nat /\ SizeIn(buf, k) \in Nat
            BY <1>3, <3>1
        <3>5. g[k] = g[i] + SizeIn(buf, k)
            BY <2>1, <3>2, <3>3, <3>4, SMTT(20)
        <3> QED
            BY <1>5, <3>1, <3>5
    <2> QED
        BY <2>2, <2>3
<1>8. g = SumStep(buf, n, g)
    <2>1. ASSUME NEW k \in 0 .. n
          PROVE  g[k] = IF k = 0 THEN 0 ELSE g[k - 1] + SizeWord(buf, k)
        <3>1. CASE k = 0
            BY <1>6, <3>1
        <3>2. CASE k # 0
            BY <1>7, <3>2, SMTT(20)
        <3> QED
            BY <3>1, <3>2
    <2>2. g = [k \in 0 .. n |-> g[k]]
        BY <1>6
    <2> QED
        BY <2>1, <2>2 DEF SumStep
<1>9. PICK s : s = SizeSum(buf) /\ s = SumStep(buf, n, s)
    <2>1. SizeSum(buf) = CHOOSE f : f = SumStep(buf, n, f)
        BY <1>2 DEF SizeSum, SumStep
    <2> QED
        BY <1>8, <2>1
<1>10. /\ s[0] = 0 /\ g[0] = 0
       /\ \A k \in 1 .. n : s[k] = s[k - 1] + SizeWord(buf, k)
    BY <1>6, <1>9, SMTT(20) DEF SumStep
<1>11. \A k \in 0 .. n : s[k] = g[k]
    <2> SUFFICES ASSUME NEW x \in 0 .. n, s[x] # g[x] PROVE FALSE
        OBVIOUS
    <2> DEFINE T == {k \in 0 .. n : s[k] # g[k]}
    <2>1. T \in SUBSET Nat /\ T # {}
        BY SMTT(20)
    <2>2. PICK k \in T : \A j \in T : k <= j
        BY <2>1, LeastNatural
    <2>3. k \in 0 .. n /\ s[k] # g[k] /\ \A j \in 0 .. n : s[j] # g[j] => k <= j
        BY <2>2
    <2>4. k # 0
        BY <1>10, <2>3
    <2>5. k \in 1 .. n /\ k - 1 \in 0 .. n /\ ~ (k <= k - 1)
        BY <2>3, <2>4, SMTT(20)
    <2>6. s[k - 1] = g[k - 1]
        BY <2>3, <2>5
    <2> QED
        BY <1>7, <1>10, <2>3, <2>5, <2>6
<1>12. \A k \in 1 .. n : k \in 0 .. n /\ k # 0
    BY SMTT(20)
<1> QED
    BY <1>2, <1>6, <1>9, <1>11, <1>12

LEMMA Below ==
    ASSUME NEW a \in Nat, NEW m \in Nat, NEW o \in Nat, NEW z \in Nat,
           NEW first \in Nat, NEW end \in Nat,
           o + z - first <= end - a, first <= a, end <= a + m
    PROVE  o + z <= a + m
BY SMTT(20)

LEMMA NumPagesKept ==
    ASSUME NEW buf \in Seq(DescWords), NEW nd \in Nat, NEW a \in Nat, NEW len \in Nat,
           Whole(buf, nd, a, a + len), PageSize < IntHalf, NEW m \in Nat, m < len,
           NEW g, FileEnd(g) \in Nat, FileEnd(g) < IntHalf, FileEnd(g) <= a + m,
           NEW n \in NumPages(buf, g, a)
    PROVE  /\ n \in 0 .. nd
           /\ \A k \in 1 .. n : OffsetIn(buf, k) + SizeIn(buf, k) <= a + m
<1>1. PICK end \in Nat : end = FileEnd(g) /\ AsInt(FileEnd(g)) = end /\ end <= a + m
    BY AsIntSmall
<1>2. PICK sum : sum = SizeSum(buf)
    OBVIOUS
<1>3. /\ NumDescriptors(buf) = nd
      /\ \A k \in 1 .. nd :
            sum[k] = OffsetIn(buf, k) + SizeIn(buf, k) - OffsetIn(buf, 1)
    BY <1>2, SizeSumIs
<1>4. /\ \A k \in 1 .. nd : OffsetIn(buf, k) \in Nat /\ SizeIn(buf, k) \in Nat
      /\ nd > 0 => /\ OffsetIn(buf, 1) <= a
                   /\ OffsetIn(buf, nd) + SizeIn(buf, nd) = a + len
      /\ nd = 0 => a = a + len
    BY SizesAssumption, SMTT(20) DEF Whole
<1>5. nd > 0
    BY <1>4, SMTT(20)
<1>6. PICK first \in Nat : first = OffsetIn(buf, 1) /\ first <= a
    <2>1. 1 \in 1 .. nd
        BY <1>5, SMTT(20)
    <2> QED
        BY <1>4, <1>5, <2>1
<1>7. PICK present : present = end - a
    OBVIOUS
<1>8. nd \notin Fit(nd, sum, present)
    <2> SUFFICES ASSUME nd \in Fit(nd, sum, present) PROVE FALSE
        OBVIOUS
    <2>1. nd \in 1 .. nd
        BY <1>5, SMTT(20)
    <2>2. sum[nd] <= end - a
        BY <1>7, <2>1 DEF Fit
    <2>3. sum[nd] = (a + len) - first
        BY <1>3, <1>4, <1>5, <1>6, <2>1, SMTT(20)
    <2> QED
        BY <1>1, <1>6, <2>2, <2>3, SMTT(20)
<1>9. n = LastFit(nd, sum, present)
    <2>1. ~ (AsInt(FileEnd(g)) < 0)
        BY <1>1, SMTT(20)
    <2>2. NumPages(buf, g, a) = {LastFit(nd, sum, present)}
        BY <1>1, <1>2, <1>3, <1>7, <1>8, <2>1, NumPagesIs, SMTT(20)
    <2> QED
        BY <2>2
<1>10. n \in 0 .. nd /\ \A j \in 1 .. n : sum[j] <= end - a
    <2>1. n \in Fit(nd, sum, present)
        BY <1>9, FitHasMax
    <2> QED
        BY <1>7, <2>1 DEF Fit
<1>11. ASSUME NEW k \in 1 .. n
       PROVE  OffsetIn(buf, k) + SizeIn(buf, k) <= a + m
    <2>1. k \in 1 .. nd
        BY <1>10, SMTT(20)
    <2>2. PICK o \in Nat, z \in Nat : o = OffsetIn(buf, k) /\ z = SizeIn(buf, k)
        BY <1>4, <2>1
    <2>3. sum[k] = o + z - first
        BY <1>3, <1>6, <2>1, <2>2
    <2>4. sum[k] <= end - a
        BY <1>10
    <2>5. o + z - first <= end - a
        BY <2>3, <2>4
    <2>6. o + z <= a + m
        BY <1>1, <1>6, <2>2, <2>5, Below
    <2> QED
        BY <2>2, <2>6
<1> QED
    BY <1>10, <1>11
LEMMA FileEndBelow ==
    ASSUME NEW f, FileOK(f), NEW top \in Nat, \A x \in DOMAIN f.cells : x < top
    PROVE  FileEnd(f) \in Nat /\ FileEnd(f) <= top
<1>1. CASE DOMAIN f.cells = {}
    BY <1>1, SMTT(20) DEF FileEnd
<1>2. CASE DOMAIN f.cells # {}
    <2>1. PICK o \in DOMAIN f.cells : TRUE
        BY <1>2
    <2>2. FileEnd(f) \in Nat /\ FileEnd(f) - 1 \in DOMAIN f.cells
        BY <2>1, FileEndIs
    <2>3. FileEnd(f) - 1 < top
        BY <2>2
    <2> QED
        BY <2>2, <2>3, SMTT(20)
<1> QED
    BY <1>1, <1>2

(***************************************************************************)
(* The file after write_kdump_page() wrote all of cd_header, m words of    *)
(* cd_page, and zeros over all but the first c words of cd_header.         *)
(***************************************************************************)
PageFlushed(f, o, buf, a, pbuf, m, c, g) ==
    /\ DOMAIN g.cells = (o .. o + Len(buf) - 1) \cup (a .. a + m - 1) \cup DOMAIN f.cells
    /\ \A x \in o .. o + c - 1 : g.cells[x] = buf[x - o + 1]
    /\ \A x \in o + c .. o + Len(buf) - 1 : g.cells[x] = Zero
    /\ \A x \in a .. a + m - 1 : g.cells[x] = pbuf[x - a + 1]
    /\ \A x \in DOMAIN f.cells :
          x \notin (o .. o + Len(buf) - 1) \cup (a .. a + m - 1) =>
              g.cells[x] = f.cells[x]

LEMMA AfterPageFlush ==
    ASSUME NEW f, FileOK(f), NEW o \in Nat \ {0}, NEW buf \in Seq(DescWords),
           NEW len \in Nat, len = Len(buf), NEW a \in Nat, o + len <= a,
           NEW pbuf, NEW m \in Nat, NEW h, NEW d, FileOK(d.file),
           Wrote(f, o, buf, len, h), Wrote(h.file, a, pbuf, m, d),
           NEW c \in 0 .. len, NEW w, w = WriteBuffer(d.file, o + c, ZeroWords(len - c))
    PROVE  PageFlushed(f, o, buf, a, pbuf, m, c, w.file)
<1>1. PICK z \in Nat \ {0}, left \in Nat : z = o + c /\ left = len - c /\ z + left = o + len
    <2>1. o + c \in Nat \ {0} /\ len - c \in Nat /\ (o + c) + (len - c) = o + len
        BY SMTT(20)
    <2> QED
        BY <2>1
<1>2. PICK zw \in Seq(DescWords) : /\ zw = ZeroWords(left) /\ Len(zw) = left
                                   /\ \A j \in 1 .. left : zw[j] = Zero
    BY <1>1, ZeroCache
<1>3. w = WriteBuffer(d.file, z, zw)
    BY <1>1, <1>2
<1>4. PICK k \in 0 .. left : Wrote(d.file, z, zw, k, w)
    BY <1>1, <1>2, <1>3, WriteBufferIs
<1>5. DOMAIN h.file.cells = (o .. o + len - 1) \cup DOMAIN f.cells
    BY DEF Wrote
<1>6. DOMAIN d.file.cells = (a .. a + m - 1) \cup DOMAIN h.file.cells
    BY DEF Wrote
<1>7. k = left
    <2>1. z .. z + left - 1 \subseteq o .. o + len - 1
        BY <1>1, SMTT(20)
    <2>2. z .. z + left - 1 \subseteq DOMAIN d.file.cells
        BY <1>5, <1>6, <2>1
    <2>3. left <= k
        <3>1. \A i \in 0 .. left : z .. z + i - 1 \subseteq DOMAIN d.file.cells => i <= k
            BY <1>2, <1>4 DEF Wrote
        <3>2. left \in 0 .. left
            BY SMTT(20)
        <3> QED
            BY <2>2, <3>1, <3>2
    <2> QED
        BY <2>3, SMTT(20)
<1>8. DOMAIN w.file.cells = (z .. z + left - 1) \cup DOMAIN d.file.cells
    BY <1>4, <1>7 DEF Wrote
<1>9. DOMAIN w.file.cells = (o .. o + len - 1) \cup (a .. a + m - 1) \cup DOMAIN f.cells
    <2>1. z .. z + left - 1 \subseteq o .. o + len - 1
        BY <1>1, SMTT(20)
    <2> QED
        BY <1>5, <1>6, <1>8, <2>1
<1>10. ASSUME NEW x \in z .. z + left - 1
       PROVE  w.file.cells[x] = Zero
    <2>1. w.file.cells[x] = zw[x - z + 1] /\ x - z + 1 \in 1 .. left
        BY <1>4, <1>7, SMTT(20) DEF Wrote
    <2> QED
        BY <1>2, <2>1
<1>11. ASSUME NEW x \in DOMAIN d.file.cells, x \notin z .. z + left - 1
       PROVE  w.file.cells[x] = d.file.cells[x]
    BY <1>4, <1>7, <1>11 DEF Wrote
<1>12. ASSUME NEW x \in o .. o + c - 1
       PROVE  w.file.cells[x] = buf[x - o + 1]
    <2>1. x \in o .. o + len - 1 /\ x \notin a .. a + m - 1 /\ x \notin z .. z + left - 1
        BY <1>1, SMTT(20)
    <2>2. h.file.cells[x] = buf[x - o + 1] /\ x \in DOMAIN h.file.cells
        BY <1>5, <2>1 DEF Wrote
    <2>3. d.file.cells[x] = h.file.cells[x] /\ x \in DOMAIN d.file.cells
        BY <1>6, <2>1, <2>2 DEF Wrote
    <2> QED
        BY <1>11, <2>1, <2>2, <2>3
<1>13. ASSUME NEW x \in a .. a + m - 1
       PROVE  w.file.cells[x] = pbuf[x - a + 1]
    <2>1. x \notin z .. z + left - 1
        BY <1>1, SMTT(20)
    <2>2. d.file.cells[x] = pbuf[x - a + 1] /\ x \in DOMAIN d.file.cells
        BY <1>6 DEF Wrote
    <2> QED
        BY <1>11, <2>1, <2>2
<1>14. ASSUME NEW x \in DOMAIN f.cells, x \notin (o .. o + len - 1) \cup (a .. a + m - 1)
       PROVE  w.file.cells[x] = f.cells[x]
    <2>1. x \notin z .. z + left - 1
        <3>1. z .. z + left - 1 \subseteq o .. o + len - 1
            BY <1>1, SMTT(20)
        <3> QED
            BY <1>14, <3>1
    <2>2. h.file.cells[x] = f.cells[x] /\ x \in DOMAIN h.file.cells
        BY <1>5, <1>14 DEF Wrote
    <2>3. d.file.cells[x] = h.file.cells[x] /\ x \in DOMAIN d.file.cells
        BY <1>6, <1>14, <2>2 DEF Wrote
    <2> QED
        BY <1>11, <2>1, <2>2, <2>3
<1> QED
    BY <1>1, <1>9, <1>10, <1>12, <1>13, <1>14, SMTT(20) DEF PageFlushed

\* After m words of the page cache were written and all but the first n of
\* the nd descriptors overwritten with zeros, the file is g.
LeftInFile(o, buf, nd, a, pbuf, m, n, g) ==
    /\ o = cd_header.offset /\ buf = cd_header.buf /\ buf \in Seq(DescWords)
    /\ a = cd_page.offset /\ pbuf = cd_page.buf
    /\ Len(buf) = 3 * nd
    /\ \A k \in 1 .. n : OffsetIn(buf, k) + SizeIn(buf, k) <= a + m
    /\ PageFlushed(file, o, buf, a, pbuf, m, 3 * n, g)

\* A page whose descriptor is one of the first n of cd_header.
LEMMA CountedPage ==
    ASSUME SerialInv, ContentInv, pc = "pages", NEW p \in Dumpable,
           NEW o \in Nat \ {0}, NEW buf, NEW nd \in Nat, NEW a \in Nat, NEW pbuf,
           NEW m \in Nat, NEW n \in 0 .. nd, NEW g,
           LeftInFile(o, buf, nd, a, pbuf, m, n, g),
           NEW t \in Nat, t = DescPlace(p), o <= t, t < o + 3 * n
    PROVE  NotLost(g, p)
<1>1. /\ memory \in Memories /\ pfn \in Nat /\ offset_data \in Nat
      /\ Ready(cd_header, cd_page, file, DescPlace(pfn), offset_data)
    BY SerialReady DEF Filling
<1>2. PICK pos \in Nat, here \in Nat : pos = PfnToPos(p) /\ here = PfnToPos(pfn)
    BY <1>1, PosType
<1>3. DescSize = 3 /\ t = 1 + 3 * pos /\ DescPlace(pfn) = 1 + 3 * here
    BY <1>2 DEF DescPlace, DescSize, HeaderStart
<1>4. o + 3 * nd = 1 + 3 * here
    <2>1. CacheEnd(cd_header) = DescPlace(pfn)
        BY <1>1 DEF Ready
    <2> QED
        BY <1>3, <2>1 DEF CacheEnd, LeftInFile
<1>5. 3 * n <= 3 * nd /\ o <= t /\ t < o + 3 * n
    BY SMTT(20)
<1>6. PICK k \in 1 .. n : t = o + 3 * (k - 1)
    <2>1. PICK k \in Int : k = pos - here + nd + 1
        BY SMTT(20)
    <2>2. t - o = 3 * (k - 1)
        BY <1>3, <1>4, <2>1, SMTT(20)
    <2>3. k \in 1 .. n
        BY <1>5, <2>2, SMTT(20)
    <2>4. t = o + 3 * (k - 1)
        BY <2>2, SMTT(20)
    <2> QED
        BY <2>3, <2>4
<1>7. p < pfn
    <2>1. DescPlace(p) < DescPlace(pfn)
        BY <1>3, <1>4, <1>5, SMTT(20)
    <2>2. p \in Nat
        BY <1>1, PosType
    <2>3. DescPlace(p) \in Nat /\ DescPlace(pfn) \in Nat
        BY <1>3, SMTT(20)
    <2> QED
        BY <1>1, <2>1, <2>2, <2>3, PlacesOrdered, SMTT(20)
<1>8. PICK off \in PageStart .. offset_data, size \in Sizes :
         PageStored(cd_header, cd_page, file, p, off, size)
    BY <1>7 DEF ContentInv
<1>9. PageStart \in Nat /\ off \in Nat /\ PageStart <= off /\ size \in Nat \ {0}
    <2>1. PageStart \in Nat
        BY <1>1, Places
    <2>2. size \in Nat \ {0}
        BY SizeType
    <2> QED
        BY <1>1, <2>1, <2>2, SMTT(20)
<1>10. \A j \in 1 .. 2 : buf[3 * (k - 1) + j] = Descriptor(off, size)[j]
    <2> SUFFICES ASSUME NEW j \in 1 .. 2
                 PROVE  buf[3 * (k - 1) + j] = Descriptor(off, size)[j]
        OBVIOUS
    <2>1. PICK y \in Nat : y = t + j - 1
        BY SMTT(20)
    <2>2. ~ (y < o) /\ y - o + 1 = 3 * (k - 1) + j
        <3>1. PICK i \in Nat : i = j
            BY SMTT(20)
        <3>2. PICK b \in Nat : b = k - 1 /\ t = o + 3 * b
            BY <1>6, SMTT(20)
        <3>3. i >= 1 /\ y = t + i - 1
            BY <2>1, <3>1, SMTT(20)
        <3>4. y - o + 1 = 3 * b + i /\ y >= o
            BY <3>2, <3>3, SMTT(20)
        <3>5. ~ (y < o)
            BY <3>4, SMTT(20)
        <3> QED
            BY <3>1, <3>2, <3>4, <3>5
    <2>3. Stored(cd_header, file, y, Descriptor(off, size)[j])
        <3>1. j \in 1 .. DescSize
            BY <1>3, SMTT(20)
        <3>2. Stored(cd_header, file, DescPlace(p) + j - 1, Descriptor(off, size)[j])
            BY <1>8, <3>1 DEF PageStored, AllStored
        <3> QED
            BY <2>1, <3>2
    <2> QED
        BY <2>2, <2>3 DEF Stored, LeftInFile
<1>11. off + size <= a + m
    <2>1. OffsetIn(buf, k) = off /\ SizeIn(buf, k) = size
        BY <1>3, <1>10, SMTT(20) DEF OffsetIn, SizeIn, Descriptor
    <2> QED
        BY <2>1 DEF LeftInFile
<1>12. a + Len(cd_page.buf) = offset_data /\ PageStart <= a /\ o + Len(buf) <= PageStart
    <2>1. CacheEnd(cd_page) = offset_data /\ PageStart <= a
        BY <1>1 DEF Ready, LeftInFile
    <2>2. DescPlace(pfn) <= PageStart
        BY <1>1, Places
    <2> QED
        BY <1>3, <1>4, <2>1, <2>2 DEF CacheEnd, LeftInFile
<1>13. ASSUME NEW j \in 1 .. size
       PROVE  /\ off + j - 1 \in DOMAIN g.cells
              /\ g.cells[off + j - 1] = DataOf(p, size)[j]
    <2>1. PICK y \in Nat : y = off + j - 1 /\ PageStart <= y /\ y < a + m
        <3>1. PICK s \in Nat, u \in Nat, v \in Nat : s = size /\ u = PageStart /\ v = a + m
            BY <1>9, SMTT(20)
        <3>2. off + j - 1 \in Nat /\ u <= off + j - 1 /\ off + j - 1 < v
            BY <1>9, <1>11, <3>1, SMTT(20)
        <3> QED
            BY <3>1, <3>2
    <2>2. Stored(cd_page, file, y, DataOf(p, size)[j])
        BY <1>8, <2>1 DEF PageStored, AllStored
    <2>3. CASE y < a
        <3>1. y \in DOMAIN file.cells /\ file.cells[y] = DataOf(p, size)[j]
            BY <2>2, <2>3, SMTT(20) DEF Stored, LeftInFile
        <3>2. y \notin (o .. o + Len(buf) - 1) \cup (a .. a + m - 1)
            <4>1. PICK e \in Nat : e = o + Len(buf)
                BY SMTT(20) DEF LeftInFile
            <4>2. e <= y
                BY <1>9, <1>12, <2>1, <4>1, SMTT(20)
            <4>3. y \notin o .. e - 1
                BY <4>2, SMTT(20)
            <4>4. y \notin a .. a + m - 1
                BY <2>3, SMTT(20)
            <4> QED
                BY <4>1, <4>3, <4>4, SMTT(20)
        <3> QED
            BY <2>1, <3>1, <3>2 DEF PageFlushed, LeftInFile
    <2>4. CASE ~ (y < a)
        <3>1. pbuf[y - a + 1] = DataOf(p, size)[j]
            BY <2>2, <2>4 DEF Stored, LeftInFile
        <3>2. y \in a .. a + m - 1
            BY <2>1, <2>4, SMTT(20)
        <3> QED
            BY <2>1, <3>1, <3>2 DEF PageFlushed, LeftInFile
    <2> QED
        BY <2>3, <2>4
<1>14. t \in DOMAIN g.cells /\ g.cells[t] = Descriptor(off, size)[1]
    <2>1. t \in o .. o + 3 * n - 1
        BY <1>3, <1>5, SMTT(20)
    <2>2. t \in o .. o + Len(buf) - 1
        BY <1>5, SMTT(20) DEF LeftInFile
    <2>3. t \in DOMAIN g.cells /\ g.cells[t] = buf[t - o + 1]
        BY <2>1, <2>2 DEF PageFlushed, LeftInFile
    <2>4. t - o + 1 = 3 * (k - 1) + 1
        BY <1>6, SMTT(20)
    <2>5. buf[3 * (k - 1) + 1] = Descriptor(off, size)[1]
        BY <1>10, SMTT(20)
    <2> QED
        BY <2>3, <2>4, <2>5
<1>15. DataPresent(g, p, off, size)
    BY <1>13 DEF DataPresent
<1> QED
    BY <1>9, <1>14, <1>15, DescAndData
\* A file that has the words of another does not end before it.
LEMMA FileEndGrows ==
    ASSUME NEW f, FileOK(f), NEW g, FileOK(g), DOMAIN f.cells \subseteq DOMAIN g.cells
    PROVE  FileEnd(f) \in Nat /\ FileEnd(g) \in Nat /\ FileEnd(f) <= FileEnd(g)
<1>1. FileEnd(g) \in Nat
    <2>1. CASE DOMAIN g.cells = {}
        BY <2>1, SMTT(20) DEF FileEnd
    <2>2. ASSUME NEW o \in DOMAIN g.cells
          PROVE  FileEnd(g) \in Nat
        BY FileEndIs
    <2> QED
        BY <2>1, <2>2
<1>2. CASE DOMAIN f.cells = {}
    BY <1>1, <1>2, SMTT(20) DEF FileEnd
<1>3. ASSUME NEW o \in DOMAIN f.cells
      PROVE  FileEnd(f) \in Nat /\ FileEnd(f) <= FileEnd(g)
    <2>1. FileEnd(f) \in Nat /\ FileEnd(f) - 1 \in DOMAIN g.cells
        BY FileEndIs
    <2>2. FileEnd(f) - 1 + 1 <= FileEnd(g)
        BY <2>1, FileEndIs
    <2> QED
        BY <1>1, <2>1, <2>2, SMTT(20)
<1> QED
    BY <1>1, <1>2, <1>3

\* The page cache did not fit.
LEMMA PagesLeft ==
    ASSUME SerialInv, Filling, InStep(cd_header, cd_page, file),
           NEW h, h = WriteCdBuf(cd_header, file), h.ok,
           NEW d, d = WriteCdBuf(cd_page, h.file), ~ d.ok, FileEnd(d.file) < IntHalf,
           NEW n \in NumPages(cd_header.buf, d.file, cd_page.offset),
           NEW o, o = cd_header.offset, NEW a, a = cd_page.offset
    PROVE  /\ o \in Nat \ {0} /\ a \in Nat
           /\ \E nd \in Nat, m \in Nat :
                 /\ n \in 0 .. nd /\ Len(cd_header.buf) = 3 * nd
                 /\ o + 3 * nd = DescPlace(pfn)
                 /\ LeftInFile(o, cd_header.buf, nd, a, cd_page.buf, m, n,
                       WriteBuffer(d.file, o + 3 * n, ZeroWords(3 * nd - 3 * n)).file)
<1>1. /\ memory \in Memories
      /\ Ready(cd_header, cd_page, file, DescPlace(pfn), offset_data)
    BY SerialReady
<1>2. /\ CacheOK(cd_header, DescWords) /\ CacheOK(cd_page, DataWords) /\ FileOK(file)
      /\ o \in Nat \ {0} /\ a \in Nat \ {0}
    BY <1>1, ReadyPlaces DEF Ready
<1>3. PICK buf \in Seq(DescWords), pbuf \in Seq(DataWords) :
         buf = cd_header.buf /\ pbuf = cd_page.buf
    BY <1>2 DEF CacheOK
<1>4. PICK len \in Nat, plen \in Nat : len = Len(buf) /\ plen = Len(pbuf)
    BY <1>3, SeqLen
<1>5. PICK nd \in Nat : Whole(buf, nd, a, a + plen)
    BY <1>3, <1>4 DEF InStep, CacheEnd
<1>6. DescSize = 3 /\ len = 3 * nd
    BY <1>4, <1>5 DEF Whole, DescSize
<1>7. o + len <= a /\ o + len = DescPlace(pfn)
    <2>1. CacheEnd(cd_header) = DescPlace(pfn) /\ PageStart <= a
        BY <1>1 DEF Ready
    <2>2. DescPlace(pfn) <= PageStart /\ PageStart \in Nat /\ DescPlace(pfn) \in Nat
        BY <1>1, Places
    <2>3. o + len = DescPlace(pfn)
        BY <1>3, <1>4, <2>1 DEF CacheEnd
    <2> QED
        BY <1>2, <2>1, <2>2, <2>3, SMTT(20)
<1>8. h = WriteBuffer(file, o, buf) /\ d = WriteBuffer(h.file, a, pbuf)
    BY <1>3 DEF WriteCdBuf
<1>9. FileOK(h.file) /\ Wrote(file, o, buf, len, h)
    <2>1. FileOK(h.file) /\ \E i \in 0 .. Len(buf) : Wrote(file, o, buf, i, h)
        BY <1>2, <1>8, WriteBufferIs
    <2> QED
        BY <1>4, <2>1 DEF Wrote
<1>10. FileOK(d.file)
    BY <1>2, <1>8, <1>9, WriteBufferIs
<1>11. PICK m \in 0 .. plen : Wrote(h.file, a, pbuf, m, d)
    BY <1>2, <1>4, <1>8, <1>9, WriteBufferIs
<1>12. m < plen
    BY <1>4, <1>11, SMTT(20) DEF Wrote
<1>13. PageSize < IntHalf
    BY PagesAssumption
<1>14. \A x \in DOMAIN d.file.cells : x < a + m
    <2>1. PICK k \in 0 .. plen : OnlyPrefix(cd_page, file, k)
        BY <1>3, <1>4 DEF InStep
    <2>2. DOMAIN h.file.cells = (o .. o + len - 1) \cup DOMAIN file.cells
        BY <1>9 DEF Wrote
    <2>3. DOMAIN d.file.cells = (a .. a + m - 1) \cup DOMAIN h.file.cells
        BY <1>11 DEF Wrote
    <2>4. k <= m
        <3>1. a .. a + k - 1 \subseteq DOMAIN h.file.cells
            BY <2>1, <2>2 DEF OnlyPrefix
        <3>2. \A i \in 0 .. plen : a .. a + i - 1 \subseteq DOMAIN h.file.cells => i <= m
            BY <1>4, <1>11 DEF Wrote
        <3> QED
            BY <3>1, <3>2
    <2>5. \A x \in DOMAIN file.cells : x < a + k /\ x \in Nat
        BY <1>2, <2>1 DEF OnlyPrefix, FileOK
    <2>6. \A x \in DOMAIN file.cells : x < a + m
        BY <1>2, <2>4, <2>5, SMTT(20)
    <2>7. \A x \in o .. o + len - 1 : x < a + m
        BY <1>2, <1>7, SMTT(20)
    <2>8. \A x \in a .. a + m - 1 : x < a + m
        BY <1>2, SMTT(20)
    <2> QED
        BY <2>2, <2>3, <2>6, <2>7, <2>8
<1>15. FileEnd(d.file) \in Nat /\ FileEnd(d.file) <= a + m /\ FileEnd(d.file) < IntHalf
    <2>1. a + m \in Nat
        BY <1>2, SMTT(20)
    <2> QED
        BY <1>10, <1>14, <2>1, FileEndBelow
<1>16. n \in 0 .. nd /\ \A k \in 1 .. n : OffsetIn(buf, k) + SizeIn(buf, k) <= a + m
    <2>1. a \in Nat /\ m \in Nat /\ n \in NumPages(buf, d.file, a)
        BY <1>2, <1>3, SMTT(20)
    <2> QED
        BY <1>5, <1>12, <1>13, <1>15, <2>1, NumPagesKept
<1>17. PICK c \in 0 .. len : c = 3 * n /\ len - c = 3 * nd - 3 * n
    BY <1>6, <1>16, SMTT(20)
<1>18. PICK w : w = WriteBuffer(d.file, o + c, ZeroWords(len - c))
    OBVIOUS
<1>19. PageFlushed(file, o, buf, a, pbuf, m, c, w.file)
    <2>1. a \in Nat /\ m \in Nat
        BY <1>2, SMTT(20)
    <2> QED
        BY <1>2, <1>4, <1>7, <1>9, <1>10, <1>11, <1>18, <2>1, AfterPageFlush
<1>20. LeftInFile(o, buf, nd, a, pbuf, m, n, w.file)
    BY <1>3, <1>4, <1>6, <1>16, <1>17, <1>19 DEF LeftInFile
<1>21. w = WriteBuffer(d.file, o + 3 * n, ZeroWords(3 * nd - 3 * n))
    BY <1>17, <1>18
<1>22. m \in Nat /\ Len(cd_header.buf) = 3 * nd /\ o + 3 * nd = DescPlace(pfn)
    BY <1>3, <1>4, <1>6, <1>7, SMTT(20)
<1> QED
    BY <1>2, <1>3, <1>16, <1>20, <1>21, <1>22
LEMMA PagesLost ==
    ASSUME SerialInv, ContentInv, pc = "pages", InStep(cd_header, cd_page, file),
           NEW p \in Dumpable,
           NEW o \in Nat \ {0}, NEW buf, NEW nd \in Nat, NEW a \in Nat, NEW pbuf,
           NEW m \in Nat, NEW n \in 0 .. nd, NEW g,
           o + 3 * nd = DescPlace(pfn),
           LeftInFile(o, buf, nd, a, pbuf, m, n, g)
    PROVE  NotLost(g, p)
<1>1. /\ memory \in Memories
      /\ Ready(cd_header, cd_page, file, DescPlace(pfn), offset_data)
    BY SerialReady DEF Filling
<1>2. PICK t \in Nat, start \in Nat : t = DescPlace(p) /\ start = PageStart /\ t < start
    BY <1>1, DescRoom, Places, SMTT(20)
<1>3. o + 3 * nd <= start /\ start <= a
    <2>1. DescPlace(pfn) <= PageStart
        BY <1>1, Places
    <2>2. PageStart <= a
        BY <1>1 DEF Ready, LeftInFile
    <2> QED
        BY <1>2, <2>1, <2>2
<1>4. o = cd_header.offset /\ a = cd_page.offset /\ Len(buf) = 3 * nd /\ FileOK(file)
    BY <1>1 DEF LeftInFile, Ready
<1>5. PageFlushed(file, o, buf, a, pbuf, m, 3 * n, g)
    BY DEF LeftInFile
<1>6. DOMAIN g.cells = (o .. o + 3 * nd - 1) \cup (a .. a + m - 1) \cup DOMAIN file.cells
    BY <1>4, <1>5 DEF PageFlushed
<1>7. CASE t < o
    <2>1. ASSUME NEW x \in DOMAIN file.cells, x < o \/ (PageStart <= x /\ x < a)
          PROVE  x \in DOMAIN g.cells /\ g.cells[x] = file.cells[x]
        <3>1. x \in Nat
            BY <1>4 DEF FileOK
        <3>2. x < o \/ (start <= x /\ x < a)
            BY <1>2, <2>1
        <3>3. x \notin (o .. o + 3 * nd - 1) \cup (a .. a + m - 1)
            BY <1>3, <3>1, <3>2, SMTT(20)
        <3> QED
            BY <1>4, <1>5, <1>6, <3>3 DEF PageFlushed
    <2>2. DataInFile(cd_header, cd_page, file)
        BY DEF InStep
    <2>3. DescPlace(p) < cd_header.offset /\ cd_header.offset \in Nat /\ cd_page.offset \in Nat
        BY <1>2, <1>4, <1>7
    <2> QED
        BY <1>1, <1>4, <2>1, <2>2, <2>3, KeptPage, SMTT(20)
<1>8. CASE o <= t /\ t < o + 3 * n
    BY <1>2, <1>8, CountedPage
<1>9. CASE o + 3 * n <= t /\ t < o + 3 * nd
    <2>1. t \in o + 3 * n .. o + 3 * nd - 1
        BY <1>9, SMTT(20)
    <2>2. g.cells[t] = Zero
        BY <1>4, <1>5, <2>1 DEF PageFlushed
    <2> QED
        BY <1>2, <2>2, NoDesc
<1>10. CASE o + 3 * nd <= t
    <2>1. t \notin DOMAIN file.cells
        BY <1>2, <1>4, <1>10, SMTT(20) DEF InStep, NoStrayDesc
    <2>2. t \notin DOMAIN g.cells
        BY <1>2, <1>3, <1>6, <1>10, <2>1, SMTT(20)
    <2> QED
        BY <1>2, <2>2, NoDesc
<1> QED
    BY <1>7, <1>8, <1>9, <1>10, SMTT(20)
-----------------------------------------------------------------------------
(***************************************************************************)
(* SpaceInv is inductive.                                                  *)
(***************************************************************************)
LEMMA SpaceFilling ==
    ASSUME memory' = memory, pc' # "nospace",
           InStep(cd_header', cd_page', file')
    PROVE  SpaceInv'
<1>1. InStep(cd_header, cd_page, file)'
    BY DEF InStep, DataInFile, NoStrayDesc, PageStored, DescPlace, PfnToPos,
       DataOf, PageStart, Dumpable, ExcludeZero, ZeroPages
<1> QED
    BY <1>1 DEF SpaceInv

LEMMA SpaceOut ==
    ASSUME NEW f, Out(f),
           FileEnd(f) < IntHalf => \A p \in Dumpable : NotLost(f, p)
    PROVE  SpaceInv'
<1>1. file' = f /\ memory' = memory /\ pc' \in {"nospace", "failed"}
    BY DEF Out
<1>2. ASSUME NEW p \in Dumpable', FileEnd(file)' < IntHalf
      PROVE  NotLost(file, p)'
    <2>1. NotLost(f, p)
        BY <1>1, <1>2 DEF Dumpable, FileEnd
    <2>2. DescPlace(p)' = DescPlace(p)
        BY <1>1 DEF DescPlace, PfnToPos, Dumpable
    <2>3. \A off, size : DataPresent(file, p, off, size)' <=> DataPresent(f, p, off, size)
        BY <1>1 DEF DataPresent, DataOf, ExcludeZero, ZeroPages
    <2>4. WordAt(file, DescPlace(p))' = WordAt(f, DescPlace(p))
        BY <1>1, <2>2 DEF WordAt
    <2> QED
        BY <2>1, <2>3, <2>4 DEF NotLost
<1> QED
    BY <1>1, <1>2 DEF SpaceInv, Filling

LEMMA SpaceCached ==
    ASSUME SerialInv, ContentInv, ~ ExcludeZero, SpaceInv,
           NEW p \in Dumpable, NEW size \in Sizes,
           CachePage(p, size) \/ FlushCaches(p, size)
    PROVE  SpaceInv'
<1>1. /\ pc = "pages" /\ Filling /\ At(p)
      /\ memory' = memory /\ pc' = "pages"
    BY DEF CachePage, FlushCaches, Compressed, At, Filling, Cache
<1>2. /\ memory \in Memories /\ pfn \in Nat /\ offset_data \in Nat
      /\ Ready(cd_header, cd_page, file, DescPlace(pfn), offset_data)
      /\ Len(cd_header.buf) \in Nat /\ Len(cd_page.buf) \in Nat
    BY <1>1, SerialReady
<1>3. PICK place \in Nat : /\ place = DescPlace(pfn) /\ place + DescSize <= PageStart
                           /\ place <= PageStart
    <2>1. DescPlace(p) = DescPlace(pfn)
        BY <1>1, <1>2, PosAt DEF DescPlace
    <2>2. /\ DescPlace(p) + DescSize <= PageStart /\ DescPlace(p) \in Nat
          /\ DescSize = 3 /\ PageStart \in Nat
        BY <1>2, DescRoom
    <2> QED
        BY <2>1, <2>2, SMTT(20)
<1>4. size \in Nat /\ size <= PageSize /\ PageSize <= CacheSize /\ CacheSize \in Nat
      /\ DescSize = 3 /\ DescSize < CacheSize /\ PageSize \in Nat /\ p \in Nat
    <2>1. size \in Nat /\ size <= PageSize /\ PageSize \in Nat
        BY SizeType
    <2>2. p \in Nat
        BY <1>2, PosType
    <2> QED
        BY <2>1, <2>2, SizesAssumption, DescAssumption, SMTT(20) DEF DescSize
<1>5. InStep(cd_header, cd_page, file)
    BY <1>1 DEF SpaceInv
<1>6. CASE CachePage(p, size)
    <2>1. ~ NearlyFull(size) /\ Cache(p, size, cd_header, cd_page, file)
        BY <1>6 DEF CachePage
    <2>2. /\ Len(cd_header.buf) + DescSize < CacheSize
          /\ Len(cd_page.buf) + size < CacheSize /\ Len(cd_page.buf) + size <= CacheSize
        BY <1>2, <1>4, <2>1, SMTT(20) DEF NearlyFull
    <2>3. PICK header, page, f : header = cd_header /\ page = cd_page /\ f = file
        OBVIOUS
    <2>4. InStep(cd_header', cd_page', file')
        BY <1>2, <1>3, <1>4, <1>5, <2>1, <2>2, <2>3, InStepCache, SMTT(20)
    <2> QED
        BY <1>1, <2>4, SpaceFilling
<1>7. CASE FlushCaches(p, size)
    <2>1. PICK h, d : h = WriteCdBuf(cd_header, file) /\ d = WriteCdBuf(cd_page, h.file)
        OBVIOUS
    <2>2. CacheEnd(cd_header) = place /\ CacheEnd(cd_page) = offset_data /\ FileOK(file)
        BY <1>2, <1>3 DEF Ready
    <2>3. PICK header, page :
             header = EmptyCache(place) /\ page = EmptyCache(offset_data)
        OBVIOUS
    <2>4. h.ok /\ d.ok /\ Cache(p, size, header, page, d.file)
        BY <1>7, <2>1, <2>2, <2>3 DEF FlushCaches, CacheEnd
    <2>5. Ready(EmptyCache(place), cd_page, h.file, place, offset_data)
        BY <1>2, <1>3, <2>1, <2>4, HeaderFlushed
    <2>6. Ready(header, page, d.file, place, offset_data) /\ FileOK(h.file)
        BY <1>2, <2>1, <2>3, <2>4, <2>5, DataFlushed, SMTT(20) DEF Ready
    <2>7. InStep(header, page, d.file)
        BY <1>1, <1>3, <1>5, <2>1, <2>3, <2>4, InStepFlush
    <2>8. Len(header.buf) = 0 /\ Len(page.buf) = 0
        BY <2>3 DEF EmptyCache
    <2>9. Len(header.buf) + DescSize < CacheSize /\ Len(page.buf) + size <= CacheSize
        BY <1>4, <2>8, SMTT(20)
    <2>10. PICK f : f = d.file
        OBVIOUS
    <2>11. InStep(cd_header', cd_page', file')
        BY <1>2, <1>3, <1>4, <2>3, <2>4, <2>6, <2>7, <2>9, <2>10, InStepCache,
           SMTT(20)
    <2> QED
        BY <1>1, <2>11, SpaceFilling
<1> QED
    BY <1>6, <1>7
LEMMA SpaceHeaderFails ==
    ASSUME SerialInv, ~ ExcludeZero, SpaceInv, NEW p \in Dumpable, NEW size \in Sizes,
           HeaderFlushFails(p, size)
    PROVE  SpaceInv'
<1>1. pc = "pages" /\ Filling
    BY DEF HeaderFlushFails, Compressed, At, Filling
<1>2. InStep(cd_header, cd_page, file)
    BY <1>1 DEF SpaceInv
<1>3. /\ CacheOK(cd_header, DescWords) /\ FileOK(file) /\ cd_header.offset \in Nat \ {0}
    BY <1>1, SerialReady, ReadyPlaces DEF Ready
<1>4. PICK h : h = WriteCdBuf(cd_header, file) /\ FileOK(h.file)
    BY <1>3, FlushIs
<1>5. PICK zeros : zeros = [buf |-> ZeroWords(Len(cd_header.buf)),
                            offset |-> cd_header.offset]
    OBVIOUS
<1>6. [cd_header EXCEPT !.buf = ZeroWords(Len(@))] = zeros
    BY <1>3, <1>5, SMTT(20) DEF CacheOK
<1>7. PICK w : w = WriteCdBuf(zeros, h.file)
    OBVIOUS
<1>8. Out(w.file)
    BY <1>4, <1>6, <1>7 DEF HeaderFlushFails
<1>9. \A q \in Dumpable : NotLost(w.file, q)
    BY <1>1, <1>2, <1>4, <1>5, <1>7, HeaderLost
<1> QED
    BY <1>8, <1>9, SpaceOut

LEMMA SpacePagesFail ==
    ASSUME SerialInv, ContentInv, ~ ExcludeZero, SpaceInv, SerialInv',
           NEW p \in Dumpable, NEW size \in Sizes, PageFlushFails(p, size)
    PROVE  SpaceInv'
<1>1. pc = "pages" /\ Filling
    BY DEF PageFlushFails, Compressed, At, Filling
<1>2. InStep(cd_header, cd_page, file)
    BY <1>1 DEF SpaceInv
<1>3. /\ CacheOK(cd_header, DescWords) /\ CacheOK(cd_page, DataWords) /\ FileOK(file)
      /\ cd_header.offset \in Nat \ {0} /\ cd_page.offset \in Nat \ {0}
    BY <1>1, SerialReady, ReadyPlaces DEF Ready
<1>4. PICK h : h = WriteCdBuf(cd_header, file) /\ FileOK(h.file)
    BY <1>3, FlushIs
<1>5. PICK d : d = WriteCdBuf(cd_page, h.file) /\ FileOK(d.file)
    BY <1>3, <1>4, FlushIs
<1>6. PICK n \in NumPages(cd_header.buf, d.file, cd_page.offset) :
         LET left == Len(cd_header.buf) - DescSize * n
             zeros == [buf |-> ZeroWords(left),
                       offset |-> cd_header.offset + DescSize * n]
         IN  IF n >= 0 /\ left >= 0
             THEN /\ cd_header' = zeros
                  /\ Out(WriteCdBuf(zeros, d.file).file)
             ELSE /\ UNCHANGED cd_header
                  /\ Out(d.file)
    BY <1>4, <1>5 DEF PageFlushFails
<1>7. h.ok /\ ~ d.ok
    BY <1>4, <1>5 DEF PageFlushFails
<1>8. PICK o \in Nat \ {0}, a \in Nat : o = cd_header.offset /\ a = cd_page.offset
    BY <1>3
<1>9. CASE FileEnd(d.file) < IntHalf
    <2>1. PICK nd \in Nat, m \in Nat :
             /\ n \in 0 .. nd /\ Len(cd_header.buf) = 3 * nd
             /\ o + 3 * nd = DescPlace(pfn)
             /\ LeftInFile(o, cd_header.buf, nd, a, cd_page.buf, m, n,
                   WriteBuffer(d.file, o + 3 * n, ZeroWords(3 * nd - 3 * n)).file)
        BY <1>1, <1>2, <1>4, <1>5, <1>7, <1>8, <1>9, PagesLeft
    <2>2. PICK w : w = WriteBuffer(d.file, o + 3 * n, ZeroWords(3 * nd - 3 * n))
        OBVIOUS
    <2>3. n >= 0 /\ 3 * nd - 3 * n >= 0
        BY <2>1, SMTT(20)
    <2>4. Out(w.file)
        <3>1. DescSize = 3 /\ Len(cd_header.buf) - DescSize * n = 3 * nd - 3 * n
            BY <2>1 DEF DescSize
        <3>2. Out(WriteCdBuf([buf |-> ZeroWords(3 * nd - 3 * n), offset |-> o + 3 * n],
                             d.file).file)
            BY <1>6, <1>8, <2>3, <3>1
        <3> QED
            BY <2>2, <3>2 DEF WriteCdBuf
    <2>5. \A q \in Dumpable : NotLost(w.file, q)
        BY <1>1, <1>2, <2>1, <2>2, PagesLost
    <2> QED
        BY <2>4, <2>5, SpaceOut
<1>10. CASE ~ (FileEnd(d.file) < IntHalf)
    <2>1. PICK f : Out(f) /\ DOMAIN d.file.cells \subseteq DOMAIN f.cells
        BY <1>5, <1>6, WriteGrows DEF WriteCdBuf
    <2>2. file' = f /\ FileOK(f)
        BY <2>1 DEF Out, SerialInv, FileOK
    <2>3. ~ (FileEnd(f) < IntHalf)
        <3>1. FileEnd(d.file) \in Nat /\ FileEnd(f) \in Nat /\ FileEnd(d.file) <= FileEnd(f)
            BY <1>5, <2>1, <2>2, FileEndGrows
        <3>2. IntHalf \in Nat
            BY PagesAssumption
        <3> QED
            BY <1>10, <3>1, <3>2, SMTT(20)
    <2> QED
        BY <2>1, <2>3, SpaceOut
<1> QED
    BY <1>9, <1>10

LEMMA SpaceRemainder ==
    ASSUME SerialInv, ContentInv, ~ ExcludeZero, SpaceInv, WriteRemainder
    PROVE  SpaceInv'
<1>1. pc = "pages" /\ Filling /\ \A q \in Dumpable : q < pfn
    BY DEF WriteRemainder, Filling
<1>2. InStep(cd_header, cd_page, file)
    BY <1>1 DEF SpaceInv
<1>3. /\ CacheOK(cd_header, DescWords) /\ CacheOK(cd_page, DataWords) /\ FileOK(file)
      /\ cd_header.offset \in Nat \ {0} /\ cd_page.offset \in Nat \ {0}
    BY <1>1, SerialReady, ReadyPlaces DEF Ready
<1>4. PICK d, h : d = WriteCdBuf(cd_page, file) /\ h = WriteCdBuf(cd_header, d.file)
    OBVIOUS
<1>5. FileOK(d.file)
    BY <1>3, <1>4, FlushIs
<1>6. /\ WriteCacheBufsz(cd_page, file).file = d.file
      /\ WriteCacheBufsz(cd_page, file).ok = d.ok
      /\ WriteCacheBufsz(cd_header, d.file).file = h.file
      /\ WriteCacheBufsz(cd_header, d.file).ok = h.ok
    BY <1>4 DEF WriteCacheBufsz, WriteCdBuf
<1>7. CASE ~ d.ok
    <2>1. Out(d.file)
        BY <1>6, <1>7 DEF WriteRemainder
    <2>2. \A q \in Dumpable : NotLost(d.file, q)
        BY <1>1, <1>2, <1>4, RemainderLost
    <2> QED
        BY <2>1, <2>2, SpaceOut
<1>8. CASE d.ok /\ ~ h.ok
    <2>1. Out(h.file)
        BY <1>6, <1>8 DEF WriteRemainder
    <2>2. \A q \in Dumpable : NotLost(h.file, q)
        BY <1>1, <1>2, <1>4, <1>8, RemainderHeaderLost
    <2> QED
        BY <2>1, <2>2, SpaceOut
<1>9. CASE d.ok /\ h.ok
    <2>1. pc' = "complete" /\ file' = h.file
        BY <1>6, <1>9 DEF WriteRemainder
    <2> QED
        BY <2>1 DEF SpaceInv, Filling
<1> QED
    BY <1>7, <1>8, <1>9
LEMMA SpaceInit ==
    ASSUME Init, SerialInv
    PROVE  SpaceInv
<1>1. /\ memory \in Memories /\ pc = "begin"
      /\ cd_header = EmptyCache(HeaderStart) /\ cd_page = EmptyCache(PageStart)
    BY DEF Init
<1>2. PICK dev \in Devices :
         file = [cells |-> [o \in {0} |-> Zero], limit |-> dev.limit,
                 space |-> dev.space, bad |-> dev.bad, nospace |-> FALSE]
    BY DEF Init
<1>3. DOMAIN file.cells = {0}
    BY <1>2
<1>4. /\ cd_header.offset = 1 /\ cd_header.buf = << >>
      /\ cd_page.offset = PageStart /\ cd_page.buf = << >>
    BY <1>1 DEF EmptyCache, HeaderStart
<1>5. PageStart \in Nat \ {0}
    BY <1>1, Places
<1>6. DataInFile(cd_header, cd_page, file)
    <2>1. ASSUME NEW p \in Dumpable
          PROVE  ~ (DescPlace(p) < cd_header.offset)
        <3>1. DescPlace(p) \in Nat \ {0}
            BY <1>1, Places
        <3> QED
            BY <1>4, <3>1, SMTT(20)
    <2> QED
        BY <2>1 DEF DataInFile
<1>7. Whole(cd_header.buf, 0, cd_page.offset, CacheEnd(cd_page))
    <2>1. CacheEnd(cd_page) = cd_page.offset
        BY <1>4, <1>5, SMTT(20) DEF CacheEnd
    <2> QED
        BY <1>4, <2>1, SMTT(20) DEF Whole, DescSize
<1>8. NoStrayDesc(cd_header, file)
    BY <1>3, <1>4, SMTT(20) DEF NoStrayDesc
<1>9. OnlyPrefix(cd_page, file, 0) /\ 0 \in 0 .. Len(cd_page.buf)
    BY <1>3, <1>4, <1>5, SMTT(20) DEF OnlyPrefix
<1>10. InStep(cd_header, cd_page, file)
    BY <1>6, <1>7, <1>8, <1>9 DEF InStep
<1> QED
    BY <1>1, <1>10 DEF SpaceInv

LEMMA SpaceNext ==
    ASSUME SerialInv, ContentInv, SpaceInv, SerialInv', [Next]_vars
    PROVE  SpaceInv'
<1>1. memory' = memory
    BY DEF Next, vars, Begin, ReadFails, WriteRemainder, Stopped, WritePage,
       WriteZeroPage, CachePage, FlushCaches, HeaderFlushFails, PageFlushFails,
       Cache, Out
<1>2. CASE ExcludeZero
    BY <1>1, <1>2 DEF SpaceInv, ExcludeZero
<1>3. CASE ~ ExcludeZero
    <2>1. ASSUME UNCHANGED <<cd_header, cd_page, file>>, Filling, pc' \in {"pages", "failed"}
          PROVE  SpaceInv'
        <3>1. InStep(cd_header, cd_page, file)
            BY <1>3, <2>1 DEF SpaceInv
        <3> QED
            BY <1>1, <2>1, <3>1, SpaceFilling
    <2>2. CASE UNCHANGED vars
        <3>1. CASE Filling
            <4>1. InStep(cd_header, cd_page, file)
                BY <1>3, <3>1 DEF SpaceInv
            <4> QED
                BY <1>1, <2>2, <3>1, <4>1, SpaceFilling DEF vars, Filling
        <3>2. CASE ~ Filling
            <4>1. ASSUME NEW p \in Dumpable', pc = "nospace", FileEnd(file)' < IntHalf
                  PROVE  NotLost(file, p)'
                <5>1. NotLost(file, p)
                    BY <1>1, <1>3, <2>2, <4>1 DEF vars, SpaceInv, Dumpable, FileEnd
                <5> QED
                    BY <1>1, <2>2, <5>1 DEF vars, NotLost, DataPresent,
                       DescPlace, PfnToPos, DataOf, Dumpable, ExcludeZero,
                       ZeroPages
            <4> QED
                BY <2>2, <3>2, <4>1 DEF vars, SpaceInv, Filling
        <3> QED
            BY <3>1, <3>2
    <2>3. CASE Begin
        BY <1>3, <2>1, <2>3 DEF Begin, Filling
    <2>4. CASE ReadFails
        BY <2>1, <2>4 DEF ReadFails, Filling
    <2>5. CASE WriteRemainder
        BY <1>3, <2>5, SpaceRemainder
    <2>6. CASE Stopped
        BY <2>2, <2>6 DEF Stopped
    <2>7. ASSUME NEW p \in Dumpable, WritePage(p)
          PROVE  SpaceInv'
        <3>1. PICK size \in Sizes : \/ CachePage(p, size) \/ FlushCaches(p, size)
                                    \/ HeaderFlushFails(p, size) \/ PageFlushFails(p, size)
            BY <1>3, <2>7 DEF WritePage, WriteZeroPage, Sizes
        <3> QED
            BY <1>3, <3>1, SpaceCached, SpaceHeaderFails, SpacePagesFail
    <2> QED
        BY <2>2, <2>3, <2>4, <2>5, <2>6, <2>7 DEF Next
<1> QED
    BY <1>2, <1>3

(***************************************************************************)
(* A dump that keeps its zero pages and is cut short for lack of space has *)
(* no descriptor that points at a page that is not in the file, wherever   *)
(* the space ended and in whichever of write_kdump_page()'s and            *)
(* writeout_dumpfile()'s writes, for every size of the caches: the         *)
(* descriptors that get_nr_pages() counts are those whose data was         *)
(* written.  The end of the file has to fit in an int, as get_nr_pages()   *)
(* keeps it in one, which the property says.                               *)
(***************************************************************************)
THEOREM NoDescriptorOfALostPage ==
    Spec => []LostPagesHaveNoOffset
<1>1. Init => SpaceInv
    BY SpaceInit, SerialInvInit
<1>2. SerialInv /\ ContentInv /\ SpaceInv /\ SerialInv' /\ [Next]_vars => SpaceInv'
    BY SpaceNext
<1>3. ASSUME SerialInv, SpaceInv
      PROVE  LostPagesHaveNoOffset
    <2> SUFFICES ASSUME ~ ExcludeZero, FileEnd(file) < IntHalf, pc = "nospace",
                        NEW p \in Dumpable, DescWord(p, 1).value # 0
                 PROVE  ReadsBack(p, DescWord(p, 1).value)
        BY DEF LostPagesHaveNoOffset, OnlyLostPagesHaveNoOffset
    <2>1. NotLost(file, p) /\ memory \in Memories /\ FileOK(file)
        BY <1>3 DEF SpaceInv, SerialInv
    <2>2. DescWord(p, 1) = WordAt(file, DescPlace(p))
        <3>1. DescPlace(p) \in Nat
            BY <2>1, Places
        <3>2. DescPlace(p) + 1 - 1 = DescPlace(p)
            BY <3>1, SMTT(20)
        <3> QED
            BY <3>2 DEF DescWord, DescPlace
    <2>3. PICK off \in Nat, size \in Sizes :
             DescWord(p, 1).value = off /\ DataPresent(file, p, off, size)
        BY <2>1, <2>2 DEF NotLost
    <2>4. ReadsBack(p, off)
        BY <2>1, <2>3, InFileReadsBack DEF DataPresent
    <2> QED
        BY <2>3, <2>4
<1> QED
    BY <1>1, <1>2, <1>3, SerialInvAlways, PTL DEF Spec
=============================================================================
