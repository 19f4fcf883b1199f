------------------------------ MODULE PageCache ------------------------------
(***************************************************************************)
(* readmem() and the cache behind it: cache_search(), cache_alloc(),       *)
(* cache_add() and cache_free() of cache.c, with mappage_elf() and         *)
(* update_mmap_range(), which map a window of /proc/vmcore.                *)
(*                                                                         *)
(* An entry of the cache is a copy of one page in a buffer of its own, or  *)
(* a whole window, which is unmapped when the entry is evicted.            *)
(* info->mmap_buf and the offsets beside it describe the latest window and *)
(* are not told about evictions.                                           *)
(*                                                                         *)
(* Addresses and offsets count pages.  A read that crosses pages, or that  *)
(* translates a virtual address, is a sequence of reads of one page.       *)
(***************************************************************************)
EXTENDS Integers, Sequences, FiniteSets

CONSTANTS
    NumEntries,    \* CACHE_SIZE
    Loads,         \* the PT_LOADs: [start, size, offset]
    Region,        \* info->mmap_region_size
    Inputs,        \* [pages, usemmap]: the pages that may be asked for, and
                   \* "TRY", or "DISABLE" with --non-mmap
    Faults         \* "mmap" and "read" may fail

ASSUME EntriesAssumption == NumEntries \in Nat \ {0}
ASSUME LoadsAssumption ==
    /\ IsFiniteSet(Loads)
    /\ \A l \in Loads : l.start \in Nat /\ l.size \in Nat \ {0}
                        /\ l.offset \in Nat \ {0}
    /\ Region \in Nat \ {0}
    /\ \A x \in Inputs : /\ x.pages \subseteq Nat
                        /\ x.usemmap \in {"TRY", "DISABLE"}
    /\ Faults \subseteq {"mmap", "read"}
\* Every PT_LOAD has a part of the file of its own.
ASSUME FileAssumption ==
    \A l, k \in Loads : l # k => \/ l.offset + l.size <= k.offset
                                 \/ k.offset + k.size <= l.offset

Entries == 0 .. NumEntries - 1
Maps == 0 .. NumEntries + 1       \* the addresses mmap() may return
NoMap == -1                       \* MAP_FAILED; an entry with its own buffer
NoPage == -1
Error == -2                       \* readmem() returns FALSE

VARIABLES
    asked,         \* the pages this program asks for
    used,          \* the cached entries, most recently used first
    pool,          \* the free entries, a stack
    entry,         \* paddr and buflen of the entries, and the map they are in
    buffer,        \* the page in the part of cachebuf that an entry owns
    maps,          \* the windows mapped: address -> [start, end] in the file
    window,        \* mmap_buf, mmap_start_offset, mmap_end_offset
    flag_usemmap,  \* info->flag_usemmap
    last,          \* history: the page asked for last and the one returned
    recent         \* history: the pages read last, each once, latest first

vars == <<asked, used, pool, entry, buffer, maps, window, flag_usemmap,
          last, recent>>

(***************************************************************************)
(* paddr_to_offset() and offset_to_pt_load_end(); 0 stands for none.       *)
(***************************************************************************)
LoadsOf(p) == {l \in Loads : l.start <= p /\ p < l.start + l.size}
PaddrToOffset(p) ==
    IF LoadsOf(p) = {} THEN 0
    ELSE LET l == CHOOSE x \in LoadsOf(p) : TRUE IN l.offset + p - l.start

LoadAt(o) == CHOOSE l \in Loads : l.offset <= o /\ o < l.offset + l.size
LoadEnd(o) == LoadAt(o).offset + LoadAt(o).size
PageAt(o) == LoadAt(o).start + o - LoadAt(o).offset

WindowEnd(o) == IF LoadEnd(o) <= o + Region THEN LoadEnd(o) ELSE o + Region

\* The page and the one after it are next to each other in the file.
Mappable(p) ==
    /\ PaddrToOffset(p) # 0 /\ PaddrToOffset(p + 1) # 0
    /\ PaddrToOffset(p + 1) = PaddrToOffset(p) + 1

\* What a pointer into window m, k pages from its start, gives.
ThroughMap(mapped, m, k) ==
    IF m \in DOMAIN mapped /\ mapped[m].start + k < mapped[m].end
    THEN PageAt(mapped[m].start + k) ELSE NoPage

Covers(e, p) == entry[e].paddr <= p /\ p < entry[e].paddr + entry[e].buflen
Cached(p) == \E n \in 1 .. Len(used) : Covers(used[n], p)

\* remove_entry(): a list without its i-th entry, and without its tail.
RemoveAt(s, i) == SubSeq(s, 1, i - 1) \o SubSeq(s, i + 1, Len(s))
Front(s) == SubSeq(s, 1, Len(s) - 1)

\* The pages read last, with p in front.
ReadNow(p) ==
    LET Others == IF \E n \in 1 .. Len(recent) : recent[n] = p
                  THEN RemoveAt(recent,
                                CHOOSE n \in 1 .. Len(recent) : recent[n] = p)
                  ELSE recent
        s == << p >> \o Others
    IN  IF Len(s) < NumEntries THEN s ELSE SubSeq(s, 1, NumEntries - 1)

-----------------------------------------------------------------------------

\* cache_init(): every entry is free.
FullPool == [n \in 1 .. NumEntries |-> n - 1]

Init ==
    /\ used = << >>
    /\ pool = FullPool
    /\ entry = [e \in Entries |-> [paddr |-> 0, buflen |-> 0, map |-> NoMap]]
    /\ buffer = [e \in Entries |-> NoPage]
    /\ maps = << >>
    /\ window = [buf |-> NoMap, start |-> 0, end |-> 0]
    /\ \E x \in Inputs : asked = x.pages /\ flag_usemmap = x.usemmap
    /\ last = [page |-> NoPage, got |-> NoPage]
    /\ recent = << >>

\* update_mmap_range(): map a window that begins at offset o.  mmap() returns
\* the lowest free address, so that addresses are used again at once.
MapWindow(o, mapped) ==
    LET free == Maps \ DOMAIN mapped
        m == CHOOSE x \in free : \A y \in free : x <= y
    IN  /\ window' = [buf |-> m, start |-> o, end |-> WindowEnd(o)]
        /\ maps' = [x \in DOMAIN mapped \cup {m} |->
                       IF x = m THEN [start |-> o, end |-> WindowEnd(o)]
                       ELSE mapped[x]]

\* The end of initial(): try mmap() on the first PT_LOAD.
InitializeMmap ==
    /\ flag_usemmap = "TRY"
    /\ \/ /\ flag_usemmap' = "ENABLE"
          /\ \E l \in Loads :
                /\ \A k \in Loads : l.offset <= k.offset
                /\ MapWindow(PaddrToOffset(l.start), maps)
       \/ /\ "mmap" \in Faults
          /\ flag_usemmap' = "DISABLE"
          /\ UNCHANGED <<maps, window>>
    /\ UNCHANGED <<asked, used, pool, entry, buffer, last, recent>>

-----------------------------------------------------------------------------
\* Variant: an entry that is found stays where it is in the list.
HitInPlace(p) ==
    \E n \in 1 .. Len(used) :
        LET e == used[n]
        IN  /\ Covers(e, p)
            /\ \A k \in 1 .. n - 1 : ~ Covers(used[k], p)
            /\ last' = [page |-> p,
                        got |-> IF entry[e].map = NoMap THEN buffer[e]
                                ELSE ThroughMap(maps, entry[e].map,
                                                p - entry[e].paddr)]
            /\ recent' = ReadNow(p)
            /\ UNCHANGED <<asked, used, pool, entry, buffer, maps, window,
                           flag_usemmap>>

\* cache_search(): the first entry that has the page moves to the front.
Hit(p) ==
    \E n \in 1 .. Len(used) :
        LET e == used[n]
        IN  /\ Covers(e, p)
            /\ \A k \in 1 .. n - 1 : ~ Covers(used[k], p)
            /\ used' = << e >> \o RemoveAt(used, n)
            /\ last' = [page |-> p,
                        got |-> IF entry[e].map = NoMap THEN buffer[e]
                                ELSE ThroughMap(maps, entry[e].map,
                                                p - entry[e].paddr)]
            /\ recent' = ReadNow(p)
            /\ UNCHANGED <<asked, pool, entry, buffer, maps, window,
                           flag_usemmap>>

\* cache_alloc(): a free entry, or the one used least recently, whose window
\* is unmapped.
Victim == IF pool # << >> THEN pool[Len(pool)] ELSE used[Len(used)]
PoolLeft == IF pool # << >> THEN Front(pool) ELSE pool
UsedLeft == IF pool # << >> THEN used ELSE Front(used)

MapsLeft ==
    IF pool # << >> \/ entry[Victim].map = NoMap THEN maps
    ELSE [m \in DOMAIN maps \ {entry[Victim].map} |-> maps[m]]

Miss(p) == ~ Cached(p) /\ (pool # << >> \/ used # << >>)

\* readpage_elf() copies the page into the entry's own buffer.
AddOwnBuffer(p) ==
    /\ PaddrToOffset(p) # 0
    /\ used' = << Victim >> \o UsedLeft
    /\ pool' = PoolLeft
    /\ entry' = [entry EXCEPT ![Victim] = [paddr |-> p, buflen |-> 1,
                                           map |-> NoMap]]
    /\ buffer' = [buffer EXCEPT ![Victim] = p]
    /\ last' = [page |-> p, got |-> p]
    /\ recent' = ReadNow(p)

ReadPage(p) ==
    /\ Miss(p)
    /\ flag_usemmap # "ENABLE" \/ ~ Mappable(p)
    /\ AddOwnBuffer(p)
    /\ maps' = MapsLeft
    /\ UNCHANGED <<asked, window, flag_usemmap>>

\* is_mapped_with_mmap(), or update_mmap_range(): the entry becomes the window.
InWindow(p) == window.start <= PaddrToOffset(p) /\ PaddrToOffset(p) < window.end

\* Variant: the entry is taken to begin at the page that was asked for.
MapPageUnshifted(p) ==
    /\ Miss(p)
    /\ flag_usemmap = "ENABLE" /\ Mappable(p)
    /\ IF InWindow(p)
       THEN maps' = MapsLeft /\ UNCHANGED window
       ELSE MapWindow(PaddrToOffset(p), MapsLeft)
    /\ used' = << Victim >> \o UsedLeft
    /\ pool' = PoolLeft
    /\ entry' = [entry EXCEPT ![Victim] =
           [paddr |-> p, buflen |-> window'.end - window'.start,
            map |-> window'.buf]]
    /\ last' = [page |-> p, got |-> p]
    /\ recent' = ReadNow(p)
    /\ UNCHANGED <<asked, buffer, flag_usemmap>>

MapPage(p) ==
    /\ Miss(p)
    /\ flag_usemmap = "ENABLE" /\ Mappable(p)
    /\ IF InWindow(p)
       THEN maps' = MapsLeft /\ UNCHANGED window
       ELSE MapWindow(PaddrToOffset(p), MapsLeft)
    /\ used' = << Victim >> \o UsedLeft
    /\ pool' = PoolLeft
    /\ LET off == PaddrToOffset(p) - window'.start
       IN  /\ entry' = [entry EXCEPT ![Victim] =
                  [paddr |-> p - off, buflen |-> window'.end - window'.start,
                   map |-> window'.buf]]
           /\ last' = [page |-> p, got |-> ThroughMap(maps', window'.buf, off)]
    /\ recent' = ReadNow(p)
    /\ UNCHANGED <<asked, buffer, flag_usemmap>>

\* Variant: the entry of a failed read is not given back.
GiveBackLeaking(p) ==
    /\ PaddrToOffset(p) = 0 \/ "read" \in Faults
    /\ used' = UsedLeft
    /\ pool' = PoolLeft
    /\ entry' = [entry EXCEPT ![Victim] = [paddr |-> p, buflen |-> 1,
                                           map |-> NoMap]]
    /\ buffer' = [buffer EXCEPT ![Victim] = NoPage]
    /\ last' = [page |-> p, got |-> Error]
    /\ UNCHANGED recent

\* The page is in no PT_LOAD, or read() fails: cache_free() gives the entry
\* back, whose buffer may have changed.
GiveBack(p) ==
    /\ PaddrToOffset(p) = 0 \/ "read" \in Faults
    /\ used' = UsedLeft
    /\ pool' = Append(PoolLeft, Victim)
    /\ entry' = [entry EXCEPT ![Victim] = [paddr |-> p, buflen |-> 1,
                                           map |-> NoMap]]
    /\ buffer' = [buffer EXCEPT ![Victim] = NoPage]
    /\ last' = [page |-> p, got |-> Error]
    /\ UNCHANGED recent

\* mmap() fails: read() is used from now on, for this page too.
MmapFails(p) ==
    /\ "mmap" \in Faults
    /\ Miss(p)
    /\ flag_usemmap = "ENABLE" /\ Mappable(p) /\ ~ InWindow(p)
    /\ flag_usemmap' = "DISABLE"
    /\ window' = [window EXCEPT !.buf = NoMap]
    /\ AddOwnBuffer(p) \/ GiveBack(p)
    /\ maps' = MapsLeft
    /\ UNCHANGED asked

ReadFails(p) ==
    /\ Miss(p)
    /\ flag_usemmap # "ENABLE" \/ ~ Mappable(p)
    /\ GiveBack(p)
    /\ maps' = MapsLeft
    /\ UNCHANGED <<asked, window, flag_usemmap>>

Readmem(p) == Hit(p) \/ ReadPage(p) \/ MapPage(p) \/ MmapFails(p) \/ ReadFails(p)

Next ==
    \/ InitializeMmap
    \/ \E p \in asked : Readmem(p)

Spec == Init /\ [][Next]_vars

-----------------------------------------------------------------------------
(***************************************************************************)
(* The types of the variables.                                             *)
(***************************************************************************)
TypeOK ==
    /\ used \in Seq(Entries) /\ pool \in Seq(Entries)
    /\ entry \in [Entries -> [paddr : Int, buflen : Nat, map : Maps \cup {NoMap}]]
    /\ buffer \in [Entries -> Nat \cup {NoPage}]
    /\ DOMAIN maps \subseteq Maps
    /\ window.buf \in Maps \cup {NoMap}
    /\ flag_usemmap \in {"TRY", "ENABLE", "DISABLE"}

(***************************************************************************)
(* Every window that is mapped is still needed: it belongs to an entry, or *)
(* it is the one that was mapped to find out whether mmap() works.         *)
(***************************************************************************)
AtMostOneWindowLeaks ==
    Cardinality({m \in DOMAIN maps :
        \A n \in 1 .. Len(used) : entry[used[n]].map # m}) <= 1

(***************************************************************************)
(* Between two calls of readmem() every entry is in the list of used ones  *)
(* or in the pool, once: no failed read loses an entry, and cache_alloc()  *)
(* can always give one.  No mapped window is lost either.                  *)
(***************************************************************************)
EntriesAccounted ==
    LET all == used \o pool
    IN  /\ TypeOK
        /\ AtMostOneWindowLeaks
        /\ Len(all) = NumEntries
        /\ \A e \in Entries : \E n \in 1 .. Len(all) : all[n] = e

(***************************************************************************)
(* readmem() returns the page it was asked for, or an error: no entry      *)
(* outlives the buffer or the window it points to.                         *)
(***************************************************************************)
ReadsRightPage == last.got \in {last.page, Error}

(***************************************************************************)
(* The pages read last are still cached: all but one of the entries serve  *)
(* the latest distinct pages, even after reads that failed.  cache.c sizes *)
(* the cache for one walk of the page tables and the data pages beside it. *)
(***************************************************************************)
RecentPagesCached == \A n \in 1 .. Len(recent) : Cached(recent[n])
=============================================================================
