--------------------------- MODULE PageCacheProofs ---------------------------
(***************************************************************************)
(* Proofs about the cache of readmem(), for every number of entries, every *)
(* set of PT_LOADs, every window size and every sequence of reads, hits,   *)
(* evictions and failures.                                                 *)
(***************************************************************************)
EXTENDS PageCache, DataLemmas

\* Zenon proves every leaf that names no other prover; the limits, in seconds,
\* leave room for a slower machine.
USE ZenonT(30)

(***************************************************************************)
(* The two lists hold every entry once.                                    *)
(***************************************************************************)
EachOnce(u, q) ==
    /\ Len(u) + Len(q) = NumEntries
    /\ \A n, k \in 1 .. Len(u) : u[n] = u[k] => n = k
    /\ \A n, k \in 1 .. Len(q) : q[n] = q[k] => n = k
    /\ \A n \in 1 .. Len(u), k \in 1 .. Len(q) : u[n] # q[k]
    /\ \A e \in Entries : \/ \E n \in 1 .. Len(u) : u[n] = e
                          \/ \E n \in 1 .. Len(q) : q[n] = e

Owned(m) == \E n \in 1 .. Len(used) : entry[used[n]].map = m

(***************************************************************************)
(* Windows: free entries have none, and every mapped one has an owner but  *)
(* the one of initialize_mmap().                                           *)
(***************************************************************************)
WindowsOwned ==
    /\ \A n \in 1 .. Len(pool) : entry[pool[n]].map = NoMap
    /\ flag_usemmap = "TRY" => DOMAIN maps = {}
    /\ \E leak \in Maps : \A m \in DOMAIN maps : m = leak \/ Owned(m)

WindowOK ==
    /\ window \in [buf : Maps \cup {NoMap}, start : Nat, end : Nat]
    /\ window.start <= window.end
    /\ asked \subseteq Nat
    /\ recent \in Seq(Nat)

ListInv == TypeOK /\ WindowOK /\ EachOnce(used, pool) /\ WindowsOwned

(***************************************************************************)
(* The n-th latest page is in one of the first n entries.                  *)
(***************************************************************************)
RecentFirst ==
    /\ Len(recent) < NumEntries
    /\ \A n \in 1 .. Len(recent) :
          \E k \in 1 .. Len(used) : k <= n /\ Covers(used[k], recent[n])

(***************************************************************************)
(* What an entry holds: its page in its own buffer, or pages of a window   *)
(* that is still mapped.                                                   *)
(***************************************************************************)
OwnPage(ent, buf, e) == ent[e].buflen = 1 /\ buf[e] = ent[e].paddr

WindowPages(ent, mapped, e) ==
    LET m == ent[e].map
    IN  /\ m \in DOMAIN mapped
        /\ ent[e].buflen = mapped[m].end - mapped[m].start
        /\ \A k \in 0 .. ent[e].buflen - 1 :
              PageAt(mapped[m].start + k) = ent[e].paddr + k

RightIn(ent, buf, mapped, e) ==
    IF ent[e].map = NoMap THEN OwnPage(ent, buf, e)
    ELSE WindowPages(ent, mapped, e)

EntryRight(e) == RightIn(entry, buffer, maps, e)

\* Covers(), of any state of the entries.
CoversIn(ent, e, p) == ent[e].paddr <= p /\ p < ent[e].paddr + ent[e].buflen

\* The latest window is mapped, and lies in one PT_LOAD.
WindowLive ==
    /\ window.buf \in DOMAIN maps
    /\ maps[window.buf] = [start |-> window.start, end |-> window.end]
    /\ \E l \in Loads : /\ l.offset <= window.start
                        /\ window.end <= l.offset + l.size

MapsDistinct ==
    \A n, k \in 1 .. Len(used) :
        entry[used[n]].map = entry[used[k]].map
           => n = k \/ entry[used[n]].map = NoMap

ContentsInv ==
    /\ \A m \in DOMAIN maps : maps[m] \in [start : Nat, end : Nat]
    /\ \A n \in 1 .. Len(used) : EntryRight(used[n])
    /\ MapsDistinct
    /\ flag_usemmap = "ENABLE" => WindowLive
    /\ flag_usemmap # "DISABLE" => \A p \in asked : Mappable(p)
    /\ ReadsRightPage

(***************************************************************************)
(* With mmap(), only pages that can be mapped are asked for.               *)
(***************************************************************************)
OnlyMappable ==
    \A x \in Inputs : x.usemmap = "TRY" => \A p \in x.pages : Mappable(p)
-----------------------------------------------------------------------------
(***************************************************************************)
(* Sequences: one more in front, one less at the end, one moved to the     *)
(* front, one more at the end.                                             *)
(***************************************************************************)
LEMMA InFront ==
    ASSUME NEW S, NEW s \in Seq(S), NEW x \in S
    PROVE  /\ << x >> \o s \in Seq(S)
           /\ Len(<< x >> \o s) = Len(s) + 1
           /\ (<< x >> \o s)[1] = x
           /\ \A n \in 1 .. Len(s) : (<< x >> \o s)[n + 1] = s[n]
           /\ \A n \in 2 .. Len(s) + 1 : (<< x >> \o s)[n] = s[n - 1]
BY SMTT(20)

\* Front(), with which cache_alloc() drops the entry used least recently.
LEMMA ButLast ==
    ASSUME NEW S, NEW s \in Seq(S), s # << >>
    PROVE  /\ Front(s) \in Seq(S)
           /\ Len(Front(s)) = Len(s) - 1
           /\ \A n \in 1 .. Len(s) - 1 : Front(s)[n] = s[n]
           /\ s[Len(s)] \in S
<1>1. Len(s) \in Nat \ {0}
    BY SeqNone
<1>2. PICK m \in 1 .. Len(s) : m = Len(s)
    BY <1>1, SMTT(20)
<1>3. /\ SubSeq(s, 1, m - 1) \in Seq(S)
      /\ Len(SubSeq(s, 1, m - 1)) = m - 1
      /\ \A n \in 1 .. m - 1 : SubSeq(s, 1, m - 1)[n] = s[n]
    BY SMTT(20)
<1> QED
    BY <1>1, <1>2, <1>3, SeqElement DEF Front

\* RemoveAt(), with which cache_search() takes an entry out of the list.
LEMMA Removed ==
    ASSUME NEW S, NEW s \in Seq(S), NEW n \in 1 .. Len(s)
    PROVE  /\ RemoveAt(s, n) \in Seq(S)
           /\ Len(RemoveAt(s, n)) = Len(s) - 1
           /\ \A k \in 1 .. n - 1 : RemoveAt(s, n)[k] = s[k]
           /\ \A k \in n + 1 .. Len(s) : RemoveAt(s, n)[k - 1] = s[k]
<1> DEFINE a == SubSeq(s, 1, n - 1)
           b == SubSeq(s, n + 1, Len(s))
<1>1. a \in Seq(S) /\ Len(a) = n - 1 /\ \A k \in 1 .. n - 1 : a[k] = s[k]
    BY SMTT(20)
<1>2. /\ b \in Seq(S) /\ Len(b) = Len(s) - n
      /\ \A k \in n + 1 .. Len(s) : b[k - n] = s[k]
    BY SMTT(20)
<1> HIDE DEF a, b
<1>3. /\ a \o b \in Seq(S)
      /\ Len(a \o b) = Len(a) + Len(b)
      /\ \A k \in 1 .. Len(a) + Len(b) :
            (a \o b)[k] = IF k <= Len(a) THEN a[k] ELSE b[k - Len(a)]
    BY <1>1, <1>2, SeqJoin
<1>4. \A k \in 1 .. n - 1 : (a \o b)[k] = s[k]
    BY <1>1, <1>2, <1>3, SMTT(20)
<1>5. \A k \in n + 1 .. Len(s) : (a \o b)[k - 1] = s[k]
    <2> SUFFICES ASSUME NEW k \in n + 1 .. Len(s)
                 PROVE  (a \o b)[k - 1] = s[k]
        OBVIOUS
    <2>1. (a \o b)[k - 1] = b[(k - 1) - (n - 1)]
        BY <1>1, <1>2, <1>3, SMTT(20)
    <2>2. (k - 1) - (n - 1) = k - n
        BY SeqLen, SMTT(20)
    <2>3. b[k - n] = s[k]
        BY <1>2
    <2> QED
        BY <2>1, <2>2, <2>3
<1>6. RemoveAt(s, n) = a \o b
    BY DEF RemoveAt, a, b
<1>7. Len(a) + Len(b) = Len(s) - 1
    BY <1>1, <1>2, SMTT(20)
<1> QED
    BY <1>3, <1>4, <1>5, <1>6, <1>7

\* cache_search() moves the entry it finds to the front.
LEMMA MovedToFront ==
    ASSUME NEW S, NEW s \in Seq(S), NEW n \in 1 .. Len(s)
    PROVE  LET t == << s[n] >> \o RemoveAt(s, n)
           IN  /\ t \in Seq(S)
               /\ Len(t) = Len(s)
               /\ t[1] = s[n]
               /\ \A k \in 1 .. n - 1 : t[k + 1] = s[k]
               /\ \A k \in n + 1 .. Len(s) : t[k] = s[k]
<1>1. s[n] \in S
    BY SMTT(20)
<1> DEFINE r == RemoveAt(s, n)
<1>2. /\ r \in Seq(S) /\ Len(r) = Len(s) - 1
      /\ \A k \in 1 .. n - 1 : r[k] = s[k]
      /\ \A k \in n + 1 .. Len(s) : r[k - 1] = s[k]
    BY Removed
<1> HIDE DEF r
<1>3. /\ << s[n] >> \o r \in Seq(S) /\ Len(<< s[n] >> \o r) = Len(r) + 1
      /\ (<< s[n] >> \o r)[1] = s[n]
      /\ \A k \in 1 .. Len(r) : (<< s[n] >> \o r)[k + 1] = r[k]
      /\ \A k \in 2 .. Len(r) + 1 : (<< s[n] >> \o r)[k] = r[k - 1]
    BY <1>1, <1>2, InFront, SMTT(20)
<1>4. /\ \A k \in 1 .. n - 1 : (<< s[n] >> \o r)[k + 1] = s[k]
      /\ \A k \in n + 1 .. Len(s) : (<< s[n] >> \o r)[k] = s[k]
    BY <1>2, <1>3, SMTT(20)
<1> QED
    BY <1>2, <1>3, <1>4, SMTT(20) DEF r

-----------------------------------------------------------------------------
(***************************************************************************)
(* Offsets.  paddr_to_offset() gives an offset in a PT_LOAD that has the   *)
(* page, and the page found there is that one.                             *)
(***************************************************************************)
LEMMA OffsetInLoad ==
    ASSUME NEW p \in Nat, PaddrToOffset(p) # 0
    PROVE  \E l \in Loads : /\ l.start <= p /\ p < l.start + l.size
                            /\ PaddrToOffset(p) = l.offset + p - l.start
<1>1. LoadsOf(p) # {}
    BY DEF PaddrToOffset
<1>2. PICK l \in LoadsOf(p) : l = CHOOSE x \in LoadsOf(p) : TRUE
    BY <1>1
<1>3. PaddrToOffset(p) = l.offset + p - l.start
    BY <1>1, <1>2 DEF PaddrToOffset
<1> QED
    BY <1>3 DEF LoadsOf

LEMMA StartHasOffset ==
    ASSUME NEW l \in Loads
    PROVE  PaddrToOffset(l.start) # 0
<1>1. l \in LoadsOf(l.start)
    BY LoadsAssumption, SMTT(20) DEF LoadsOf
<1>2. PICK k \in LoadsOf(l.start) :
            PaddrToOffset(l.start) = k.offset + l.start - k.start
    BY <1>1 DEF PaddrToOffset
<1> QED
    BY <1>2, LoadsAssumption, SMTT(20) DEF LoadsOf

\* offset_to_pt_load_end() finds the PT_LOAD the offset is in.
LEMMA LoadAtIs ==
    ASSUME NEW l \in Loads, NEW o \in Nat,
           l.offset <= o, o < l.offset + l.size
    PROVE  LoadAt(o) = l
<1>1. \E k \in Loads : k.offset <= o /\ o < k.offset + k.size
    OBVIOUS
<1>2. PICK k \in Loads : /\ k = LoadAt(o)
                         /\ k.offset <= o /\ o < k.offset + k.size
    BY <1>1 DEF LoadAt
<1> QED
    BY <1>2, LoadsAssumption, FileAssumption, SMTT(20)

LEMMA PageAtIs ==
    ASSUME NEW l \in Loads, NEW o \in Nat,
           l.offset <= o, o < l.offset + l.size
    PROVE  PageAt(o) = l.start + o - l.offset
BY LoadAtIs DEF PageAt

LEMMA PageAtOffset ==
    ASSUME NEW p \in Nat, PaddrToOffset(p) # 0
    PROVE  /\ PaddrToOffset(p) \in Nat
           /\ PageAt(PaddrToOffset(p)) = p
<1>1. PICK l \in Loads : /\ l.start <= p /\ p < l.start + l.size
                         /\ PaddrToOffset(p) = l.offset + p - l.start
    BY OffsetInLoad
<1>2. /\ PaddrToOffset(p) \in Nat
      /\ l.offset <= PaddrToOffset(p)
      /\ PaddrToOffset(p) < l.offset + l.size
    BY <1>1, LoadsAssumption, SMTT(20)
<1>3. PageAt(PaddrToOffset(p)) = l.start + PaddrToOffset(p) - l.offset
    BY <1>2, PageAtIs
<1> QED
    BY <1>1, <1>2, <1>3, LoadsAssumption, SMTT(20)

\* update_mmap_range() maps a part of one PT_LOAD, and at least one page.
LEMMA WindowInLoad ==
    ASSUME NEW p \in Nat, PaddrToOffset(p) # 0
    PROVE  LET o == PaddrToOffset(p)
           IN  /\ WindowEnd(o) \in Nat
               /\ o < WindowEnd(o)
               /\ \E l \in Loads : /\ l.offset <= o
                                   /\ WindowEnd(o) <= l.offset + l.size
<1> DEFINE o == PaddrToOffset(p)
<1>1. PICK l \in Loads : /\ l.start <= p /\ p < l.start + l.size
                         /\ o = l.offset + p - l.start
    BY OffsetInLoad
<1>2. o \in Nat /\ l.offset <= o /\ o < l.offset + l.size
    BY <1>1, LoadsAssumption, SMTT(20)
<1>3. LoadAt(o) = l
    BY <1>2, LoadAtIs
<1> HIDE DEF o
<1> QED
    BY <1>2, <1>3, LoadsAssumption, SMTT(20) DEF WindowEnd, LoadEnd, o
-----------------------------------------------------------------------------
(***************************************************************************)
(* cache_alloc(): the entry it takes is in neither list, and the lists     *)
(* keep their order.                                                       *)
(***************************************************************************)
Taken ==
    /\ Victim \in Entries
    /\ UsedLeft \in Seq(Entries) /\ PoolLeft \in Seq(Entries)
    /\ Len(UsedLeft) + Len(PoolLeft) = NumEntries - 1
    /\ \A n \in 1 .. Len(UsedLeft) :
          n <= Len(used) /\ UsedLeft[n] = used[n] /\ UsedLeft[n] # Victim
    /\ \A n \in 1 .. Len(PoolLeft) :
          n <= Len(pool) /\ PoolLeft[n] = pool[n] /\ PoolLeft[n] # Victim
    /\ \A n \in 1 .. Len(used) : n <= Len(UsedLeft) \/ used[n] = Victim
    /\ \A n \in 1 .. Len(pool) : n <= Len(PoolLeft) \/ pool[n] = Victim

LEMMA AllocTakes ==
    ASSUME used \in Seq(Entries), pool \in Seq(Entries), EachOnce(used, pool)
    PROVE  Taken
<1>1. CASE pool # << >>
    <2>1. /\ PoolLeft \in Seq(Entries)
          /\ Len(PoolLeft) = Len(pool) - 1
          /\ \A n \in 1 .. Len(pool) - 1 : PoolLeft[n] = pool[n]
          /\ pool[Len(pool)] \in Entries
        BY <1>1, ButLast DEF PoolLeft
    <2>2. Len(pool) \in Nat \ {0}
        BY <1>1, SeqNone
    <2>3. Victim = pool[Len(pool)] /\ UsedLeft = used
        BY <1>1 DEF Victim, UsedLeft
    <2>4. \A n \in 1 .. Len(pool) - 1 : pool[n] # Victim
        BY <2>2, <2>3, SMTT(20) DEF EachOnce
    <2>5. \A n \in 1 .. Len(used) : used[n] # Victim
        BY <2>2, <2>3, SMTT(20) DEF EachOnce
    <2>6. Victim \in Entries
        BY <2>1, <2>3
    <2>7. Len(used) \in Nat /\ Len(used) + Len(pool) = NumEntries /\ NumEntries \in Nat
        BY SeqLen, EntriesAssumption DEF EachOnce
    <2>8. Len(UsedLeft) + Len(PoolLeft) = NumEntries - 1
        BY <2>1, <2>2, <2>3, <2>7, SMTT(20)
    <2>9. \A n \in 1 .. Len(PoolLeft) :
             n <= Len(pool) /\ PoolLeft[n] = pool[n] /\ PoolLeft[n] # Victim
        BY <2>1, <2>2, <2>4, SMTT(20)
    <2>10. \A n \in 1 .. Len(pool) : n <= Len(PoolLeft) \/ pool[n] = Victim
        BY <2>1, <2>2, <2>3, SMTT(20)
    <2>11. \A n \in 1 .. Len(used) : n <= Len(used)
        BY <2>7, SMTT(20)
    <2> QED
        BY <2>1, <2>3, <2>5, <2>6, <2>8, <2>9, <2>10, <2>11 DEF Taken
<1>2. CASE pool = << >>
    <2>1. Len(pool) = 0 /\ Len(used) = NumEntries
        BY <1>2, SMTT(20) DEF EachOnce
    <2>2. used # << >>
        BY <2>1, EntriesAssumption
    <2>3. Len(used) \in Nat \ {0}
        BY <2>2, SeqNone
    <2>4. /\ UsedLeft \in Seq(Entries)
          /\ Len(UsedLeft) = Len(used) - 1
          /\ \A n \in 1 .. Len(used) - 1 : UsedLeft[n] = used[n]
          /\ used[Len(used)] \in Entries
        BY <1>2, <2>2, ButLast DEF UsedLeft
    <2>5. Victim = used[Len(used)] /\ PoolLeft = pool
        BY <1>2 DEF Victim, PoolLeft
    <2>6. \A n \in 1 .. Len(used) - 1 : used[n] # Victim
        BY <2>3, <2>5, SMTT(20) DEF EachOnce
    <2>7. /\ Victim \in Entries /\ PoolLeft \in Seq(Entries)
          /\ 1 .. Len(PoolLeft) = {} /\ 1 .. Len(pool) = {}
        BY <2>1, <2>4, <2>5, SMTT(20)
    <2>8. Len(UsedLeft) + Len(PoolLeft) = NumEntries - 1
        BY <2>1, <2>4, <2>5, EntriesAssumption, SMTT(20)
    <2>9. \A n \in 1 .. Len(UsedLeft) :
             n <= Len(used) /\ UsedLeft[n] = used[n] /\ UsedLeft[n] # Victim
        BY <2>3, <2>4, <2>6, SMTT(20)
    <2>10. \A n \in 1 .. Len(used) : n <= Len(UsedLeft) \/ used[n] = Victim
        BY <2>3, <2>4, <2>5, SMTT(20)
    <2> QED
        BY <2>4, <2>7, <2>8, <2>9, <2>10 DEF Taken
<1> QED
    BY <1>1, <1>2

\* cache_add() puts the entry in front of the used ones.
LEMMA AddedOnce ==
    ASSUME used \in Seq(Entries), pool \in Seq(Entries), EachOnce(used, pool)
    PROVE  EachOnce(<< Victim >> \o UsedLeft, PoolLeft)
<1>1. Taken
    BY AllocTakes
<1> DEFINE u == << Victim >> \o UsedLeft
<1>2. /\ Len(u) = Len(UsedLeft) + 1 /\ u[1] = Victim
      /\ \A n \in 2 .. Len(UsedLeft) + 1 : u[n] = UsedLeft[n - 1]
      /\ \A n \in 1 .. Len(UsedLeft) : u[n + 1] = UsedLeft[n]
    BY <1>1, InFront, SMTT(20) DEF Taken
<1> HIDE DEF u
<1>3. Len(UsedLeft) \in Nat /\ Len(PoolLeft) \in Nat
    BY <1>1, SMTT(20) DEF Taken
<1>9. ASSUME NEW n \in 1 .. Len(u), n # 1
      PROVE  /\ n - 1 \in 1 .. Len(used)
             /\ u[n] = used[n - 1] /\ u[n] # Victim
    <2>1. n \in 2 .. Len(UsedLeft) + 1
        BY <1>2, <1>3, <1>9, SMTT(20)
    <2>2. PICK i \in 1 .. Len(UsedLeft) : i = n - 1
        BY <1>3, <2>1, SMTT(20)
    <2>3. i <= Len(used) /\ UsedLeft[i] = used[i] /\ UsedLeft[i] # Victim
        BY <1>1 DEF Taken
    <2>4. u[n] = UsedLeft[i]
        BY <1>2, <2>1, <2>2
    <2> QED
        BY <2>2, <2>3, <2>4, SMTT(20)
<1>4. Len(u) + Len(PoolLeft) = NumEntries
    BY <1>1, <1>2, <1>3, EntriesAssumption, SMTT(20) DEF Taken
<1>5. \A n, k \in 1 .. Len(u) : u[n] = u[k] => n = k
    <2> SUFFICES ASSUME NEW n \in 1 .. Len(u), NEW k \in 1 .. Len(u), u[n] = u[k]
                 PROVE  n = k
        OBVIOUS
    <2>1. CASE n = 1 \/ k = 1
        BY <1>2, <1>9, <2>1
    <2>2. CASE n # 1 /\ k # 1
        <3>1. /\ n - 1 \in 1 .. Len(used) /\ u[n] = used[n - 1]
              /\ k - 1 \in 1 .. Len(used) /\ u[k] = used[k - 1]
            BY <1>9, <2>2
        <3>2. n - 1 = k - 1
            BY <3>1 DEF EachOnce
        <3> QED
            BY <3>2, SMTT(20)
    <2> QED
        BY <2>1, <2>2
<1>6. \A n, k \in 1 .. Len(PoolLeft) : PoolLeft[n] = PoolLeft[k] => n = k
    BY <1>1, <1>3, SMTT(20) DEF Taken, EachOnce
<1>7. \A n \in 1 .. Len(u), k \in 1 .. Len(PoolLeft) : u[n] # PoolLeft[k]
    <2> SUFFICES ASSUME NEW n \in 1 .. Len(u), NEW k \in 1 .. Len(PoolLeft)
                 PROVE  u[n] # PoolLeft[k]
        OBVIOUS
    <2>1. n = 1 \/ (u[n] = used[n - 1] /\ n - 1 \in 1 .. Len(used))
        BY <1>9
    <2>2. PoolLeft[k] # Victim /\ PoolLeft[k] = pool[k] /\ k \in 1 .. Len(pool)
        BY <1>1, <1>3, SMTT(20) DEF Taken
    <2>3. \A i \in 1 .. Len(used) : used[i] # pool[k]
        BY <2>2 DEF EachOnce
    <2> QED
        BY <1>2, <2>1, <2>2, <2>3
<1>8. \A e \in Entries : \/ \E n \in 1 .. Len(u) : u[n] = e
                         \/ \E n \in 1 .. Len(PoolLeft) : PoolLeft[n] = e
    <2> SUFFICES ASSUME NEW e \in Entries, e # Victim
                 PROVE  \/ \E n \in 1 .. Len(u) : u[n] = e
                        \/ \E n \in 1 .. Len(PoolLeft) : PoolLeft[n] = e
        BY <1>2, <1>3, SMTT(20)
    <2>1. CASE \E n \in 1 .. Len(used) : used[n] = e
        <3>1. PICK n \in 1 .. Len(UsedLeft) : UsedLeft[n] = e
            <4>1. PICK n \in 1 .. Len(used) : used[n] = e
                BY <2>1
            <4>2. n \in Nat /\ 1 <= n
                BY SMTT(20)
            <4>3. n <= Len(UsedLeft)
                BY <1>1, <4>1 DEF Taken
            <4>4. n \in 1 .. Len(UsedLeft)
                BY <1>3, <4>2, <4>3, SMTT(20)
            <4>5. UsedLeft[n] = e
                BY <1>1, <4>1, <4>4 DEF Taken
            <4> QED
                BY <4>4, <4>5
        <3>2. n + 1 \in 1 .. Len(u) /\ u[n + 1] = e
            BY <1>2, <1>3, <3>1, SMTT(20)
        <3> QED
            BY <3>2
    <2>2. CASE \E n \in 1 .. Len(pool) : pool[n] = e
        BY <1>1, <1>3, <2>2, SMTT(20) DEF Taken
    <2> QED
        BY <2>1, <2>2 DEF EachOnce
<1> QED
    BY <1>4, <1>5, <1>6, <1>7, <1>8 DEF EachOnce, u
\* cache_free() puts the entry on top of the free ones.
LEMMA GivenBackOnce ==
    ASSUME used \in Seq(Entries), pool \in Seq(Entries), EachOnce(used, pool)
    PROVE  EachOnce(UsedLeft, Append(PoolLeft, Victim))
<1>1. Taken
    BY AllocTakes
<1> DEFINE q == Append(PoolLeft, Victim)
<1>2. /\ Len(q) = Len(PoolLeft) + 1 /\ q[Len(PoolLeft) + 1] = Victim
      /\ \A n \in 1 .. Len(PoolLeft) : q[n] = PoolLeft[n]
    BY <1>1, SMTT(20) DEF Taken
<1> HIDE DEF q
<1>3. Len(UsedLeft) \in Nat /\ Len(PoolLeft) \in Nat
    BY <1>1, SMTT(20) DEF Taken
<1>4. Len(UsedLeft) + Len(q) = NumEntries
    BY <1>1, <1>2, <1>3, EntriesAssumption, SMTT(20) DEF Taken
<1>5. \A n, k \in 1 .. Len(UsedLeft) : UsedLeft[n] = UsedLeft[k] => n = k
    BY <1>1, <1>3, SMTT(20) DEF Taken, EachOnce
<1>6. ASSUME NEW n \in 1 .. Len(q), n # Len(q)
      PROVE  /\ n \in 1 .. Len(PoolLeft) /\ n \in 1 .. Len(pool)
             /\ q[n] = pool[n] /\ q[n] # Victim
    <2>1. n \in 1 .. Len(PoolLeft)
        BY <1>2, <1>3, <1>6, SMTT(20)
    <2>2. n <= Len(pool) /\ PoolLeft[n] = pool[n] /\ PoolLeft[n] # Victim
        BY <1>1, <2>1 DEF Taken
    <2> QED
        BY <1>2, <2>1, <2>2, SMTT(20)
<1>7. \A n, k \in 1 .. Len(q) : q[n] = q[k] => n = k
    <2> SUFFICES ASSUME NEW n \in 1 .. Len(q), NEW k \in 1 .. Len(q), q[n] = q[k]
                 PROVE  n = k
        OBVIOUS
    <2>1. CASE n = Len(q) \/ k = Len(q)
        BY <1>2, <1>6, <2>1
    <2>2. CASE n # Len(q) /\ k # Len(q)
        BY <1>6, <2>2, SMTT(20) DEF EachOnce
    <2> QED
        BY <2>1, <2>2
<1>8. \A n \in 1 .. Len(UsedLeft), k \in 1 .. Len(q) : UsedLeft[n] # q[k]
    <2> SUFFICES ASSUME NEW n \in 1 .. Len(UsedLeft), NEW k \in 1 .. Len(q)
                 PROVE  UsedLeft[n] # q[k]
        OBVIOUS
    <2>1. UsedLeft[n] # Victim /\ UsedLeft[n] = used[n] /\ n \in 1 .. Len(used)
        BY <1>1, <1>3, SMTT(20) DEF Taken
    <2>2. k = Len(q) \/ (q[k] = pool[k] /\ k \in 1 .. Len(pool))
        BY <1>6
    <2> QED
        BY <1>2, <2>1, <2>2, SMTT(20) DEF EachOnce
<1>9. \A e \in Entries : \/ \E n \in 1 .. Len(UsedLeft) : UsedLeft[n] = e
                         \/ \E n \in 1 .. Len(q) : q[n] = e
    <2> SUFFICES ASSUME NEW e \in Entries, e # Victim
                 PROVE  \/ \E n \in 1 .. Len(UsedLeft) : UsedLeft[n] = e
                        \/ \E n \in 1 .. Len(q) : q[n] = e
        BY <1>2, <1>3, SMTT(20)
    <2>1. CASE \E n \in 1 .. Len(used) : used[n] = e
        BY <1>1, <1>3, <2>1, SMTT(20) DEF Taken
    <2>2. CASE \E n \in 1 .. Len(pool) : pool[n] = e
        <3>1. PICK n \in 1 .. Len(PoolLeft) : PoolLeft[n] = e
            BY <1>1, <1>3, <2>2, SMTT(20) DEF Taken
        <3>2. n \in 1 .. Len(q) /\ q[n] = e
            BY <1>2, <1>3, <3>1, SMTT(20)
        <3> QED
            BY <3>2
    <2> QED
        BY <2>1, <2>2 DEF EachOnce
<1> QED
    BY <1>4, <1>5, <1>7, <1>8, <1>9 DEF EachOnce, q

\* cache_search(): moving an entry to the front loses none.
LEMMA MovedOnce ==
    ASSUME used \in Seq(Entries), pool \in Seq(Entries), EachOnce(used, pool),
           NEW i \in 1 .. Len(used)
    PROVE  EachOnce(<< used[i] >> \o RemoveAt(used, i), pool)
<1> DEFINE u == << used[i] >> \o RemoveAt(used, i)
<1>1. /\ Len(u) = Len(used) /\ u[1] = used[i]
      /\ \A k \in 1 .. i - 1 : u[k + 1] = used[k]
      /\ \A k \in i + 1 .. Len(used) : u[k] = used[k]
    BY MovedToFront
<1> HIDE DEF u
<1>2. Len(used) \in Nat
    BY SMTT(20)
\* Where an entry of the new list was before.
<1> DEFINE Was(n) == IF n = 1 THEN i ELSE IF n <= i THEN n - 1 ELSE n
<1>3. ASSUME NEW n \in 1 .. Len(u)
      PROVE  Was(n) \in 1 .. Len(used) /\ u[n] = used[Was(n)]
    <2>1. CASE n = 1
        BY <1>1, <2>1
    <2>2. CASE n # 1 /\ n <= i
        <3>1. n - 1 \in 1 .. i - 1
            BY <2>2, SMTT(20)
        <3>2. u[(n - 1) + 1] = used[n - 1]
            BY <1>1, <3>1
        <3> QED
            BY <1>1, <1>2, <2>2, <3>1, <3>2, SMTT(20)
    <2>3. CASE n # 1 /\ n > i
        BY <1>1, <1>2, <2>3, SMTT(20)
    <2> QED
        BY <2>1, <2>2, <2>3, SMTT(20)
<1>4. \A n, k \in 1 .. Len(u) : u[n] = u[k] => n = k
    <2> SUFFICES ASSUME NEW n \in 1 .. Len(u), NEW k \in 1 .. Len(u), u[n] = u[k]
                 PROVE  n = k
        OBVIOUS
    <2>1. Was(n) = Was(k)
        <3> HIDE DEF Was
        <3> QED
            BY <1>3, SMTT(20) DEF EachOnce
    <2> QED
        BY <1>1, <1>2, <2>1, SMTT(20)
<1>5. \A n \in 1 .. Len(u), k \in 1 .. Len(pool) : u[n] # pool[k]
    <2> HIDE DEF Was
    <2> QED
        BY <1>3, SMTT(20) DEF EachOnce
<1>6. ASSUME NEW n \in 1 .. Len(used)
      PROVE  \E k \in 1 .. Len(u) : u[k] = used[n]
    <2>1. CASE n = i
        BY <1>1, <1>2, <2>1, SMTT(20)
    <2>2. CASE n < i
        <3>1. n + 1 \in 1 .. Len(u) /\ u[n + 1] = used[n]
            BY <1>1, <1>2, <2>2, SMTT(20)
        <3> QED
            BY <3>1
    <2>3. CASE n > i
        <3>1. n \in 1 .. Len(u) /\ u[n] = used[n]
            BY <1>1, <1>2, <2>3, SMTT(20)
        <3> QED
            BY <3>1
    <2> QED
        BY <2>1, <2>2, <2>3, SMTT(20)
<1>7. \A e \in Entries : \/ \E n \in 1 .. Len(u) : u[n] = e
                         \/ \E n \in 1 .. Len(pool) : pool[n] = e
    BY <1>6 DEF EachOnce
<1> QED
    BY <1>1, <1>4, <1>5, <1>7 DEF EachOnce, u
-----------------------------------------------------------------------------
(***************************************************************************)
(* Windows.  There are addresses enough: some address of Maps is free      *)
(* while every window but one has an entry of its own.                     *)
(***************************************************************************)
Accounted(mapped, leak) ==
    \A m \in DOMAIN mapped : m = leak \/ \E e \in Entries : entry[e].map = m

LEMMA AddressFree ==
    ASSUME NEW mapped, DOMAIN mapped \subseteq Maps,
           NEW leak, Accounted(mapped, leak)
    PROVE  \E m \in Maps \ DOMAIN mapped :
              \A y \in Maps \ DOMAIN mapped : m <= y
<1> DEFINE f == [e \in 0 .. NumEntries |->
                    IF e = NumEntries THEN leak ELSE entry[e].map]
           T == {f[e] : e \in 0 .. NumEntries}
<1>1. IsFiniteSet(0 .. NumEntries) /\ Cardinality(0 .. NumEntries) = NumEntries + 1
    BY FS_Interval, EntriesAssumption, SMTT(20)
<1>2. f \in Surjection(0 .. NumEntries, T)
    BY DEF Surjection
<1>3. IsFiniteSet(T) /\ Cardinality(T) <= NumEntries + 1
    BY <1>1, <1>2, FS_Surjection, SMTT(20)
<1>4. DOMAIN mapped \subseteq T
    <2> SUFFICES ASSUME NEW m \in DOMAIN mapped  PROVE m \in T
        OBVIOUS
    <2>1. CASE m = leak
        <3>1. NumEntries \in 0 .. NumEntries /\ f[NumEntries] = m
            BY <2>1, EntriesAssumption, SMTT(20)
        <3> QED
            BY <3>1
    <2>2. CASE \E e \in Entries : entry[e].map = m
        <3>1. PICK e \in Entries : entry[e].map = m
            BY <2>2
        <3>2. e \in 0 .. NumEntries /\ e # NumEntries
            BY EntriesAssumption, SMTT(20) DEF Entries
        <3>3. f[e] = m
            BY <3>1, <3>2
        <3> QED
            BY <3>2, <3>3
    <2> QED
        BY <2>1, <2>2 DEF Accounted
<1> HIDE DEF T
<1>5. IsFiniteSet(Maps) /\ Cardinality(Maps) = NumEntries + 2
    BY FS_Interval, EntriesAssumption, SMTT(20) DEF Maps
<1>6. /\ Cardinality(T) \in Nat
      /\ IsFiniteSet(DOMAIN mapped) /\ Cardinality(DOMAIN mapped) <= Cardinality(T)
      /\ Cardinality(DOMAIN mapped) \in Nat
    BY <1>3, <1>4, FS_Subset, FS_CardinalityType
<1>7. DOMAIN mapped # Maps
    BY <1>3, <1>5, <1>6, EntriesAssumption, SMTT(20)
<1>8. Maps \ DOMAIN mapped # {}
    BY <1>7
<1>9. Maps \ DOMAIN mapped \in SUBSET Nat
    BY SMTT(20) DEF Maps
<1> QED
    BY <1>8, <1>9, LeastNatural

\* update_mmap_range(): the new window takes an address that was free.
NewWindow(m, o, mapped) ==
    /\ window' = [buf |-> m, start |-> o, end |-> WindowEnd(o)]
    /\ maps' = [x \in DOMAIN mapped \cup {m} |->
                   IF x = m THEN [start |-> o, end |-> WindowEnd(o)]
                   ELSE mapped[x]]

LEMMA WindowMapped ==
    ASSUME NEW mapped, DOMAIN mapped \subseteq Maps,
           NEW leak, Accounted(mapped, leak),
           NEW o, MapWindow(o, mapped)
    PROVE  \E m \in Maps \ DOMAIN mapped : NewWindow(m, o, mapped)
<1> DEFINE free == Maps \ DOMAIN mapped
           m == CHOOSE x \in free : \A y \in free : x <= y
<1>1. m \in free
    BY AddressFree
<1>2. NewWindow(m, o, mapped)
    BY DEF MapWindow, NewWindow
<1> HIDE DEF m
<1> QED
    BY <1>1, <1>2

\* cache_alloc() unmaps the window of the entry it evicts, and no other.
LEMMA MapsLeftOwned ==
    ASSUME ListInv
    PROVE  /\ DOMAIN MapsLeft \subseteq DOMAIN maps
           /\ \A m \in DOMAIN MapsLeft : MapsLeft[m] = maps[m]
           /\ \E leak \in Maps : \A m \in DOMAIN MapsLeft :
                 m = leak \/ \E n \in 1 .. Len(UsedLeft) :
                                 entry[UsedLeft[n]].map = m
<1>1. Taken
    BY AllocTakes DEF ListInv, TypeOK
<1>2. PICK leak \in Maps : \A m \in DOMAIN maps : m = leak \/ Owned(m)
    BY DEF ListInv, WindowsOwned
<1>3. CASE pool # << >>
    <2>1. MapsLeft = maps /\ UsedLeft = used
        BY <1>3 DEF MapsLeft, UsedLeft
    <2> QED
        BY <1>2, <2>1 DEF Owned
<1>4. CASE pool = << >>
    <2>1. /\ DOMAIN MapsLeft \subseteq DOMAIN maps
          /\ \A m \in DOMAIN MapsLeft : MapsLeft[m] = maps[m]
          /\ \A m \in DOMAIN MapsLeft : entry[Victim].map # NoMap
                                           => m # entry[Victim].map
        BY <1>4 DEF MapsLeft
    <2>2. ASSUME NEW m \in DOMAIN MapsLeft, m # leak
          PROVE  \E n \in 1 .. Len(UsedLeft) : entry[UsedLeft[n]].map = m
        <3>1. PICK n \in 1 .. Len(used) : entry[used[n]].map = m
            BY <1>2, <2>1, <2>2 DEF Owned
        <3>2. m \in Nat
            BY <2>1, SMTT(20) DEF ListInv, TypeOK, Maps
        <3>3. used[n] # Victim
            BY <2>1, <3>1, <3>2, SMTT(20) DEF NoMap
        <3>4. n <= Len(UsedLeft) /\ UsedLeft[n] = used[n]
            BY <1>1, <3>3, SMTT(20) DEF Taken
        <3>5. n \in 1 .. Len(UsedLeft)
            BY <1>1, <3>4, SMTT(20) DEF Taken
        <3> QED
            BY <3>1, <3>4, <3>5
    <2> QED
        BY <2>1, <2>2
<1> QED
    BY <1>3, <1>4

LEMMA MapsLeftAccounted ==
    ASSUME ListInv
    PROVE  /\ DOMAIN MapsLeft \subseteq Maps
           /\ \E leak \in Maps : Accounted(MapsLeft, leak)
<1>1. Taken
    BY AllocTakes DEF ListInv, TypeOK
<1>2. \A n \in 1 .. Len(UsedLeft) : UsedLeft[n] \in Entries
    BY <1>1, SeqElement DEF Taken
<1> QED
    BY <1>2, MapsLeftOwned DEF Accounted, ListInv, TypeOK
-----------------------------------------------------------------------------
(***************************************************************************)
(* The pages read last: the new one is first, and another one keeps its    *)
(* place or moves back by one, the latter if it was read after the last    *)
(* read of this page.                                                      *)
(***************************************************************************)
Kept(p, s, n) ==
    \/ n - 1 \in 1 .. Len(recent) /\ s[n] = recent[n - 1]
    \/ /\ n \in 1 .. Len(recent) /\ s[n] = recent[n]
       /\ \E k \in 1 .. n - 1 : recent[k] = p

LEMMA ReadNowIs ==
    ASSUME recent \in Seq(Nat), NEW p \in Nat
    PROVE  /\ ReadNow(p) \in Seq(Nat)
           /\ Len(ReadNow(p)) < NumEntries
           /\ \A n \in 1 .. Len(ReadNow(p)) :
                 IF n = 1 THEN ReadNow(p)[n] = p ELSE Kept(p, ReadNow(p), n)
<1> DEFINE Among == \E n \in 1 .. Len(recent) : recent[n] = p
           i == CHOOSE n \in 1 .. Len(recent) : recent[n] = p
           r == IF Among THEN RemoveAt(recent, i) ELSE recent
           s == << p >> \o r
<1>1. /\ r \in Seq(Nat)
      /\ \A n \in 1 .. Len(r) :
            \/ n \in 1 .. Len(recent) /\ r[n] = recent[n]
            \/ /\ n + 1 \in 1 .. Len(recent) /\ r[n] = recent[n + 1]
               /\ \E k \in 1 .. n : recent[k] = p
    <2>1. CASE ~ Among
        BY <2>1
    <2>2. CASE Among
        <3>1. i \in 1 .. Len(recent) /\ recent[i] = p
            BY <2>2
        <3> HIDE DEF i
        <3>2. /\ r \in Seq(Nat) /\ Len(r) = Len(recent) - 1
              /\ \A k \in 1 .. i - 1 : r[k] = recent[k]
              /\ \A k \in i + 1 .. Len(recent) : r[k - 1] = recent[k]
            BY <2>2, <3>1, Removed
        <3> HIDE DEF r
        <3>3. ASSUME NEW n \in 1 .. Len(r), n >= i
              PROVE  /\ n + 1 \in 1 .. Len(recent) /\ r[n] = recent[n + 1]
                     /\ \E k \in 1 .. n : recent[k] = p
            <4>1. n + 1 \in i + 1 .. Len(recent)
                BY <3>1, <3>2, <3>3, SMTT(20)
            <4>2. r[(n + 1) - 1] = recent[n + 1]
                BY <3>2, <4>1
            <4>3. (n + 1) - 1 = n
                BY SMTT(20)
            <4>4. n + 1 \in 1 .. Len(recent)
                BY <3>1, <4>1, SMTT(20)
            <4>5. i \in 1 .. n
                BY <3>1, <3>3, SMTT(20)
            <4> QED
                BY <3>1, <4>2, <4>3, <4>4, <4>5
        <3>4. ASSUME NEW n \in 1 .. Len(r), ~ (n >= i)
              PROVE  n \in 1 .. Len(recent) /\ r[n] = recent[n]
            BY <3>1, <3>2, <3>4, SMTT(20)
        <3> QED
            BY <3>2, <3>3, <3>4
    <2> QED
        BY <2>1, <2>2
<1> HIDE DEF r
<1>2. /\ s \in Seq(Nat) /\ Len(s) = Len(r) + 1 /\ s[1] = p
      /\ \A n \in 2 .. Len(r) + 1 : s[n] = r[n - 1]
    BY <1>1, InFront, SMTT(20)
<1>3. ASSUME NEW n \in 2 .. Len(s)
      PROVE  Kept(p, s, n)
    <2>1. PICK j \in 1 .. Len(r) : j = n - 1
        BY <1>1, <1>2, SMTT(20)
    <2>2. s[n] = r[j] /\ n = j + 1
        BY <1>1, <1>2, <2>1, SMTT(20)
    <2>3. CASE j \in 1 .. Len(recent) /\ r[j] = recent[j]
        BY <2>1, <2>2, <2>3 DEF Kept
    <2>4. CASE /\ j + 1 \in 1 .. Len(recent) /\ r[j] = recent[j + 1]
               /\ \E k \in 1 .. j : recent[k] = p
        BY <2>1, <2>2, <2>4 DEF Kept
    <2> QED
        BY <1>1, <2>3, <2>4
<1>4. ReadNow(p) = IF Len(s) < NumEntries THEN s ELSE SubSeq(s, 1, NumEntries - 1)
    BY DEF ReadNow, r
<1> HIDE DEF s
<1>5. CASE Len(s) < NumEntries
    BY <1>2, <1>3, <1>4, <1>5, SMTT(20)
<1>6. CASE ~ (Len(s) < NumEntries)
    <2>1. NumEntries \in 1 .. Len(s)
        BY <1>2, <1>6, EntriesAssumption, SMTT(20)
    <2>2. /\ SubSeq(s, 1, NumEntries - 1) \in Seq(Nat)
          /\ Len(SubSeq(s, 1, NumEntries - 1)) = NumEntries - 1
          /\ \A n \in 1 .. NumEntries - 1 : SubSeq(s, 1, NumEntries - 1)[n] = s[n]
        BY <1>2, <2>1, SMTT(20)
    <2>3. \A n \in 1 .. NumEntries - 1 :
             n = 1 \/ Kept(p, SubSeq(s, 1, NumEntries - 1), n)
        <3> SUFFICES ASSUME NEW n \in 1 .. NumEntries - 1, n # 1
                     PROVE  Kept(p, SubSeq(s, 1, NumEntries - 1), n)
            OBVIOUS
        <3>1. n \in 2 .. Len(s)
            BY <1>2, <2>1, SMTT(20)
        <3> QED
            BY <1>3, <2>2, <3>1 DEF Kept
    <2> QED
        BY <1>2, <1>4, <1>6, <2>2, <2>3, EntriesAssumption, SMTT(20)
<1> QED
    BY <1>5, <1>6
-----------------------------------------------------------------------------
(***************************************************************************)
(* cache_add() and cache_free(), on the lists and the owners of windows.   *)
(***************************************************************************)
EntryType == [paddr : Int, buflen : Nat, map : Maps \cup {NoMap}]

LEMMA ListsAdded ==
    ASSUME ListInv, NEW r \in EntryType,
           used' = << Victim >> \o UsedLeft, pool' = PoolLeft,
           entry' = [entry EXCEPT ![Victim] = r]
    PROVE  /\ used' \in Seq(Entries) /\ pool' \in Seq(Entries)
           /\ entry' \in [Entries -> EntryType]
           /\ EachOnce(used', pool')
           /\ Len(used') = Len(UsedLeft) + 1
           /\ used'[1] = Victim /\ entry'[Victim] = r
           /\ \A n \in 1 .. Len(UsedLeft) :
                 /\ used'[n + 1] = used[n]
                 /\ n \in 1 .. Len(used)
                 /\ entry'[used[n]] = entry[used[n]]
           /\ \A n \in 1 .. Len(pool') : entry'[pool'[n]].map = NoMap
           /\ \A m : (\E n \in 1 .. Len(UsedLeft) : entry[UsedLeft[n]].map = m)
                        => Owned(m)'
           /\ Owned(r.map)'
<1>1. Taken
    BY AllocTakes DEF ListInv, TypeOK
<1>11. used \in Seq(Entries) /\ pool \in Seq(Entries)
    BY DEF ListInv, TypeOK
<1>12. /\ Len(used) \in Nat /\ Len(UsedLeft) \in Nat
       /\ Len(pool) \in Nat /\ Len(PoolLeft) \in Nat
    BY <1>11, <1>1, SMTT(20) DEF Taken
<1>2. EachOnce(used', pool')
    BY AddedOnce DEF ListInv, TypeOK
<1>3. /\ used' \in Seq(Entries) /\ Len(used') = Len(UsedLeft) + 1
      /\ used'[1] = Victim
      /\ \A n \in 1 .. Len(UsedLeft) : used'[n + 1] = UsedLeft[n]
    BY <1>1, InFront, SMTT(20) DEF Taken
<1>4. pool' \in Seq(Entries)
    BY <1>1 DEF Taken
<1>5. entry \in [Entries -> EntryType]
    BY DEF ListInv, TypeOK, EntryType
<1>6. /\ entry' \in [Entries -> EntryType] /\ entry'[Victim] = r
      /\ \A e \in Entries : e # Victim => entry'[e] = entry[e]
    BY <1>1, <1>5 DEF Taken
<1>7. \A n \in 1 .. Len(UsedLeft) :
         /\ used'[n + 1] = used[n] /\ UsedLeft[n] = used[n]
         /\ n \in 1 .. Len(used)
         /\ entry'[used[n]] = entry[used[n]]
    <2> SUFFICES ASSUME NEW n \in 1 .. Len(UsedLeft)
                 PROVE  /\ used'[n + 1] = used[n] /\ UsedLeft[n] = used[n]
                        /\ n \in 1 .. Len(used)
                        /\ entry'[used[n]] = entry[used[n]]
        OBVIOUS
    <2>1. n <= Len(used) /\ UsedLeft[n] = used[n] /\ UsedLeft[n] # Victim
        BY <1>1 DEF Taken
    <2>2. Len(used) \in Nat /\ Len(UsedLeft) \in Nat
        BY <1>12
    <2>3. UsedLeft[n] \in Entries
        BY <1>1, SeqElement DEF Taken
    <2> QED
        BY <1>3, <1>6, <2>1, <2>2, <2>3, SMTT(20)
<1>8. ASSUME NEW n \in 1 .. Len(pool')
      PROVE  entry'[pool'[n]].map = NoMap
    <2>1. n \in 1 .. Len(PoolLeft) /\ Len(pool) \in Nat /\ Len(PoolLeft) \in Nat
        BY <1>12
    <2>2. n <= Len(pool) /\ PoolLeft[n] = pool[n] /\ PoolLeft[n] # Victim
        BY <1>1, <2>1 DEF Taken
    <2>3. pool[n] \in Entries /\ entry[pool[n]].map = NoMap
        BY <2>1, <2>2, SeqElement, SMTT(20) DEF ListInv, TypeOK, WindowsOwned
    <2> QED
        BY <1>6, <2>2, <2>3
<1>9. ASSUME NEW m, NEW n \in 1 .. Len(UsedLeft), entry[UsedLeft[n]].map = m
      PROVE  Owned(m)'
    <2>1. n + 1 \in 1 .. Len(used')
        BY <1>1, <1>3, SMTT(20) DEF Taken
    <2>2. entry'[used'[n + 1]].map = m
        BY <1>7, <1>9
    <2> QED
        BY <2>1, <2>2 DEF Owned
<1>10. Owned(r.map)'
    <2>1. 1 \in 1 .. Len(used') /\ entry'[used'[1]].map = r.map
        BY <1>1, <1>3, <1>6, SMTT(20) DEF Taken
    <2> QED
        BY <2>1 DEF Owned
<1> QED
    BY <1>2, <1>3, <1>4, <1>6, <1>7, <1>8, <1>9, <1>10

LEMMA ListsGivenBack ==
    ASSUME ListInv, NEW r \in EntryType, r.map = NoMap,
           used' = UsedLeft, pool' = Append(PoolLeft, Victim),
           entry' = [entry EXCEPT ![Victim] = r]
    PROVE  /\ used' \in Seq(Entries) /\ pool' \in Seq(Entries)
           /\ entry' \in [Entries -> EntryType]
           /\ EachOnce(used', pool')
           /\ \A n \in 1 .. Len(UsedLeft) :
                 /\ used'[n] = used[n] /\ n \in 1 .. Len(used)
                 /\ entry'[used[n]] = entry[used[n]]
           /\ \A n \in 1 .. Len(pool') : entry'[pool'[n]].map = NoMap
           /\ \A m : (\E n \in 1 .. Len(UsedLeft) : entry[UsedLeft[n]].map = m)
                        => Owned(m)'
<1>1. Taken
    BY AllocTakes DEF ListInv, TypeOK
<1>11. used \in Seq(Entries) /\ pool \in Seq(Entries)
    BY DEF ListInv, TypeOK
<1>12. /\ Len(used) \in Nat /\ Len(UsedLeft) \in Nat
       /\ Len(pool) \in Nat /\ Len(PoolLeft) \in Nat
    BY <1>11, <1>1, SMTT(20) DEF Taken
<1>2. EachOnce(used', pool')
    BY GivenBackOnce DEF ListInv, TypeOK
<1>3. /\ pool' \in Seq(Entries) /\ Len(pool') = Len(PoolLeft) + 1
      /\ pool'[Len(PoolLeft) + 1] = Victim
      /\ \A n \in 1 .. Len(PoolLeft) : pool'[n] = PoolLeft[n]
    BY <1>1, SMTT(20) DEF Taken
<1>4. used' \in Seq(Entries)
    BY <1>1 DEF Taken
<1>5. entry \in [Entries -> EntryType]
    BY DEF ListInv, TypeOK, EntryType
<1>6. /\ entry' \in [Entries -> EntryType] /\ entry'[Victim] = r
      /\ \A e \in Entries : e # Victim => entry'[e] = entry[e]
    BY <1>1, <1>5 DEF Taken
<1>7. \A n \in 1 .. Len(UsedLeft) :
         /\ used'[n] = used[n] /\ UsedLeft[n] = used[n]
         /\ n \in 1 .. Len(used)
         /\ entry'[used[n]] = entry[used[n]]
    <2> SUFFICES ASSUME NEW n \in 1 .. Len(UsedLeft)
                 PROVE  /\ used'[n] = used[n] /\ UsedLeft[n] = used[n]
                        /\ n \in 1 .. Len(used)
                        /\ entry'[used[n]] = entry[used[n]]
        OBVIOUS
    <2>1. n <= Len(used) /\ UsedLeft[n] = used[n] /\ UsedLeft[n] # Victim
        BY <1>1 DEF Taken
    <2>2. Len(used) \in Nat /\ Len(UsedLeft) \in Nat
        BY <1>12
    <2>3. UsedLeft[n] \in Entries
        BY <1>1, SeqElement DEF Taken
    <2> QED
        BY <1>6, <2>1, <2>2, <2>3, SMTT(20)
<1>8. ASSUME NEW n \in 1 .. Len(pool')
      PROVE  entry'[pool'[n]].map = NoMap
    <2>1. CASE n = Len(PoolLeft) + 1
        BY <1>3, <1>6, <2>1
    <2>2. CASE n # Len(PoolLeft) + 1
        <3>1. n \in 1 .. Len(PoolLeft) /\ Len(pool) \in Nat /\ Len(PoolLeft) \in Nat
            BY <1>3, <1>12, <2>2, SMTT(20)
        <3>2. n <= Len(pool) /\ PoolLeft[n] = pool[n] /\ PoolLeft[n] # Victim
            BY <1>1, <3>1 DEF Taken
        <3>3. pool[n] \in Entries /\ entry[pool[n]].map = NoMap
            BY <3>1, <3>2, SeqElement, SMTT(20) DEF ListInv, TypeOK, WindowsOwned
        <3> QED
            BY <1>3, <1>6, <3>1, <3>2, <3>3
    <2> QED
        BY <2>1, <2>2
<1>9. ASSUME NEW m, NEW n \in 1 .. Len(UsedLeft), entry[UsedLeft[n]].map = m
      PROVE  Owned(m)'
    BY <1>7, <1>9 DEF Owned
<1> QED
    BY <1>2, <1>3, <1>4, <1>6, <1>7, <1>8, <1>9
-----------------------------------------------------------------------------
(***************************************************************************)
(* ListInv is inductive, one lemma per action.                             *)
(***************************************************************************)
LEMMA ListInvInit == Init => ListInv
<1> SUFFICES ASSUME Init PROVE ListInv
    OBVIOUS
<1>1. pool \in Seq(Entries) /\ Len(pool) = NumEntries
      /\ \A n \in 1 .. NumEntries : pool[n] = n - 1
    <2>1. \A n \in 1 .. NumEntries : n - 1 \in Entries
        BY EntriesAssumption, SMTT(20) DEF Entries
    <2>2. pool \in [1 .. NumEntries -> Entries]
        BY <2>1 DEF Init, FullPool
    <2> QED
        BY <2>2, EntriesAssumption, SMTT(20) DEF Init, FullPool
<1>2. used \in Seq(Entries) /\ Len(used) = 0
    BY SMTT(20) DEF Init
<1>3. EachOnce(used, pool)
    <2>1. \A e \in Entries : e + 1 \in 1 .. Len(pool) /\ pool[e + 1] = e
        BY <1>1, EntriesAssumption, SMTT(20) DEF Entries
    <2> QED
        BY <1>1, <1>2, <2>1, EntriesAssumption, SMTT(20) DEF EachOnce
<1>4. TypeOK
    <2>1. flag_usemmap \in {"TRY", "ENABLE", "DISABLE"}
        BY LoadsAssumption DEF Init
    <2>2. /\ entry \in [Entries -> [paddr : Int, buflen : Nat, map : Maps \cup {NoMap}]]
          /\ buffer \in [Entries -> Nat \cup {NoPage}]
          /\ DOMAIN maps = {} /\ window.buf = NoMap
        BY SMTT(20) DEF Init
    <2> QED
        BY <1>1, <1>2, <2>1, <2>2 DEF TypeOK
<1>5. WindowOK
    BY LoadsAssumption, SMTT(20) DEF Init, WindowOK
<1>6. WindowsOwned
    <2>1. 0 \in Maps
        BY EntriesAssumption, SMTT(20) DEF Maps
    <2>2. DOMAIN maps = {}
        BY SMTT(20) DEF Init
    <2>3. \A n \in 1 .. Len(pool) : entry[pool[n]].map = NoMap
        BY <1>1, SeqElement DEF Init
    <2> QED
        BY <2>1, <2>2, <2>3 DEF WindowsOwned
<1> QED
    BY <1>3, <1>4, <1>5, <1>6 DEF ListInv

LEMMA ListInvInitialize ==
    ASSUME ListInv, InitializeMmap
    PROVE  ListInv'
<1>1. UNCHANGED <<asked, used, pool, entry, buffer, recent>>
    BY DEF InitializeMmap
<1>2. DOMAIN maps = {}
    BY DEF InitializeMmap, ListInv, WindowsOwned
<1>3. CASE UNCHANGED <<maps, window>> /\ flag_usemmap' = "DISABLE"
    BY <1>1, <1>3 DEF ListInv, TypeOK, WindowOK, WindowsOwned, Owned
<1>4. ASSUME NEW l \in Loads, MapWindow(PaddrToOffset(l.start), maps),
             flag_usemmap' = "ENABLE"
      PROVE  ListInv'
    <2> DEFINE o == PaddrToOffset(l.start)
    <2>1. l.start \in Nat /\ o # 0
        BY LoadsAssumption, StartHasOffset
    <2>2. o \in Nat /\ WindowEnd(o) \in Nat /\ o < WindowEnd(o)
        BY <2>1, PageAtOffset, WindowInLoad
    <2>3. PICK leak : Accounted(maps, leak) /\ DOMAIN maps \subseteq Maps
        BY <1>2 DEF Accounted
    <2>9. PICK mapped : mapped = maps /\ MapWindow(o, mapped)
        BY <1>4
    <2> HIDE DEF o
    <2>4. PICK m \in Maps \ DOMAIN mapped : NewWindow(m, o, mapped)
        <3>1. DOMAIN mapped \subseteq Maps /\ Accounted(mapped, leak)
            BY <2>3, <2>9
        <3>2. MapWindow(o, mapped)
            BY <2>9
        <3> QED
            BY <3>1, <3>2, WindowMapped
    <2>5. /\ DOMAIN maps' = {m}
          /\ window' = [buf |-> m, start |-> o, end |-> WindowEnd(o)]
        BY <1>2, <2>4, <2>9 DEF NewWindow
    <2>6. TypeOK'
        BY <1>1, <1>4, <2>4, <2>5 DEF ListInv, TypeOK
    <2>7. WindowOK'
        <3>1. window' \in [buf : Maps \cup {NoMap}, start : Nat, end : Nat]
            BY <2>2, <2>4, <2>5
        <3>2. window'.start <= window'.end
            BY <2>2, <2>5, SMTT(20)
        <3> QED
            BY <1>1, <3>1, <3>2 DEF ListInv, WindowOK
    <2>8. WindowsOwned'
        BY <1>1, <1>4, <2>4, <2>5 DEF ListInv, WindowsOwned
    <2> QED
        BY <1>1, <2>6, <2>7, <2>8 DEF ListInv
<1> QED
    BY <1>3, <1>4 DEF InitializeMmap

LEMMA ListInvHit ==
    ASSUME ListInv, NEW p \in asked, Hit(p)
    PROVE  ListInv'
<1>1. PICK i \in 1 .. Len(used) : used' = << used[i] >> \o RemoveAt(used, i)
    BY DEF Hit
<1>2. /\ UNCHANGED <<asked, pool, entry, buffer, maps, window, flag_usemmap>>
      /\ recent' = ReadNow(p)
    BY DEF Hit
<1>3. used \in Seq(Entries) /\ pool \in Seq(Entries) /\ EachOnce(used, pool)
    BY DEF ListInv, TypeOK
<1>4. /\ used' \in Seq(Entries) /\ Len(used') = Len(used)
      /\ used'[1] = used[i]
      /\ \A k \in 1 .. i - 1 : used'[k + 1] = used[k]
      /\ \A k \in i + 1 .. Len(used) : used'[k] = used[k]
    BY <1>1, <1>3, MovedToFront
<1>5. EachOnce(used', pool')
    BY <1>1, <1>2, <1>3, MovedOnce
<1>6. recent' \in Seq(Nat)
    BY <1>2, ReadNowIs DEF ListInv, WindowOK
<1>7. TypeOK'
    BY <1>2, <1>4 DEF ListInv, TypeOK
<1>8. WindowOK'
    BY <1>2, <1>6 DEF ListInv, WindowOK
<1>9. ASSUME NEW m, Owned(m)
      PROVE  Owned(m)'
    <2>1. PICK n \in 1 .. Len(used) : entry[used[n]].map = m
        BY <1>9 DEF Owned
    <2>2. PICK k \in 1 .. Len(used') : used'[k] = used[n]
        <3>1. CASE n = i
            BY <1>3, <1>4, <3>1, SMTT(20)
        <3>2. CASE n < i
            <4>1. n + 1 \in 1 .. Len(used') /\ used'[n + 1] = used[n]
                BY <1>3, <1>4, <3>2, SMTT(20)
            <4> QED
                BY <4>1
        <3>3. CASE n > i
            <4>1. n \in 1 .. Len(used') /\ used'[n] = used[n]
                BY <1>3, <1>4, <3>3, SMTT(20)
            <4> QED
                BY <4>1
        <3> QED
            BY <3>1, <3>2, <3>3, SMTT(20)
    <2> QED
        BY <1>2, <2>1, <2>2 DEF Owned
<1>10. WindowsOwned'
    BY <1>2, <1>9 DEF ListInv, WindowsOwned
<1> QED
    BY <1>5, <1>7, <1>8, <1>10 DEF ListInv
\* What the reads that copy the page into the entry's own buffer leave.
LEMMA ListInvOwn ==
    ASSUME ListInv, NEW p \in asked, maps' = MapsLeft, UNCHANGED asked,
           AddOwnBuffer(p) \/ GiveBack(p),
           \/ UNCHANGED <<window, flag_usemmap>>
           \/ /\ flag_usemmap' = "DISABLE"
              /\ window' = [window EXCEPT !.buf = NoMap]
    PROVE  ListInv'
<1> DEFINE r == [paddr |-> p, buflen |-> 1, map |-> NoMap]
<1>1. p \in Nat
    BY DEF ListInv, WindowOK
<1>2. r \in EntryType /\ r.map = NoMap
    BY <1>1, SMTT(20) DEF EntryType
<1>3. Taken
    BY AllocTakes DEF ListInv, TypeOK
<1>4. /\ used' \in Seq(Entries) /\ pool' \in Seq(Entries)
      /\ entry' \in [Entries -> EntryType]
      /\ EachOnce(used', pool')
      /\ \A n \in 1 .. Len(pool') : entry'[pool'[n]].map = NoMap
      /\ \A m : (\E n \in 1 .. Len(UsedLeft) : entry[UsedLeft[n]].map = m)
                   => Owned(m)'
    <2> HIDE DEF r
    <2>1. CASE AddOwnBuffer(p)
        <3>1. /\ used' = << Victim >> \o UsedLeft /\ pool' = PoolLeft
              /\ entry' = [entry EXCEPT ![Victim] = r]
            BY <2>1 DEF AddOwnBuffer, r
        <3> QED
            BY <1>2, <3>1, ListsAdded
    <2>2. CASE GiveBack(p)
        <3>1. /\ used' = UsedLeft /\ pool' = Append(PoolLeft, Victim)
              /\ entry' = [entry EXCEPT ![Victim] = r]
            BY <2>2 DEF GiveBack, r
        <3> QED
            BY <1>2, <3>1, ListsGivenBack
    <2> QED
        BY <2>1, <2>2
<1>5. buffer' \in [Entries -> Nat \cup {NoPage}]
    <2>1. buffer \in [Entries -> Nat \cup {NoPage}] /\ Victim \in Entries
        BY <1>3 DEF ListInv, TypeOK, Taken
    <2> QED
        BY <1>1, <2>1 DEF AddOwnBuffer, GiveBack
<1>6. recent' \in Seq(Nat)
    BY <1>1, ReadNowIs DEF AddOwnBuffer, GiveBack, ListInv, WindowOK
<1>7. /\ window' \in [buf : Maps \cup {NoMap}, start : Nat, end : Nat]
      /\ window'.start <= window'.end
      /\ flag_usemmap' \in {"TRY", "ENABLE", "DISABLE"}
      /\ flag_usemmap' = "TRY" => flag_usemmap = "TRY"
    <2>1. /\ window \in [buf : Maps \cup {NoMap}, start : Nat, end : Nat]
          /\ window.start <= window.end
          /\ flag_usemmap \in {"TRY", "ENABLE", "DISABLE"}
        BY DEF ListInv, WindowOK, TypeOK
    <2> QED
        BY <2>1
<1>8. /\ DOMAIN maps' \subseteq DOMAIN maps
      /\ \E leak \in Maps : \A m \in DOMAIN maps' : m = leak \/ Owned(m)'
    BY <1>4, MapsLeftOwned
<1>9. TypeOK'
    <2>1. window'.buf \in Maps \cup {NoMap}
        BY <1>7
    <2>2. DOMAIN maps' \subseteq Maps
        BY <1>8 DEF ListInv, TypeOK
    <2> QED
        BY <1>4, <1>5, <1>7, <2>1, <2>2 DEF TypeOK, EntryType
<1>10. WindowOK'
    BY <1>6, <1>7 DEF WindowOK, ListInv
<1>11. WindowsOwned'
    BY <1>4, <1>7, <1>8 DEF WindowsOwned, ListInv
<1> QED
    BY <1>4, <1>9, <1>10, <1>11 DEF ListInv

LEMMA ListInvMapPage ==
    ASSUME ListInv, NEW p \in asked, MapPage(p)
    PROVE  ListInv'
<1> DEFINE o == PaddrToOffset(p)
<1>1. p \in Nat /\ o # 0
    BY DEF ListInv, WindowOK, MapPage, Mappable
<1>2. o \in Nat /\ WindowEnd(o) \in Nat /\ o < WindowEnd(o)
    BY <1>1, PageAtOffset, WindowInLoad
<1>3. /\ window \in [buf : Maps \cup {NoMap}, start : Nat, end : Nat]
      /\ window.start <= window.end
    BY DEF ListInv, WindowOK
<1>4. /\ used' = << Victim >> \o UsedLeft /\ pool' = PoolLeft
      /\ entry' = [entry EXCEPT ![Victim] =
                     [paddr |-> p - (o - window'.start),
                      buflen |-> window'.end - window'.start,
                      map |-> window'.buf]]
      /\ recent' = ReadNow(p)
      /\ UNCHANGED <<asked, buffer, flag_usemmap>>
      /\ flag_usemmap = "ENABLE"
    BY DEF MapPage
<1> HIDE DEF o
<1>5. /\ window' \in [buf : Maps \cup {NoMap}, start : Nat, end : Nat]
      /\ window'.start <= window'.end
      /\ DOMAIN maps' \subseteq Maps
      /\ \E leak \in Maps : \A m \in DOMAIN maps' :
            \/ m = leak
            \/ m = window'.buf
            \/ \E n \in 1 .. Len(UsedLeft) : entry[UsedLeft[n]].map = m
    <2>1. CASE InWindow(p)
        <3>1. maps' = MapsLeft /\ window' = window
            BY <2>1 DEF MapPage
        <3> QED
            BY <1>3, <3>1, MapsLeftOwned DEF ListInv, TypeOK
    <2>2. CASE ~ InWindow(p)
        <3>1. MapWindow(o, MapsLeft)
            BY <2>2 DEF MapPage, o
        <3>2. PICK m \in Maps \ DOMAIN MapsLeft : NewWindow(m, o, MapsLeft)
            BY <3>1, MapsLeftAccounted, WindowMapped
        <3>3. /\ window' = [buf |-> m, start |-> o, end |-> WindowEnd(o)]
              /\ DOMAIN maps' = DOMAIN MapsLeft \cup {m} /\ window'.buf = m
            BY <3>2 DEF NewWindow
        <3>4. /\ window' \in [buf : Maps \cup {NoMap}, start : Nat, end : Nat]
              /\ window'.start <= window'.end
            BY <1>2, <3>3, SMTT(20)
        <3>5. DOMAIN maps' \subseteq Maps
            BY <3>3, MapsLeftAccounted
        <3> QED
            BY <3>3, <3>4, <3>5, MapsLeftOwned
    <2> QED
        BY <2>1, <2>2
<1>6. PICK r \in EntryType : /\ r.map = window'.buf
                             /\ entry' = [entry EXCEPT ![Victim] = r]
    <2>1. [paddr |-> p - (o - window'.start),
           buflen |-> window'.end - window'.start,
           map |-> window'.buf] \in EntryType
        BY <1>1, <1>2, <1>5, SMTT(20) DEF EntryType
    <2> QED
        BY <1>4, <2>1
<1>7. /\ used' \in Seq(Entries) /\ pool' \in Seq(Entries)
      /\ entry' \in [Entries -> EntryType]
      /\ EachOnce(used', pool')
      /\ \A n \in 1 .. Len(pool') : entry'[pool'[n]].map = NoMap
      /\ \A m : (\E n \in 1 .. Len(UsedLeft) : entry[UsedLeft[n]].map = m)
                   => Owned(m)'
      /\ Owned(r.map)'
    BY <1>4, <1>6, ListsAdded
<1>8. recent' \in Seq(Nat)
    BY <1>1, <1>4, ReadNowIs DEF ListInv, WindowOK
<1>9. TypeOK'
    <2>1. window'.buf \in Maps \cup {NoMap}
        BY <1>5
    <2> QED
        BY <1>4, <1>5, <1>7, <2>1 DEF TypeOK, EntryType, ListInv
<1>10. WindowOK'
    BY <1>4, <1>5, <1>8 DEF WindowOK, ListInv
<1>11. WindowsOwned'
    <2>1. PICK leak \in Maps : \A m \in DOMAIN maps' :
             \/ m = leak
             \/ m = window'.buf
             \/ \E n \in 1 .. Len(UsedLeft) : entry[UsedLeft[n]].map = m
        BY <1>5
    <2>2. \A m \in DOMAIN maps' : m = leak \/ Owned(m)'
        BY <1>6, <1>7, <2>1
    <2>3. flag_usemmap' # "TRY"
        BY <1>4
    <2> QED
        BY <1>7, <2>2, <2>3 DEF WindowsOwned
<1> QED
    BY <1>7, <1>9, <1>10, <1>11 DEF ListInv

LEMMA ListInvNext == ListInv /\ [Next]_vars => ListInv'
<1> SUFFICES ASSUME ListInv, [Next]_vars PROVE ListInv'
    OBVIOUS
<1>1. CASE InitializeMmap
    BY <1>1, ListInvInitialize
<1>2. ASSUME NEW p \in asked, Hit(p)
      PROVE  ListInv'
    BY <1>2, ListInvHit
<1>3. ASSUME NEW p \in asked, ReadPage(p)
      PROVE  ListInv'
    BY <1>3, ListInvOwn DEF ReadPage
<1>4. ASSUME NEW p \in asked, MapPage(p)
      PROVE  ListInv'
    BY <1>4, ListInvMapPage
<1>5. ASSUME NEW p \in asked, MmapFails(p)
      PROVE  ListInv'
    BY <1>5, ListInvOwn DEF MmapFails
<1>6. ASSUME NEW p \in asked, ReadFails(p)
      PROVE  ListInv'
    BY <1>6, ListInvOwn DEF ReadFails
<1>7. CASE UNCHANGED vars
    <2>1. UNCHANGED <<asked, used, pool, entry, buffer, maps, window,
                      flag_usemmap, recent>>
        BY <1>7 DEF vars
    <2> QED
        BY <2>1 DEF ListInv, TypeOK, WindowOK, WindowsOwned, Owned
<1> QED
    BY <1>1, <1>2, <1>3, <1>4, <1>5, <1>6, <1>7 DEF Next, Readmem

LEMMA ListInvAccounts == ListInv => EntriesAccounted
<1> SUFFICES ASSUME ListInv PROVE EntriesAccounted
    OBVIOUS
<1>1. used \in Seq(Entries) /\ pool \in Seq(Entries) /\ EachOnce(used, pool)
    BY DEF ListInv, TypeOK
<1> DEFINE all == used \o pool
<1>2. /\ Len(all) = Len(used) + Len(pool)
      /\ \A n \in 1 .. Len(used) : all[n] = used[n]
      /\ \A n \in 1 .. Len(pool) : all[Len(used) + n] = pool[n]
      /\ Len(used) \in Nat /\ Len(pool) \in Nat
    BY <1>1, SMTT(20)
<1> HIDE DEF all
<1>3. ASSUME NEW e \in Entries
      PROVE  \E n \in 1 .. Len(all) : all[n] = e
    <2>1. CASE \E n \in 1 .. Len(used) : used[n] = e
        <3>1. PICK n \in 1 .. Len(used) : used[n] = e
            BY <2>1
        <3>2. n \in 1 .. Len(all) /\ all[n] = e
            BY <1>2, <3>1, SMTT(20)
        <3> QED
            BY <3>2
    <2>2. CASE \E n \in 1 .. Len(pool) : pool[n] = e
        <3>1. PICK n \in 1 .. Len(pool) : pool[n] = e
            BY <2>2
        <3>2. Len(used) + n \in 1 .. Len(all) /\ all[Len(used) + n] = e
            BY <1>2, <3>1, SMTT(20)
        <3> QED
            BY <3>2
    <2> QED
        BY <1>1, <2>1, <2>2 DEF EachOnce
<1>4. AtMostOneWindowLeaks
    <2> DEFINE lost == {m \in DOMAIN maps :
                           \A n \in 1 .. Len(used) : entry[used[n]].map # m}
    <2>1. PICK leak \in Maps : \A m \in DOMAIN maps : m = leak \/ Owned(m)
        BY DEF ListInv, WindowsOwned
    <2>2. lost \in SUBSET {leak}
        BY <2>1 DEF Owned
    <2> HIDE DEF lost
    <2>3. IsFiniteSet({leak}) /\ Cardinality({leak}) = 1
        BY FS_Singleton
    <2>4. Cardinality(lost) <= 1
        BY <2>2, <2>3, FS_Subset
    <2> QED
        BY <2>4 DEF AtMostOneWindowLeaks, lost
<1>5. Len(all) = NumEntries
    BY <1>1, <1>2 DEF EachOnce
<1> QED
    BY <1>3, <1>4, <1>5 DEF EntriesAccounted, ListInv, all

(***************************************************************************)
(* Whatever is read, and whichever reads and mmap()s fail, no entry of the *)
(* cache is lost or in two lists, so that cache_alloc() never fails, and   *)
(* no window stays mapped without an entry but the one of the first trial. *)
(***************************************************************************)
THEOREM EntriesAlwaysAccounted == Spec => []EntriesAccounted
<1>1. Init => ListInv
    BY ListInvInit
<1>2. ListInv /\ [Next]_vars => ListInv'
    BY ListInvNext
<1>3. ListInv => EntriesAccounted
    BY ListInvAccounts
<1> QED
    BY <1>1, <1>2, <1>3, PTL DEF Spec

-----------------------------------------------------------------------------
(***************************************************************************)
(* Recency.  What is read becomes first; the others move back by at most   *)
(* one, and those behind the entry that was found do not move.             *)
(***************************************************************************)
LEMMA RecentHit ==
    ASSUME ListInv, RecentFirst, NEW p \in asked, Hit(p)
    PROVE  RecentFirst'
<1>1. PICK i \in 1 .. Len(used) :
         /\ Covers(used[i], p)
         /\ \A k \in 1 .. i - 1 : ~ Covers(used[k], p)
         /\ used' = << used[i] >> \o RemoveAt(used, i)
    BY DEF Hit
<1>2. UNCHANGED entry /\ recent' = ReadNow(p)
    BY DEF Hit
<1>3. used \in Seq(Entries) /\ Len(used) \in Nat
    BY SMTT(20) DEF ListInv, TypeOK
<1>4. /\ Len(used') = Len(used)
      /\ used'[1] = used[i]
      /\ \A k \in 1 .. i - 1 : used'[k + 1] = used[k]
      /\ \A k \in i + 1 .. Len(used) : used'[k] = used[k]
    BY <1>1, <1>3, MovedToFront
<1>5. recent \in Seq(Nat) /\ p \in Nat
    BY DEF ListInv, WindowOK
<1>6. /\ recent' \in Seq(Nat) /\ Len(recent') < NumEntries
      /\ \A n \in 1 .. Len(recent') :
            IF n = 1 THEN recent'[n] = p ELSE Kept(p, recent', n)
    BY <1>2, <1>5, ReadNowIs
<1>7. \A e, q : Covers(e, q) <=> CoversIn(entry', e, q)
    BY <1>2 DEF Covers, CoversIn
\* An entry is one place further back at most, or where it was if behind i.
<1>9. ASSUME NEW k \in 1 .. Len(used)
      PROVE  \E j \in 1 .. Len(used') :
                /\ used'[j] = used[k] /\ j <= k + 1
                /\ k >= i => j <= k
    <2>1. CASE k = i
        BY <1>3, <1>4, <2>1, SMTT(20)
    <2>2. CASE k < i
        <3>1. k + 1 \in 1 .. Len(used') /\ used'[k + 1] = used[k]
            BY <1>3, <1>4, <2>2, SMTT(20)
        <3> QED
            BY <2>2, <3>1, SMTT(20)
    <2>3. CASE k > i
        <3>1. k \in 1 .. Len(used') /\ used'[k] = used[k]
            BY <1>3, <1>4, <2>3, SMTT(20)
        <3> QED
            BY <2>3, <3>1, SMTT(20)
    <2> QED
        BY <2>1, <2>2, <2>3, SMTT(20)
<1>10. ASSUME NEW n \in 1 .. Len(recent')
       PROVE  \E j \in 1 .. Len(used') : j <= n /\ CoversIn(entry', used'[j], recent'[n])
    <2>1. CASE n = 1
        <3>1. 1 \in 1 .. Len(used') /\ Covers(used'[1], recent'[n])
            BY <1>1, <1>3, <1>4, <1>6, <2>1, SMTT(20)
        <3> QED
            BY <1>7, <2>1, <3>1, SMTT(20)
    <2>2. CASE n # 1 /\ n - 1 \in 1 .. Len(recent) /\ recent'[n] = recent[n - 1]
        <3>1. PICK k \in 1 .. Len(used) : k <= n - 1 /\ Covers(used[k], recent[n - 1])
            BY <2>2 DEF RecentFirst
        <3>2. PICK j \in 1 .. Len(used') : used'[j] = used[k] /\ j <= k + 1
            BY <1>9
        <3>3. j <= n
            BY <3>1, <3>2, SMTT(20)
        <3>4. Covers(used'[j], recent'[n])
            BY <2>2, <3>1, <3>2
        <3> QED
            BY <1>7, <3>3, <3>4
    <2>3. CASE /\ n \in 1 .. Len(recent) /\ recent'[n] = recent[n]
               /\ \E m \in 1 .. n - 1 : recent[m] = p
        <3>1. PICK m \in 1 .. n - 1 : recent[m] = p
            BY <2>3
        <3>2. m \in 1 .. Len(recent)
            BY <1>5, <2>3, <3>1, SMTT(20)
        <3>3. PICK h \in 1 .. Len(used) : h <= m /\ Covers(used[h], recent[m])
            BY <3>2 DEF RecentFirst
        <3>4. i <= h
            BY <1>1, <3>1, <3>3, SMTT(20)
        <3>5. PICK k \in 1 .. Len(used) : k <= n /\ Covers(used[k], recent[n])
            BY <2>3 DEF RecentFirst
        <3>6. PICK j \in 1 .. Len(used') : /\ used'[j] = used[k] /\ j <= k + 1
                                           /\ k >= i => j <= k
            BY <1>9
        <3>7. j <= n
            BY <3>1, <3>3, <3>4, <3>5, <3>6, SMTT(20)
        <3>8. Covers(used'[j], recent'[n])
            BY <2>3, <3>5, <3>6
        <3> QED
            BY <1>7, <3>7, <3>8
    <2> QED
        BY <1>6, <2>1, <2>2, <2>3 DEF Kept
<1> QED
    BY <1>6, <1>10 DEF RecentFirst, Covers, CoversIn
\* The entry that is evicted holds none of the pages read last.
LEMMA RecentStays ==
    ASSUME ListInv, RecentFirst, NEW n \in 1 .. Len(recent)
    PROVE  \E k \in 1 .. Len(UsedLeft) : k <= n /\ Covers(used[k], recent[n])
<1>1. Taken
    BY AllocTakes DEF ListInv, TypeOK
<1>2. PICK k \in 1 .. Len(used) : k <= n /\ Covers(used[k], recent[n])
    BY DEF RecentFirst
<1>3. k < NumEntries
    <2>1. Len(recent) \in Nat /\ Len(recent) < NumEntries
        BY SMTT(20) DEF ListInv, WindowOK, RecentFirst
    <2> QED
        BY <1>2, <2>1, EntriesAssumption, SMTT(20)
<1>4. Len(UsedLeft) \in Nat /\ Len(PoolLeft) \in Nat
    BY <1>1, SMTT(20) DEF Taken
<1>5. k <= Len(UsedLeft)
    <2>1. CASE pool # << >>
        BY <1>4, <2>1, SMTT(20) DEF UsedLeft
    <2>2. CASE pool = << >>
        <3>1. Len(PoolLeft) = 0
            BY <2>2 DEF PoolLeft
        <3>2. Len(UsedLeft) = NumEntries - 1
            BY <1>1, <1>4, <3>1, EntriesAssumption, SMTT(20) DEF Taken
        <3> QED
            BY <1>3, <3>2, EntriesAssumption, SMTT(20)
    <2> QED
        BY <2>1, <2>2
<1>6. k \in 1 .. Len(UsedLeft)
    BY <1>4, <1>5, SMTT(20)
<1> QED
    BY <1>2, <1>6

LEMMA RecentAdded ==
    ASSUME ListInv, RecentFirst, NEW p \in asked, ~ Cached(p),
           NEW r \in EntryType, r.paddr <= p, p < r.paddr + r.buflen,
           used' = << Victim >> \o UsedLeft, pool' = PoolLeft,
           entry' = [entry EXCEPT ![Victim] = r], recent' = ReadNow(p)
    PROVE  RecentFirst'
<1>1. /\ used' \in Seq(Entries)
      /\ Len(used') = Len(UsedLeft) + 1
      /\ used'[1] = Victim /\ entry'[Victim] = r
      /\ \A n \in 1 .. Len(UsedLeft) :
            /\ used'[n + 1] = used[n]
            /\ entry'[used[n]] = entry[used[n]]
    BY ListsAdded
<1>2. Len(UsedLeft) \in Nat
    BY AllocTakes, SMTT(20) DEF Taken, ListInv, TypeOK
<1>3. recent \in Seq(Nat) /\ p \in Nat
    BY DEF ListInv, WindowOK
<1>4. /\ recent' \in Seq(Nat) /\ Len(recent') < NumEntries
      /\ \A n \in 1 .. Len(recent') :
            IF n = 1 THEN recent'[n] = p ELSE Kept(p, recent', n)
    BY <1>3, ReadNowIs
<1>5. \A n \in 1 .. Len(recent) : recent[n] # p
    BY DEF RecentFirst, Cached
<1>6. ASSUME NEW n \in 1 .. Len(recent')
      PROVE  \E j \in 1 .. Len(used') : j <= n /\ CoversIn(entry', used'[j], recent'[n])
    <2>1. CASE n = 1
        <3>1. 1 \in 1 .. Len(used') /\ 1 <= n
            BY <1>1, <1>2, <2>1, SMTT(20)
        <3>2. recent'[n] = p
            BY <1>4, <2>1
        <3>3. CoversIn(entry', used'[1], p)
            BY <1>1 DEF CoversIn
        <3> QED
            BY <3>1, <3>2, <3>3
    <2>2. CASE n # 1
        <3>1. n - 1 \in 1 .. Len(recent) /\ recent'[n] = recent[n - 1]
            <4>1. Kept(p, recent', n)
                BY <1>4, <2>2
            <4>2. \A k \in 1 .. n - 1 : n \in 1 .. Len(recent) => recent[k] # p
                BY <1>3, <1>5, SMTT(20)
            <4> QED
                BY <4>1, <4>2 DEF Kept
        <3>2. PICK m \in 1 .. Len(recent) : m = n - 1
            BY <3>1
        <3>3. PICK k \in 1 .. Len(UsedLeft) : k <= m /\ Covers(used[k], recent[m])
            BY RecentStays
        <3>4. k + 1 \in 1 .. Len(used') /\ k + 1 <= n
            BY <1>1, <1>2, <3>2, <3>3, SMTT(20)
        <3>5. CoversIn(entry', used'[k + 1], recent'[n])
            BY <1>1, <3>1, <3>2, <3>3 DEF Covers, CoversIn
        <3> QED
            BY <3>4, <3>5
    <2> QED
        BY <2>1, <2>2
<1> QED
    BY <1>4, <1>6 DEF RecentFirst, Covers, CoversIn

LEMMA RecentGivenBack ==
    ASSUME ListInv, RecentFirst, NEW p \in asked, GiveBack(p)
    PROVE  RecentFirst'
<1> DEFINE r == [paddr |-> p, buflen |-> 1, map |-> NoMap]
<1>1. r \in EntryType /\ r.map = NoMap
    BY SMTT(20) DEF EntryType, ListInv, WindowOK
<1>2. /\ used' = UsedLeft /\ pool' = Append(PoolLeft, Victim)
      /\ entry' = [entry EXCEPT ![Victim] = r] /\ UNCHANGED recent
    BY DEF GiveBack
<1> HIDE DEF r
<1>3. \A n \in 1 .. Len(UsedLeft) :
         used'[n] = used[n] /\ entry'[used[n]] = entry[used[n]]
    BY <1>1, <1>2, ListsGivenBack
<1>4. ASSUME NEW n \in 1 .. Len(recent)
      PROVE  \E j \in 1 .. Len(used') : j <= n /\ CoversIn(entry', used'[j], recent[n])
    <2>1. PICK k \in 1 .. Len(UsedLeft) : k <= n /\ Covers(used[k], recent[n])
        BY RecentStays
    <2>2. k \in 1 .. Len(used') /\ CoversIn(entry', used'[k], recent[n])
        BY <1>2, <1>3, <2>1 DEF Covers, CoversIn
    <2> QED
        BY <2>1, <2>2
<1> QED
    BY <1>2, <1>4 DEF RecentFirst, Covers, CoversIn

LEMMA RecentOwn ==
    ASSUME ListInv, RecentFirst, NEW p \in asked, ~ Cached(p), AddOwnBuffer(p)
    PROVE  RecentFirst'
<1> DEFINE r == [paddr |-> p, buflen |-> 1, map |-> NoMap]
<1>1. p \in Nat
    BY DEF ListInv, WindowOK
<1>2. r \in EntryType /\ r.paddr <= p /\ p < r.paddr + r.buflen
    BY <1>1, SMTT(20) DEF EntryType
<1>3. /\ used' = << Victim >> \o UsedLeft /\ pool' = PoolLeft
      /\ entry' = [entry EXCEPT ![Victim] = r] /\ recent' = ReadNow(p)
    BY DEF AddOwnBuffer
<1> HIDE DEF r
<1> QED
    BY <1>2, <1>3, RecentAdded
\* The entry that mappage_elf() fills covers the page.
LEMMA MappedEntry ==
    ASSUME ListInv, NEW p \in asked, MapPage(p)
    PROVE  /\ window'.start \in Nat /\ window'.end \in Nat
           /\ window'.start <= PaddrToOffset(p) /\ PaddrToOffset(p) < window'.end
           /\ \E r \in EntryType :
                 /\ entry' = [entry EXCEPT ![Victim] = r]
                 /\ r.paddr = p - (PaddrToOffset(p) - window'.start)
                 /\ r.buflen = window'.end - window'.start
                 /\ r.map = window'.buf
<1> DEFINE o == PaddrToOffset(p)
<1>1. p \in Nat /\ o # 0
    BY DEF ListInv, WindowOK, MapPage, Mappable
<1>2. o \in Nat /\ WindowEnd(o) \in Nat /\ o < WindowEnd(o)
    BY <1>1, PageAtOffset, WindowInLoad
<1>3. WindowOK'
    BY ListInvMapPage DEF ListInv
<1>4. /\ window' \in [buf : Maps \cup {NoMap}, start : Nat, end : Nat]
      /\ window'.start <= window'.end
    BY <1>3 DEF WindowOK
<1>5. window'.start <= o /\ o < window'.end
    <2>1. CASE InWindow(p)
        BY <2>1 DEF MapPage, InWindow
    <2>2. CASE ~ InWindow(p)
        <3>1. window'.start = o /\ window'.end = WindowEnd(o)
            BY <2>2, SMTT(20) DEF MapPage, MapWindow
        <3> QED
            BY <1>2, <3>1, SMTT(20)
    <2> QED
        BY <2>1, <2>2
<1>6. entry' = [entry EXCEPT ![Victim] =
                   [paddr |-> p - (o - window'.start),
                    buflen |-> window'.end - window'.start,
                    map |-> window'.buf]]
    BY DEF MapPage
<1> HIDE DEF o
<1>7. [paddr |-> p - (o - window'.start),
       buflen |-> window'.end - window'.start,
       map |-> window'.buf] \in EntryType
    BY <1>1, <1>2, <1>4, SMTT(20) DEF EntryType
<1>8. PICK r \in EntryType : r = [paddr |-> p - (o - window'.start),
                                  buflen |-> window'.end - window'.start,
                                  map |-> window'.buf]
    BY <1>7
<1>9. /\ entry' = [entry EXCEPT ![Victim] = r]
      /\ r.paddr = p - (o - window'.start)
      /\ r.buflen = window'.end - window'.start
      /\ r.map = window'.buf
    BY <1>6, <1>8
<1> QED
    BY <1>4, <1>5, <1>9 DEF o

LEMMA RecentMapPage ==
    ASSUME ListInv, RecentFirst, NEW p \in asked, MapPage(p)
    PROVE  RecentFirst'
<1>1. p \in Nat /\ PaddrToOffset(p) # 0
    BY DEF ListInv, WindowOK, MapPage, Mappable
<1>2. PaddrToOffset(p) \in Nat
    BY <1>1, PageAtOffset
<1>3. /\ window'.start \in Nat /\ window'.end \in Nat
      /\ window'.start <= PaddrToOffset(p) /\ PaddrToOffset(p) < window'.end
    BY MappedEntry
<1>4. PICK r \in EntryType :
         /\ entry' = [entry EXCEPT ![Victim] = r]
         /\ r.paddr = p - (PaddrToOffset(p) - window'.start)
         /\ r.buflen = window'.end - window'.start
    BY MappedEntry
<1>5. r.paddr <= p /\ p < r.paddr + r.buflen
    BY <1>1, <1>2, <1>3, <1>4, SMTT(20)
<1>6. /\ used' = << Victim >> \o UsedLeft /\ pool' = PoolLeft
      /\ recent' = ReadNow(p) /\ ~ Cached(p)
    BY DEF MapPage, Miss
<1> QED
    BY <1>4, <1>5, <1>6, RecentAdded

LEMMA RecentFirstNext == ListInv /\ RecentFirst /\ [Next]_vars => RecentFirst'
<1> SUFFICES ASSUME ListInv, RecentFirst, [Next]_vars PROVE RecentFirst'
    OBVIOUS
<1>1. CASE UNCHANGED <<used, entry, recent>>
    BY <1>1 DEF RecentFirst, Covers
<1>2. ASSUME NEW p \in asked, Hit(p)
      PROVE  RecentFirst'
    BY <1>2, RecentHit
<1>3. ASSUME NEW p \in asked, Miss(p), AddOwnBuffer(p)
      PROVE  RecentFirst'
    BY <1>3, RecentOwn DEF Miss
<1>4. ASSUME NEW p \in asked, GiveBack(p)
      PROVE  RecentFirst'
    BY <1>4, RecentGivenBack
<1>5. ASSUME NEW p \in asked, MapPage(p)
      PROVE  RecentFirst'
    BY <1>5, RecentMapPage
<1> QED
    BY <1>1, <1>2, <1>3, <1>4, <1>5 DEF Next, InitializeMmap, Readmem,
       ReadPage, MmapFails, ReadFails, vars

(***************************************************************************)
(* However pages are read, hit, evicted or fail to be read, the last       *)
(* NumEntries - 1 distinct pages that were read are cached: a failed read  *)
(* costs an entry that holds none of them.                                 *)
(***************************************************************************)
THEOREM RecentPagesStayCached == Spec => []RecentPagesCached
<1>1. Init => RecentFirst
    BY EntriesAssumption, SMTT(20) DEF Init, RecentFirst
<1>2. RecentFirst => RecentPagesCached
    BY DEF RecentFirst, RecentPagesCached, Cached
<1> QED
    BY <1>1, <1>2, ListInvInit, ListInvNext, RecentFirstNext, PTL DEF Spec
-----------------------------------------------------------------------------
(***************************************************************************)
(* What the entries hold.                                                  *)
(***************************************************************************)
LEMMA RightKept ==
    ASSUME NEW ent, NEW buf, NEW mapped, NEW ent2, NEW buf2, NEW mapped2, NEW e,
           RightIn(ent, buf, mapped, e),
           ent2[e] = ent[e],
           ent[e].map = NoMap => buf2[e] = buf[e],
           ent[e].map # NoMap => /\ ent[e].map \in DOMAIN mapped2
                                 /\ mapped2[ent[e].map] = mapped[ent[e].map]
    PROVE  RightIn(ent2, buf2, mapped2, e)
BY DEF RightIn, OwnPage, WindowPages

\* A page that an entry of the cache has is the page a hit returns.
LEMMA RightRead ==
    ASSUME ContentsInv, ListInv, NEW n \in 1 .. Len(used), NEW p \in Nat,
           Covers(used[n], p)
    PROVE  IF entry[used[n]].map = NoMap THEN buffer[used[n]] = p
           ELSE ThroughMap(maps, entry[used[n]].map, p - entry[used[n]].paddr) = p
<1>1. used[n] \in Entries
    BY SeqElement DEF ListInv, TypeOK
<1>2. PICK e \in Entries : e = used[n]
    BY <1>1
<1>3. entry[e].paddr \in Int /\ entry[e].buflen \in Nat
    BY DEF ListInv, TypeOK
<1>4. entry[e].paddr <= p /\ p < entry[e].paddr + entry[e].buflen
    BY <1>2 DEF Covers
<1>5. RightIn(entry, buffer, maps, e)
    BY <1>2 DEF ContentsInv, EntryRight
<1>6. CASE entry[e].map = NoMap
    BY <1>2, <1>3, <1>4, <1>5, <1>6, SMTT(20) DEF RightIn, OwnPage
<1>7. CASE entry[e].map # NoMap
    <2> DEFINE m == entry[e].map
               k == p - entry[e].paddr
    <2>1. /\ m \in DOMAIN maps
          /\ entry[e].buflen = maps[m].end - maps[m].start
          /\ \A i \in 0 .. entry[e].buflen - 1 :
                PageAt(maps[m].start + i) = entry[e].paddr + i
        BY <1>5, <1>7 DEF RightIn, WindowPages
    <2>2. maps[m].start \in Nat /\ maps[m].end \in Nat
        BY <2>1 DEF ContentsInv
    <2>3. k \in 0 .. entry[e].buflen - 1
        BY <1>3, <1>4, SMTT(20)
    <2>4. PageAt(maps[m].start + k) = entry[e].paddr + k
        BY <2>1, <2>3
    <2>5. entry[e].paddr + k = p
        BY <1>3, SMTT(20)
    <2> HIDE DEF k, m
    <2>6. maps[m].start + k < maps[m].end
        BY <1>3, <2>1, <2>2, <2>3, SMTT(20)
    <2>7. ThroughMap(maps, m, k) = p
        BY <2>1, <2>4, <2>5, <2>6 DEF ThroughMap
    <2> QED
        BY <1>2, <1>7, <2>7 DEF m, k
<1> QED
    BY <1>6, <1>7

\* cache_alloc() unmaps no window that another entry has.
LEMMA MapsLeftRight ==
    ASSUME ListInv, ContentsInv, NEW n \in 1 .. Len(UsedLeft)
    PROVE  /\ n \in 1 .. Len(used) /\ UsedLeft[n] = used[n]
           /\ used[n] \in Entries /\ used[n] # Victim
           /\ entry[used[n]].map # NoMap =>
                 /\ entry[used[n]].map \in DOMAIN MapsLeft
                 /\ MapsLeft[entry[used[n]].map] = maps[entry[used[n]].map]
<1>1. Taken
    BY AllocTakes DEF ListInv, TypeOK
<1>2. used \in Seq(Entries) /\ Len(used) \in Nat
    BY SMTT(20) DEF ListInv, TypeOK
<1>3. n <= Len(used) /\ UsedLeft[n] = used[n] /\ used[n] # Victim
    BY <1>1 DEF Taken
<1>4. n \in 1 .. Len(used) /\ used[n] \in Entries
    BY <1>1, <1>2, <1>3, SeqElement, SMTT(20) DEF Taken
<1>5. ASSUME entry[used[n]].map # NoMap
      PROVE  /\ entry[used[n]].map \in DOMAIN MapsLeft
             /\ MapsLeft[entry[used[n]].map] = maps[entry[used[n]].map]
    <2>1. entry[used[n]].map \in DOMAIN maps
        BY <1>4, <1>5 DEF ContentsInv, EntryRight, RightIn, WindowPages
    <2>2. CASE pool # << >> \/ entry[Victim].map = NoMap
        BY <2>1, <2>2 DEF MapsLeft
    <2>3. CASE ~ (pool # << >> \/ entry[Victim].map = NoMap)
        <3>1. Victim = used[Len(used)]
            BY <2>3 DEF Victim
        <3>2. Len(used) \in 1 .. Len(used)
            BY <1>2, <1>4, SMTT(20)
        <3>3. entry[used[n]].map # entry[Victim].map
            BY <1>3, <1>4, <1>5, <3>1, <3>2 DEF ContentsInv, MapsDistinct
        <3> QED
            BY <2>1, <2>3, <3>3 DEF MapsLeft
    <2> QED
        BY <2>2, <2>3
<1> QED
    BY <1>3, <1>4, <1>5
LEMMA ContentsInitialize ==
    ASSUME ListInv, ContentsInv, InitializeMmap
    PROVE  ContentsInv'
<1>1. UNCHANGED <<asked, used, pool, entry, buffer, last>>
    BY DEF InitializeMmap
<1>2. flag_usemmap = "TRY" /\ DOMAIN maps = {}
    BY DEF InitializeMmap, ListInv, WindowsOwned
<1>3. CASE UNCHANGED <<maps, window>> /\ flag_usemmap' = "DISABLE"
    BY <1>1, <1>3 DEF ContentsInv, EntryRight, MapsDistinct, ReadsRightPage
<1>4. ASSUME NEW l \in Loads, MapWindow(PaddrToOffset(l.start), maps),
             flag_usemmap' = "ENABLE"
      PROVE  ContentsInv'
    <2> DEFINE o == PaddrToOffset(l.start)
    <2>1. l.start \in Nat /\ o # 0
        BY LoadsAssumption, StartHasOffset
    <2>2. o \in Nat /\ WindowEnd(o) \in Nat /\ o < WindowEnd(o)
        BY <2>1, PageAtOffset, WindowInLoad
    <2>3. \E k \in Loads : k.offset <= o /\ WindowEnd(o) <= k.offset + k.size
        BY <2>1, WindowInLoad
    <2>4. PICK leak : Accounted(maps, leak) /\ DOMAIN maps \subseteq Maps
        BY <1>2 DEF Accounted
    <2>5. PICK mapped : mapped = maps /\ MapWindow(o, mapped)
        BY <1>4
    <2> HIDE DEF o
    <2>6. PICK m \in Maps \ DOMAIN mapped : NewWindow(m, o, mapped)
        <3>1. DOMAIN mapped \subseteq Maps /\ Accounted(mapped, leak)
            BY <2>4, <2>5
        <3>2. MapWindow(o, mapped)
            BY <2>5
        <3> QED
            BY <3>1, <3>2, WindowMapped
    <2>7. /\ DOMAIN maps' = {m}
          /\ maps'[m] = [start |-> o, end |-> WindowEnd(o)]
          /\ window' = [buf |-> m, start |-> o, end |-> WindowEnd(o)]
        BY <1>2, <2>5, <2>6 DEF NewWindow
    <2>8. ASSUME NEW n \in 1 .. Len(used)
          PROVE  RightIn(entry', buffer', maps', used[n])
        <3>1. RightIn(entry, buffer, maps, used[n])
            BY DEF ContentsInv, EntryRight
        <3>2. entry[used[n]].map = NoMap
            BY <1>2, <3>1 DEF RightIn, WindowPages
        <3> QED
            BY <1>1, <3>1, <3>2 DEF RightIn, OwnPage
    <2>9. WindowLive'
        BY <2>3, <2>7 DEF WindowLive
    <2>10. \A x \in DOMAIN maps' : maps'[x] \in [start : Nat, end : Nat]
        BY <2>2, <2>7, SMTT(20)
    <2>11. \A p \in asked : Mappable(p)
        BY <1>2 DEF ContentsInv
    <2> QED
        BY <1>1, <2>8, <2>9, <2>10, <2>11 DEF ContentsInv, EntryRight,
           MapsDistinct, ReadsRightPage
<1> QED
    BY <1>3, <1>4 DEF InitializeMmap

LEMMA ContentsHit ==
    ASSUME ListInv, ContentsInv, NEW p \in asked, Hit(p)
    PROVE  ContentsInv'
<1>1. PICK i \in 1 .. Len(used) :
         /\ Covers(used[i], p)
         /\ used' = << used[i] >> \o RemoveAt(used, i)
         /\ last' = [page |-> p,
                     got |-> IF entry[used[i]].map = NoMap THEN buffer[used[i]]
                             ELSE ThroughMap(maps, entry[used[i]].map,
                                             p - entry[used[i]].paddr)]
    BY DEF Hit
<1>2. UNCHANGED <<asked, pool, entry, buffer, maps, window, flag_usemmap>>
    BY DEF Hit
<1>3. used \in Seq(Entries) /\ Len(used) \in Nat /\ p \in Nat
    BY SMTT(20) DEF ListInv, TypeOK, WindowOK
<1>4. /\ Len(used') = Len(used)
      /\ used'[1] = used[i]
      /\ \A k \in 1 .. i - 1 : used'[k + 1] = used[k]
      /\ \A k \in i + 1 .. Len(used) : used'[k] = used[k]
    BY <1>1, <1>3, MovedToFront
<1>5. ASSUME NEW n \in 1 .. Len(used')
      PROVE  \E k \in 1 .. Len(used) : used'[n] = used[k]
    <2>1. CASE n = 1
        BY <1>4, <2>1
    <2>2. CASE n # 1 /\ n <= i
        <3>1. n - 1 \in 1 .. i - 1 /\ n - 1 \in 1 .. Len(used)
            BY <1>3, <2>2, SMTT(20)
        <3>2. used'[(n - 1) + 1] = used[n - 1]
            BY <1>4, <3>1
        <3> QED
            BY <3>1, <3>2, SMTT(20)
    <2>3. CASE n > i
        BY <1>3, <1>4, <2>3, SMTT(20)
    <2> QED
        BY <2>1, <2>2, <2>3, SMTT(20)
<1>6. last'.page = p /\ last'.got = p
    BY <1>1, <1>3, RightRead
<1>7. ReadsRightPage'
    BY <1>6 DEF ReadsRightPage
<1>8. \A n \in 1 .. Len(used') : RightIn(entry', buffer', maps', used'[n])
    BY <1>2, <1>5 DEF ContentsInv, EntryRight
<1>9. MapsDistinct'
    <2>1. EachOnce(used', pool')
        BY ListInvHit DEF ListInv
    <2> SUFFICES ASSUME NEW n \in 1 .. Len(used'), NEW k \in 1 .. Len(used'),
                        entry[used'[n]].map = entry[used'[k]].map,
                        entry[used'[n]].map # NoMap
                 PROVE  n = k
        BY <1>2 DEF MapsDistinct
    <2>2. PICK a \in 1 .. Len(used) : used'[n] = used[a]
        BY <1>5
    <2>3. PICK b \in 1 .. Len(used) : used'[k] = used[b]
        BY <1>5
    <2>4. a = b
        BY <2>2, <2>3 DEF ContentsInv, MapsDistinct
    <2> QED
        BY <2>1, <2>2, <2>3, <2>4, SMTT(20) DEF EachOnce
<1>10. flag_usemmap' = "ENABLE" => WindowLive'
    BY <1>2 DEF ContentsInv, WindowLive
<1> QED
    BY <1>2, <1>7, <1>8, <1>9, <1>10 DEF ContentsInv, EntryRight
\* An entry is added whose contents are right, and whose window is its own.
LEMMA ContentsAdded ==
    ASSUME ListInv, ContentsInv, NEW r \in EntryType,
           used' = << Victim >> \o UsedLeft, pool' = PoolLeft,
           entry' = [entry EXCEPT ![Victim] = r],
           \A e \in Entries : e # Victim => buffer'[e] = buffer[e],
           \A m \in DOMAIN MapsLeft : m \in DOMAIN maps' /\ maps'[m] = MapsLeft[m],
           RightIn(entry', buffer', maps', Victim),
           r.map # NoMap => \A n \in 1 .. Len(UsedLeft) : entry[used[n]].map # r.map
    PROVE  /\ \A n \in 1 .. Len(used') : RightIn(entry', buffer', maps', used'[n])
           /\ MapsDistinct'
<1>1. /\ Len(used') = Len(UsedLeft) + 1
      /\ used'[1] = Victim /\ entry'[Victim] = r
      /\ \A n \in 1 .. Len(UsedLeft) :
            /\ used'[n + 1] = used[n]
            /\ entry'[used[n]] = entry[used[n]]
    BY ListsAdded
<1>2. Len(UsedLeft) \in Nat
    BY AllocTakes, SMTT(20) DEF Taken, ListInv, TypeOK
<1>3. ASSUME NEW n \in 1 .. Len(used'), n # 1
      PROVE  \E k \in 1 .. Len(UsedLeft) : n = k + 1 /\ used'[n] = used[k]
    <2>1. PICK k \in 1 .. Len(UsedLeft) : n = k + 1
        <3>1. n - 1 \in 1 .. Len(UsedLeft) /\ n = (n - 1) + 1
            BY <1>1, <1>2, <1>3, SMTT(20)
        <3> QED
            BY <3>1
    <2> QED
        BY <1>1, <2>1
<1>4. ASSUME NEW n \in 1 .. Len(used')
      PROVE  RightIn(entry', buffer', maps', used'[n])
    <2>1. CASE n = 1
        BY <1>1, <2>1
    <2>2. CASE n # 1
        <3>1. PICK k \in 1 .. Len(UsedLeft) : used'[n] = used[k]
            BY <1>3, <2>2
        <3>2. /\ k \in 1 .. Len(used) /\ used[k] \in Entries /\ used[k] # Victim
              /\ entry[used[k]].map # NoMap =>
                    /\ entry[used[k]].map \in DOMAIN MapsLeft
                    /\ MapsLeft[entry[used[k]].map] = maps[entry[used[k]].map]
            BY MapsLeftRight
        <3>3. PICK e \in Entries : e = used[k]
            BY <3>2
        <3>4. RightIn(entry, buffer, maps, e)
            BY <3>2, <3>3 DEF ContentsInv, EntryRight
        <3>5. entry'[e] = entry[e] /\ buffer'[e] = buffer[e]
            BY <1>1, <3>2, <3>3
        <3>6. entry[e].map # NoMap => /\ entry[e].map \in DOMAIN maps'
                                      /\ maps'[entry[e].map] = maps[entry[e].map]
            BY <3>2, <3>3
        <3>7. RightIn(entry', buffer', maps', e)
            BY <3>4, <3>5, <3>6, RightKept
        <3> QED
            BY <3>1, <3>3, <3>7
    <2> QED
        BY <2>1, <2>2
<1>5. ASSUME NEW n \in 1 .. Len(used'), NEW k \in 1 .. Len(used'),
             entry'[used'[n]].map = entry'[used'[k]].map,
             entry'[used'[n]].map # NoMap
      PROVE  n = k
    <2>1. CASE n = 1 /\ k # 1
        <3>1. PICK b \in 1 .. Len(UsedLeft) : used'[k] = used[b]
            BY <1>3, <2>1
        <3> QED
            BY <1>1, <1>5, <2>1, <3>1, SMTT(20)
    <2>2. CASE n # 1 /\ k = 1
        <3>1. PICK a \in 1 .. Len(UsedLeft) : used'[n] = used[a]
            BY <1>3, <2>2
        <3> QED
            BY <1>1, <1>5, <2>2, <3>1, SMTT(20)
    <2>3. CASE n # 1 /\ k # 1
        <3>1. PICK a \in 1 .. Len(UsedLeft) : n = a + 1 /\ used'[n] = used[a]
            BY <1>3, <2>3
        <3>2. PICK b \in 1 .. Len(UsedLeft) : k = b + 1 /\ used'[k] = used[b]
            BY <1>3, <2>3
        <3>3. a \in 1 .. Len(used) /\ b \in 1 .. Len(used)
            BY MapsLeftRight
        <3>4. entry[used[a]].map = entry[used[b]].map /\ entry[used[a]].map # NoMap
            BY <1>1, <1>5, <3>1, <3>2, SMTT(20)
        <3>5. a = b
            BY <3>3, <3>4 DEF ContentsInv, MapsDistinct
        <3> QED
            BY <3>1, <3>2, <3>5
    <2> QED
        BY <2>1, <2>2, <2>3
<1> QED
    BY <1>4, <1>5 DEF MapsDistinct

\* A failed read: the entries that stay are as they were.
LEMMA ContentsGivenBack ==
    ASSUME ListInv, ContentsInv, NEW p \in asked, GiveBack(p), maps' = MapsLeft
    PROVE  /\ \A n \in 1 .. Len(used') : RightIn(entry', buffer', maps', used'[n])
           /\ MapsDistinct'
           /\ ReadsRightPage'
<1> DEFINE r == [paddr |-> p, buflen |-> 1, map |-> NoMap]
<1>1. r \in EntryType /\ r.map = NoMap
    BY SMTT(20) DEF EntryType, ListInv, WindowOK
<1>2. /\ used' = UsedLeft /\ pool' = Append(PoolLeft, Victim)
      /\ entry' = [entry EXCEPT ![Victim] = r]
      /\ buffer' = [buffer EXCEPT ![Victim] = NoPage]
      /\ last'.got = Error
    BY DEF GiveBack
<1> HIDE DEF r
<1>3. \A n \in 1 .. Len(UsedLeft) :
         used'[n] = used[n] /\ entry'[used[n]] = entry[used[n]]
    BY <1>1, <1>2, ListsGivenBack
<1>4. ASSUME NEW n \in 1 .. Len(UsedLeft)
      PROVE  RightIn(entry', buffer', maps', used'[n])
    <2>1. /\ n \in 1 .. Len(used) /\ used[n] \in Entries /\ used[n] # Victim
          /\ entry[used[n]].map # NoMap =>
                /\ entry[used[n]].map \in DOMAIN MapsLeft
                /\ MapsLeft[entry[used[n]].map] = maps[entry[used[n]].map]
        BY MapsLeftRight
    <2>2. PICK e \in Entries : e = used[n]
        BY <2>1
    <2>3. RightIn(entry, buffer, maps, e)
        BY <2>1, <2>2 DEF ContentsInv, EntryRight
    <2>4. buffer'[e] = buffer[e] /\ entry'[e] = entry[e]
        <3>1. buffer \in [Entries -> Nat \cup {NoPage}]
            BY DEF ListInv, TypeOK
        <3> QED
            BY <1>2, <1>3, <2>1, <2>2, <3>1
    <2>5. RightIn(entry', buffer', maps', e)
        BY <2>1, <2>2, <2>3, <2>4, RightKept
    <2> QED
        BY <1>3, <2>2, <2>5
<1>5. MapsDistinct'
    <2>1. \A n \in 1 .. Len(UsedLeft) : n \in 1 .. Len(used)
        BY MapsLeftRight
    <2> QED
        BY <1>2, <1>3, <2>1, SMTT(20) DEF ContentsInv, MapsDistinct
<1> QED
    BY <1>2, <1>4, <1>5 DEF ReadsRightPage
\* A page that is read into an entry's own buffer, or not at all: only without
\* mmap(), so that no entry is left without its window.
LEMMA ContentsOwn ==
    ASSUME ListInv, ContentsInv, NEW p \in asked,
           AddOwnBuffer(p) \/ GiveBack(p),
           maps' = MapsLeft, UNCHANGED asked,
           flag_usemmap' # "ENABLE",
           flag_usemmap' # "DISABLE" => flag_usemmap # "DISABLE"
    PROVE  ContentsInv'
<1>1. p \in Nat
    BY DEF ListInv, WindowOK
<1>2. \A m \in DOMAIN maps' : maps'[m] \in [start : Nat, end : Nat]
    BY MapsLeftOwned DEF ContentsInv
<1>3. /\ \A n \in 1 .. Len(used') : RightIn(entry', buffer', maps', used'[n])
      /\ MapsDistinct'
      /\ ReadsRightPage'
    <2>1. CASE GiveBack(p)
        BY <2>1, ContentsGivenBack
    <2>2. CASE AddOwnBuffer(p)
        <3> DEFINE r == [paddr |-> p, buflen |-> 1, map |-> NoMap]
        <3>1. r \in EntryType /\ r.map = NoMap /\ r.buflen = 1 /\ r.paddr = p
            BY <1>1, SMTT(20) DEF EntryType
        <3>2. /\ used' = << Victim >> \o UsedLeft /\ pool' = PoolLeft
              /\ entry' = [entry EXCEPT ![Victim] = r]
              /\ buffer' = [buffer EXCEPT ![Victim] = p]
              /\ last'.got = p /\ last'.page = p
            BY <2>2 DEF AddOwnBuffer
        <3> HIDE DEF r
        <3>3. Victim \in Entries
            BY AllocTakes DEF Taken, ListInv, TypeOK
        <3>4. entry'[Victim] = r /\ buffer'[Victim] = p
            BY <3>2, <3>3 DEF ListInv, TypeOK
        <3>5. \A e \in Entries : e # Victim => buffer'[e] = buffer[e]
            BY <3>2 DEF ListInv, TypeOK
        <3>6. RightIn(entry', buffer', maps', Victim)
            BY <3>1, <3>4 DEF RightIn, OwnPage
        <3>7. /\ \A n \in 1 .. Len(used') : RightIn(entry', buffer', maps', used'[n])
              /\ MapsDistinct'
            BY <3>1, <3>2, <3>5, <3>6, ContentsAdded
        <3> QED
            BY <3>2, <3>7 DEF ReadsRightPage
    <2> QED
        BY <2>1, <2>2
<1> QED
    BY <1>2, <1>3 DEF ContentsInv, EntryRight

\* A window in one PT_LOAD: its pages follow each other.
LEMMA WindowLinear ==
    ASSUME NEW l \in Loads, NEW s \in Nat, NEW t \in Nat, NEW p \in Nat,
           l.offset <= s, t <= l.offset + l.size,
           PaddrToOffset(p) # 0, s <= PaddrToOffset(p), PaddrToOffset(p) < t
    PROVE  \A k \in 0 .. (t - s) - 1 :
              PageAt(s + k) = (p - (PaddrToOffset(p) - s)) + k
<1>1. l.offset \in Nat /\ l.start \in Nat /\ l.size \in Nat
    BY LoadsAssumption
<1>2. PaddrToOffset(p) \in Nat /\ PageAt(PaddrToOffset(p)) = p
    BY PageAtOffset
<1>3. PICK o \in Nat : o = PaddrToOffset(p)
    BY <1>2
<1>4. PageAt(o) = l.start + o - l.offset
    BY <1>1, <1>3, PageAtIs, SMTT(20)
<1>5. ASSUME NEW k \in 0 .. (t - s) - 1
      PROVE  PageAt(s + k) = (p - (o - s)) + k
    <2>1. s + k \in Nat /\ l.offset <= s + k /\ s + k < l.offset + l.size
        BY <1>1, SMTT(20)
    <2>2. PageAt(s + k) = l.start + (s + k) - l.offset
        BY <2>1, PageAtIs
    <2> QED
        BY <1>1, <1>2, <1>3, <1>4, <2>2, SMTT(20)
<1> QED
    BY <1>3, <1>5

\* A page in the latest window is missed only when no entry has that window.
LEMMA WindowUnused ==
    ASSUME ListInv, ContentsInv, WindowLive, NEW p \in Nat,
           PaddrToOffset(p) # 0, InWindow(p), ~ Cached(p),
           NEW n \in 1 .. Len(used)
    PROVE  entry[used[n]].map # window.buf
<1> SUFFICES ASSUME entry[used[n]].map = window.buf PROVE FALSE
    OBVIOUS
<1>1. used[n] \in Entries
    BY SeqElement DEF ListInv, TypeOK
<1>2. PICK e \in Entries : e = used[n]
    BY <1>1
<1>3. entry[e].paddr \in Int /\ entry[e].buflen \in Nat
    BY DEF ListInv, TypeOK
<1>4. entry[e].map # NoMap
    <2>1. window.buf \in DOMAIN maps
        BY DEF WindowLive
    <2>2. DOMAIN maps \subseteq Maps /\ NoMap \notin Maps
        BY SMTT(20) DEF ListInv, TypeOK, Maps, NoMap
    <2> QED
        BY <1>2, <2>1, <2>2
<1>5. RightIn(entry, buffer, maps, e)
    BY <1>2 DEF ContentsInv, EntryRight
<1>6. /\ entry[e].buflen = window.end - window.start
      /\ \A k \in 0 .. entry[e].buflen - 1 :
            PageAt(window.start + k) = entry[e].paddr + k
    BY <1>2, <1>4, <1>5, SMTT(20) DEF RightIn, WindowPages, WindowLive
<1>7. window.start \in Nat /\ window.end \in Nat
    BY DEF ListInv, WindowOK
<1>8. PaddrToOffset(p) \in Nat /\ PageAt(PaddrToOffset(p)) = p
    BY PageAtOffset
<1>9. PICK k \in 0 .. entry[e].buflen - 1 : PaddrToOffset(p) = window.start + k
    <2>1. PaddrToOffset(p) - window.start \in 0 .. entry[e].buflen - 1
        BY <1>3, <1>6, <1>7, <1>8, SMTT(20) DEF InWindow
    <2>2. PaddrToOffset(p) = window.start + (PaddrToOffset(p) - window.start)
        BY <1>7, <1>8, SMTT(20)
    <2> QED
        BY <2>1, <2>2
<1>10. p = entry[e].paddr + k
    BY <1>6, <1>8, <1>9
<1>11. Covers(e, p)
    BY <1>3, <1>10, SMTT(20) DEF Covers
<1> QED
    BY <1>2, <1>11 DEF Cached
\* After mappage_elf() the latest window is mapped, in one PT_LOAD, no entry
\* that stays has it, and the other windows are as they were.
LEMMA WindowAfter ==
    ASSUME ListInv, ContentsInv, NEW p \in asked, MapPage(p)
    PROVE  /\ WindowLive'
           /\ \A n \in 1 .. Len(UsedLeft) : entry[used[n]].map # window'.buf
           /\ \A m \in DOMAIN MapsLeft : m \in DOMAIN maps' /\ maps'[m] = MapsLeft[m]
           /\ \A m \in DOMAIN maps' : maps'[m] \in [start : Nat, end : Nat]
<1> DEFINE o == PaddrToOffset(p)
<1>1. p \in Nat /\ o # 0
    BY DEF ListInv, WindowOK, MapPage, Mappable
<1>2. o \in Nat /\ WindowEnd(o) \in Nat /\ o < WindowEnd(o)
    BY <1>1, PageAtOffset, WindowInLoad
<1>3. \E l \in Loads : l.offset <= o /\ WindowEnd(o) <= l.offset + l.size
    BY <1>1, WindowInLoad
<1>4. \A m \in DOMAIN MapsLeft : /\ MapsLeft[m] \in [start : Nat, end : Nat]
                                 /\ m \in DOMAIN maps
    BY MapsLeftOwned DEF ContentsInv
<1>5. flag_usemmap = "ENABLE" /\ ~ Cached(p) /\ (pool # << >> \/ used # << >>)
    BY DEF MapPage, Miss
<1>6. WindowLive
    BY <1>5 DEF ContentsInv
<1>7. CASE InWindow(p)
    <2>1. maps' = MapsLeft /\ window' = window
        BY <1>7 DEF MapPage
    <2>2. \A n \in 1 .. Len(used) : entry[used[n]].map # window.buf
        BY <1>1, <1>5, <1>6, <1>7, WindowUnused
    <2>3. \A n \in 1 .. Len(UsedLeft) : n \in 1 .. Len(used)
        BY MapsLeftRight
    <2>4. window.buf \in DOMAIN MapsLeft /\ MapsLeft[window.buf] = maps[window.buf]
        <3>1. CASE pool # << >>
            BY <1>6, <3>1 DEF MapsLeft, WindowLive
        <3>2. CASE pool = << >>
            <4>1. used \in Seq(Entries) /\ used # << >>
                BY <1>5, <3>2 DEF ListInv, TypeOK
            <4>2. Len(used) \in 1 .. Len(used)
                BY <4>1, SeqNone, SMTT(20)
            <4>3. Victim = used[Len(used)]
                BY <3>2 DEF Victim
            <4>4. PICK n \in 1 .. Len(used) : Victim = used[n]
                BY <4>2, <4>3
            <4>5. entry[Victim].map # window.buf
                BY <2>2, <4>4
            <4> QED
                BY <1>6, <4>5 DEF MapsLeft, WindowLive
        <3> QED
            BY <3>1, <3>2
    <2>5. WindowLive'
        BY <1>6, <2>1, <2>4 DEF WindowLive
    <2> QED
        BY <1>4, <2>1, <2>2, <2>3, <2>5
<1>8. CASE ~ InWindow(p)
    <2>1. MapWindow(o, MapsLeft)
        BY <1>8 DEF MapPage
    <2> HIDE DEF o
    <2>2. PICK m \in Maps \ DOMAIN MapsLeft : NewWindow(m, o, MapsLeft)
        BY <2>1, MapsLeftAccounted, WindowMapped
    <2>3. /\ window' = [buf |-> m, start |-> o, end |-> WindowEnd(o)]
          /\ DOMAIN maps' = DOMAIN MapsLeft \cup {m}
          /\ maps'[m] = [start |-> o, end |-> WindowEnd(o)]
          /\ \A x \in DOMAIN MapsLeft : maps'[x] = MapsLeft[x]
        BY <2>2 DEF NewWindow
    <2>4. WindowLive'
        BY <1>3, <2>3 DEF WindowLive
    <2>5. ASSUME NEW n \in 1 .. Len(UsedLeft)
          PROVE  entry[used[n]].map # window'.buf
        <3>1. entry[used[n]].map # NoMap => entry[used[n]].map \in DOMAIN MapsLeft
            BY MapsLeftRight
        <3>2. m # NoMap
            BY SMTT(20) DEF Maps, NoMap
        <3> QED
            BY <2>2, <2>3, <3>1, <3>2
    <2>6. \A x \in DOMAIN maps' : maps'[x] \in [start : Nat, end : Nat]
        BY <1>2, <1>4, <2>3, SMTT(20)
    <2> QED
        BY <2>3, <2>4, <2>5, <2>6
<1> QED
    BY <1>7, <1>8

LEMMA ContentsMapPage ==
    ASSUME ListInv, ContentsInv, NEW p \in asked, MapPage(p)
    PROVE  ContentsInv'
<1>1. p \in Nat /\ PaddrToOffset(p) # 0
    BY DEF ListInv, WindowOK, MapPage, Mappable
<1>2. PICK o \in Nat : o = PaddrToOffset(p) /\ PageAt(o) = p
    BY <1>1, PageAtOffset
<1>3. /\ window'.start \in Nat /\ window'.end \in Nat
      /\ window'.start <= o /\ o < window'.end
    BY <1>2, MappedEntry
<1>4. PICK r \in EntryType :
         /\ entry' = [entry EXCEPT ![Victim] = r]
         /\ r.paddr = p - (o - window'.start)
         /\ r.buflen = window'.end - window'.start
         /\ r.map = window'.buf
    BY <1>2, MappedEntry
<1>5. /\ used' = << Victim >> \o UsedLeft /\ pool' = PoolLeft
      /\ last' = [page |-> p, got |-> ThroughMap(maps', window'.buf, o - window'.start)]
      /\ UNCHANGED <<asked, buffer, flag_usemmap>>
    BY <1>2 DEF MapPage
<1>6. /\ WindowLive'
      /\ \A n \in 1 .. Len(UsedLeft) : entry[used[n]].map # window'.buf
      /\ \A m \in DOMAIN MapsLeft : m \in DOMAIN maps' /\ maps'[m] = MapsLeft[m]
      /\ \A m \in DOMAIN maps' : maps'[m] \in [start : Nat, end : Nat]
    BY WindowAfter
<1>7. /\ window'.buf \in DOMAIN maps'
      /\ maps'[window'.buf].start = window'.start
      /\ maps'[window'.buf].end = window'.end
    <2>1. /\ window'.buf \in DOMAIN maps'
          /\ maps'[window'.buf] = [start |-> window'.start, end |-> window'.end]
        BY <1>6 DEF WindowLive
    <2> QED
        BY <2>1, SMTT(20)
<1>8. window'.buf # NoMap
    <2>1. DOMAIN maps' \subseteq Maps
        BY ListInvMapPage DEF ListInv, TypeOK
    <2> QED
        BY <1>7, <2>1, SMTT(20) DEF Maps, NoMap
<1>9. entry'[Victim] = r
    <2>1. Victim \in Entries
        BY AllocTakes DEF Taken, ListInv, TypeOK
    <2> QED
        BY <1>4, <2>1 DEF ListInv, TypeOK
<1>10. \A k \in 0 .. (window'.end - window'.start) - 1 :
          PageAt(window'.start + k) = (p - (o - window'.start)) + k
    <2>1. PICK l \in Loads : /\ l.offset <= window'.start
                             /\ window'.end <= l.offset + l.size
        BY <1>6 DEF WindowLive
    <2> QED
        BY <1>1, <1>2, <1>3, <2>1, WindowLinear, SMTT(20)
<1>11. RightIn(entry', buffer', maps', Victim)
    BY <1>4, <1>7, <1>8, <1>9, <1>10 DEF RightIn, WindowPages
<1>12. /\ \A n \in 1 .. Len(used') : RightIn(entry', buffer', maps', used'[n])
       /\ MapsDistinct'
    <2>1. \A e \in Entries : e # Victim => buffer'[e] = buffer[e]
        BY <1>5
    <2> QED
        BY <1>4, <1>5, <1>6, <1>11, <2>1, ContentsAdded
<1>13. last'.got = p /\ last'.page = p
    <2>1. window'.start + (o - window'.start) = o
        BY <1>3, SMTT(20)
    <2> QED
        BY <1>2, <1>3, <1>5, <1>7, <2>1 DEF ThroughMap
<1> QED
    BY <1>5, <1>6, <1>12, <1>13 DEF ContentsInv, EntryRight, ReadsRightPage

LEMMA ContentsNext == ListInv /\ ContentsInv /\ [Next]_vars => ContentsInv'
<1> SUFFICES ASSUME ListInv, ContentsInv, [Next]_vars PROVE ContentsInv'
    OBVIOUS
<1>1. CASE UNCHANGED vars
    BY <1>1 DEF vars, ContentsInv, EntryRight, MapsDistinct, WindowLive,
       ReadsRightPage
<1>2. CASE InitializeMmap
    BY <1>2, ContentsInitialize
<1>3. ASSUME NEW p \in asked, Readmem(p)
      PROVE  ContentsInv'
    <2>1. CASE Hit(p)
        BY <2>1, ContentsHit
    <2>2. CASE MapPage(p)
        BY <2>2, ContentsMapPage
    <2>3. CASE ReadPage(p) \/ ReadFails(p)
        <3>1. /\ AddOwnBuffer(p) \/ GiveBack(p)
              /\ maps' = MapsLeft /\ UNCHANGED asked
              /\ flag_usemmap' = flag_usemmap
              /\ flag_usemmap # "ENABLE" \/ ~ Mappable(p)
            BY <2>3 DEF ReadPage, ReadFails
        <3>2. flag_usemmap' # "ENABLE"
            BY <3>1 DEF ContentsInv
        <3> QED
            BY <3>1, <3>2, ContentsOwn
    <2>4. CASE MmapFails(p)
        <3>1. /\ AddOwnBuffer(p) \/ GiveBack(p)
              /\ maps' = MapsLeft /\ UNCHANGED asked
              /\ flag_usemmap' = "DISABLE"
            BY <2>4 DEF MmapFails
        <3> QED
            BY <3>1, ContentsOwn
    <2> QED
        BY <1>3, <2>1, <2>2, <2>3, <2>4 DEF Readmem
<1> QED
    BY <1>1, <1>2, <1>3 DEF Next

(***************************************************************************)
(* readmem() returns the page it was asked for, or an error, when every    *)
(* page that is read with mmap() in use can be mapped, and with            *)
(* --non-mmap whatever the pages are: an entry's window is unmapped only   *)
(* when the entry is evicted, and mmap_buf is used again only for a page   *)
(* that no entry has.  A page that cannot be mapped takes an entry without *)
(* touching mmap_buf, which run cache_stale is about.                      *)
(***************************************************************************)
THEOREM ReadsTheRightPage ==
    ASSUME OnlyMappable
    PROVE  Spec => []ReadsRightPage
<1>1. Init => ContentsInv
    <2> SUFFICES ASSUME Init PROVE ContentsInv
        OBVIOUS
    <2>1. used = << >> /\ DOMAIN maps = {} /\ last = [page |-> NoPage, got |-> NoPage]
        BY SMTT(20) DEF Init
    <2>2. Len(used) = 0 /\ 1 .. 0 = {}
        BY <2>1, SMTT(20)
    <2>3. PICK x \in Inputs : asked = x.pages /\ flag_usemmap = x.usemmap
        BY DEF Init
    <2>4. flag_usemmap # "DISABLE" => \A p \in asked : Mappable(p)
        BY <2>3, LoadsAssumption DEF OnlyMappable
    <2>5. flag_usemmap # "ENABLE"
        BY <2>3, LoadsAssumption
    <2> QED
        BY <2>1, <2>2, <2>4, <2>5 DEF ContentsInv, MapsDistinct, ReadsRightPage
<1>2. ContentsInv => ReadsRightPage
    BY DEF ContentsInv
<1> QED
    BY <1>1, <1>2, ListInvInit, ListInvNext, ContentsNext, PTL DEF Spec
=============================================================================
