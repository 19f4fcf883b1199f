---------------------------- MODULE FilterProofs ----------------------------
(***************************************************************************)
(* Theorems about what a dump leaves out: the bitmap of the pages that are *)
(* dumped and its cycles, for blocks and cycles of any size, and the bytes *)
(* erased in the pages, for any orders, pages and writers.                 *)
(***************************************************************************)
EXTENDS EraseInfo, DumpBitmap, DataLemmas

\* Zenon proves every leaf that names no other prover; the limits, in seconds,
\* leave room for a slower machine.
USE ZenonT(30)

-----------------------------------------------------------------------------
(***************************************************************************)
(* The bitmap file and the cycles.                                         *)
(***************************************************************************)
\* A half of the bitmap file with its buffer, as set_bitmap_file() and
\* is_dumpable_file() leave it.
FileBitmap(bm) ==
    bm \in [fd : {TRUE}, no_block : Nat \cup {-1},
            buf : SUBSET (0 .. BlockPfns - 1), disk : SUBSET Nat]

\* The pages whose bit is set: those of the block in the buffer, and those of
\* the file in other blocks.
Contents(bm) ==
    {p \in Nat : IF BlockOf(p) = bm.no_block THEN p % BlockPfns \in bm.buf
                                            ELSE p \in bm.disk}

\* The buffer holds nothing the file does not.
Synced(bm) == Contents(bm) = bm.disk

-----------------------------------------------------------------------------

\* A page is its block and its bit in the block.
LEMMA DivMod ==
    ASSUME NEW B \in Nat \ {0}, NEW p \in Nat
    PROVE  /\ p \div B \in Nat
           /\ p % B \in 0 .. B - 1
           /\ p = (p \div B) * B + (p % B)
  <1>1. p \div B \in Nat  BY SMTT(20)
  <1>2. p % B \in 0 .. B - 1 BY SMTT(20)
  <1>3. p = (p \div B) * B + (p % B) BY SMTT(20)
  <1> QED BY <1>1, <1>2, <1>3

\* A block and a bit are those of one page only.
LEMMA DivUnique ==
    ASSUME NEW B \in Nat \ {0}, NEW n \in Nat, NEW b \in 0 .. B - 1
    PROVE  /\ n * B + b \in Nat
           /\ (n * B + b) \div B = n
           /\ (n * B + b) % B = b
  <1>1. n * B + b \in Nat  BY SMTT(20)
  <1>2. (n * B + b) \div B = n BY SMTT(20)
  <1>3. (n * B + b) % B = b BY SMTT(20)
  <1> QED BY <1>1, <1>2, <1>3

-----------------------------------------------------------------------------
\* Writing the block of the buffer into the file makes the file the contents.
LEMMA StoreStores ==
    ASSUME BlockPfns \in Nat \ {0}, NEW bm, FileBitmap(bm), bm.no_block >= 0
    PROVE  /\ StoreBlock(bm).disk = Contents(bm)
           /\ FileBitmap(StoreBlock(bm))
           /\ StoreBlock(bm).no_block = bm.no_block
           /\ StoreBlock(bm).buf = bm.buf
  <1> DEFINE S == StoreBlock(bm)
             new == (bm.disk \ InBlock(bm.disk, bm.no_block))
                        \cup {bm.no_block * BlockPfns + b : b \in bm.buf}
  <1>1. /\ S = [bm EXCEPT !.disk = new]
        /\ S.disk = new /\ S.no_block = bm.no_block /\ S.buf = bm.buf
    BY DEF StoreBlock, FileBitmap
  <1>2. bm.no_block \in Nat
    BY SMTT(20) DEF FileBitmap
  <1>3. new \subseteq Nat
    <2>1. \A b \in bm.buf : bm.no_block * BlockPfns + b \in Nat
      BY <1>2, DivUnique DEF FileBitmap
    <2> QED BY <2>1 DEF FileBitmap
  <1>4. ASSUME NEW p \in new PROVE p \in Contents(bm)
    <2>1. CASE p \in bm.disk \ InBlock(bm.disk, bm.no_block)
      BY <2>1 DEF Contents, InBlock, FileBitmap
    <2>2. CASE \E b \in bm.buf : p = bm.no_block * BlockPfns + b
      <3>1. PICK b \in bm.buf : p = bm.no_block * BlockPfns + b
        BY <2>2
      <3>2. b \in 0 .. BlockPfns - 1
        BY DEF FileBitmap
      <3>3. p \in Nat /\ p \div BlockPfns = bm.no_block /\ p % BlockPfns = b
        BY <1>2, <3>1, <3>2, DivUnique
      <3> QED BY <3>3 DEF Contents, BlockOf
    <2> QED BY <2>1, <2>2
  <1>5. ASSUME NEW p \in Contents(bm) PROVE p \in new
    <2>1. p \in Nat
      BY DEF Contents
    <2>2. CASE BlockOf(p) = bm.no_block
      <3>1. p % BlockPfns \in bm.buf
        BY <2>2 DEF Contents
      <3>2. p = bm.no_block * BlockPfns + (p % BlockPfns)
        BY <2>1, <2>2, DivMod DEF BlockOf
      <3> QED BY <3>1, <3>2
    <2>3. CASE BlockOf(p) # bm.no_block
      BY <2>3 DEF Contents, InBlock
    <2> QED BY <2>2, <2>3
  <1>6. new = Contents(bm)
    BY <1>4, <1>5
  <1> QED BY <1>1, <1>3, <1>6 DEF FileBitmap

\* Reading a block of a synced file keeps the contents, and they stay synced.
LEMMA LoadKeeps ==
    ASSUME BlockPfns \in Nat \ {0}, NEW bm, FileBitmap(bm), NEW n \in Nat
    PROVE  /\ FileBitmap(LoadBlock(bm, n))
           /\ Contents(LoadBlock(bm, n)) = bm.disk
           /\ LoadBlock(bm, n).disk = bm.disk
           /\ LoadBlock(bm, n).no_block = n
  <1> DEFINE L == LoadBlock(bm, n)
             bits == {p % BlockPfns : p \in InBlock(bm.disk, n)}
  <1>1. L = [bm EXCEPT !.no_block = n, !.buf = bits]
    BY DEF LoadBlock
  <1>2. L.disk = bm.disk /\ L.no_block = n /\ L.buf = bits
    BY <1>1 DEF FileBitmap
  <1>3. bm.disk \subseteq Nat
    BY DEF FileBitmap
  <1>4. bits \subseteq 0 .. BlockPfns - 1
    BY <1>3, DivMod DEF InBlock
  <1>5. FileBitmap(L)
    BY <1>1, <1>4 DEF FileBitmap
  <1>6. ASSUME NEW p \in Nat, BlockOf(p) = n PROVE p % BlockPfns \in bits <=> p \in bm.disk
    <2>1. p \in bm.disk => p % BlockPfns \in bits
      BY <1>6 DEF InBlock
    <2>2. ASSUME p % BlockPfns \in bits PROVE p \in bm.disk
      <3>1. PICK q \in InBlock(bm.disk, n) : p % BlockPfns = q % BlockPfns
        BY <2>2
      <3>2. q \in bm.disk /\ q \in Nat /\ q \div BlockPfns = n
        BY <1>3 DEF InBlock, BlockOf
      <3>3. p = n * BlockPfns + (p % BlockPfns) /\ q = n * BlockPfns + (q % BlockPfns)
        BY <1>6, <3>2, DivMod DEF BlockOf
      <3>4. p = q
        BY <3>1, <3>3
      <3> QED BY <3>2, <3>4
    <2> QED BY <2>1, <2>2
  <1>7. Contents(L) = {p \in Nat : p \in bm.disk}
    BY <1>2, <1>6 DEF Contents
  <1> QED BY <1>2, <1>3, <1>5, <1>7

\* A bitmap stays one when bits of its buffer change.
LEMMA BufferChanged ==
    ASSUME NEW bm, FileBitmap(bm), NEW b \in SUBSET (0 .. BlockPfns - 1)
    PROVE  FileBitmap([bm EXCEPT !.buf = b])
  BY DEF FileBitmap

-----------------------------------------------------------------------------
\* set_bitmap_file() changes the bit of its page and no other, whichever block
\* is in the buffer: a block that was changed is stored before another one is
\* read over it.
THEOREM SetChangesOnePage ==
    ASSUME BlockPfns \in Nat \ {0}, NEW bm, FileBitmap(bm), NEW pfn \in Nat, NEW val \in BOOLEAN
    PROVE  /\ FileBitmap(SetBitmapFile(bm, pfn, val))
           /\ Contents(SetBitmapFile(bm, pfn, val))
                 = IF val THEN Contents(bm) \cup {pfn} ELSE Contents(bm) \ {pfn}
  <1> DEFINE n == BlockOf(pfn)
             old == IF bm.no_block >= 0 /\ bm.no_block # n THEN StoreBlock(bm) ELSE bm
             loaded == IF old.no_block = n THEN old ELSE LoadBlock(old, n)
             bit == pfn % BlockPfns
             new == PutBit(loaded, bit, val)
  <1>1. n \in Nat /\ bit \in 0 .. BlockPfns - 1
    BY DivMod DEF BlockOf
  <1>2. /\ FileBitmap(loaded)
        /\ loaded.no_block = n
        /\ Contents(loaded) = Contents(bm)
    <2>1. CASE bm.no_block = n
      <3>1. loaded = bm
        BY <2>1
      <3> QED BY <2>1, <3>1
    <2>2. CASE bm.no_block # n /\ bm.no_block >= 0
      <3>1. /\ old = StoreBlock(bm) /\ FileBitmap(old)
            /\ old.disk = Contents(bm) /\ old.no_block = bm.no_block
        BY <2>2, StoreStores
      <3>2. loaded = LoadBlock(old, n)
        BY <2>2, <3>1
      <3> HIDE DEF old
      <3> QED BY <1>1, <3>1, <3>2, LoadKeeps
    <2>3. CASE ~(bm.no_block >= 0)
      <3>1. bm.no_block = -1
        BY <2>3, SMTT(20) DEF FileBitmap
      <3>2. loaded = LoadBlock(bm, n)
        BY <1>1, <2>3, <3>1, SMTT(20)
      <3>3. Contents(bm) = bm.disk
        <4>1. \A p \in Nat : BlockOf(p) # bm.no_block
          BY <3>1, DivMod, SMTT(20) DEF BlockOf
        <4>2. bm.disk \subseteq Nat
          BY DEF FileBitmap
        <4> QED BY <4>1, <4>2 DEF Contents
      <3> HIDE DEF n, loaded
      <3> QED BY <1>1, <3>2, <3>3, LoadKeeps, SMTT(30)
    <2> QED BY <2>1, <2>2, <2>3
  <1>3. SetBitmapFile(bm, pfn, val) = new
    BY DEF SetBitmapFile
  <1> HIDE DEF loaded
  <1>4. /\ new = [loaded EXCEPT !.buf = IF val THEN loaded.buf \cup {bit} ELSE loaded.buf \ {bit}]
        /\ new.no_block = n /\ new.disk = loaded.disk
        /\ new.buf = IF val THEN loaded.buf \cup {bit} ELSE loaded.buf \ {bit}
    BY <1>2 DEF PutBit, FileBitmap
  <1>5. FileBitmap(new)
    <2> DEFINE b == IF val THEN loaded.buf \cup {bit} ELSE loaded.buf \ {bit}
    <2>1. loaded.buf \subseteq 0 .. BlockPfns - 1
      BY <1>2 DEF FileBitmap
    <2>2. b \in SUBSET (0 .. BlockPfns - 1)
      <3> HIDE DEF bit
      <3>1. CASE val
        BY <1>1, <2>1, <3>1
      <3>2. CASE ~val
        BY <2>1, <3>2
      <3> QED BY <3>1, <3>2
    <2>3. new = [loaded EXCEPT !.buf = b]
      BY <1>4
    <2> HIDE DEF b, new
    <2> QED BY <1>2, <2>2, <2>3, BufferChanged
  <1>6. ASSUME NEW p \in Nat
        PROVE  p \in Contents(new) <=> (IF val THEN p \in Contents(loaded) \/ p = pfn
                                               ELSE p \in Contents(loaded) /\ p # pfn)
    <2>1. CASE BlockOf(p) # n
      <3>1. p # pfn
        BY <2>1
      <3> QED BY <1>2, <1>4, <2>1, <3>1 DEF Contents
    <2>2. CASE BlockOf(p) = n
      <3>1. p % BlockPfns = bit <=> p = pfn
        <4>1. p = n * BlockPfns + (p % BlockPfns) /\ pfn = n * BlockPfns + bit
          BY <2>2, DivMod DEF BlockOf
        <4> QED BY <4>1
      <3>2. p \in Contents(new) <=> p % BlockPfns \in new.buf
        BY <1>4, <2>2 DEF Contents
      <3>3. p \in Contents(loaded) <=> p % BlockPfns \in loaded.buf
        BY <1>2, <2>2 DEF Contents
      <3> HIDE DEF bit, new
      <3> QED BY <1>4, <3>1, <3>2, <3>3, SMTT(20)
    <2> QED BY <2>1, <2>2
  <1>7. Contents(new) \subseteq Nat /\ Contents(loaded) \subseteq Nat
    BY DEF Contents
  <1> HIDE DEF new
  <1> QED BY <1>2, <1>3, <1>5, <1>6, <1>7

\* sync_bitmap() leaves in the file all the bits that were set, and changes none.
THEOREM SyncWritesAll ==
    ASSUME BlockPfns \in Nat \ {0}, NEW bm, FileBitmap(bm)
    PROVE  /\ FileBitmap(SyncBitmap(bm))
           /\ Contents(SyncBitmap(bm)) = Contents(bm)
           /\ Synced(SyncBitmap(bm))
  <1>1. CASE bm.no_block >= 0
    <2>1. SyncBitmap(bm) = StoreBlock(bm)
      BY <1>1 DEF SyncBitmap, FileBitmap
    <2> DEFINE S == StoreBlock(bm)
    <2>2. /\ S.disk = Contents(bm) /\ FileBitmap(S)
          /\ S.no_block = bm.no_block /\ S.buf = bm.buf
      BY <1>1, StoreStores
    <2> HIDE DEF S
    <2>3. ASSUME NEW p \in Nat PROVE p \in Contents(S) <=> p \in Contents(bm)
      BY <2>2 DEF Contents
    <2>4. Contents(S) = Contents(bm)
      BY <2>3 DEF Contents
    <2> QED BY <2>1, <2>2, <2>4 DEF Synced, S
  <1>2. CASE ~(bm.no_block >= 0)
    <2>1. bm.no_block = -1 /\ bm.disk \subseteq Nat
      BY <1>2, SMTT(20) DEF FileBitmap
    <2>2. SyncBitmap(bm) = bm
      BY <1>2 DEF SyncBitmap
    <2>3. \A p \in Nat : BlockOf(p) # bm.no_block
      BY <2>1, DivMod, SMTT(20) DEF BlockOf
    <2>4. Contents(bm) = bm.disk
      BY <2>1, <2>3 DEF Contents
    <2> QED BY <2>2, <2>4 DEF Synced
  <1> QED BY <1>1, <1>2

\* Once synced, is_dumpable() answers for every page what was set, in any order
\* of questions: reading a block over the buffer loses nothing.
THEOREM AskedAfterSync ==
    ASSUME BlockPfns \in Nat \ {0}, NEW bm, FileBitmap(bm), Synced(bm), NEW pfn \in Nat, NEW c
    PROVE  /\ IsDumpable(bm, pfn, c) <=> pfn \in Contents(bm)
           /\ FileBitmap(AfterAsking(bm, pfn))
           /\ Contents(AfterAsking(bm, pfn)) = Contents(bm)
           /\ Synced(AfterAsking(bm, pfn))
  <1> DEFINE n == BlockOf(pfn)
             A == AfterAsking(bm, pfn)
  <1>1. n \in Nat
    BY DivMod DEF BlockOf
  <1>2. bm.fd
    BY DEF FileBitmap
  <1>3. /\ FileBitmap(A) /\ A.no_block = n
        /\ Contents(A) = Contents(bm) /\ A.disk = bm.disk
    <2>1. CASE pfn = 0 \/ bm.no_block # n
      <3>1. A = LoadBlock(bm, n)
        BY <1>2, <2>1 DEF AfterAsking
      <3> QED BY <1>1, <3>1, LoadKeeps, SMTT(20) DEF Synced
    <2>2. CASE ~(pfn = 0 \/ bm.no_block # n)
      <3>1. A = bm
        BY <2>2 DEF AfterAsking
      <3> QED BY <2>2, <3>1
    <2> QED BY <2>1, <2>2
  <1>4. IsDumpable(bm, pfn, c) <=> pfn % BlockPfns \in A.buf
    BY <1>2 DEF IsDumpable
  <1> HIDE DEF A
  <1>5. pfn \in Contents(A) <=> pfn % BlockPfns \in A.buf
    BY <1>3 DEF Contents
  <1> QED BY <1>3, <1>4, <1>5 DEF Synced, A

-----------------------------------------------------------------------------
\* The pages set in the buffer of a cycle.
CyclePages(bm, c) == {p \in Nat : InCycle(p, c) /\ p - c.start \in bm.buf}

\* set_bitmap_buffer() changes the bit of its page if the page is in the cycle,
\* and nothing otherwise.
THEOREM SetInCycle ==
    ASSUME NEW bm \in [fd : {FALSE}, no_block : {-1}, buf : SUBSET Nat, disk : {{}}],
           NEW c, c.start \in Nat, c.end \in Nat,
           NEW pfn \in Nat, NEW val \in BOOLEAN
    PROVE  CyclePages(SetBitmap(bm, pfn, val, c), c)
             = IF ~CanSetBit(bm, pfn, c) THEN CyclePages(bm, c)
               ELSE IF val THEN CyclePages(bm, c) \cup {pfn} ELSE CyclePages(bm, c) \ {pfn}
  <1>1. CASE ~InCycle(pfn, c)
    BY <1>1 DEF SetBitmap, CanSetBit
  <1>2. CASE InCycle(pfn, c)
    <2> DEFINE new == SetBitmap(bm, pfn, val, c)
               bit == pfn - c.start
    <2>1. new.buf = IF val THEN bm.buf \cup {bit} ELSE bm.buf \ {bit}
      BY <1>2 DEF SetBitmap, PutBit
    <2>2. CanSetBit(bm, pfn, c)
      BY <1>2 DEF CanSetBit
    <2> SUFFICES CyclePages(new, c) = IF val THEN CyclePages(bm, c) \cup {pfn}
                                             ELSE CyclePages(bm, c) \ {pfn}
      BY <2>2
    <2> HIDE DEF new
    <2>3. ASSUME NEW p \in Nat PROVE p - c.start = bit <=> p = pfn
      BY <2>3, SMTT(20)
    <2> HIDE DEF bit
    <2>4. CASE val
      BY <1>2, <2>1, <2>3, <2>4 DEF CyclePages
    <2>5. CASE ~val
      BY <1>2, <2>1, <2>3, <2>5 DEF CyclePages
    <2> QED BY <2>4, <2>5
  <1> QED BY <1>1, <1>2

\* update_cycle() goes on where the cycle ended, with a cycle that is neither
\* empty nor longer than the buffer nor beyond the last page: the loops over the
\* cycles meet every page once and end.
THEOREM CyclesAdjoin ==
    ASSUME NEW max \in Nat, NEW pfn_cyclic \in Nat \ {0},
           NEW c \in [start : Nat, end : Nat, exStart : Nat, exEnd : Nat, exCounter : STRING],
           c.end <= max, ~EndCycle(UpdateCycle(c, max, pfn_cyclic), max)
    PROVE  LET d == UpdateCycle(c, max, pfn_cyclic)
           IN  /\ d.start = c.end
               /\ d.start < d.end /\ d.end <= max
               /\ d.end - d.start <= pfn_cyclic
               /\ d.exStart = c.exStart /\ d.exEnd = c.exEnd
  <1> DEFINE d == UpdateCycle(c, max, pfn_cyclic)
  <1>1. /\ d.start = c.end
        /\ d.end = CycleEnd(c.end, max, pfn_cyclic)
        /\ d.exStart = c.exStart /\ d.exEnd = c.exEnd
    BY DEF UpdateCycle
  <1>2. c.end < max
    BY <1>1, SMTT(20) DEF EndCycle
  <1> QED BY <1>1, <1>2, SMTT(20) DEF CycleEnd

\* The first cycle of a dump, or of a file of a split dump, has its first page.
\* In an ELF dump it may start later than the buffer would, at a byte.
THEOREM FirstCycleStarts ==
    ASSUME NEW max \in Nat, NEW start \in 0 .. max - 1, NEW pfn_cyclic \in Nat \ {0},
           BitPerByte \in Nat \ {0}, NEW elf \in BOOLEAN
    PROVE  LET c == FirstCycle(start, max, pfn_cyclic, elf)
           IN  /\ InCycle(start, c)
               /\ c.start \in Nat /\ c.end <= max
               /\ elf => start - c.start < BitPerByte
  <1> DEFINE c == FirstCycle(start, max, pfn_cyclic, elf)
             s == Round(start, pfn_cyclic)
             b == Round(start, BitPerByte)
  <1>1. s \in Nat /\ s <= start /\ start < s + pfn_cyclic
    BY DivMod, SMTT(20) DEF Round
  <1>2. b \in Nat /\ b <= start /\ start < b + BitPerByte
    BY DivMod, SMTT(20) DEF Round
  <1>3. /\ c.start = IF elf /\ s < start THEN b ELSE s
        /\ c.end = CycleEnd(s, max, pfn_cyclic)
    BY DEF FirstCycle
  <1> HIDE DEF s, b, c
  <1>4. c.start \in Nat /\ c.start <= start /\ (elf => start - c.start < BitPerByte)
    BY <1>1, <1>2, <1>3, SMTT(20)
  <1>5. start < c.end /\ c.end <= max
    BY <1>1, <1>3, SMTT(20) DEF CycleEnd
  <1> QED BY <1>4, <1>5 DEF InCycle, c

-----------------------------------------------------------------------------
(***************************************************************************)
(* Erasing: the inductive invariant of ErasedRight.  The nodes of the list *)
(* are followed back to the orders that made them: each order is           *)
(* overwritten up to the start of a node that has the rest of it, however  *)
(* often it was merged with another or cut at the end of a page.           *)
(***************************************************************************)
NodeType == [paddr : Nat, size : Nat, idx : 0 .. Commands, sizeIdx : Nat, nullify : BOOLEAN]

InfoType == [0 .. Commands -> [num : Nat, sizes : Seq(Int), erased : BOOLEAN]]

Types ==
    /\ in \in Cases
    /\ pc \in {"gather", "loops", "write", "done"}
    /\ taken \in Nat
    /\ filter_info \in Seq(NodeType)
    /\ erase_info \in InfoType
    /\ work \in [Writers -> Nat \cup {-1}]
    /\ erased \subseteq Nat
    /\ written \subseteq Nat

Orders == 1 .. Len(in.orders)

Nodes == 1 .. Len(filter_info)

\* The orders that update_filter_info() has put in the list.
Counted == IF pc = "gather" THEN 1 .. taken ELSE Orders

Counts == pc = "gather" => taken <= Len(in.orders)

\* Nothing but what was asked for is in the list or was overwritten.
Within ==
    /\ erased \subseteq Requested
    /\ \A n \in Nodes : Bytes(filter_info[n]) \subseteq Requested

EndOf(o) == o.paddr + o.size

\* An order is overwritten up to x, the start of a node with the rest of it.
DoneTo(o, x) ==
    /\ o.paddr <= x /\ x <= EndOf(o)
    /\ \A b \in Nat : o.paddr <= b /\ b < x => b \in erased
    /\ \/ x = EndOf(o)
       \/ \E n \in Nodes : filter_info[n].paddr = x /\ EndOf(o) <= EndOf(filter_info[n])

Followed ==
    pc # "done" => \A k \in Counted : \E x \in Nat : DoneTo(in.orders[k], x)

\* One writer: what is left in the list starts in no page that was written.
Serial ==
    pc = "write" /\ ~in.parallel =>
      /\ \A p \in written : Matches(filter_info, p) = {}
      /\ \A w \in Writers : work[w] # -1 =>
            w = Min(Writers) /\ taken \in 1 .. Len(in.pages) /\ work[w] = in.pages[taken]
      /\ \A p \in written : \E m \in 1 .. taken :
            /\ m <= Len(in.pages) /\ p = in.pages[m]
            /\ \A w \in Writers : work[w] # -1 => m < taken

Fresh == pc = "gather" => written = {} /\ \A w \in Writers : work[w] = -1

Inv == Types /\ Counts /\ Within /\ Followed /\ Serial /\ Fresh /\ ErasedRight

-----------------------------------------------------------------------------
(***************************************************************************)
(* The inductive invariant of ReportTrue.  A place of a report line has at *)
(* most one node, and what is counted for it is what was overwritten from  *)
(* the start of an order asked for at its address.                         *)
(***************************************************************************)
\* What is counted for the j-th place of a command.
SizeAt(c, j) == IF j \in DOMAIN erase_info[c].sizes THEN erase_info[c].sizes[j] ELSE 0

Holds(n, c, j) == filter_info[n].idx = c /\ filter_info[n].sizeIdx = j

Placed ==
    /\ \A c \in 0 .. Commands : erase_info[c].sizes = << >> \/ Len(erase_info[c].sizes) = erase_info[c].num
    /\ erase_info[0].sizes = << >>
    /\ pc = "gather" => \A c \in 0 .. Commands : erase_info[c].sizes = << >>
    /\ \A n \in Nodes : filter_info[n].idx # 0 =>
          filter_info[n].sizeIdx \in 1 .. erase_info[filter_info[n].idx].num
    /\ \A m, n \in Nodes : filter_info[m].idx # 0 /\ filter_info[m].idx = filter_info[n].idx
                            /\ filter_info[m].sizeIdx = filter_info[n].sizeIdx => m = n

\* o is the order that the count of a place is about.
CountedOf(o, c, j) ==
    \/ /\ SizeAt(c, j) = -1
       /\ \A n \in Nodes : Holds(n, c, j) => filter_info[n].nullify
    \/ /\ SizeAt(c, j) \in 0 .. o.size
       /\ \A b \in Nat : o.paddr <= b /\ b < o.paddr + SizeAt(c, j) => b \in erased
       /\ \A n \in Nodes : Holds(n, c, j) =>
             /\ filter_info[n].paddr = o.paddr + SizeAt(c, j)
             /\ filter_info[n].size = o.size - SizeAt(c, j)

Accounted ==
    \A c \in 1 .. Commands : \A j \in 1 .. erase_info[c].num :
        \E o \in Asked(<< c, j >>) : CountedOf(o, c, j)

\* The orders of a command, among the first k, that came first at their address.
NewOf(c, k) == {m \in 1 .. k : in.orders[m].cmd = c /\ FirstAt(m)}

Ascending(list) == \A m, n \in 1 .. Len(list) : m < n => list[m].paddr < list[n].paddr

\* While the orders are gathered the list has a node for each address, in order,
\* and a command has as many places as orders that made a node.
Numbered ==
    pc = "gather" =>
      /\ Ascending(filter_info)
      /\ \A k \in 1 .. taken : \E n \in Nodes : filter_info[n].paddr = in.orders[k].paddr
      /\ \A n \in Nodes : \E k \in 1 .. taken : in.orders[k].paddr = filter_info[n].paddr
      /\ \A c \in 1 .. Commands : erase_info[c].num = Cardinality(NewOf(c, taken))

ReportInv ==
    /\ Numbered
    /\ Placed
    /\ Accounted
    /\ pc # "done" => report = {}
    /\ ReportTrue

-----------------------------------------------------------------------------
\* The page of an address.
LEMMA PageOf ==
    ASSUME NEW B \in Nat \ {0}, NEW x \in Nat, NEW p \in Nat
    PROVE  p * B <= x /\ x < (p + 1) * B <=> x \div B = p
<1>1. x \div B \in Nat /\ x = (x \div B) * B + (x % B) /\ x % B \in 0 .. B - 1
    BY SMTT(20)
<1> DEFINE q == x \div B
           r == x % B
<1> HIDE DEF q, r
<1>2. q \in Nat /\ r \in 0 .. B - 1 /\ x = q * B + r
    BY <1>1, SMTT(20) DEF q, r
<1>3. ASSUME p = q PROVE p * B <= x /\ x < (p + 1) * B
    BY <1>2, <1>3, SMTT(20)
<1>4. ASSUME p < q PROVE ~ (x < (p + 1) * B)
    <2>1. (p + 1) * B <= q * B
        BY <1>2, <1>4, SMTT(20)
    <2> QED
        BY <1>2, <2>1, SMTT(20)
<1>5. ASSUME p > q PROVE ~ (p * B <= x)
    <2>1. (q + 1) * B <= p * B
        BY <1>2, <1>5, SMTT(20)
    <2> QED
        BY <1>2, <2>1, SMTT(20)
<1>6. p = q \/ p < q \/ p > q
    BY <1>2, SMTT(20)
<1>7. p * B <= x /\ x < (p + 1) * B <=> q = p
    BY <1>3, <1>4, <1>5, <1>6, <1>2, SMTT(20)
<1> QED
    BY <1>7, SMTT(20) DEF q

\* Pages follow each other as their addresses do.
LEMMA PageMonotone ==
    ASSUME NEW B \in Nat \ {0}, NEW x \in Nat, NEW y \in Nat, x <= y
    PROVE  x \div B <= y \div B /\ x \div B \in Nat /\ y \div B \in Nat
<1>1. x \div B \in Nat /\ y \div B \in Nat
    BY SMTT(20)
<1> DEFINE p == x \div B
           q == y \div B
<1>2. p * B <= x /\ y < (q + 1) * B
    BY <1>1, PageOf, SMTT(20)
<1> HIDE DEF p, q
<1>3. ASSUME q < p PROVE FALSE
    <2>1. (q + 1) * B <= p * B
        BY <1>1, <1>3, SMTT(20) DEF p, q
    <2> QED
        BY <2>1, <1>1, <1>2, SMTT(20) DEF p, q
<1> QED
    BY <1>1, <1>3, SMTT(20) DEF p, q

\* The least of a set of naturals is in it and below the others.
LEMMA MinIs ==
    ASSUME NEW T \in SUBSET Nat, T # {}
    PROVE  Min(T) \in T /\ \A n \in T : Min(T) <= n
<1>1. \E m \in T : \A n \in T : m <= n
    BY LeastNatural, SMTT(20)
<1> QED
    BY <1>1 DEF Min

-----------------------------------------------------------------------------
\* Where insert_filter_info() puts a node.
LEMMA PlaceIs ==
    ASSUME NEW list \in Seq(NodeType), NEW a \in Nat
    PROVE  Place(list, a) \in 1 .. Len(list) + 1
<1> DEFINE above == {k \in 1 .. Len(list) : a <= list[k].paddr}
<1>1. CASE above = {}
    BY <1>1, SMTT(20) DEF Place
<1>2. CASE above # {}
    <2>1. above \in SUBSET Nat
        BY SMTT(20)
    <2>2. Min(above) \in above
        BY <1>2, <2>1, MinIs
    <2>3. Place(list, a) = Min(above)
        BY <1>2 DEF Place
    <2> QED
        BY <2>2, <2>3, SMTT(20)
<1> QED
    BY <1>1, <1>2

\* A node at the same address becomes larger.
LEMMA MergedIs ==
    ASSUME NEW list \in Seq(NodeType), NEW node \in NodeType, SameNode(list, node.paddr)
    PROVE  LET k == Place(list, node.paddr)
               new == insert_filter_info(list, node)
           IN  /\ k \in 1 .. Len(list)
               /\ list[k].paddr = node.paddr
               /\ new \in Seq(NodeType)
               /\ Len(new) = Len(list)
               /\ \A n \in 1 .. Len(list) :
                     /\ n # k => new[n] = list[n]
                     /\ new[n].paddr = list[n].paddr
                     /\ new[n].idx = list[n].idx
                     /\ new[n].sizeIdx = list[n].sizeIdx
                     /\ new[n].nullify = list[n].nullify
                     /\ new[n].size >= list[n].size
               /\ new[k].size >= node.size
               /\ new[k].size \in {node.size, list[k].size}
<1> DEFINE k == Place(list, node.paddr)
           top == IF node.size > list[k].size THEN node.size ELSE list[k].size
           merged == [list[k] EXCEPT !.size = top]
           new == insert_filter_info(list, node)
<1>1. k \in 1 .. Len(list) + 1 /\ k <= Len(list) /\ list[k].paddr = node.paddr
    <2>1. node.paddr \in Nat
        BY DEF NodeType
    <2>2. k \in 1 .. Len(list) + 1
        BY <2>1, PlaceIs
    <2> QED
        BY <2>2 DEF SameNode
<1>2. k \in 1 .. Len(list)
    <2>1. Len(list) \in Nat
        BY SMTT(20)
    <2> QED
        BY <1>1, <2>1, SMTT(20)
<1>3. new = [list EXCEPT ![k] = merged]
    BY DEF insert_filter_info
<1>4. list[k] \in NodeType
    BY <1>2, SeqElement
<1>5. top \in Nat /\ top >= node.size /\ top >= list[k].size /\ top \in {node.size, list[k].size}
    <2>1. node.size \in Nat /\ list[k].size \in Nat
        BY <1>4 DEF NodeType
    <2>2. PICK x, y \in Nat : x = node.size /\ y = list[k].size
        BY <2>1
    <2>3. top = IF x > y THEN x ELSE y
        BY <2>2
    <2> HIDE DEF top
    <2>4. top \in Nat /\ top >= x /\ top >= y /\ top \in {x, y}
        BY <2>3, SMTT(20)
    <2> QED
        BY <2>2, <2>4
<1>6. /\ merged.paddr = list[k].paddr /\ merged.idx = list[k].idx
      /\ merged.sizeIdx = list[k].sizeIdx /\ merged.nullify = list[k].nullify
      /\ merged.size = top /\ merged \in NodeType
    BY <1>4, <1>5 DEF NodeType
<1> HIDE DEF k, top, merged, new
<1>7. new \in Seq(NodeType) /\ Len(new) = Len(list)
    BY <1>2, <1>3, <1>6, SMTT(20)
<1>8. ASSUME NEW n \in 1 .. Len(list)
      PROVE  /\ n # k => new[n] = list[n]
             /\ n = k => new[n] = merged
             /\ list[n] \in NodeType
    BY <1>2, <1>3, <1>6, SMTT(20)
<1>9. ASSUME NEW n \in 1 .. Len(list)
      PROVE  /\ n # k => new[n] = list[n]
             /\ new[n].paddr = list[n].paddr
             /\ new[n].idx = list[n].idx
             /\ new[n].sizeIdx = list[n].sizeIdx
             /\ new[n].nullify = list[n].nullify
             /\ new[n].size >= list[n].size
    <2>1. CASE n = k
        BY <2>1, <1>8, <1>5, <1>6
    <2>2. CASE n # k
        <3>1. list[n].size \in Nat
            BY <1>8 DEF NodeType
        <3>2. list[n].size >= list[n].size
            BY <3>1, SMTT(20)
        <3> QED
            BY <2>2, <3>2, <1>8
    <2> QED
        BY <2>1, <2>2
<1>10. new[k] = merged
    BY <1>2, <1>8
<1> QED
    BY <1>1, <1>2, <1>5, <1>6, <1>7, <1>9, <1>10 DEF k, new

\* new is s with m in place of its elements between a and z.
Spliced(new, s, m, a, z) ==
    /\ Len(new) = a + Len(m) + (Len(s) - z)
    /\ \A n \in 1 .. a : new[n] = s[n]
    /\ \A n \in 1 .. Len(m) : new[a + n] = m[n]
    /\ \A n \in z + 1 .. Len(s) : new[a + Len(m) + (n - z)] = s[n]

LEMMA SeqSpliced ==
    ASSUME NEW T, NEW s \in Seq(T), NEW m \in Seq(T),
           NEW a \in Nat, NEW z \in Nat, a <= z, z <= Len(s),
           NEW new, new = SubSeq(s, 1, a) \o m \o SubSeq(s, z + 1, Len(s))
    PROVE  new \in Seq(T) /\ Spliced(new, s, m, a, z)
<1> DEFINE l == SubSeq(s, 1, a)
           r == SubSeq(s, z + 1, Len(s))
           lm == l \o m
<1>0. Len(s) \in Nat /\ Len(m) \in Nat
    BY SeqLen
<1>1. /\ l \in Seq(T) /\ Len(l) = a
      /\ \A n \in 1 .. a : l[n] = s[n]
    <2>1. \A n \in 1 .. a : s[n] \in T
        <3> SUFFICES ASSUME NEW n \in 1 .. a PROVE s[n] \in T
            BY SMTT(20)
        <3>1. n \in 1 .. Len(s)
            BY <1>0, SMTT(20)
        <3> QED
            BY <3>1, SeqElement
    <2> HIDE DEF l
    <2>2. /\ l \in Seq(T)
          /\ Len(l) = IF 1 <= a THEN a - 1 + 1 ELSE 0
          /\ \A n \in 1 .. a - 1 + 1 : l[n] = s[1 + n - 1]
        <3>1. 1 \in Int /\ a \in Int
            BY SMTT(20)
        <3> QED
            BY <2>1, <3>1, SeqPart, SMTT(20) DEF l
    <2> QED
        BY <2>2, SMTT(20)
<1>2. /\ r \in Seq(T) /\ Len(r) = Len(s) - z
      /\ \A n \in 1 .. Len(s) - z : r[n] = s[z + n]
    <2>1. \A n \in z + 1 .. Len(s) : s[n] \in T
        <3> SUFFICES ASSUME NEW n \in z + 1 .. Len(s) PROVE s[n] \in T
            BY SMTT(20)
        <3>1. n \in 1 .. Len(s)
            BY <1>0, SMTT(20)
        <3> QED
            BY <3>1, SeqElement
    <2> HIDE DEF r
    <2>2. /\ r \in Seq(T)
          /\ Len(r) = IF z + 1 <= Len(s) THEN Len(s) - (z + 1) + 1 ELSE 0
          /\ \A n \in 1 .. Len(s) - (z + 1) + 1 : r[n] = s[z + 1 + n - 1]
        <3>1. z + 1 \in Int /\ Len(s) \in Int
            BY <1>0, SMTT(20)
        <3> QED
            BY <2>1, <3>1, SeqPart, SMTT(20) DEF r
    <2> QED
        BY <2>2, <1>0, SMTT(20)
<1> HIDE DEF l, r
<1>3. /\ lm \in Seq(T) /\ Len(lm) = Len(l) + Len(m)
      /\ \A n \in 1 .. Len(l) + Len(m) : lm[n] = IF n <= Len(l) THEN l[n] ELSE m[n - Len(l)]
    BY <1>1, SeqJoin
<1>9. new = lm \o r
    BY DEF l, r
<1> HIDE DEF lm
<1>4. /\ new \in Seq(T) /\ Len(new) = Len(lm) + Len(r)
      /\ \A n \in 1 .. Len(lm) + Len(r) : new[n] = IF n <= Len(lm) THEN lm[n] ELSE r[n - Len(lm)]
    <2>1. lm \in Seq(T) /\ r \in Seq(T)
        BY <1>2, <1>3
    <2> QED
        <3>1. /\ lm \o r \in Seq(T) /\ Len(lm \o r) = Len(lm) + Len(r)
              /\ \A n \in 1 .. Len(lm) + Len(r) :
                    (lm \o r)[n] = IF n <= Len(lm) THEN lm[n] ELSE r[n - Len(lm)]
            BY <2>1, SeqJoin
        <3> QED
            BY <3>1, <1>9
<1>5. Len(new) = a + Len(m) + (Len(s) - z)
    <2>1. Len(new) = Len(lm) + Len(r) /\ Len(lm) = Len(l) + Len(m)
        BY <1>3, <1>4
    <2> QED
        BY <2>1, <1>1, <1>2
<1>6. ASSUME NEW n \in 1 .. a PROVE new[n] = s[n]
    <2>1. n \in 1 .. Len(lm) + Len(r) /\ n <= Len(lm)
        BY <1>0, <1>1, <1>2, <1>3, SMTT(20)
    <2>2. n \in 1 .. Len(l) + Len(m) /\ n <= Len(l)
        BY <1>0, <1>1, SMTT(20)
    <2> QED
        BY <2>1, <2>2, <1>1, <1>3, <1>4
<1>7. ASSUME NEW n \in 1 .. Len(m) PROVE new[a + n] = m[n]
    <2>1. a + n \in 1 .. Len(lm) + Len(r) /\ a + n <= Len(lm)
        BY <1>0, <1>1, <1>2, <1>3, SMTT(20)
    <2>2. a + n \in 1 .. Len(l) + Len(m) /\ ~ (a + n <= Len(l))
        BY <1>0, <1>1, SMTT(20)
    <2>3. a + n - Len(l) = n
        BY <1>0, <1>1, SMTT(20)
    <2> QED
        <3>1. new[a + n] = lm[a + n]
            BY <2>1, <1>4
        <3>2. lm[a + n] = m[a + n - Len(l)]
            BY <2>2, <1>3, SMTT(20)
        <3> QED
            BY <3>1, <3>2, <2>3
<1>8. ASSUME NEW n \in z + 1 .. Len(s) PROVE new[a + Len(m) + (n - z)] = s[n]
    <2> DEFINE k == a + Len(m) + (n - z)
    <2>1. k \in 1 .. Len(lm) + Len(r) /\ ~ (k <= Len(lm)) /\ k - Len(lm) = n - z
        BY <1>0, <1>1, <1>2, <1>3, SMTT(20)
    <2>2. n - z \in 1 .. Len(s) - z /\ z + (n - z) = n
        BY <1>0, SMTT(20)
    <2> HIDE DEF k
    <2>3. new[k] = s[n]
        BY <2>1, <2>2, <1>2, <1>4
    <2> QED
        BY <2>3 DEF k
<1> QED
    BY <1>4, <1>5, <1>6, <1>7, <1>8 DEF Spliced

\* Otherwise the node goes into the list, and the others keep their order.
LEMMA InsertedIs ==
    ASSUME NEW list \in Seq(NodeType), NEW node \in NodeType, ~SameNode(list, node.paddr)
    PROVE  LET k == Place(list, node.paddr)
               new == insert_filter_info(list, node)
           IN  /\ k \in 1 .. Len(list) + 1
               /\ new \in Seq(NodeType)
               /\ Len(new) = Len(list) + 1
               /\ new[k] = node
               /\ \A n \in 1 .. Len(list) : n < k => new[n] = list[n]
               /\ \A n \in 1 .. Len(list) : n >= k => new[n + 1] = list[n]
<1> DEFINE k == Place(list, node.paddr)
           new == insert_filter_info(list, node)
<1>1. k \in 1 .. Len(list) + 1
    <2>1. node.paddr \in Nat
        BY DEF NodeType
    <2> QED
        BY <2>1, PlaceIs
<1>2. new = SubSeq(list, 1, k - 1) \o << node >> \o SubSeq(list, k, Len(list))
    BY DEF insert_filter_info
<1>3. Len(list) \in Nat /\ << node >> \in Seq(NodeType) /\ Len(<< node >>) = 1
    BY SMTT(20)
<1> DEFINE one == << node >>
           j == k - 1
<1>4. j \in Nat /\ j <= j /\ j <= Len(list) /\ j + 1 = k
    BY <1>1, <1>3, SMTT(20)
<1>5. new = SubSeq(list, 1, j) \o one \o SubSeq(list, j + 1, Len(list))
    BY <1>2, <1>4
<1> HIDE DEF k, new, one, j
<1>6. new \in Seq(NodeType) /\ Spliced(new, list, one, j, j)
    <2>1. j \in Nat /\ j <= j /\ j <= Len(list) /\ one \in Seq(NodeType)
        BY <1>3, <1>4 DEF one
    <2> QED
        BY <1>5, <2>1, SeqSpliced
<1>7. Len(one) = 1 /\ one[1] = node
    BY SMTT(20) DEF one
<1>8. Len(new) = Len(list) + 1
    BY <1>1, <1>3, <1>4, <1>6, <1>7, SMTT(20) DEF Spliced
<1>9. new[k] = node
    <2>1. 1 \in 1 .. Len(one) 
        BY <1>7, SMTT(20)
    <2> QED
        BY <2>1, <1>4, <1>6, <1>7 DEF Spliced
<1>10. ASSUME NEW n \in 1 .. Len(list), n < k PROVE new[n] = list[n]
    <2>1. n \in 1 .. j
        BY <1>1, <1>3, <1>4, <1>10, SMTT(20)
    <2> QED
        BY <2>1, <1>6 DEF Spliced
<1>11. ASSUME NEW n \in 1 .. Len(list), n >= k PROVE new[n + 1] = list[n]
    <2>1. n \in j + 1 .. Len(list) /\ j + Len(one) + (n - j) = n + 1
        BY <1>1, <1>3, <1>4, <1>7, <1>11, SMTT(20)
    <2> QED
        BY <2>1, <1>6 DEF Spliced
<1> QED
    BY <1>1, <1>6, <1>8, <1>9, <1>10, <1>11 DEF k, new

-----------------------------------------------------------------------------
\* What extract_filter_info() takes of a node ends with it or with the page.
LEMMA InPageIs ==
    ASSUME PageSize \in Nat \ {0}, NEW node \in NodeType, NEW p \in Nat, StartsIn(node, p)
    PROVE  /\ InPage(node, p) \in Nat
           /\ InPage(node, p) <= node.size
           /\ InPage(node, p) # node.size => node.paddr + InPage(node, p) = (p + 1) * PageSize
<1> DEFINE room == (p + 1) * PageSize - node.paddr
           T == {node.size, room}
<1>1. node.size \in Nat /\ node.paddr \in Nat
    BY DEF NodeType
<1>2. (p + 1) * PageSize \in Nat /\ node.paddr < (p + 1) * PageSize
    <2>1. (p + 1) * PageSize \in Nat
        BY SMTT(20)
    <2> QED
        BY <2>1 DEF StartsIn
<1>3. room \in Nat /\ node.paddr + room = (p + 1) * PageSize
    BY <1>1, <1>2, SMTT(20)
<1> HIDE DEF room
<1>4. T \in SUBSET Nat /\ T # {}
    BY <1>1, <1>3
<1>5. Min(T) \in T /\ \A n \in T : Min(T) <= n
    BY <1>4, MinIs
<1>6. InPage(node, p) = Min(T)
    BY DEF InPage, room
<1> HIDE DEF T
<1>7. InPage(node, p) \in Nat
    BY <1>4, <1>5, <1>6
<1>8. InPage(node, p) <= node.size
    BY <1>5, <1>6 DEF T
<1>9. InPage(node, p) # node.size => InPage(node, p) = room
    BY <1>5, <1>6 DEF T
<1> QED
    BY <1>3, <1>7, <1>8, <1>9

\* The place in the list of a node of Extracted(list, k, page).
OldPlace(n, k, gone) == IF gone /\ n >= k THEN n + 1 ELSE n

Gone(list, k, p) == list[k].size = InPage(list[k], p)

\* new is what Extracted(list, k, p) leaves.
Leaves(new, list, k, p, gone) ==
    /\ \A n \in 1 .. Len(new) :
          /\ OldPlace(n, k, gone) \in 1 .. Len(list)
          /\ OldPlace(n, k, gone) # k => new[n] = list[OldPlace(n, k, gone)]
          /\ OldPlace(n, k, gone) = k =>
                /\ ~gone /\ n = k
                /\ new[n].paddr = list[k].paddr + InPage(list[k], p)
                /\ new[n].size = list[k].size - InPage(list[k], p)
                /\ new[n].idx = list[k].idx
                /\ new[n].sizeIdx = list[k].sizeIdx
                /\ new[n].nullify = list[k].nullify
    /\ \A m \in 1 .. Len(list) : m # k \/ ~gone =>
          \E n \in 1 .. Len(new) : OldPlace(n, k, gone) = m

\* The list after extract_filter_info(), whether or not a node remains.
LEMMA ExtractedIs ==
    ASSUME PageSize \in Nat \ {0}, NEW list \in Seq(NodeType), NEW k \in 1 .. Len(list),
           NEW p \in Nat, StartsIn(list[k], p)
    PROVE  /\ Extracted(list, k, p) \in Seq(NodeType)
           /\ Leaves(Extracted(list, k, p), list, k, p, Gone(list, k, p))
<1> DEFINE new == Extracted(list, k, p)
           gone == Gone(list, k, p)
           rest == [list[k] EXCEPT !.paddr = @ + InPage(list[k], p),
                                   !.size = @ - InPage(list[k], p)]
           m == Beyond(list[k], p)
           j == k - 1
<1>1. list[k] \in NodeType /\ Len(list) \in Nat
    BY SeqElement, SeqLen
<1>2. InPage(list[k], p) \in Nat /\ InPage(list[k], p) <= list[k].size
    BY <1>1, InPageIs
<1>3. list[k].size - InPage(list[k], p) \in Nat /\ list[k].paddr + InPage(list[k], p) \in Nat
    <2>1. list[k].size \in Nat /\ list[k].paddr \in Nat
        BY <1>1 DEF NodeType
    <2> QED
        BY <2>1, <1>2, SMTT(20)
<1>4. /\ rest \in NodeType
      /\ rest.paddr = list[k].paddr + InPage(list[k], p)
      /\ rest.size = list[k].size - InPage(list[k], p)
      /\ rest.idx = list[k].idx /\ rest.sizeIdx = list[k].sizeIdx /\ rest.nullify = list[k].nullify
    BY <1>1, <1>3 DEF NodeType
<1>5. m = IF gone THEN << >> ELSE << rest >>
    BY DEF Beyond, Gone
<1> HIDE DEF rest, m, gone
<1>6. m \in Seq(NodeType) /\ (gone => Len(m) = 0) /\ (~gone => Len(m) = 1 /\ m[1] = rest)
    <2>1. CASE gone
        BY <2>1, <1>5, SMTT(20)
    <2>2. CASE ~gone
        <3>1. m = << rest >>
            BY <2>2, <1>5
        <3> QED
            BY <2>2, <3>1, <1>4, SMTT(20)
    <2> QED
        BY <2>1, <2>2
<1>7. j \in Nat /\ k \in Nat /\ j <= k /\ k <= Len(list) /\ j + 1 = k
    BY <1>1, SMTT(20)
<1>8. new = SubSeq(list, 1, j) \o m \o SubSeq(list, k + 1, Len(list))
    BY DEF Extracted, m
<1> HIDE DEF new, j
<1>9. new \in Seq(NodeType) /\ Spliced(new, list, m, j, k)
    BY <1>6, <1>7, <1>8, SeqSpliced
<1>10. /\ gone => Len(new) = Len(list) - 1
       /\ ~gone => Len(new) = Len(list)
    <2>1. Len(new) = j + Len(m) + (Len(list) - k)
        BY <1>9 DEF Spliced
    <2>2. Len(m) = 0 => Len(new) = Len(list) - 1
        BY <2>1, <1>1, <1>7, SMTT(20)
    <2>3. Len(m) = 1 => Len(new) = Len(list)
        BY <2>1, <1>1, <1>7, SMTT(20)
    <2> QED
        BY <2>2, <2>3, <1>6
<1>11. ASSUME NEW n \in 1 .. Len(new)
       PROVE  /\ OldPlace(n, k, gone) \in 1 .. Len(list)
              /\ OldPlace(n, k, gone) # k => new[n] = list[OldPlace(n, k, gone)]
              /\ OldPlace(n, k, gone) = k => ~gone /\ n = k /\ new[n] = rest
    <2>1. CASE n < k
        <3>1. OldPlace(n, k, gone) = n /\ n \in 1 .. j /\ n \in 1 .. Len(list) /\ n # k
            BY <2>1, <1>1, <1>7, SMTT(20) DEF OldPlace
        <3> QED
            BY <3>1, <1>9 DEF Spliced
    <2>2. CASE n >= k /\ gone
        <3>3. OldPlace(n, k, gone) = n + 1
            BY <2>2 DEF OldPlace
        <3>4. Len(m) = 0 /\ Len(new) = Len(list) - 1 /\ n >= k
            BY <2>2, <1>6, <1>10
        <3>1. /\ n + 1 \in k + 1 .. Len(list)
              /\ n + 1 \in 1 .. Len(list) /\ n + 1 # k
            BY <3>4, <1>1, <1>7, SMTT(20)
        <3>2. new[n] = list[n + 1]
            <4> DEFINE i == n + 1
            <4>1. i \in k + 1 .. Len(list)
                BY <3>1
            <4>4. j + Len(m) + (i - k) = n
                BY <3>4, <1>7, SMTT(20)
            <4> HIDE DEF i
            <4>2. new[j + Len(m) + (i - k)] = list[i]
                BY <4>1, <1>9 DEF Spliced
            <4>3. new[n] = list[i]
                BY <4>4, <4>2
            <4> QED
                BY <4>3 DEF i
        <3> QED
            BY <3>1, <3>2, <3>3
    <2>3. CASE n = k /\ ~gone
        <3>3. OldPlace(n, k, gone) = k
            BY <2>3 DEF OldPlace
        <3>4. Len(m) = 1 /\ j + 1 = n
            BY <2>3, <1>6, <1>7
        <3>1. 1 \in 1 .. Len(m) /\ j + 1 = n
            BY <3>4, SMTT(20)
        <3>2. new[n] = m[1]
            BY <3>1, <1>9 DEF Spliced
        <3> QED
            BY <2>3, <3>3, <3>2, <1>6
    <2>4. CASE n > k /\ ~gone
        <3>3. OldPlace(n, k, gone) = n
            BY <2>4 DEF OldPlace
        <3>4. Len(m) = 1 /\ Len(new) = Len(list) /\ n > k
            BY <2>4, <1>6, <1>10
        <3>1. /\ n \in k + 1 .. Len(list)
              /\ n \in 1 .. Len(list) /\ n # k
              /\ j + Len(m) + (n - k) = n
            BY <3>4, <1>1, <1>7, SMTT(20)
        <3>2. new[n] = list[n]
            BY <3>1, <1>9 DEF Spliced
        <3> QED
            BY <3>1, <3>2, <3>3
    <2>5. n < k \/ (n >= k /\ gone) \/ (n = k /\ ~gone) \/ (n > k /\ ~gone)
        BY <1>7, <1>10, <1>1, SMTT(20)
    <2> QED
        BY <2>1, <2>2, <2>3, <2>4, <2>5
<1>12. ASSUME NEW i \in 1 .. Len(list), i # k \/ ~gone
       PROVE  \E n \in 1 .. Len(new) : OldPlace(n, k, gone) = i
    <2>1. CASE i < k \/ ~gone
        <3>1. i \in 1 .. Len(new) /\ OldPlace(i, k, gone) = i
            BY <2>1, <1>1, <1>7, <1>10, SMTT(20) DEF OldPlace
        <3> QED
            BY <3>1
    <2>2. CASE i > k /\ gone
        <3>1. i - 1 \in 1 .. Len(new) /\ OldPlace(i - 1, k, gone) = i
            BY <2>2, <1>1, <1>7, <1>10, SMTT(20) DEF OldPlace
        <3> QED
            BY <3>1
    <2>3. i < k \/ ~gone \/ (i > k /\ gone)
        BY <1>12, <1>7, <1>1, SMTT(20)
    <2> QED
        BY <2>1, <2>2, <2>3
<1> SUFFICES /\ \A n \in 1 .. Len(new) :
                    /\ OldPlace(n, k, gone) \in 1 .. Len(list)
                    /\ OldPlace(n, k, gone) # k => new[n] = list[OldPlace(n, k, gone)]
                    /\ OldPlace(n, k, gone) = k =>
                          /\ ~gone /\ n = k
                          /\ new[n].paddr = list[k].paddr + InPage(list[k], p)
                          /\ new[n].size = list[k].size - InPage(list[k], p)
                          /\ new[n].idx = list[k].idx
                          /\ new[n].sizeIdx = list[k].sizeIdx
                          /\ new[n].nullify = list[k].nullify
             /\ \A i \in 1 .. Len(list) : i # k \/ ~gone =>
                    \E n \in 1 .. Len(new) : OldPlace(n, k, gone) = i
    BY <1>9 DEF new, gone, Leaves
<1>13. ASSUME NEW n \in 1 .. Len(new), OldPlace(n, k, gone) = k
       PROVE  /\ ~gone /\ n = k
              /\ new[n].paddr = list[k].paddr + InPage(list[k], p)
              /\ new[n].size = list[k].size - InPage(list[k], p)
              /\ new[n].idx = list[k].idx
              /\ new[n].sizeIdx = list[k].sizeIdx
              /\ new[n].nullify = list[k].nullify
    BY <1>4, <1>11, <1>13
<1> QED
    BY <1>11, <1>12, <1>13

\* What was in the list and what is put in stay in it, and nothing else is.
LEMMA InsertKeeps ==
    ASSUME NEW list \in Seq(NodeType), NEW node \in NodeType
    PROVE  LET new == insert_filter_info(list, node)
           IN  /\ new \in Seq(NodeType)
               /\ \A n \in 1 .. Len(new) : \/ Bytes(new[n]) = Bytes(node)
                                            \/ \E m \in 1 .. Len(list) : Bytes(new[n]) = Bytes(list[m])
               /\ \A m \in 1 .. Len(list) : \E n \in 1 .. Len(new) :
                     new[n].paddr = list[m].paddr /\ new[n].size >= list[m].size
               /\ \E n \in 1 .. Len(new) :
                     new[n].paddr = node.paddr /\ new[n].size >= node.size
<1> DEFINE new == insert_filter_info(list, node)
           k == Place(list, node.paddr)
<1>0. Len(list) \in Nat /\ \A m \in 1 .. Len(list) : list[m].size >= list[m].size
    <2>1. ASSUME NEW m \in 1 .. Len(list) PROVE list[m].size >= list[m].size
        <3>1. list[m] \in NodeType
            BY SeqElement
        <3>2. list[m].size \in Nat
            BY <3>1 DEF NodeType
        <3> QED
            BY <3>2, SMTT(20)
    <2> QED
        BY <2>1, SeqLen
<1>00. node.size >= node.size
    BY SMTT(20) DEF NodeType
<1>1. CASE SameNode(list, node.paddr)
    <2>1. /\ k \in 1 .. Len(list)
          /\ list[k].paddr = node.paddr
          /\ new \in Seq(NodeType)
          /\ Len(new) = Len(list)
          /\ \A n \in 1 .. Len(list) :
                /\ n # k => new[n] = list[n]
                /\ new[n].paddr = list[n].paddr
                /\ new[n].idx = list[n].idx
                /\ new[n].sizeIdx = list[n].sizeIdx
                /\ new[n].nullify = list[n].nullify
                /\ new[n].size >= list[n].size
          /\ new[k].size >= node.size
          /\ new[k].size \in {node.size, list[k].size}
        BY <1>1, MergedIs
    <2> HIDE DEF new, k
    <2>2. ASSUME NEW n \in 1 .. Len(new)
          PROVE  \/ Bytes(new[n]) = Bytes(node)
                 \/ \E m \in 1 .. Len(list) : Bytes(new[n]) = Bytes(list[m])
        <3>0. n \in 1 .. Len(list)
            BY <2>1
        <3>1. CASE n # k
            BY <2>1, <3>0, <3>1
        <3>2. CASE n = k /\ new[k].size = node.size
            BY <2>1, <3>2 DEF Bytes
        <3>3. CASE n = k /\ new[k].size = list[k].size
            BY <2>1, <3>3 DEF Bytes
        <3> QED
            BY <2>1, <3>1, <3>2, <3>3
    <2>3. \A m \in 1 .. Len(list) : \E n \in 1 .. Len(new) :
             new[n].paddr = list[m].paddr /\ new[n].size >= list[m].size
        BY <2>1
    <2>4. \E n \in 1 .. Len(new) : new[n].paddr = node.paddr /\ new[n].size >= node.size
        BY <2>1
    <2> QED
        BY <2>1, <2>2, <2>3, <2>4 DEF new
<1>2. CASE ~SameNode(list, node.paddr)
    <2>1. /\ k \in 1 .. Len(list) + 1
          /\ new \in Seq(NodeType)
          /\ Len(new) = Len(list) + 1
          /\ new[k] = node
          /\ \A n \in 1 .. Len(list) : n < k => new[n] = list[n]
          /\ \A n \in 1 .. Len(list) : n >= k => new[n + 1] = list[n]
        BY <1>2, InsertedIs
    <2> HIDE DEF new, k
    <2>2. ASSUME NEW n \in 1 .. Len(new)
          PROVE  n = k \/ \E m \in 1 .. Len(list) : new[n] = list[m]
        <3>1. CASE n < k
            <4>1. n \in 1 .. Len(list)
                BY <2>1, <3>1, <1>0, SMTT(20)
            <4> QED
                BY <4>1, <2>1, <3>1
        <3>2. CASE n > k
            <4> DEFINE m == n - 1
            <4>1. m \in 1 .. Len(list) /\ m >= k /\ m + 1 = n
                BY <2>1, <3>2, <1>0, SMTT(20)
            <4> HIDE DEF m
            <4>2. new[m + 1] = list[m]
                BY <4>1, <2>1
            <4> QED
                BY <4>1, <4>2
        <3>3. n < k \/ n = k \/ n > k
            BY <2>1, <1>0, SMTT(20)
        <3> QED
            BY <3>1, <3>2, <3>3
    <2>3. ASSUME NEW m \in 1 .. Len(list)
          PROVE  \E n \in 1 .. Len(new) : new[n] = list[m]
        <3>1. CASE m < k
            <4>1. m \in 1 .. Len(new)
                BY <2>1, <1>0, SMTT(20)
            <4> QED
                BY <4>1, <2>1, <3>1
        <3>2. CASE m >= k
            <4>1. m + 1 \in 1 .. Len(new)
                BY <2>1, <1>0, SMTT(20)
            <4> QED
                BY <4>1, <2>1, <3>2
        <3>3. m < k \/ m >= k
            BY <2>1, <1>0, SMTT(20)
        <3> QED
            BY <3>1, <3>2, <3>3
    <2>4. k \in 1 .. Len(new)
        BY <2>1, <1>0, SMTT(20)
    <2>5. \A n \in 1 .. Len(new) : \/ Bytes(new[n]) = Bytes(node)
                                   \/ \E m \in 1 .. Len(list) : Bytes(new[n]) = Bytes(list[m])
        BY <2>1, <2>2
    <2>6. \A m \in 1 .. Len(list) : \E n \in 1 .. Len(new) :
             new[n].paddr = list[m].paddr /\ new[n].size >= list[m].size
        BY <2>3, <1>0
    <2>7. \E n \in 1 .. Len(new) : new[n].paddr = node.paddr /\ new[n].size >= node.size
        BY <2>1, <2>4, <1>00
    <2> QED
        BY <2>1, <2>5, <2>6, <2>7 DEF new
<1> QED
    BY <1>1, <1>2

-----------------------------------------------------------------------------
(***************************************************************************)
(* Steps.                                                                  *)
(***************************************************************************)
\* The commands are numbered from 1; 0 is an order without one.
LEMMA CommandIs ==
    ASSUME CasesOK
    PROVE  0 \in 0 .. Commands /\ \A c \in 1 .. Commands : c \in 0 .. Commands /\ c # 0
<1>1. Commands \in Nat
    BY DEF CasesOK
<1> QED
    BY <1>1, SMTT(20)

\* No command has a place.
LEMMA NoInfoIs ==
    /\ NoInfo \in InfoType
    /\ \A c \in 0 .. Commands : NoInfo[c].sizes = << >> /\ NoInfo[c].num = 0
<1>1. 0 \in Nat /\ << >> \in Seq(Int)
    BY SMTT(20)
<1>2. [num |-> 0, sizes |-> << >>, erased |-> FALSE] \in [num : Nat, sizes : Seq(Int), erased : BOOLEAN]
    BY <1>1
<1> QED
    BY <1>2 DEF NoInfo, InfoType

\* An order of the case, and the bytes it asks for.
LEMMA OrderIs ==
    ASSUME CasesOK, in \in Cases, NEW k \in Orders
    PROVE  /\ in.orders[k] \in OrderType
           /\ in.orders[k].paddr \in Nat /\ in.orders[k].size \in Nat
           /\ in.orders[k].cmd \in 0 .. Commands /\ in.orders[k].nullify \in BOOLEAN
           /\ BytesOf(in.orders[k]) \subseteq Requested
<1>1. in.orders \in Seq(OrderType)
    BY DEF CasesOK, CaseOK
<1>2. in.orders[k] \in OrderType
    BY <1>1, SeqElement DEF Orders
<1>3. BytesOf(in.orders[k]) \subseteq Requested
    BY DEF Requested, Orders
<1> QED
    BY <1>2, <1>3 DEF OrderType

\* The number of orders of a case.
LEMMA CountsIs ==
    ASSUME CasesOK, in \in Cases
    PROVE  Len(in.orders) \in Nat /\ Len(in.pages) \in Nat
<1>1. in.orders \in Seq(OrderType) /\ in.pages \in Seq(Nat)
    BY DEF CasesOK, CaseOK
<1> QED
    BY <1>1, SeqLen

\* The node of the next order.
NextOrder == in.orders[taken + 1]

NextNode == [paddr |-> NextOrder.paddr, size |-> NextOrder.size, idx |-> NextOrder.cmd,
             sizeIdx |-> IF NextOrder.cmd = 0 THEN 0 ELSE erase_info[NextOrder.cmd].num + 1,
             nullify |-> NextOrder.nullify]

\* The node that update_filter_info() makes of the next order.
LEMMA NextNodeIs ==
    ASSUME CasesOK, Types, UpdateFilterInfo
    PROVE  /\ taken + 1 \in Orders
           /\ NextNode \in NodeType
           /\ NextNode.paddr = NextOrder.paddr /\ NextNode.size = NextOrder.size
           /\ NextNode.idx = NextOrder.cmd /\ NextNode.nullify = NextOrder.nullify
           /\ NextNode.idx # 0 => NextNode.sizeIdx = erase_info[NextNode.idx].num + 1
           /\ filter_info' = insert_filter_info(filter_info, NextNode)
           /\ erase_info' = IF ~SameNode(filter_info, NextOrder.paddr) /\ NextOrder.cmd # 0
                            THEN AddEraseInfoNode(erase_info, NextOrder.cmd) ELSE erase_info
<1>1. taken + 1 \in Orders
    <2>1. Len(in.orders) \in Nat
        BY CountsIs DEF Types
    <2>2. taken \in Nat /\ taken < Len(in.orders)
        BY DEF Types, UpdateFilterInfo
    <2> QED
        BY <2>1, <2>2, SMTT(20) DEF Orders
<1>2. /\ NextOrder \in OrderType
      /\ NextOrder.paddr \in Nat /\ NextOrder.size \in Nat
      /\ NextOrder.cmd \in 0 .. Commands /\ NextOrder.nullify \in BOOLEAN
    BY <1>1, OrderIs DEF NextOrder, Types
<1>3. erase_info[NextOrder.cmd].num \in Nat
    BY <1>2 DEF Types, InfoType
<1>4. (IF NextOrder.cmd = 0 THEN 0 ELSE erase_info[NextOrder.cmd].num + 1) \in Nat
    BY <1>3, SMTT(20)
<1>5. NextNode \in NodeType
    BY <1>2, <1>4 DEF NextNode, NodeType
<1>6. /\ NextNode.paddr = NextOrder.paddr /\ NextNode.size = NextOrder.size
      /\ NextNode.idx = NextOrder.cmd /\ NextNode.nullify = NextOrder.nullify
      /\ NextNode.idx # 0 => NextNode.sizeIdx = erase_info[NextNode.idx].num + 1
    BY DEF NextNode
<1>7. /\ filter_info' = insert_filter_info(filter_info, NextNode)
      /\ erase_info' = IF ~SameNode(filter_info, NextOrder.paddr) /\ NextOrder.cmd # 0
                        THEN AddEraseInfoNode(erase_info, NextOrder.cmd) ELSE erase_info
    BY DEF UpdateFilterInfo, NextNode, NextOrder
<1> QED
    BY <1>1, <1>5, <1>6, <1>7

\* A command has one more place.
LEMMA AddedInfo ==
    ASSUME NEW ei \in InfoType, NEW c \in 0 .. Commands
    PROVE  /\ AddEraseInfoNode(ei, c) \in InfoType
           /\ AddEraseInfoNode(ei, c)[c].num = ei[c].num + 1
           /\ AddEraseInfoNode(ei, c)[c].sizes = ei[c].sizes
           /\ AddEraseInfoNode(ei, c)[c].erased = ei[c].erased
           /\ \A d \in 0 .. Commands : d # c => AddEraseInfoNode(ei, c)[d] = ei[d]
<1> DEFINE row == [ei[c] EXCEPT !.num = @ + 1]
<1>1. ei[c] \in [num : Nat, sizes : Seq(Int), erased : BOOLEAN]
    BY DEF InfoType
<1>2. ei[c].num + 1 \in Nat
    <2>1. ei[c].num \in Nat
        BY <1>1
    <2> QED
        BY <2>1, SMTT(20)
<1>3. /\ row \in [num : Nat, sizes : Seq(Int), erased : BOOLEAN]
      /\ row.num = ei[c].num + 1 /\ row.sizes = ei[c].sizes /\ row.erased = ei[c].erased
    BY <1>1, <1>2
<1>4. AddEraseInfoNode(ei, c) = [ei EXCEPT ![c] = row]
    BY DEF AddEraseInfoNode
<1> HIDE DEF row
<1> QED
    BY <1>3, <1>4 DEF InfoType

\* One more order in the list.
LEMMA InvUpdate ==
    ASSUME CasesOK, Inv, UpdateFilterInfo
    PROVE  Inv'
<1> USE DEF Inv
<1>1. /\ in' = in /\ pc' = pc /\ pc = "gather" /\ taken' = taken + 1 /\ erased' = erased
      /\ written' = written /\ work' = work
    BY DEF UpdateFilterInfo
<1>2. /\ taken + 1 \in Orders
      /\ NextNode \in NodeType
      /\ NextNode.paddr = NextOrder.paddr /\ NextNode.size = NextOrder.size
      /\ filter_info' = insert_filter_info(filter_info, NextNode)
      /\ erase_info' = IF ~SameNode(filter_info, NextOrder.paddr) /\ NextOrder.cmd # 0
                       THEN AddEraseInfoNode(erase_info, NextOrder.cmd) ELSE erase_info
    BY NextNodeIs
<1>3. /\ filter_info' \in Seq(NodeType)
      /\ \A n \in Nodes' : \/ Bytes(filter_info'[n]) = Bytes(NextNode)
                           \/ \E m \in Nodes : Bytes(filter_info'[n]) = Bytes(filter_info[m])
      /\ \A m \in Nodes : \E n \in Nodes' :
            /\ filter_info'[n].paddr = filter_info[m].paddr
            /\ filter_info'[n].size >= filter_info[m].size
      /\ \E n \in Nodes' : /\ filter_info'[n].paddr = NextNode.paddr
                           /\ filter_info'[n].size >= NextNode.size
    <2>1. filter_info \in Seq(NodeType)
        BY DEF Types
    <2> QED
        BY <1>2, <2>1, InsertKeeps DEF Nodes
<1>4. /\ NextOrder \in OrderType /\ BytesOf(NextOrder) \subseteq Requested
      /\ NextOrder.paddr \in Nat /\ NextOrder.size \in Nat /\ NextOrder.cmd \in 0 .. Commands
    BY <1>2, OrderIs DEF NextOrder, Types
<1>5. taken \in Nat /\ Len(in.orders) \in Nat
    BY CountsIs DEF Types
<1>6. Types'
    <2>1. erase_info' \in InfoType
        BY <1>2, <1>4, AddedInfo DEF Types
    <2>2. taken' \in Nat
        BY <1>1, <1>5, SMTT(20)
    <2> QED
        BY <1>1, <1>3, <2>1, <2>2 DEF Types
<1>7. Counts'
    BY <1>1, <1>2, <1>5, SMTT(20) DEF Counts, Orders
<1>8. Within'
    <2>1. Bytes(NextNode) = BytesOf(NextOrder)
        BY <1>2 DEF Bytes, BytesOf
    <2>2. Requested' = Requested
        BY <1>1 DEF Requested
    <2>3. ASSUME NEW n \in Nodes' PROVE Bytes(filter_info'[n]) \subseteq Requested
        BY <1>3, <1>4, <2>1 DEF Within
    <2>4. erased' \subseteq Requested'
        BY <1>1, <2>2 DEF Within
    <2>5. \A n \in Nodes' : Bytes(filter_info'[n]) \subseteq Requested'
        BY <2>2, <2>3
    <2> QED
        BY <2>4, <2>5 DEF Within, Bytes
<1>9. Followed'
    <2> SUFFICES ASSUME NEW k \in Counted' PROVE \E x \in Nat : DoneTo(in.orders[k], x)'
        BY <1>1 DEF Followed
    <2>1. k \in 1 .. taken + 1
        BY <1>1 DEF Counted
    <2>2. CASE k \in 1 .. taken
        <3>1. PICK x \in Nat : DoneTo(in.orders[k], x)
            BY <1>1, <2>2 DEF Followed, Counted
        <3>2. CASE x = EndOf(in.orders[k])
            BY <1>1, <3>1, <3>2 DEF DoneTo, EndOf
        <3>3. CASE x # EndOf(in.orders[k])
            <4>1. PICK m \in Nodes : /\ filter_info[m].paddr = x
                                      /\ EndOf(in.orders[k]) <= EndOf(filter_info[m])
                BY <3>1, <3>3 DEF DoneTo
            <4>2. PICK n \in Nodes' : /\ filter_info'[n].paddr = filter_info[m].paddr
                                       /\ filter_info'[n].size >= filter_info[m].size
                BY <1>3
            <4>3. filter_info'[n].size \in Nat /\ filter_info[m].size \in Nat
                <5>1. filter_info'[n] \in NodeType /\ filter_info[m] \in NodeType
                    BY <1>3, SeqElement DEF Nodes, Types
                <5> QED
                    BY <5>1 DEF NodeType
            <4>4. k \in Orders
                BY <1>2, <1>5, <2>2, SMTT(20) DEF Orders
            <4>5. in.orders[k].paddr \in Nat /\ in.orders[k].size \in Nat
                BY <4>4, OrderIs DEF Types
            <4>6. EndOf(in.orders[k]) <= filter_info'[n].paddr + filter_info'[n].size
                BY <4>1, <4>2, <4>3, <4>5, SMTT(20) DEF EndOf
            <4>7. filter_info'[n].paddr = x
                BY <4>1, <4>2
            <4> QED
                BY <1>1, <3>1, <4>6, <4>7 DEF DoneTo, EndOf
        <3> QED
            BY <3>2, <3>3
    <2>3. CASE k = taken + 1
        <3>1. in.orders[k] = NextOrder
            BY <2>3 DEF NextOrder
        <3>2. PICK n \in Nodes' : /\ filter_info'[n].paddr = NextNode.paddr
                                   /\ filter_info'[n].size >= NextNode.size
            BY <1>3
        <3>3. filter_info'[n].size \in Nat
            <4>1. filter_info'[n] \in NodeType
                BY <1>3, SeqElement DEF Nodes
            <4> QED
                BY <4>1 DEF NodeType
        <3>8. PICK x \in Nat : x = NextOrder.paddr
            BY <1>4
        <3>4. x <= x /\ x <= EndOf(NextOrder) /\ \A b \in Nat : ~ (x <= b /\ b < x)
            BY <1>4, <3>8, SMTT(20) DEF EndOf
        <3>5. EndOf(NextOrder) <= filter_info'[n].paddr + filter_info'[n].size
            BY <1>2, <1>4, <3>2, <3>3, SMTT(20) DEF EndOf
        <3>6. filter_info'[n].paddr = x
            BY <1>2, <3>2, <3>8
        <3>7. DoneTo(in.orders[k], x)'
            BY <1>1, <3>1, <3>4, <3>5, <3>6, <3>8 DEF DoneTo, EndOf
        <3> QED
            BY <3>7
    <2>4. k \in 1 .. taken \/ k = taken + 1
        BY <1>5, <2>1, SMTT(20)
    <2> QED
        BY <2>2, <2>3, <2>4
<1>10. Serial' /\ Fresh' /\ ErasedRight'
    <2>1. Requested' = Requested
        BY <1>1 DEF Requested
    <2> QED
        BY <1>1, <2>1 DEF Serial, Fresh, ErasedRight
<1> QED
    BY <1>6, <1>7, <1>8, <1>9, <1>10

\* All the orders are in the list.
LEMMA InvGathered ==
    ASSUME CasesOK, Inv, Gathered
    PROVE  Inv'
<1> USE DEF Inv
<1>1. /\ in' = in /\ pc = "gather" /\ pc' \in {"loops", "write"} /\ taken' = 0
      /\ taken = Len(in.orders) /\ erased' = erased /\ written' = written /\ work' = work
      /\ filter_info' = filter_info /\ erase_info' = erase_info
    BY DEF Gathered
<1>2. pc' # "gather" /\ written = {} /\ \A w \in Writers : work[w] = -1
    BY <1>1 DEF Fresh
<1>3. 0 \in Nat
    BY SMTT(20)
<1>4. Types'
    BY <1>1, <1>3 DEF Types
<1>5. Requested' = Requested
    BY <1>1 DEF Requested
<1>6. Within'
    BY <1>1, <1>5 DEF Within, Nodes, Bytes
<1>7. Followed'
    <2> SUFFICES ASSUME NEW k \in Counted' PROVE \E x \in Nat : DoneTo(in.orders[k], x)'
        BY <1>1 DEF Followed
    <2>1. k \in Counted
        BY <1>1, <1>2 DEF Counted, Orders
    <2>2. PICK x \in Nat : DoneTo(in.orders[k], x)
        BY <1>1, <2>1 DEF Followed
    <2> QED
        BY <1>1, <2>2 DEF DoneTo, EndOf, Nodes
<1>8. Serial' /\ Fresh' /\ Counts'
    BY <1>1, <1>2 DEF Serial, Fresh, Counts
<1>9. ErasedRight'
    BY <1>1, <1>2, <1>5 DEF ErasedRight
<1> QED
    BY <1>4, <1>6, <1>7, <1>8, <1>9

\* A writer takes a page; a single writer has finished the ones before.
LEMMA InvTakePage ==
    ASSUME CasesOK, Inv, NEW w \in Writers, in.parallel \/ w = Min(Writers), TakePage(w)
    PROVE  Inv'
<1> USE DEF Inv
<1>1. /\ in' = in /\ pc = "write" /\ pc' = pc /\ taken' = taken + 1 /\ work[w] = -1
      /\ taken < Len(in.pages) /\ erased' = erased /\ written' = written
      /\ work' = [work EXCEPT ![w] = in.pages[taken + 1]]
      /\ filter_info' = filter_info /\ erase_info' = erase_info
    BY DEF TakePage
<1>2. taken \in Nat /\ Len(in.pages) \in Nat /\ in.pages \in Seq(Nat) /\ in \in Cases
    BY CountsIs DEF Types, CasesOK, CaseOK
<1>3. taken + 1 \in 1 .. Len(in.pages) /\ taken + 1 \in Nat
    BY <1>1, <1>2, SMTT(20)
<1>4. in.pages[taken + 1] \in Nat
    BY <1>2, <1>3, SeqElement
<1>5. Types'
    <2>1. work' \in [Writers -> Nat \cup {-1}]
        BY <1>1, <1>4 DEF Types
    <2> QED
        BY <1>1, <1>3, <2>1 DEF Types
<1>6. Requested' = Requested
    BY <1>1 DEF Requested
<1>7. Within'
    BY <1>1, <1>6 DEF Within, Nodes, Bytes
<1>8. Followed'
    <2>1. Counted' = Counted
        BY <1>1 DEF Counted, Orders
    <2> SUFFICES ASSUME NEW k \in Counted' PROVE \E x \in Nat : DoneTo(in.orders[k], x)'
        BY <1>1 DEF Followed
    <2>2. PICK x \in Nat : DoneTo(in.orders[k], x)
        BY <1>1, <2>1 DEF Followed
    <2> QED
        BY <1>1, <2>2 DEF DoneTo, EndOf, Nodes
<1>9. Serial'
    <2> SUFFICES ASSUME ~in.parallel
                 PROVE  /\ \A p \in written' : Matches(filter_info', p) = {}
                        /\ \A v \in Writers : work'[v] # -1 =>
                              /\ v = Min(Writers) /\ taken' \in 1 .. Len(in'.pages)
                              /\ work'[v] = in'.pages[taken']
                        /\ \A p \in written' : \E m \in 1 .. taken' :
                              /\ m <= Len(in'.pages) /\ p = in'.pages[m]
                              /\ \A v \in Writers : work'[v] # -1 => m < taken'
        BY <1>1 DEF Serial
    <2>1. w = Min(Writers)
        OBVIOUS
    <2>2. ASSUME NEW v \in Writers, v # w PROVE work'[v] = -1
        BY <1>1, <2>1, <2>2 DEF Serial, Types
    <2>3. ASSUME NEW v \in Writers, work'[v] # -1
          PROVE  /\ v = Min(Writers) /\ taken' \in 1 .. Len(in'.pages)
                 /\ work'[v] = in'.pages[taken']
        <3>1. v = w
            BY <2>2, <2>3
        <3>2. work'[w] = in.pages[taken + 1]
            BY <1>1 DEF Types
        <3> QED
            BY <1>1, <1>3, <2>1, <3>1, <3>2
    <2>4. ASSUME NEW p \in written'
          PROVE  \E m \in 1 .. taken' : /\ m <= Len(in'.pages) /\ p = in'.pages[m]
                                        /\ m < taken'
        <3>1. PICK m \in 1 .. taken : m <= Len(in.pages) /\ p = in.pages[m]
            BY <1>1 DEF Serial
        <3>2. m \in 1 .. taken' /\ m < taken'
            BY <1>1, <1>2, SMTT(20)
        <3> QED
            BY <1>1, <3>1, <3>2
    <2>5. \A p \in written' : Matches(filter_info', p) = {}
        BY <1>1 DEF Serial
    <2> QED
        BY <2>3, <2>4, <2>5
<1>10. ErasedRight'
    BY <1>1, <1>6 DEF ErasedRight, Reached
<1>11. Fresh' /\ Counts'
    BY <1>1 DEF Fresh, Counts
<1> QED
    BY <1>5, <1>7, <1>8, <1>9, <1>10, <1>11

\* The report and clear_filter_info() overwrite nothing.
LEMMA InvReport ==
    ASSUME CasesOK, Inv, WriteEraseinfo \/ ClearFilterInfo
    PROVE  Inv'
<1> USE DEF Inv
<1>1. /\ in' = in /\ pc # "gather" /\ pc # "loops" /\ pc' = "done" /\ taken' = taken
      /\ erased' = erased /\ written' = written /\ work' = work
      /\ erase_info' = erase_info \/ erase_info' = NoInfo
      /\ filter_info' = filter_info \/ filter_info' = << >>
    BY DEF WriteEraseinfo, ClearFilterInfo
<1>2. Types'
    <2>1. filter_info' \in Seq(NodeType)
        BY <1>1, SeqNone DEF Types
    <2>2. erase_info' \in InfoType
        BY <1>1, NoInfoIs DEF Types
    <2> QED
        BY <1>1, <2>1, <2>2 DEF Types
<1>3. Requested' = Requested
    BY <1>1 DEF Requested
<1>4. Within'
    <2>1. CASE filter_info' = filter_info
        BY <1>1, <1>3, <2>1 DEF Within, Nodes, Bytes
    <2>2. CASE filter_info' = << >>
        <3>1. Nodes' = {}
            BY <2>2, SMTT(20) DEF Nodes
        <3> QED
            BY <1>1, <1>3, <3>1 DEF Within
    <2> QED
        BY <1>1, <2>1, <2>2
<1>5. ErasedRight'
    BY <1>1, <1>3 DEF ErasedRight, Reached
<1> QED
    BY <1>1, <1>2, <1>4, <1>5 DEF Followed, Serial, Fresh, Counts

\* A page in which no node starts is finished.
LEMMA InvPageDone ==
    ASSUME CasesOK, Inv, NEW w \in Writers, in.parallel \/ w = Min(Writers), PageDone(w)
    PROVE  Inv'
<1> USE DEF Inv
<1>1. /\ in' = in /\ pc = "write" /\ pc' = pc /\ taken' = taken /\ work[w] # -1
      /\ erased' = erased /\ written' = written \cup {work[w]}
      /\ work' = [work EXCEPT ![w] = -1] /\ Matches(filter_info, work[w]) = {}
      /\ filter_info' = filter_info /\ erase_info' = erase_info
    BY DEF PageDone
<1>2. work[w] \in Nat /\ PageSize \in Nat \ {0} /\ in \in Cases
    BY <1>1 DEF Types, CasesOK
<1>3. Types'
    <2>1. work' \in [Writers -> Nat \cup {-1}]
        BY <1>1 DEF Types
    <2>2. written' \subseteq Nat
        BY <1>1, <1>2 DEF Types
    <2> QED
        BY <1>1, <2>1, <2>2 DEF Types
<1>4. Requested' = Requested
    BY <1>1 DEF Requested
<1>5. Within'
    BY <1>1, <1>4 DEF Within, Nodes, Bytes
<1>6. Followed'
    <2>1. Counted' = Counted
        BY <1>1 DEF Counted, Orders
    <2> SUFFICES ASSUME NEW k \in Counted' PROVE \E x \in Nat : DoneTo(in.orders[k], x)'
        BY <1>1 DEF Followed
    <2>2. PICK x \in Nat : DoneTo(in.orders[k], x)
        BY <1>1, <2>1 DEF Followed
    <2> QED
        BY <1>1, <2>2 DEF DoneTo, EndOf, Nodes
<1>7. Serial'
    <2> SUFFICES ASSUME ~in.parallel
                 PROVE  /\ \A p \in written' : Matches(filter_info, p) = {}
                        /\ \A v \in Writers : work'[v] = -1
                        /\ \A p \in written' : \E m \in 1 .. taken :
                              m <= Len(in.pages) /\ p = in.pages[m]
        BY <1>1 DEF Serial, Matches, StartsIn
    <2>1. w = Min(Writers) /\ taken \in 1 .. Len(in.pages) /\ work[w] = in.pages[taken]
        BY <1>1 DEF Serial
    <2>2. \A v \in Writers : work'[v] = -1
        BY <1>1, <2>1 DEF Serial, Types
    <2>3. \A p \in written' : Matches(filter_info, p) = {}
        BY <1>1 DEF Serial
    <2>4. taken \in 1 .. taken /\ taken <= Len(in.pages)
        <3>1. Len(in.pages) \in Nat
            BY <1>2, CountsIs
        <3> QED
            BY <2>1, <3>1, SMTT(20)
    <2>5. ASSUME NEW p \in written'
          PROVE  \E m \in 1 .. taken : m <= Len(in.pages) /\ p = in.pages[m]
        <3>1. CASE p \in written
            BY <1>1, <3>1 DEF Serial
        <3>2. CASE p = work[w]
            BY <2>1, <2>4, <3>2
        <3> QED
            BY <1>1, <3>1, <3>2
    <2> QED
        BY <2>2, <2>3, <2>5
<1>8. ErasedRight'
    <2>1. erased' \subseteq Requested'
        BY <1>1, <1>4 DEF ErasedRight
    <2> SUFFICES ASSUME NEW k \in Orders, NEW b \in BytesOf(in.orders[k]),
                        b \div PageSize \in written', Reached(in.orders[k], b)'
                 PROVE  b \in erased
        BY <1>1, <2>1 DEF ErasedRight, Orders, BytesOf
    <2> DEFINE o == in.orders[k]
    <2>2. o.paddr \in Nat /\ o.size \in Nat
        BY <1>2, OrderIs
    <2> HIDE DEF o
    <2>3. b \in Nat /\ o.paddr <= b /\ b < EndOf(o)
        BY <2>2, SMTT(20) DEF BytesOf, EndOf, o
    <2>4. k \in Counted
        BY <1>1 DEF Counted
    <2>5. PICK x \in Nat : DoneTo(o, x)
        BY <1>1, <2>4 DEF Followed, o
    <2>6. CASE b < x
        BY <2>3, <2>5, <2>6 DEF DoneTo
    <2>7. CASE x <= b
        \* The order goes on with a node, in a page between the order's and the byte's.
        <3>1. PICK n \in Nodes : filter_info[n].paddr = x
            <4>1. x # EndOf(o)
                <5>1. EndOf(o) \in Nat
                    BY <2>2, SMTT(20) DEF EndOf
                <5> QED
                    BY <2>3, <2>7, <5>1, SMTT(20)
            <4> QED
                BY <2>5, <4>1 DEF DoneTo
        <3> DEFINE q == x \div PageSize
                   first == o.paddr \div PageSize
                   last == b \div PageSize
        <3>2. /\ first \in Nat /\ q \in Nat /\ last \in Nat /\ first <= q /\ q <= last
            <4>1. o.paddr <= x
                BY <2>5 DEF DoneTo
            <4> QED
                BY <1>2, <2>2, <2>3, <2>7, <4>1, PageMonotone
        <3>3. n \in Matches(filter_info, q)
            <4>1. q * PageSize <= x /\ x < (q + 1) * PageSize
                BY <1>2, <3>2, PageOf
            <4> QED
                BY <3>1, <4>1 DEF Matches, StartsIn, Nodes
        <3> HIDE DEF q, first, last
        <3>4. q # work[w]
            BY <1>1, <3>3
        <3>5. Reached(o, b)' => first = last \/ (~in.parallel /\ \A p \in first .. last : p \in written')
            BY <1>1 DEF o, Reached, first, last
        <3>6. CASE first = last
            <4>1. q = first /\ q = last
                BY <3>2, <3>6, SMTT(20)
            <4>2. last \in written
                BY <1>1, <3>4, <4>1 DEF last
            <4>3. Reached(o, b)
                BY <3>6 DEF Reached, first, last
            <4> QED
                BY <1>1, <4>2, <4>3 DEF ErasedRight, o, Orders, last
        <3>7. CASE ~in.parallel /\ \A p \in first .. last : p \in written'
            <4>1. q \in first .. last
                BY <3>2, SMTT(20)
            <4>2. q \in written
                BY <1>1, <3>4, <3>7, <4>1
            <4>3. Matches(filter_info, q) = {}
                BY <1>1, <3>7, <4>2 DEF Serial
            <4> QED
                BY <3>3, <4>3
        <3> QED
            BY <3>5, <3>6, <3>7 DEF o
    <2>8. b < x \/ x <= b
        BY <2>3, SMTT(20)
    <2> QED
        BY <2>6, <2>7, <2>8
<1>9. Fresh' /\ Counts'
    BY <1>1 DEF Fresh, Counts
<1> QED
    BY <1>3, <1>5, <1>6, <1>7, <1>8, <1>9

\* update_erase_info(): one place of one command.
OldSizes(ei, c, i) ==
    IF i \in DOMAIN ei[c].sizes THEN ei[c].sizes ELSE [j \in 1 .. ei[c].num |-> 0]

Updated(new, ei, node, c, old) ==
    /\ \A d \in 0 .. Commands : d # c => new[d] = ei[d]
    /\ new[c].num = ei[c].num
    /\ new[c].sizes \in Seq(Int) /\ Len(new[c].sizes) = Len(old)
    /\ \A j \in 1 .. Len(old) : j # node.sizeIdx => new[c].sizes[j] = old[j]
    /\ node.sizeIdx \in 1 .. Len(old) =>
          new[c].sizes[node.sizeIdx] =
             IF node.nullify THEN -1 ELSE old[node.sizeIdx] + node.size

LEMMA UpdatedInfo ==
    ASSUME NEW ei \in InfoType, NEW node \in NodeType, node.idx # 0
    PROVE  /\ update_erase_info(ei, node) \in InfoType
           /\ OldSizes(ei, node.idx, node.sizeIdx) \in Seq(Int)
           /\ Updated(update_erase_info(ei, node), ei, node, node.idx,
                      OldSizes(ei, node.idx, node.sizeIdx))
<1> DEFINE c == node.idx
           i == node.sizeIdx
           old == OldSizes(ei, c, i)
           val == IF node.nullify THEN -1 ELSE old[i] + node.size
           sizes == [old EXCEPT ![i] = val]
           mark == [ei[c] EXCEPT !.erased = TRUE]
           marked == [ei EXCEPT ![c] = mark]
           row == [mark EXCEPT !.sizes = sizes]
           new == update_erase_info(ei, node)
<1>1. /\ c \in 0 .. Commands /\ i \in Nat /\ node.size \in Nat
      /\ ei[c] \in [num : Nat, sizes : Seq(Int), erased : BOOLEAN]
    BY DEF NodeType, InfoType
<1>2. ei[c].sizes \in Seq(Int) /\ ei[c].num \in Nat
    BY <1>1
<1>3. old \in Seq(Int)
    <2>1. [j \in 1 .. ei[c].num |-> 0] \in Seq(Int)
        BY <1>2, SMTT(20)
    <2> QED
        BY <1>2, <2>1 DEF OldSizes
<1>4. new = [marked EXCEPT ![c] = [marked[c] EXCEPT !.sizes = sizes]]
    BY DEF update_erase_info, OldSizes
<1> HIDE DEF old
<1>5. i \in 1 .. Len(old) => val \in Int
    <2> SUFFICES ASSUME i \in 1 .. Len(old) PROVE val \in Int
        OBVIOUS
    <2>1. old[i] \in Int
        BY <1>3, SeqElement
    <2> QED
        BY <1>1, <2>1, SMTT(20)
<1> HIDE DEF val
<1>6. /\ sizes \in Seq(Int) /\ Len(sizes) = Len(old)
      /\ \A j \in 1 .. Len(old) : sizes[j] = IF j = i THEN val ELSE old[j]
    <2>1. Len(old) \in Nat /\ old \in [1 .. Len(old) -> Int]
        BY <1>3, SeqLen
    <2>2. \A j \in 1 .. Len(old) : sizes[j] = IF j = i THEN val ELSE old[j]
        BY <2>1
    <2>3. sizes \in [1 .. Len(old) -> Int]
        BY <2>1, <1>5
    <2>4. sizes \in Seq(Int) /\ Len(sizes) = Len(old)
        BY <2>1, <2>3, SMTT(20)
    <2> QED
        BY <2>2, <2>4
<1> HIDE DEF sizes, c, i
<1>11. /\ mark \in [num : Nat, sizes : Seq(Int), erased : BOOLEAN]
       /\ mark.num = ei[c].num /\ mark.erased = TRUE
    BY <1>1
<1> HIDE DEF mark
<1>7. /\ row \in [num : Nat, sizes : Seq(Int), erased : BOOLEAN]
      /\ row.num = ei[c].num /\ row.erased = TRUE /\ row.sizes = sizes
    BY <1>6, <1>11
<1>12. marked \in InfoType /\ marked[c] = mark /\ \A d \in 0 .. Commands : d # c => marked[d] = ei[d]
    BY <1>1, <1>11 DEF InfoType
<1> HIDE DEF marked
<1>13. new = [marked EXCEPT ![c] = row]
    BY <1>4, <1>12
<1> HIDE DEF row, new
<1>8. new \in InfoType
    BY <1>1, <1>7, <1>12, <1>13 DEF InfoType
<1>9. new[c] = row /\ \A d \in 0 .. Commands : d # c => new[d] = ei[d]
    BY <1>1, <1>12, <1>13 DEF InfoType
<1>10. /\ \A j \in 1 .. Len(old) : j # i => new[c].sizes[j] = old[j]
       /\ i \in 1 .. Len(old) => new[c].sizes[i] = val
       /\ new[c].sizes \in Seq(Int) /\ Len(new[c].sizes) = Len(old)
       /\ new[c].num = ei[c].num /\ new[c].erased
    BY <1>6, <1>7, <1>9
<1> QED
    BY <1>3, <1>8, <1>9, <1>10 DEF new, old, c, i, val, Updated

\* The node a writer takes, and what is left in the list.
LEMMA FilterIs ==
    ASSUME CasesOK, Types, NEW w \in Writers, FilterDataBuffer(w)
    PROVE  \E k \in Nodes :
             /\ work[w] \in Nat
             /\ filter_info[k] \in NodeType /\ StartsIn(filter_info[k], work[w])
             /\ InPage(filter_info[k], work[w]) \in Nat
             /\ filter_info' = Extracted(filter_info, k, work[w])
             /\ Part(filter_info, k, work[w]) \in NodeType
             /\ erase_info' = update_erase_info(erase_info, Part(filter_info, k, work[w]))
             /\ erased' = erased \cup Bytes(Part(filter_info, k, work[w]))
<1> DEFINE k == Min(Matches(filter_info, work[w]))
<1>1. /\ work[w] # -1 /\ Matches(filter_info, work[w]) # {}
      /\ filter_info' = Extracted(filter_info, k, work[w])
      /\ erase_info' = update_erase_info(erase_info, Part(filter_info, k, work[w]))
      /\ erased' = erased \cup Bytes(Part(filter_info, k, work[w]))
    BY DEF FilterDataBuffer
<1>2. work[w] \in Nat /\ PageSize \in Nat \ {0} /\ filter_info \in Seq(NodeType)
    BY <1>1 DEF Types, CasesOK
<1>3. Matches(filter_info, work[w]) \in SUBSET Nat
    BY SMTT(20) DEF Matches
<1>4. k \in Matches(filter_info, work[w])
    BY <1>1, <1>3, MinIs
<1> HIDE DEF k
<1>5. k \in Nodes /\ StartsIn(filter_info[k], work[w])
    BY <1>4 DEF Matches, Nodes
<1>6. filter_info[k] \in NodeType
    BY <1>2, <1>5, SeqElement DEF Nodes
<1>7. InPage(filter_info[k], work[w]) \in Nat
    BY <1>2, <1>5, <1>6, InPageIs
<1>8. Part(filter_info, k, work[w]) \in NodeType
    BY <1>6, <1>7 DEF Part, NodeType
<1> QED
    BY <1>1, <1>2, <1>5, <1>6, <1>7, <1>8

\* A turn of filter_data_buffer(): the bytes of the node in the page go, the
\* rest of it stays in the list.
LEMMA InvFilter ==
    ASSUME CasesOK, Inv, NEW w \in Writers, FilterDataBuffer(w)
    PROVE  Inv'
<1> USE DEF Inv
<1>1. /\ in' = in /\ pc = "write" /\ pc' = pc /\ taken' = taken /\ work[w] # -1
      /\ written' = written /\ work' = work
    BY DEF FilterDataBuffer
<1>2. PICK k \in Nodes :
         /\ work[w] \in Nat
         /\ filter_info[k] \in NodeType /\ StartsIn(filter_info[k], work[w])
         /\ InPage(filter_info[k], work[w]) \in Nat
         /\ filter_info' = Extracted(filter_info, k, work[w])
         /\ Part(filter_info, k, work[w]) \in NodeType
         /\ erase_info' = update_erase_info(erase_info, Part(filter_info, k, work[w]))
         /\ erased' = erased \cup Bytes(Part(filter_info, k, work[w]))
    BY FilterIs
<1>3. PICK p \in Nat : p = work[w]
    BY <1>2
<1>4. PICK node \in NodeType : node = filter_info[k]
    BY <1>2
<1>5. PICK part \in NodeType : part = Part(filter_info, k, p)
    BY <1>2, <1>3
<1>6. PICK ip \in Nat : ip = InPage(node, p)
    BY <1>2, <1>3, <1>4
<1>7. /\ PageSize \in Nat \ {0} /\ in \in Cases /\ filter_info \in Seq(NodeType)
      /\ erase_info \in InfoType /\ Len(filter_info) \in Nat
    BY SeqLen DEF CasesOK, Types
<1>8. /\ node.paddr \in Nat /\ node.size \in Nat
      /\ part.paddr = node.paddr /\ part.size = ip
    <2>1. /\ Part(filter_info, k, p).paddr = filter_info[k].paddr
          /\ Part(filter_info, k, p).size = InPage(filter_info[k], p)
        <3>1. filter_info[k] \in NodeType
            BY <1>2
        <3> QED
            BY <3>1 DEF Part, NodeType
    <2>2. node.paddr \in Nat /\ node.size \in Nat
        BY DEF NodeType
    <2>3. part.paddr = node.paddr
        BY <2>1, <1>4, <1>5
    <2>4. part.size = ip
        BY <2>1, <1>4, <1>5, <1>6
    <2> QED
        BY <2>2, <2>3, <2>4
<1>9. ip <= node.size /\ (ip # node.size => node.paddr + ip = (p + 1) * PageSize)
    BY <1>2, <1>3, <1>4, <1>6, <1>7, InPageIs
<1>10. PICK gone \in BOOLEAN : gone = Gone(filter_info, k, p)
    BY DEF Gone
<1>11. gone <=> node.size = ip
    BY <1>4, <1>6, <1>10 DEF Gone
<1>12. /\ filter_info' \in Seq(NodeType)
       /\ \A n \in Nodes' :
             /\ OldPlace(n, k, gone) \in Nodes
             /\ OldPlace(n, k, gone) # k => filter_info'[n] = filter_info[OldPlace(n, k, gone)]
             /\ OldPlace(n, k, gone) = k =>
                   /\ ~gone /\ n = k
                   /\ filter_info'[n].paddr = node.paddr + ip
                   /\ filter_info'[n].size = node.size - ip
       /\ \A m \in Nodes : m # k \/ ~gone => \E n \in Nodes' : OldPlace(n, k, gone) = m
    <2>1. k \in 1 .. Len(filter_info) /\ StartsIn(filter_info[k], p)
        BY <1>2, <1>3 DEF Nodes
    <2>2. /\ filter_info' \in Seq(NodeType)
          /\ Leaves(filter_info', filter_info, k, p, gone)
        BY <1>2, <1>3, <1>7, <1>10, <2>1, ExtractedIs
    <2> QED
        BY <2>2, <1>4, <1>6 DEF Nodes, Leaves
<1>13. erased' = erased \cup Bytes(part)
    BY <1>2, <1>3, <1>5
<1>14. \A b \in Nat : node.paddr <= b /\ b < node.paddr + ip => b \in Bytes(part)
    BY <1>8, SMTT(20) DEF Bytes
<1>15. Bytes(part) \subseteq Bytes(node) /\ Bytes(node) \subseteq Nat
    BY <1>8, <1>9, SMTT(20) DEF Bytes
<1>16. Types'
    <2>1. erase_info' \in InfoType
        <3>0. erase_info' = update_erase_info(erase_info, part)
            BY <1>2, <1>3, <1>5
        <3>1. CASE part.idx = 0
            BY <3>0, <3>1, <1>7 DEF update_erase_info
        <3>2. CASE part.idx # 0
            BY <3>0, <3>2, <1>7, UpdatedInfo
        <3> QED
            BY <3>1, <3>2
    <2>2. erased' \subseteq Nat
        BY <1>13, <1>15 DEF Types
    <2> QED
        BY <1>1, <1>12, <2>1, <2>2 DEF Types
<1>17. Requested' = Requested
    BY <1>1 DEF Requested
<1>18. Within'
    <2>1. Bytes(node) \subseteq Requested
        BY <1>4 DEF Within
    <2>2. erased' \subseteq Requested
        BY <1>13, <1>15, <2>1 DEF Within
    <2>3. ASSUME NEW n \in Nodes' PROVE Bytes(filter_info'[n]) \subseteq Requested
        <3>1. CASE OldPlace(n, k, gone) # k
            BY <1>12, <3>1 DEF Within
        <3>2. CASE OldPlace(n, k, gone) = k
            <4>1. filter_info'[n].paddr = node.paddr + ip /\ filter_info'[n].size = node.size - ip
                BY <1>12, <3>2
            <4>2. Bytes(filter_info'[n]) \subseteq Bytes(node)
                BY <4>1, <1>8, <1>9, SMTT(20) DEF Bytes
            <4> QED
                BY <4>2, <2>1
        <3> QED
            BY <3>1, <3>2
    <2>4. \A n \in Nodes' : Bytes(filter_info'[n]) \subseteq Requested'
        BY <2>3, <1>17
    <2> QED
        BY <1>17, <2>2, <2>4 DEF Within, Bytes
<1>19. Followed'
    <2> SUFFICES ASSUME NEW i \in Counted' PROVE \E x \in Nat : DoneTo(in.orders[i], x)'
        BY <1>1 DEF Followed
    <2>1. i \in Counted /\ i \in Orders
        BY <1>1 DEF Counted, Orders
    <2>2. PICK x \in Nat : DoneTo(in.orders[i], x)
        BY <1>1, <2>1 DEF Followed
    <2>3. PICK o \in OrderType : o = in.orders[i] /\ o = in'.orders[i]
        BY <1>1, <1>7, <2>1, OrderIs
    <2>4. o.paddr \in Nat /\ o.size \in Nat /\ EndOf(o) \in Nat
        <3>1. o.paddr \in Nat /\ o.size \in Nat
            BY DEF OrderType
        <3> QED
            BY <3>1, SMTT(20) DEF EndOf
    <2>5. /\ o.paddr <= x /\ x <= EndOf(o)
          /\ \A b \in Nat : o.paddr <= b /\ b < x => b \in erased
        BY <2>2, <2>3 DEF DoneTo
    <2> SUFFICES \E y \in Nat :
                    /\ o.paddr <= y /\ y <= EndOf(o)
                    /\ \A b \in Nat : o.paddr <= b /\ b < y => b \in erased'
                    /\ \/ y = EndOf(o)
                       \/ \E n \in Nodes' : /\ filter_info'[n].paddr = y
                                            /\ EndOf(o) <= EndOf(filter_info'[n])
        BY <2>3 DEF DoneTo, EndOf
    <2>6. CASE x = EndOf(o)
        BY <1>13, <2>5, <2>6
    <2>7. ASSUME NEW m \in Nodes, m # k, filter_info[m].paddr = x,
                 EndOf(o) <= EndOf(filter_info[m])
          PROVE  \E n \in Nodes' : /\ filter_info'[n].paddr = x
                                   /\ EndOf(o) <= EndOf(filter_info'[n])
        <3>1. PICK n \in Nodes' : OldPlace(n, k, gone) = m
            BY <1>12, <2>7
        <3>2. filter_info'[n] = filter_info[m]
            BY <1>12, <2>7, <3>1
        <3> QED
            BY <2>7, <3>2
    <2>8. CASE x = node.paddr /\ EndOf(o) <= EndOf(node) /\ EndOf(o) <= node.paddr + ip
        <3>1. ASSUME NEW b \in Nat, o.paddr <= b, b < EndOf(o) PROVE b \in erased'
            <4>1. b < x \/ (node.paddr <= b /\ b < node.paddr + ip)
                BY <1>8, <2>4, <2>8, <3>1, SMTT(20)
            <4> QED
                BY <1>13, <1>14, <2>5, <3>1, <4>1
        <3>2. o.paddr <= EndOf(o) /\ EndOf(o) <= EndOf(o)
            BY <2>4, SMTT(20) DEF EndOf
        <3> QED
            BY <2>4, <3>1, <3>2
    <2>9. CASE x = node.paddr /\ EndOf(o) <= EndOf(node) /\ node.paddr + ip < EndOf(o)
        <3>1. PICK y \in Nat : y = node.paddr + ip
            BY <1>8, SMTT(20)
        <3>2. ASSUME NEW b \in Nat, o.paddr <= b, b < y PROVE b \in erased'
            <4>1. b < x \/ (node.paddr <= b /\ b < node.paddr + ip)
                BY <1>8, <2>4, <2>9, <3>1, <3>2, SMTT(20)
            <4> QED
                BY <1>13, <1>14, <2>5, <3>2, <4>1
        <3>3. o.paddr <= y /\ y <= EndOf(o)
            BY <1>8, <2>4, <2>5, <2>9, <3>1, SMTT(20)
        <3>4. ~gone
            <4>1. node.size # ip
                BY <1>8, <2>4, <2>9, SMTT(20) DEF EndOf
            <4> QED
                BY <4>1, <1>11
        <3>5. PICK n \in Nodes' : OldPlace(n, k, gone) = k
            BY <1>12, <3>4
        <3>6. filter_info'[n].paddr = y /\ filter_info'[n].size = node.size - ip
            BY <1>12, <3>1, <3>5
        <3>7. EndOf(o) <= EndOf(filter_info'[n])
            BY <1>8, <2>4, <2>9, <3>1, <3>6, SMTT(20) DEF EndOf
        <3> QED
            BY <3>2, <3>3, <3>6, <3>7
    <2>10. x = EndOf(o) \/ \E m \in Nodes : /\ filter_info[m].paddr = x
                                            /\ EndOf(o) <= EndOf(filter_info[m])
        BY <2>2, <2>3 DEF DoneTo
    <2>11. EndOf(o) <= node.paddr + ip \/ node.paddr + ip < EndOf(o)
        BY <1>8, <2>4, SMTT(20)
    <2>12. CASE \E m \in Nodes : /\ m # k /\ filter_info[m].paddr = x
                                 /\ EndOf(o) <= EndOf(filter_info[m])
        <3>1. \E n \in Nodes' : filter_info'[n].paddr = x /\ EndOf(o) <= EndOf(filter_info'[n])
            BY <2>7, <2>12
        <3> QED
            BY <3>1, <1>13, <2>5
    <2> QED
        BY <1>4, <2>6, <2>8, <2>9, <2>10, <2>11, <2>12
<1>20. Serial'
    <2> SUFFICES ASSUME ~in.parallel
                 PROVE  \A q \in written : Matches(filter_info', q) = {}
        BY <1>1 DEF Serial
    <2> SUFFICES ASSUME NEW q \in written, NEW n \in Matches(filter_info', q) PROVE FALSE
        OBVIOUS
    <2>1. q \in Nat /\ Matches(filter_info, q) = {}
        BY <1>1 DEF Serial, Types
    <2>2. n \in Nodes' /\ StartsIn(filter_info'[n], q)
        BY DEF Matches, Nodes
    <2>3. CASE OldPlace(n, k, gone) # k
        <3>1. OldPlace(n, k, gone) \in Matches(filter_info, q)
            BY <1>12, <2>2, <2>3 DEF Matches, Nodes
        <3> QED
            BY <3>1, <2>1
    <2>4. CASE OldPlace(n, k, gone) = k
        <3>1. filter_info'[n].paddr = node.paddr + ip /\ ~gone
            BY <1>12, <2>2, <2>4
        <3>2. filter_info'[n].paddr = (p + 1) * PageSize
            BY <3>1, <1>9, <1>11
        <3> DEFINE top == (p + 1) * PageSize
        <3>3. top \in Nat /\ p + 1 \in Nat /\ top <= top /\ top < (p + 1 + 1) * PageSize
            BY <1>7, SMTT(20)
        <3>4. q * PageSize <= top /\ top < (q + 1) * PageSize
            BY <2>2, <3>2 DEF StartsIn
        <3> HIDE DEF top
        <3>5. top \div PageSize = q
            BY <1>7, <2>1, <3>3, <3>4, PageOf
        <3>6. top \div PageSize = p + 1
            BY <1>7, <3>3, PageOf DEF top
        <3>7. taken \in 1 .. Len(in.pages) /\ p = in.pages[taken]
            BY <1>1, <1>3 DEF Serial
        <3>8. PICK m \in 1 .. taken : m <= Len(in.pages) /\ q = in.pages[m] /\ m < taken
            BY <1>1 DEF Serial
        <3>9. in.pages[m] < in.pages[taken]
            <4>1. Len(in.pages) \in Nat
                BY <1>7, CountsIs
            <4>2. m \in 1 .. Len(in.pages)
                BY <4>1, <3>7, <3>8, SMTT(20)
            <4> QED
                BY <1>7, <3>7, <3>8, <4>2 DEF CasesOK, CaseOK
        <3>10. q < p
            BY <3>7, <3>8, <3>9
        <3> QED
            BY <2>1, <3>5, <3>6, <3>10, SMTT(20)
    <2> QED
        BY <2>3, <2>4
<1>21. ErasedRight'
    <2>1. erased' \subseteq Requested' /\ erased \subseteq erased'
        BY <1>13, <1>18 DEF Within
    <2> QED
        BY <1>1, <2>1 DEF ErasedRight, Reached
<1>22. Fresh' /\ Counts'
    BY <1>1 DEF Fresh, Counts
<1> QED
    BY <1>16, <1>18, <1>19, <1>20, <1>21, <1>22

\* Every step keeps the invariant.
LEMMA EraseStep ==
    ASSUME CasesOK, Inv, [Next]_vars
    PROVE  Inv'
<1>1. CASE UpdateFilterInfo
    BY <1>1, InvUpdate
<1>2. CASE Gathered
    BY <1>2, InvGathered
<1>3. ASSUME NEW w \in Writers, in.parallel \/ w = Min(Writers), TakePage(w)
      PROVE  Inv'
    BY <1>3, InvTakePage
<1>4. ASSUME NEW w \in Writers, FilterDataBuffer(w)
      PROVE  Inv'
    BY <1>4, InvFilter
<1>5. ASSUME NEW w \in Writers, in.parallel \/ w = Min(Writers), PageDone(w)
      PROVE  Inv'
    BY <1>5, InvPageDone
<1>6. CASE WriteEraseinfo \/ ClearFilterInfo
    BY <1>6, InvReport
<1>7. CASE UNCHANGED vars
    <2>1. Types' /\ Counts' /\ Serial' /\ Fresh'
        BY <1>7 DEF vars, Inv, Types, Counts, Serial, Fresh, Matches, StartsIn
    <2>2. Within' /\ Followed'
        BY <1>7 DEF vars, Inv, Within, Followed, Counted, Orders, Nodes,
           DoneTo, EndOf, Requested, Bytes
    <2>3. ErasedRight'
        BY <1>7 DEF vars, Inv, ErasedRight, Requested, Reached
    <2> QED
        BY <2>1, <2>2, <2>3 DEF Inv
<1> QED
    BY <1>1, <1>2, <1>3, <1>4, <1>5, <1>6, <1>7 DEF Next

\* It holds before the first order.
LEMMA EraseInit ==
    ASSUME CasesOK, Init
    PROVE  Inv
<1> USE DEF Init
<1>1. 0 \in Nat /\ 0 \in 0 .. Commands /\ 1 .. 0 = {}
    <2>1. 0 \in Nat /\ 1 .. 0 = {}
        BY SMTT(20)
    <2> QED
        BY <2>1, CommandIs
<1>2. << >> \in Seq(NodeType) /\ << >> \in Seq(Int) /\ 1 .. Len(<< >>) = {}
    BY SMTT(20)
<1>3. Types
    <2>2. erase_info \in InfoType
        BY NoInfoIs
    <2>3. work \in [Writers -> Nat \cup {-1}]
        OBVIOUS
    <2> QED
        BY <1>1, <1>2, <2>2, <2>3 DEF Types
<1>4. Counts
    BY <1>3, CountsIs, SMTT(20) DEF Counts, Types
<1>5. Nodes = {} /\ Counted = {}
    BY <1>1, <1>2 DEF Nodes, Counted
<1>6. Within /\ Followed
    BY <1>5 DEF Within, Followed
<1>7. Serial /\ Fresh /\ ErasedRight
    BY DEF Serial, Fresh, ErasedRight
<1> QED
    BY <1>3, <1>4, <1>6, <1>7 DEF Inv

(***************************************************************************)
(* filter_data_buffer() and its parallel form overwrite only bytes that an *)
(* order asks for, and in a page that is written all the bytes whose node  *)
(* was reached: for any orders, merged and split in any way, any pages in  *)
(* increasing order and any number of writers.                             *)
(***************************************************************************)
THEOREM ErasesRight ==
    ASSUME CasesOK
    PROVE  Spec => []ErasedRight
<1>1. Init => Inv
    BY EraseInit, SMTT(20)
<1>2. Inv /\ [Next]_vars => Inv'
    BY EraseStep, SMTT(20)
<1>3. Inv => ErasedRight
    BY SMTT(20) DEF Inv
<1> QED
    BY <1>1, <1>2, <1>3, PTL DEF Spec

-----------------------------------------------------------------------------
(***************************************************************************)
(* The steps and the report.                                               *)
(***************************************************************************)
\* The places of the nodes that insert_filter_info() moves.
MovedFrom(n, k) == IF n < k THEN n ELSE n - 1

Inserted(new, list, node, k) ==
    /\ new[k] = node
    /\ \A n \in 1 .. Len(new) : n # k =>
          MovedFrom(n, k) \in 1 .. Len(list) /\ new[n] = list[MovedFrom(n, k)]
    /\ \A m, n \in 1 .. Len(new) : m # k /\ n # k /\ MovedFrom(m, k) = MovedFrom(n, k) => m = n

\* Where the nodes of the old list are in the new one.
LEMMA InsertedPlaces ==
    ASSUME NEW list \in Seq(NodeType), NEW node \in NodeType, ~SameNode(list, node.paddr),
           NEW new, new = insert_filter_info(list, node)
    PROVE  \E k \in 1 .. Len(new) : Inserted(new, list, node, k)
<1> DEFINE k == Place(list, node.paddr)
<1>1. /\ k \in 1 .. Len(list) + 1
      /\ Len(new) = Len(list) + 1
      /\ new[k] = node
      /\ \A n \in 1 .. Len(list) : n < k => new[n] = list[n]
      /\ \A n \in 1 .. Len(list) : n >= k => new[n + 1] = list[n]
    BY InsertedIs
<1>2. Len(list) \in Nat
    BY SeqLen
<1> HIDE DEF k
<1>3. k \in 1 .. Len(new)
    BY <1>1, <1>2, SMTT(20)
<1>4. ASSUME NEW n \in 1 .. Len(new), n # k
      PROVE  MovedFrom(n, k) \in 1 .. Len(list) /\ new[n] = list[MovedFrom(n, k)]
    <2>1. CASE n < k
        <3>1. n \in 1 .. Len(list) /\ MovedFrom(n, k) = n
            BY <1>1, <1>2, <2>1, SMTT(20) DEF MovedFrom
        <3> QED
            BY <1>1, <2>1, <3>1
    <2>2. CASE ~ (n < k)
        <3> DEFINE m == n - 1
        <3>1. m \in 1 .. Len(list) /\ m >= k /\ m + 1 = n
            BY <1>1, <1>2, <1>4, <2>2, SMTT(20)
        <3>2. MovedFrom(n, k) = m
            BY <2>2 DEF MovedFrom
        <3> HIDE DEF m
        <3>3. new[m + 1] = list[m]
            BY <1>1, <3>1
        <3> QED
            BY <3>1, <3>2, <3>3
    <2> QED
        BY <2>1, <2>2
<1>5. ASSUME NEW m \in 1 .. Len(new), NEW n \in 1 .. Len(new), m # k, n # k,
             MovedFrom(m, k) = MovedFrom(n, k)
      PROVE  m = n
    <2>1. k \in Nat /\ m \in Nat /\ n \in Nat
        BY <1>1, <1>2, SMTT(20)
    <2> QED
        BY <1>5, <2>1, SMTT(20) DEF MovedFrom
<1>6. Inserted(new, list, node, k)
    BY <1>1, <1>4, <1>5 DEF Inserted
<1> QED
    BY <1>3, <1>6

\* Place() is the first node that is not below the address.
LEMMA PlaceFirst ==
    ASSUME NEW list \in Seq(NodeType), NEW a \in Nat, NEW n \in 1 .. Len(list)
    PROVE  /\ n < Place(list, a) => ~ (a <= list[n].paddr)
           /\ a <= list[n].paddr => Place(list, a) \in 1 .. Len(list) /\ Place(list, a) <= n
           /\ Place(list, a) \in 1 .. Len(list) => a <= list[Place(list, a)].paddr
<1> DEFINE above == {k \in 1 .. Len(list) : a <= list[k].paddr}
<1>0. above \in SUBSET Nat /\ Len(list) \in Nat
    <2>1. Len(list) \in Nat
        BY SeqLen
    <2> QED
        BY <2>1, SMTT(20)
<1>1. CASE above = {}
    <2>1. ~ (a <= list[n].paddr)
        BY <1>1
    <2>2. Place(list, a) = Len(list) + 1
        BY <1>1 DEF Place
    <2>3. Len(list) + 1 \notin 1 .. Len(list)
        BY <1>0, SMTT(20)
    <2> QED
        BY <2>1, <2>2, <2>3
<1>2. CASE above # {}
    <2>1. Min(above) \in above /\ \A m \in above : Min(above) <= m
        BY <1>0, <1>2, MinIs
    <2>2. Place(list, a) = Min(above)
        BY <1>2 DEF Place
    <2>3. PICK p \in above : p = Min(above)
        BY <2>1
    <2>4. a <= list[n].paddr => p <= n
        BY <2>1, <2>3
    <2>5. p \in 1 .. Len(list) /\ a <= list[p].paddr
        OBVIOUS
    <2>6. p <= n => ~ (n < p)
        BY <1>0, <2>5, SMTT(20)
    <2> QED
        BY <2>2, <2>3, <2>4, <2>5, <2>6
<1> QED
    BY <1>1, <1>2

\* insert_filter_info() finds the node of an address, as the list is in order.
LEMMA SameNodeIs ==
    ASSUME NEW list \in Seq(NodeType), Ascending(list), NEW a \in Nat,
           NEW n \in 1 .. Len(list), list[n].paddr = a
    PROVE  SameNode(list, a)
<1>1. a <= list[n].paddr
    <2>1. a <= a
        BY SMTT(20)
    <2> QED
        BY <2>1
<1>2. PICK p \in 1 .. Len(list) : p = Place(list, a) /\ p <= n /\ a <= list[p].paddr
    BY <1>1, PlaceFirst
<1>3. Len(list) \in Nat
    BY SeqLen
<1>4. p <= Len(list) /\ (p = n \/ p < n)
    BY <1>2, <1>3, SMTT(20)
<1>5. ~ (p < n)
    <2>1. list[p].paddr \in Nat
        <3>1. list[p] \in NodeType
            BY SeqElement
        <3> QED
            BY <3>1 DEF NodeType
    <2>2. PICK b \in Nat : b = list[p].paddr
        BY <2>1
    <2>3. a <= b => ~ (b < a)
        BY SMTT(20)
    <2> QED
        BY <1>2, <2>2, <2>3 DEF Ascending
<1> QED
    BY <1>2, <1>4, <1>5 DEF SameNode

\* insert_filter_info() keeps the list in order.
LEMMA InsertAscends ==
    ASSUME NEW list \in Seq(NodeType), NEW node \in NodeType, Ascending(list),
           NEW new, new = insert_filter_info(list, node)
    PROVE  Ascending(new)
<1>0. Len(list) \in Nat /\ node.paddr \in Nat
    BY SeqLen DEF NodeType
<1> SUFFICES ASSUME NEW m \in 1 .. Len(new), NEW n \in 1 .. Len(new), m < n
             PROVE  new[m].paddr < new[n].paddr
    BY DEF Ascending
<1>1. CASE SameNode(list, node.paddr)
    <2>1. Len(new) = Len(list) /\ \A i \in 1 .. Len(list) : new[i].paddr = list[i].paddr
        BY <1>1, MergedIs
    <2> QED
        BY <2>1 DEF Ascending
<1>2. CASE ~SameNode(list, node.paddr)
    <2> DEFINE k == Place(list, node.paddr)
    <2>1. /\ k \in 1 .. Len(list) + 1
          /\ Len(new) = Len(list) + 1
          /\ new[k] = node
          /\ \A i \in 1 .. Len(list) : i < k => new[i] = list[i]
          /\ \A i \in 1 .. Len(list) : i >= k => new[i + 1] = list[i]
        BY <1>2, InsertedIs
    <2>2. /\ \A i \in 1 .. Len(list) : i < k => ~ (node.paddr <= list[i].paddr)
          /\ \A i \in 1 .. Len(list) : k \in 1 .. Len(list) => node.paddr <= list[k].paddr
        BY <1>0, PlaceFirst
    <2>3. k \in 1 .. Len(list) => list[k].paddr # node.paddr
        <3>1. k \in 1 .. Len(list) => k <= Len(list)
            BY <1>0, SMTT(20)
        <3> QED
            BY <1>2, <3>1 DEF SameNode
    <2> HIDE DEF k
    <2>4. \A i \in 1 .. Len(list) : list[i].paddr \in Nat
        <3>1. \A i \in 1 .. Len(list) : list[i] \in NodeType
            BY SeqElement
        <3> QED
            BY <3>1 DEF NodeType
    <2>5. ASSUME NEW i \in 1 .. Len(list), i < k PROVE list[i].paddr < node.paddr
        <3>1. PICK x \in Nat, y \in Nat : x = list[i].paddr /\ y = node.paddr
            BY <1>0, <2>4
        <3>2. ~ (y <= x) => x < y
            BY SMTT(20)
        <3> QED
            BY <2>2, <2>5, <3>1, <3>2
    <2>6. ASSUME NEW i \in 1 .. Len(list), i >= k PROVE node.paddr < list[i].paddr
        <3>1. k \in 1 .. Len(list) /\ (k = i \/ k < i)
            BY <1>0, <2>1, <2>6, SMTT(20)
        <3>2. PICK x \in Nat, y \in Nat, z \in Nat :
                 x = list[i].paddr /\ y = node.paddr /\ z = list[k].paddr
            BY <1>0, <2>4, <3>1
        <3>3. y <= z /\ y # z
            BY <2>2, <2>3, <3>1, <3>2
        <3>4. z = x \/ z < x
            BY <3>1, <3>2 DEF Ascending
        <3>5. y < x
            BY <3>3, <3>4, SMTT(20)
        <3> QED
            BY <3>2, <3>5
    <2>7. CASE n < k
        <3>1. m \in 1 .. Len(list) /\ n \in 1 .. Len(list) /\ m < k
            BY <1>0, <2>1, <2>7, SMTT(20)
        <3> QED
            BY <2>1, <2>7, <3>1 DEF Ascending
    <2>8. CASE n = k
        <3>1. m \in 1 .. Len(list) /\ m < k
            BY <1>0, <2>1, <2>8, SMTT(20)
        <3> QED
            BY <2>1, <2>5, <2>8, <3>1
    <2>9. CASE k < n
        <3>1. PICK i \in 1 .. Len(list) : n = i + 1 /\ i >= k
            <4>1. n - 1 \in 1 .. Len(list) /\ n = (n - 1) + 1 /\ n - 1 >= k
                BY <1>0, <2>1, <2>9, SMTT(20)
            <4> QED
                BY <4>1
        <3>2. new[n] = list[i]
            BY <2>1, <3>1
        <3>3. CASE m < k
            <4>1. m \in 1 .. Len(list) /\ m < i
                BY <1>0, <2>1, <3>1, <3>3, SMTT(20)
            <4> QED
                BY <2>1, <3>2, <3>3, <4>1 DEF Ascending
        <3>4. CASE m = k
            BY <2>1, <2>6, <3>1, <3>2, <3>4
        <3>5. CASE k < m
            <4>1. PICK h \in 1 .. Len(list) : m = h + 1 /\ h >= k /\ h < i
                <5>1. m - 1 \in 1 .. Len(list) /\ m = (m - 1) + 1 /\ m - 1 >= k /\ m - 1 < i
                    BY <1>0, <2>1, <3>1, <3>5, SMTT(20)
                <5> QED
                    BY <5>1
            <4>2. new[m] = list[h]
                BY <2>1, <4>1
            <4> QED
                BY <3>2, <4>1, <4>2 DEF Ascending
        <3>6. m < k \/ m = k \/ k < m
            BY <1>0, <2>1, SMTT(20)
        <3> QED
            BY <3>3, <3>4, <3>5, <3>6
    <2>10. n < k \/ n = k \/ k < n
        BY <1>0, <2>1, SMTT(20)
    <2> QED
        BY <2>7, <2>8, <2>9, <2>10
<1> QED
    BY <1>1, <1>2

\* One more order: its command has one more place if it is the first there.
LEMMA NewGrows ==
    ASSUME NEW c, NEW k \in Nat
    PROVE  Cardinality(NewOf(c, k + 1)) =
              IF in.orders[k + 1].cmd = c /\ FirstAt(k + 1)
              THEN Cardinality(NewOf(c, k)) + 1 ELSE Cardinality(NewOf(c, k))
<1>1. \A m : m \in 1 .. k + 1 <=> m \in 1 .. k \/ m = k + 1
    BY SMTT(20)
<1>2. k + 1 \notin 1 .. k
    BY SMTT(20)
<1>3. IsFiniteSet(NewOf(c, k))
    <2>1. IsFiniteSet(1 .. k)
        BY FS_Interval, SMTT(20)
    <2>2. NewOf(c, k) \in SUBSET (1 .. k)
        BY DEF NewOf
    <2> QED
        BY <2>1, <2>2, FS_Subset
<1>4. CASE in.orders[k + 1].cmd = c /\ FirstAt(k + 1)
    <2>1. NewOf(c, k + 1) = NewOf(c, k) \cup {k + 1}
        BY <1>1, <1>4 DEF NewOf
    <2>2. k + 1 \notin NewOf(c, k)
        BY <1>2 DEF NewOf
    <2> QED
        BY <1>3, <1>4, <2>1, <2>2, FS_AddElement
<1>5. CASE ~ (in.orders[k + 1].cmd = c /\ FirstAt(k + 1))
    <2>1. NewOf(c, k + 1) = NewOf(c, k)
        BY <1>1, <1>5 DEF NewOf
    <2> QED
        BY <1>5, <2>1
<1> QED
    BY <1>4, <1>5

\* update_filter_info() gives an order at a new address the next place.
LEMMA NumberedUpdate ==
    ASSUME CasesOK, Inv, Numbered, UpdateFilterInfo
    PROVE  /\ Numbered'
           /\ ~SameNode(filter_info, NextOrder.paddr) =>
                 /\ FirstAt(taken + 1)
                 /\ NextOrder.cmd # 0 =>
                       LineOf(taken + 1) = << NextOrder.cmd, erase_info[NextOrder.cmd].num + 1 >>
<1> USE DEF Inv
<1>1. in' = in /\ pc = "gather" /\ pc' = pc /\ taken' = taken + 1
    BY DEF UpdateFilterInfo
<1>2. /\ taken + 1 \in Orders
      /\ NextNode \in NodeType
      /\ NextNode.paddr = NextOrder.paddr
      /\ filter_info' = insert_filter_info(filter_info, NextNode)
      /\ erase_info' = IF ~SameNode(filter_info, NextOrder.paddr) /\ NextOrder.cmd # 0
                       THEN AddEraseInfoNode(erase_info, NextOrder.cmd) ELSE erase_info
    BY NextNodeIs
<1>3. NextOrder.paddr \in Nat /\ NextOrder.cmd \in 0 .. Commands
    BY <1>2, OrderIs DEF NextOrder, Types
<1>4. erase_info \in InfoType /\ filter_info \in Seq(NodeType) /\ taken \in Nat
    BY DEF Types
<1>5. /\ Ascending(filter_info)
      /\ \A k \in 1 .. taken : \E n \in Nodes : filter_info[n].paddr = in.orders[k].paddr
      /\ \A n \in Nodes : \E k \in 1 .. taken : in.orders[k].paddr = filter_info[n].paddr
      /\ \A c \in 1 .. Commands : erase_info[c].num = Cardinality(NewOf(c, taken))
    BY <1>1 DEF Numbered
<1>6. (taken + 1) - 1 = taken /\ \A k : k \in 1 .. taken + 1 <=> k \in 1 .. taken \/ k = taken + 1
    BY <1>4, SMTT(20)
<1>7. FirstAt(taken + 1) <=> ~SameNode(filter_info, NextOrder.paddr)
    <2>1. ASSUME ~SameNode(filter_info, NextOrder.paddr), NEW k \in 1 .. taken,
                 in.orders[k].paddr = NextOrder.paddr
          PROVE  FALSE
        <3>1. PICK n \in Nodes : filter_info[n].paddr = NextOrder.paddr
            BY <1>5, <2>1
        <3> QED
            BY <1>3, <1>4, <1>5, <2>1, <3>1, SameNodeIs DEF Nodes
    <2>2. ASSUME SameNode(filter_info, NextOrder.paddr)
          PROVE  \E k \in 1 .. taken : in.orders[k].paddr = NextOrder.paddr
        <3>1. SameNode(filter_info, NextNode.paddr)
            BY <1>2, <2>2
        <3>2. /\ Place(filter_info, NextNode.paddr) \in 1 .. Len(filter_info)
              /\ filter_info[Place(filter_info, NextNode.paddr)].paddr = NextNode.paddr
            BY <1>2, <1>4, <3>1, MergedIs
        <3>3. PICK n \in Nodes : filter_info[n].paddr = NextOrder.paddr
            BY <1>2, <3>2 DEF Nodes
        <3> QED
            BY <1>5, <3>3
    <2>3. FirstAt(taken + 1) <=> \A k \in 1 .. taken : in.orders[k].paddr # NextOrder.paddr
        BY <1>6 DEF FirstAt, NextOrder
    <2> QED
        BY <2>1, <2>2, <2>3
<1>8. \A c, k : (NewOf(c, k))' = NewOf(c, k)
    BY <1>1 DEF NewOf, FirstAt
<1>9. ASSUME NEW c \in 1 .. Commands
      PROVE  erase_info'[c].num = Cardinality(NewOf(c, taken + 1))
    <2>0. c \in 0 .. Commands /\ c # 0
        BY CommandIs
    <2>1. Cardinality(NewOf(c, taken + 1)) =
             IF NextOrder.cmd = c /\ FirstAt(taken + 1)
             THEN Cardinality(NewOf(c, taken)) + 1 ELSE Cardinality(NewOf(c, taken))
        BY <1>4, NewGrows DEF NextOrder
    <2>2. CASE NextOrder.cmd = c /\ FirstAt(taken + 1)
        <3>1. erase_info' = AddEraseInfoNode(erase_info, c)
            BY <1>2, <1>7, <2>0, <2>2
        <3>2. AddEraseInfoNode(erase_info, c)[c].num = erase_info[c].num + 1
            BY <1>4, <2>0, AddedInfo
        <3> QED
            BY <1>5, <2>1, <2>2, <3>1, <3>2
    <2>3. CASE ~ (NextOrder.cmd = c /\ FirstAt(taken + 1))
        <3>1. erase_info'[c] = erase_info[c]
            <4>1. CASE erase_info' = erase_info
                BY <4>1
            <4>2. CASE erase_info' # erase_info
                <5>1. erase_info' = AddEraseInfoNode(erase_info, NextOrder.cmd) /\ c # NextOrder.cmd
                    BY <1>2, <1>7, <2>3, <4>2
                <5>2. \A d \in 0 .. Commands : d # NextOrder.cmd =>
                         AddEraseInfoNode(erase_info, NextOrder.cmd)[d] = erase_info[d]
                    BY <1>3, <1>4, AddedInfo
                <5> QED
                    BY <2>0, <5>1, <5>2
            <4> QED
                BY <4>1, <4>2
        <3> QED
            BY <1>5, <2>1, <2>3, <3>1
    <2> QED
        BY <2>2, <2>3
<1>10. \* The addresses of the list are those it had and the new one.
       /\ \A n \in Nodes : \E m \in Nodes' : filter_info'[m].paddr = filter_info[n].paddr
       /\ \A m \in Nodes' : \/ filter_info'[m].paddr = NextOrder.paddr
                            \/ \E n \in Nodes : filter_info'[m].paddr = filter_info[n].paddr
       /\ \E m \in Nodes' : filter_info'[m].paddr = NextOrder.paddr
    <2>1. CASE SameNode(filter_info, NextOrder.paddr)
        <3> DEFINE k == Place(filter_info, NextNode.paddr)
        <3>1. /\ k \in 1 .. Len(filter_info)
              /\ filter_info[k].paddr = NextNode.paddr
              /\ Len(filter_info') = Len(filter_info)
              /\ \A n \in 1 .. Len(filter_info) : filter_info'[n].paddr = filter_info[n].paddr
            BY <1>2, <1>4, <2>1, MergedIs
        <3> HIDE DEF k
        <3> QED
            BY <1>2, <3>1 DEF Nodes
    <2>2. CASE ~SameNode(filter_info, NextOrder.paddr)
        <3> DEFINE k == Place(filter_info, NextNode.paddr)
        <3>1. /\ k \in 1 .. Len(filter_info) + 1
              /\ Len(filter_info') = Len(filter_info) + 1
              /\ filter_info'[k] = NextNode
              /\ \A n \in 1 .. Len(filter_info) : n < k => filter_info'[n] = filter_info[n]
              /\ \A n \in 1 .. Len(filter_info) : n >= k => filter_info'[n + 1] = filter_info[n]
            BY <1>2, <1>4, <2>2, InsertedIs
        <3> HIDE DEF k
        <3>2. Len(filter_info) \in Nat
            BY <1>4, SeqLen
        <3>3. /\ k \in Nodes'
              /\ \A n \in Nodes : n \in Nodes' /\ n + 1 \in Nodes' /\ (n < k \/ n >= k)
            BY <3>1, <3>2, SMTT(20) DEF Nodes
        <3>4. ASSUME NEW m \in Nodes', m # k
              PROVE  \E n \in Nodes : filter_info'[m].paddr = filter_info[n].paddr
            <4>1. CASE m < k
                <5>1. m \in 1 .. Len(filter_info)
                    BY <3>1, <3>2, <4>1, SMTT(20) DEF Nodes
                <5> QED
                    BY <3>1, <4>1, <5>1 DEF Nodes
            <4>2. CASE ~ (m < k)
                <5>1. PICK n \in 1 .. Len(filter_info) : n >= k /\ m = n + 1
                    <6>1. m - 1 \in 1 .. Len(filter_info) /\ m - 1 >= k /\ m = (m - 1) + 1
                        BY <3>1, <3>2, <3>4, <4>2, SMTT(20) DEF Nodes
                    <6> QED
                        BY <6>1
                <5> QED
                    BY <3>1, <5>1 DEF Nodes
            <4> QED
                BY <4>1, <4>2
        <3>5. ASSUME NEW n \in Nodes PROVE \E m \in Nodes' : filter_info'[m].paddr = filter_info[n].paddr
            <4>1. n \in 1 .. Len(filter_info)
                BY DEF Nodes
            <4> QED
                BY <3>1, <3>3, <4>1
        <3> QED
            BY <1>2, <3>1, <3>3, <3>4, <3>5
    <2> QED
        BY <2>1, <2>2
<1>11. Numbered'
    <2>1. Ascending(filter_info)'
        <3>1. Ascending(insert_filter_info(filter_info, NextNode))
            BY <1>2, <1>4, <1>5, InsertAscends
        <3>2. Ascending(filter_info')
            BY <1>2, <3>1
        <3> QED
            BY <3>2 DEF Ascending
    <2>2. ASSUME NEW k \in 1 .. taken + 1
          PROVE  \E n \in Nodes' : filter_info'[n].paddr = in.orders[k].paddr
        <3>1. CASE k \in 1 .. taken
            <4>1. PICK n \in Nodes : filter_info[n].paddr = in.orders[k].paddr
                BY <1>5, <3>1
            <4>2. PICK m \in Nodes' : filter_info'[m].paddr = filter_info[n].paddr
                BY <1>10
            <4> QED
                BY <4>1, <4>2
        <3>2. CASE k = taken + 1
            BY <1>10, <3>2 DEF NextOrder
        <3> QED
            BY <1>6, <3>1, <3>2
    <2>3. ASSUME NEW n \in Nodes'
          PROVE  \E k \in 1 .. taken + 1 : in.orders[k].paddr = filter_info'[n].paddr
        <3>1. CASE filter_info'[n].paddr = NextOrder.paddr
            BY <1>6, <3>1 DEF NextOrder
        <3>2. CASE \E m \in Nodes : filter_info'[n].paddr = filter_info[m].paddr
            <4>1. PICK m \in Nodes : filter_info'[n].paddr = filter_info[m].paddr
                BY <3>2
            <4>2. PICK k \in 1 .. taken : in.orders[k].paddr = filter_info[m].paddr
                BY <1>5
            <4>3. k \in 1 .. taken + 1
                BY <1>6
            <4> QED
                BY <4>1, <4>2, <4>3
        <3> QED
            BY <1>10, <3>1, <3>2
    <2> QED
        BY <1>1, <1>8, <1>9, <2>1, <2>2, <2>3 DEF Numbered
<1>12. ASSUME ~SameNode(filter_info, NextOrder.paddr), NextOrder.cmd # 0
       PROVE  LineOf(taken + 1) = << NextOrder.cmd, erase_info[NextOrder.cmd].num + 1 >>
    <2>1. NextOrder.cmd \in 1 .. Commands
        BY <1>3, <1>12, SMTT(20)
    <2>2. Cardinality(NewOf(NextOrder.cmd, taken + 1)) = Cardinality(NewOf(NextOrder.cmd, taken)) + 1
        BY <1>4, <1>7, <1>12, NewGrows DEF NextOrder
    <2>3. LineOf(taken + 1) = << NextOrder.cmd, Cardinality(NewOf(NextOrder.cmd, taken + 1)) >>
        BY DEF LineOf, NewOf, NextOrder
    <2> QED
        BY <1>5, <2>1, <2>2, <2>3
<1> QED
    BY <1>7, <1>11, <1>12

\* An order at the address of a line's order is asked for there.
LEMMA AskedIs ==
    ASSUME CasesOK, in \in Cases, NEW k \in Orders, NEW a, NEW q \in Orders,
           FirstAt(q), LineOf(q) = a, in.orders[q].paddr = in.orders[k].paddr
    PROVE  in.orders[k] \in Asked(a)
<1>1. DOMAIN in.orders = Orders
    <2>1. in.orders \in Seq(OrderType)
        BY DEF CasesOK, CaseOK
    <2> QED
        BY <2>1, SeqLen DEF Orders
<1>2. in.orders[k] \in Range(in.orders)
    BY <1>1 DEF Range
<1> QED
    BY <1>2 DEF Asked, Orders

\* An order that is asked for is an order of the case.
LEMMA AskedOrder ==
    ASSUME CasesOK, in \in Cases, NEW a, NEW o \in Asked(a)
    PROVE  /\ o.paddr \in Nat /\ o.size \in Nat /\ o \in Range(in.orders)
           /\ \E q \in Orders : FirstAt(q) /\ LineOf(q) = a /\ in.orders[q].paddr = o.paddr
<1>1. /\ o \in Range(in.orders)
      /\ \E q \in Orders : FirstAt(q) /\ LineOf(q) = a /\ in.orders[q].paddr = o.paddr
    BY DEF Asked, Orders
<1>2. in.orders \in Seq(OrderType)
    BY DEF CasesOK, CaseOK
<1>3. o \in OrderType
    <2>1. PICK k \in DOMAIN in.orders : o = in.orders[k]
        BY <1>1 DEF Range
    <2>2. k \in 1 .. Len(in.orders)
        BY <1>2, SeqLen
    <2> QED
        BY <1>2, <2>1, <2>2, SeqElement
<1> QED
    BY <1>1, <1>3 DEF OrderType

\* Steps that change neither the places nor the counts.
LEMMA PlacesKept ==
    ASSUME Placed, Accounted, in' = in, erase_info' = erase_info, erased' = erased,
           filter_info' = filter_info \/ filter_info' = << >>, pc' = "gather" => pc = "gather"
    PROVE  Placed' /\ Accounted'
<1>1. CASE filter_info' = filter_info
    <2>1. Placed'
        BY <1>1 DEF Placed, Nodes
    <2>2. Accounted'
        <3> SUFFICES ASSUME NEW c \in 1 .. Commands, NEW j \in (1 .. erase_info[c].num)'
                     PROVE  (\E o \in Asked(<< c, j >>) : CountedOf(o, c, j))'
            BY DEF Accounted
        <3>1. PICK o \in Asked(<< c, j >>) : CountedOf(o, c, j)
            BY DEF Accounted
        <3>2. o \in Asked(<< c, j >>)'
            BY DEF Asked, FirstAt, LineOf
        <3>3. CountedOf(o, c, j)'
            BY <1>1, <3>1 DEF CountedOf, SizeAt, Holds, Nodes
        <3> QED
            BY <3>2, <3>3
    <2> QED
        BY <2>1, <2>2
<1>2. CASE filter_info' = << >>
    <2>0. Nodes' = {}
        BY <1>2, SMTT(20) DEF Nodes
    <2>1. Placed'
        BY <2>0 DEF Placed
    <2>2. Accounted'
        <3> SUFFICES ASSUME NEW c \in 1 .. Commands, NEW j \in (1 .. erase_info[c].num)'
                     PROVE  (\E o \in Asked(<< c, j >>) : CountedOf(o, c, j))'
            BY DEF Accounted
        <3>1. PICK o \in Asked(<< c, j >>) : CountedOf(o, c, j)
            BY DEF Accounted
        <3>2. o \in Asked(<< c, j >>)'
            BY DEF Asked, FirstAt, LineOf
        <3>3. CountedOf(o, c, j)'
            BY <2>0, <3>1 DEF CountedOf, SizeAt
        <3> QED
            BY <3>2, <3>3
    <2> QED
        BY <2>1, <2>2
<1> QED
    BY <1>1, <1>2

\* While the orders are gathered nothing is counted: the node of a place is at
\* the address of its order, and of its size.
LEMMA PlacesUpdate ==
    ASSUME CasesOK, Inv, Numbered, Placed, Accounted, UpdateFilterInfo
    PROVE  Placed' /\ Accounted'
<1> USE DEF Inv
<1>1. in' = in /\ pc = "gather" /\ pc' = pc
    BY DEF UpdateFilterInfo
<1>2. /\ taken + 1 \in Orders
      /\ NextNode \in NodeType
      /\ NextNode.paddr = NextOrder.paddr /\ NextNode.size = NextOrder.size
      /\ NextNode.idx = NextOrder.cmd
      /\ NextNode.idx # 0 => NextNode.sizeIdx = erase_info[NextNode.idx].num + 1
      /\ filter_info' = insert_filter_info(filter_info, NextNode)
      /\ erase_info' = IF ~SameNode(filter_info, NextOrder.paddr) /\ NextOrder.cmd # 0
                       THEN AddEraseInfoNode(erase_info, NextOrder.cmd) ELSE erase_info
    BY NextNodeIs
<1>3. /\ NextOrder \in OrderType
      /\ NextOrder.paddr \in Nat /\ NextOrder.size \in Nat /\ NextOrder.cmd \in 0 .. Commands
    BY <1>2, OrderIs DEF NextOrder, Types
<1>4. /\ erase_info \in InfoType /\ filter_info \in Seq(NodeType) /\ in \in Cases
      /\ \A c \in 0 .. Commands : erase_info[c].num \in Nat
    BY DEF Types, InfoType
<1>5. /\ \A c \in 0 .. Commands : erase_info[c].sizes = << >>
      /\ \A c \in 0 .. Commands : erase_info'[c].sizes = << >>
    <2>1. \A c \in 0 .. Commands : erase_info[c].sizes = << >>
        BY <1>1 DEF Placed
    <2>2. CASE erase_info' = erase_info
        BY <2>1, <2>2
    <2>3. CASE erase_info' = AddEraseInfoNode(erase_info, NextOrder.cmd)
        <3>1. /\ AddEraseInfoNode(erase_info, NextOrder.cmd)[NextOrder.cmd].sizes
                    = erase_info[NextOrder.cmd].sizes
              /\ \A d \in 0 .. Commands : d # NextOrder.cmd =>
                    AddEraseInfoNode(erase_info, NextOrder.cmd)[d] = erase_info[d]
            <4>1. erase_info \in InfoType /\ NextOrder.cmd \in 0 .. Commands
                BY <1>3, <1>4
            <4> QED
                BY <4>1, AddedInfo
        <3>2. ASSUME NEW c \in 0 .. Commands PROVE erase_info'[c].sizes = << >>
            <4>1. CASE c = NextOrder.cmd
                BY <2>1, <2>3, <3>1, <4>1
            <4>2. CASE c # NextOrder.cmd
                BY <2>1, <2>3, <3>1, <4>2
            <4> QED
                BY <4>1, <4>2
        <3> QED
            BY <2>1, <3>2
    <2> QED
        BY <1>2, <2>1, <2>2, <2>3
<1>6. 0 \in 0 .. Commands /\ \A c \in 1 .. Commands : c \in 0 .. Commands /\ c # 0
    BY CommandIs
<1>7. \A a : Asked(a)' = Asked(a)
    BY <1>1, SMTT(20) DEF Asked, FirstAt, LineOf
<1>8. PICK order \in OrderType : order = NextOrder
    BY <1>3
<1>9. order.paddr = NextNode.paddr /\ order.size = NextNode.size
    BY <1>2, <1>8
<1>10. ASSUME NEW c \in 1 .. Commands, NEW j, NEW o, o \in Asked(<< c, j >>),
              \A n \in Nodes' : filter_info'[n].idx = c /\ filter_info'[n].sizeIdx = j =>
                  filter_info'[n].paddr = o.paddr /\ filter_info'[n].size = o.size
       PROVE  (\E q \in Asked(<< c, j >>) : CountedOf(q, c, j))'
    <2>1. o.paddr \in Nat /\ o.size \in Nat
        BY <1>4, <1>10, AskedOrder
    <2>2. erase_info'[c].sizes = << >>
        BY <1>5, <1>6
    <2>3. CountedOf(o, c, j)'
        <3>1. (SizeAt(c, j))' = 0
            <4>1. DOMAIN << >> = {}
                BY SMTT(20)
            <4> QED
                BY <4>1, <2>2 DEF SizeAt
        <3>2. /\ o.paddr + 0 = o.paddr /\ o.size - 0 = o.size /\ 0 # -1 /\ 0 \in 0 .. o.size
              /\ \A b \in Nat : ~ (o.paddr <= b /\ b < o.paddr + 0)
            BY <2>1, SMTT(20)
        <3> QED
            BY <1>10, <3>1, <3>2 DEF CountedOf, Holds
    <2> QED
        BY <1>7, <1>10, <2>3
<1>11. ASSUME NEW c \in 1 .. Commands, NEW j \in 1 .. erase_info[c].num
       PROVE  \E o \in Asked(<< c, j >>) : \A n \in Nodes :
                 filter_info[n].idx = c /\ filter_info[n].sizeIdx = j =>
                    filter_info[n].paddr = o.paddr /\ filter_info[n].size = o.size
    <2>1. PICK o \in Asked(<< c, j >>) : CountedOf(o, c, j)
        BY DEF Accounted
    <2>2. o.paddr \in Nat /\ o.size \in Nat
        BY <1>4, AskedOrder
    <2>3. erase_info[c].sizes = << >>
        BY <1>5, <1>6
    <2>4. \A n \in Nodes : Holds(n, c, j) =>
             filter_info[n].paddr = o.paddr /\ filter_info[n].size = o.size
        <3>1. SizeAt(c, j) = 0
            <4>1. DOMAIN << >> = {}
                BY SMTT(20)
            <4> QED
                BY <4>1, <2>3 DEF SizeAt
        <3>2. o.paddr + 0 = o.paddr /\ o.size - 0 = o.size /\ 0 # -1
            BY <2>2, SMTT(20)
        <3> QED
            BY <2>1, <3>1, <3>2 DEF CountedOf
    <2> QED
        BY <2>4 DEF Holds
<1>12. CASE SameNode(filter_info, NextOrder.paddr)
    <2>1. erase_info' = erase_info
        BY <1>2, <1>12
    <2>2. PICK k \in Nodes :
             /\ filter_info[k].paddr = NextNode.paddr
             /\ Nodes' = Nodes
             /\ \A n \in Nodes :
                   /\ n # k => filter_info'[n] = filter_info[n]
                   /\ filter_info'[n].paddr = filter_info[n].paddr
                   /\ filter_info'[n].idx = filter_info[n].idx
                   /\ filter_info'[n].sizeIdx = filter_info[n].sizeIdx
             /\ filter_info'[k].size \in {NextNode.size, filter_info[k].size}
        <3>1. SameNode(filter_info, NextNode.paddr)
            BY <1>2, <1>12
        <3> DEFINE k == Place(filter_info, NextNode.paddr)
        <3>2. /\ k \in 1 .. Len(filter_info)
              /\ filter_info[k].paddr = NextNode.paddr
              /\ Len(filter_info') = Len(filter_info)
              /\ \A n \in 1 .. Len(filter_info) :
                    /\ n # k => filter_info'[n] = filter_info[n]
                    /\ filter_info'[n].paddr = filter_info[n].paddr
                    /\ filter_info'[n].idx = filter_info[n].idx
                    /\ filter_info'[n].sizeIdx = filter_info[n].sizeIdx
              /\ filter_info'[k].size \in {NextNode.size, filter_info[k].size}
            BY <1>2, <1>4, <3>1, MergedIs
        <3> QED
            BY <3>2 DEF Nodes
    <2>3. Placed'
        <3>1. \A n \in Nodes' : filter_info'[n].idx # 0 =>
                 filter_info'[n].sizeIdx \in 1 .. erase_info'[filter_info'[n].idx].num
            BY <2>1, <2>2 DEF Placed
        <3>2. \A m, n \in Nodes' :
                 filter_info'[m].idx # 0 /\ filter_info'[m].idx = filter_info'[n].idx
                    /\ filter_info'[m].sizeIdx = filter_info'[n].sizeIdx => m = n
            <4> SUFFICES ASSUME NEW m \in Nodes', NEW n \in Nodes', filter_info'[m].idx # 0,
                                filter_info'[m].idx = filter_info'[n].idx,
                                filter_info'[m].sizeIdx = filter_info'[n].sizeIdx
                         PROVE  m = n
                OBVIOUS
            <4>1. m \in Nodes /\ n \in Nodes
                BY <2>2
            <4>2. /\ filter_info[m].idx # 0 /\ filter_info[m].idx = filter_info[n].idx
                  /\ filter_info[m].sizeIdx = filter_info[n].sizeIdx
                BY <2>2, <4>1
            <4> QED
                BY <4>1, <4>2 DEF Placed
        <3> QED
            BY <1>5, <1>6, <3>1, <3>2 DEF Placed
    <2>4. Accounted'
        <3> SUFFICES ASSUME NEW c \in 1 .. Commands, NEW j \in (1 .. erase_info[c].num)'
                     PROVE  (\E o \in Asked(<< c, j >>) : CountedOf(o, c, j))'
            BY DEF Accounted
        <3>1. j \in 1 .. erase_info[c].num
            BY <2>1
        <3>2. PICK o \in Asked(<< c, j >>) : \A n \in Nodes :
                 filter_info[n].idx = c /\ filter_info[n].sizeIdx = j =>
                    filter_info[n].paddr = o.paddr /\ filter_info[n].size = o.size
            BY <1>11, <3>1
        <3>3. ASSUME NEW n \in Nodes', n # k, filter_info'[n].idx = c, filter_info'[n].sizeIdx = j
              PROVE  filter_info'[n].paddr = o.paddr /\ filter_info'[n].size = o.size
            <4>1. n \in Nodes /\ filter_info'[n] = filter_info[n]
                BY <2>2, <3>3
            <4> QED
                BY <3>2, <3>3, <4>1
        <3>4. CASE filter_info'[k].size = filter_info[k].size
            <4>1. ASSUME NEW n \in Nodes', filter_info'[n].idx = c, filter_info'[n].sizeIdx = j
                  PROVE  filter_info'[n].paddr = o.paddr /\ filter_info'[n].size = o.size
                BY <2>2, <3>2, <3>3, <3>4, <4>1
            <4> QED
                BY <1>10, <4>1
        <3>5. CASE ~ (filter_info'[k].idx = c /\ filter_info'[k].sizeIdx = j)
            <4>1. ASSUME NEW n \in Nodes', filter_info'[n].idx = c, filter_info'[n].sizeIdx = j
                  PROVE  filter_info'[n].paddr = o.paddr /\ filter_info'[n].size = o.size
                BY <3>3, <3>5, <4>1
            <4> QED
                BY <1>10, <4>1
        <3>6. CASE /\ filter_info'[k].idx = c /\ filter_info'[k].sizeIdx = j
                   /\ filter_info'[k].size = NextNode.size
            <4>1. filter_info[k].paddr = o.paddr
                BY <2>2, <3>2, <3>6
            <4>2. order \in Asked(<< c, j >>)
                <5>1. PICK q \in Orders : FirstAt(q) /\ LineOf(q) = << c, j >> /\ in.orders[q].paddr = o.paddr
                    BY <1>4, AskedOrder
                <5>2. order = in.orders[taken + 1]
                    BY <1>8 DEF NextOrder
                <5>3. in.orders[q].paddr = in.orders[taken + 1].paddr
                    BY <1>9, <2>2, <4>1, <5>1, <5>2
                <5> QED
                    BY <1>2, <1>4, <5>1, <5>2, <5>3, AskedIs
            <4>3. ASSUME NEW n \in Nodes', filter_info'[n].idx = c, filter_info'[n].sizeIdx = j
                  PROVE  filter_info'[n].paddr = order.paddr /\ filter_info'[n].size = order.size
                <5>1. n = k
                    <6>1. /\ n \in Nodes /\ filter_info[n].idx = filter_info[k].idx
                          /\ filter_info[n].sizeIdx = filter_info[k].sizeIdx
                          /\ filter_info[n].idx # 0
                        BY <1>6, <2>2, <3>6, <4>3
                    <6> QED
                        BY <6>1 DEF Placed
                <5> QED
                    BY <1>9, <2>2, <3>6, <5>1
            <4> QED
                BY <1>10, <4>2, <4>3
        <3> QED
            BY <2>2, <3>4, <3>5, <3>6
    <2> QED
        BY <2>3, <2>4
<1>13. CASE ~SameNode(filter_info, NextOrder.paddr)
    <2>1. PICK k \in Nodes' :
             /\ filter_info'[k] = NextNode
             /\ \A n \in Nodes' : n # k =>
                   MovedFrom(n, k) \in Nodes /\ filter_info'[n] = filter_info[MovedFrom(n, k)]
             /\ \A m, n \in Nodes' : m # k /\ n # k /\ MovedFrom(m, k) = MovedFrom(n, k) => m = n
        <3>1. ~SameNode(filter_info, NextNode.paddr)
            BY <1>2, <1>13
        <3> QED
            <4>1. PICK k \in 1 .. Len(filter_info') : Inserted(filter_info', filter_info, NextNode, k)
                BY <1>2, <1>4, <3>1, InsertedPlaces
            <4> QED
                BY <4>1 DEF Nodes, Inserted
    <2>2. ASSUME NEW c \in 0 .. Commands
          PROVE  /\ c # 0 /\ c = NextNode.idx => erase_info'[c].num = erase_info[c].num + 1
                 /\ c = 0 \/ c # NextNode.idx => erase_info'[c].num = erase_info[c].num
                 /\ \A j \in 1 .. erase_info[c].num : j \in 1 .. erase_info'[c].num
        <3>1. CASE NextNode.idx = 0
            <4>1. erase_info' = erase_info
                BY <1>2, <3>1
            <4> QED
                BY <3>1, <4>1
        <3>2. CASE NextNode.idx # 0
            <4>1. erase_info' = AddEraseInfoNode(erase_info, NextNode.idx) /\ NextNode.idx \in 0 .. Commands
                BY <1>2, <1>3, <1>13, <3>2
            <4>2. /\ c = NextNode.idx => erase_info'[c].num = erase_info[c].num + 1
                  /\ c # NextNode.idx => erase_info'[c].num = erase_info[c].num
                <5>1. /\ AddEraseInfoNode(erase_info, NextNode.idx)[NextNode.idx].num
                            = erase_info[NextNode.idx].num + 1
                      /\ \A d \in 0 .. Commands : d # NextNode.idx =>
                            AddEraseInfoNode(erase_info, NextNode.idx)[d] = erase_info[d]
                    <6>1. erase_info \in InfoType /\ NextNode.idx \in 0 .. Commands
                        BY <1>4, <4>1
                    <6> QED
                        BY <6>1, AddedInfo
                <5>2. CASE c = NextNode.idx
                    BY <4>1, <5>1, <5>2
                <5>3. CASE c # NextNode.idx
                    BY <4>1, <5>1, <5>3
                <5> QED
                    BY <5>2, <5>3
            <4>3. erase_info[c].num \in Nat
                BY <1>4
            <4>4. \A j \in 1 .. erase_info[c].num : j \in 1 .. erase_info[c].num + 1
                BY <4>3, SMTT(20)
            <4> QED
                BY <3>2, <4>2, <4>4
        <3> QED
            BY <3>1, <3>2
    \* No node of the list has the new place.
    <2>3. ASSUME NEW n \in Nodes', n # k, filter_info'[n].idx # 0,
                 filter_info'[n].idx = NextNode.idx
          PROVE  filter_info'[n].sizeIdx # NextNode.sizeIdx
        <3>1. filter_info'[n].sizeIdx \in 1 .. erase_info[NextNode.idx].num
            BY <2>1, <2>3 DEF Placed
        <3>2. erase_info[NextNode.idx].num \in Nat
            BY <1>2, <1>3, <1>4
        <3>3. NextNode.sizeIdx = erase_info[NextNode.idx].num + 1
            BY <1>2, <2>3
        <3> QED
            BY <3>1, <3>2, <3>3, SMTT(20)
    <2>4. Placed'
        <3>1. ASSUME NEW n \in Nodes', filter_info'[n].idx # 0
              PROVE  filter_info'[n].sizeIdx \in 1 .. erase_info'[filter_info'[n].idx].num
            <4>1. CASE n = k
                <5>1. NextNode.idx # 0 /\ NextNode.idx \in 0 .. Commands
                    BY <1>2, <1>3, <2>1, <3>1, <4>1
                <5>2. /\ NextNode.sizeIdx = erase_info[NextNode.idx].num + 1
                      /\ erase_info'[NextNode.idx].num = erase_info[NextNode.idx].num + 1
                      /\ erase_info[NextNode.idx].num \in Nat
                    BY <1>2, <1>4, <2>2, <5>1
                <5>3. NextNode.sizeIdx \in 1 .. erase_info'[NextNode.idx].num
                    BY <5>2, SMTT(20)
                <5> QED
                    BY <2>1, <4>1, <5>3
            <4>2. CASE n # k
                <5>1. /\ filter_info'[n].sizeIdx \in 1 .. erase_info[filter_info'[n].idx].num
                      /\ filter_info'[n] \in NodeType
                    <6>1. PICK m \in Nodes : filter_info'[n] = filter_info[m]
                        BY <2>1, <4>2
                    <6>2. filter_info[m] \in NodeType
                        BY <1>4, SeqElement DEF Nodes
                    <6>3. filter_info[m].sizeIdx \in 1 .. erase_info[filter_info[m].idx].num
                        BY <3>1, <6>1 DEF Placed
                    <6> QED
                        BY <6>1, <6>2, <6>3
                <5>2. filter_info'[n].idx \in 0 .. Commands
                    BY <5>1 DEF NodeType
                <5> QED
                    BY <2>2, <5>1, <5>2
            <4> QED
                BY <4>1, <4>2
        <3>2. ASSUME NEW m \in Nodes', NEW n \in Nodes', filter_info'[m].idx # 0,
                     filter_info'[m].idx = filter_info'[n].idx,
                     filter_info'[m].sizeIdx = filter_info'[n].sizeIdx
              PROVE  m = n
            <4>1. CASE m = k /\ n # k
                BY <2>1, <2>3, <3>2, <4>1
            <4>2. CASE m # k /\ n = k
                BY <2>1, <2>3, <3>2, <4>2
            <4>3. CASE m # k /\ n # k
                <5>1. MovedFrom(m, k) = MovedFrom(n, k)
                    <6>1. /\ MovedFrom(m, k) \in Nodes /\ MovedFrom(n, k) \in Nodes
                          /\ filter_info'[m] = filter_info[MovedFrom(m, k)]
                          /\ filter_info'[n] = filter_info[MovedFrom(n, k)]
                        BY <2>1, <4>3
                    <6> QED
                        BY <3>2, <6>1 DEF Placed
                <5> QED
                    BY <2>1, <4>3, <5>1
            <4> QED
                BY <4>1, <4>2, <4>3
        <3> QED
            BY <1>5, <1>6, <3>1, <3>2 DEF Placed
    <2>5. Accounted'
        <3> SUFFICES ASSUME NEW c \in 1 .. Commands, NEW j \in (1 .. erase_info[c].num)'
                     PROVE  (\E o \in Asked(<< c, j >>) : CountedOf(o, c, j))'
            BY DEF Accounted
        <3>1. CASE j \in 1 .. erase_info[c].num
            <4>1. PICK o \in Asked(<< c, j >>) : \A n \in Nodes :
                     filter_info[n].idx = c /\ filter_info[n].sizeIdx = j =>
                        filter_info[n].paddr = o.paddr /\ filter_info[n].size = o.size
                BY <1>11, <3>1
            <4>2. ~ (NextNode.idx = c /\ NextNode.sizeIdx = j)
                <5>1. erase_info[c].num \in Nat
                    BY <1>4, <1>6
                <5>2. j # erase_info[c].num + 1
                    BY <3>1, <5>1, SMTT(20)
                <5> QED
                    BY <1>2, <1>6, <5>2
            <4>3. ASSUME NEW n \in Nodes', filter_info'[n].idx = c, filter_info'[n].sizeIdx = j
                  PROVE  filter_info'[n].paddr = o.paddr /\ filter_info'[n].size = o.size
                <5>1. n # k
                    BY <2>1, <4>2, <4>3
                <5> QED
                    BY <2>1, <4>1, <4>3, <5>1
            <4> QED
                BY <1>10, <4>3
        <3>2. CASE j \notin 1 .. erase_info[c].num
            <4>0. c \in 0 .. Commands /\ c # 0
                BY <1>6
            <4>1. c = NextNode.idx /\ erase_info'[c].num = erase_info[c].num + 1
                BY <2>2, <3>2, <4>0
            <4>2. j = NextNode.sizeIdx
                <5>1. erase_info[c].num \in Nat /\ NextNode.sizeIdx = erase_info[c].num + 1
                    BY <1>2, <1>4, <4>0, <4>1
                <5>2. j \in 1 .. erase_info[c].num + 1
                    BY <4>1
                <5> QED
                    BY <3>2, <5>1, <5>2, SMTT(20)
            <4>3. order \in Asked(<< c, j >>)
                <5>1. order = in.orders[taken + 1] /\ NextOrder.cmd = c
                    BY <1>2, <1>8, <4>1 DEF NextOrder
                <5>2. FirstAt(taken + 1) /\ LineOf(taken + 1) = << c, erase_info[c].num + 1 >>
                    BY <1>13, <4>0, <5>1, NumberedUpdate
                <5>3. j = erase_info[c].num + 1
                    BY <1>2, <4>0, <4>1, <4>2
                <5> QED
                    BY <1>2, <1>4, <5>1, <5>2, <5>3, AskedIs
            <4>4. ASSUME NEW n \in Nodes', filter_info'[n].idx = c, filter_info'[n].sizeIdx = j
                  PROVE  filter_info'[n].paddr = order.paddr /\ filter_info'[n].size = order.size
                <5>1. n = k
                    BY <2>3, <4>0, <4>1, <4>2, <4>4
                <5> QED
                    BY <1>9, <2>1, <5>1
            <4> QED
                BY <1>10, <4>3, <4>4
        <3> QED
            BY <3>1, <3>2
    <2> QED
        BY <2>4, <2>5
<1> QED
    BY <1>12, <1>13

\* A turn of filter_data_buffer() counts what it overwrites at one place.
LEMMA PlacesFilter ==
    ASSUME CasesOK, Inv, Placed, Accounted, NEW w \in Writers, FilterDataBuffer(w)
    PROVE  Placed' /\ Accounted'
<1> USE DEF Inv
<1>1. in' = in /\ pc = "write" /\ pc' = pc
    BY DEF FilterDataBuffer
<1>2. PICK k \in Nodes :
         /\ work[w] \in Nat
         /\ filter_info[k] \in NodeType /\ StartsIn(filter_info[k], work[w])
         /\ InPage(filter_info[k], work[w]) \in Nat
         /\ filter_info' = Extracted(filter_info, k, work[w])
         /\ Part(filter_info, k, work[w]) \in NodeType
         /\ erase_info' = update_erase_info(erase_info, Part(filter_info, k, work[w]))
         /\ erased' = erased \cup Bytes(Part(filter_info, k, work[w]))
    BY FilterIs
<1>3. PICK p \in Nat : p = work[w]
    BY <1>2
<1>4. PICK node \in NodeType : node = filter_info[k]
    BY <1>2
<1>5. PICK part \in NodeType : part = Part(filter_info, k, p)
    BY <1>2, <1>3
<1>6. PICK ip \in Nat : ip = InPage(node, p)
    BY <1>2, <1>3, <1>4
<1>7. /\ PageSize \in Nat \ {0} /\ in \in Cases /\ filter_info \in Seq(NodeType)
      /\ erase_info \in InfoType /\ \A c \in 0 .. Commands : erase_info[c].num \in Nat
    BY DEF CasesOK, Types, InfoType
<1>8. /\ node.paddr \in Nat /\ node.size \in Nat /\ node.idx \in 0 .. Commands
      /\ part.paddr = node.paddr /\ part.size = ip /\ part.idx = node.idx
      /\ part.sizeIdx = node.sizeIdx /\ part.nullify = node.nullify
    <2>1. /\ Part(filter_info, k, p).paddr = filter_info[k].paddr
          /\ Part(filter_info, k, p).size = InPage(filter_info[k], p)
          /\ Part(filter_info, k, p).idx = filter_info[k].idx
          /\ Part(filter_info, k, p).sizeIdx = filter_info[k].sizeIdx
          /\ Part(filter_info, k, p).nullify = filter_info[k].nullify
        <3>1. filter_info[k] \in NodeType
            BY <1>2
        <3> QED
            BY <3>1 DEF Part, NodeType
    <2>2. node.paddr \in Nat /\ node.size \in Nat /\ node.idx \in 0 .. Commands
        BY DEF NodeType
    <2>3. /\ part.paddr = node.paddr /\ part.idx = node.idx
          /\ part.sizeIdx = node.sizeIdx /\ part.nullify = node.nullify
        BY <2>1, <1>4, <1>5
    <2>4. part.size = ip
        BY <2>1, <1>4, <1>5, <1>6
    <2> QED
        BY <2>2, <2>3, <2>4
<1>9. ip <= node.size
    BY <1>2, <1>3, <1>4, <1>6, <1>7, InPageIs
<1>10. PICK gone \in BOOLEAN : gone = Gone(filter_info, k, p)
    BY DEF Gone
<1>11. \A n \in Nodes' :
         /\ OldPlace(n, k, gone) \in Nodes
         /\ OldPlace(n, k, gone) # k => filter_info'[n] = filter_info[OldPlace(n, k, gone)]
         /\ OldPlace(n, k, gone) = k =>
               /\ ~gone /\ n = k
               /\ filter_info'[n].paddr = node.paddr + ip
               /\ filter_info'[n].size = node.size - ip
         /\ filter_info'[n].idx = filter_info[OldPlace(n, k, gone)].idx
         /\ filter_info'[n].sizeIdx = filter_info[OldPlace(n, k, gone)].sizeIdx
         /\ filter_info'[n].nullify = filter_info[OldPlace(n, k, gone)].nullify
    <2>1. k \in 1 .. Len(filter_info) /\ StartsIn(filter_info[k], p)
        BY <1>2, <1>3 DEF Nodes
    <2>2. Leaves(filter_info', filter_info, k, p, gone)
        BY <1>2, <1>3, <1>7, <1>10, <2>1, ExtractedIs
    <2> SUFFICES ASSUME NEW n \in Nodes'
                 PROVE  /\ OldPlace(n, k, gone) \in Nodes
                        /\ OldPlace(n, k, gone) # k => filter_info'[n] = filter_info[OldPlace(n, k, gone)]
                        /\ OldPlace(n, k, gone) = k =>
                              /\ ~gone /\ n = k
                              /\ filter_info'[n].paddr = node.paddr + ip
                              /\ filter_info'[n].size = node.size - ip
                        /\ filter_info'[n].idx = filter_info[OldPlace(n, k, gone)].idx
                        /\ filter_info'[n].sizeIdx = filter_info[OldPlace(n, k, gone)].sizeIdx
                        /\ filter_info'[n].nullify = filter_info[OldPlace(n, k, gone)].nullify
        OBVIOUS
    <2>3. CASE OldPlace(n, k, gone) = k
        BY <2>2, <2>3, <1>4, <1>6 DEF Nodes, Leaves
    <2>4. CASE OldPlace(n, k, gone) # k
        BY <2>2, <2>4 DEF Nodes, Leaves
    <2> QED
        BY <2>3, <2>4
<1>12. ASSUME NEW m \in Nodes', NEW n \in Nodes', OldPlace(m, k, gone) = OldPlace(n, k, gone)
       PROVE  m = n
    <2>1. m \in Nat /\ n \in Nat /\ k \in Nat
        BY SMTT(20) DEF Nodes
    <2>2. CASE gone
        <3>1. /\ OldPlace(m, k, gone) = IF m >= k THEN m + 1 ELSE m
              /\ OldPlace(n, k, gone) = IF n >= k THEN n + 1 ELSE n
            BY <2>2 DEF OldPlace
        <3>2. (IF m >= k THEN m + 1 ELSE m) = (IF n >= k THEN n + 1 ELSE n)
            BY <1>12, <3>1
        <3> QED
            BY <2>1, <3>2, SMTT(20)
    <2>3. CASE ~gone
        BY <1>12, <2>3 DEF OldPlace
    <2> QED
        BY <2>2, <2>3
<1>13. erased' = erased \cup Bytes(part) /\ erase_info' = update_erase_info(erase_info, part)
    BY <1>2, <1>3, <1>5
<1>14. \A b \in Nat : node.paddr <= b /\ b < node.paddr + ip => b \in Bytes(part)
    BY <1>8, SMTT(20) DEF Bytes
<1>15. \A c \in 1 .. Commands : c \in 0 .. Commands /\ c # 0
    BY CommandIs
<1>16. \A a : Asked(a)' = Asked(a)
    BY <1>1, SMTT(20) DEF Asked, FirstAt, LineOf
\* One place counts more.
<1>17. /\ \A c \in 0 .. Commands : erase_info'[c].num = erase_info[c].num
       /\ \A c \in 0 .. Commands : erase_info'[c].sizes = << >> \/ Len(erase_info'[c].sizes) = erase_info'[c].num
       /\ erase_info'[0].sizes = << >>
       /\ \A c \in 1 .. Commands : \A j \in 1 .. erase_info[c].num :
             ~ (c = node.idx /\ j = node.sizeIdx) => SizeAt(c, j)' = SizeAt(c, j)
       /\ node.idx # 0 =>
             SizeAt(node.idx, node.sizeIdx)' =
                IF node.nullify THEN -1 ELSE SizeAt(node.idx, node.sizeIdx) + ip
    <2>1. CASE node.idx = 0
        <3>1. erase_info' = erase_info
            BY <1>8, <1>13, <2>1 DEF update_erase_info
        <3> QED
            BY <2>1, <3>1 DEF Placed, SizeAt
    <2>2. CASE node.idx # 0
        <3>0. part.idx # 0
            BY <1>8, <2>2
        <3>1. PICK c0 \in 1 .. Commands : c0 = node.idx
            BY <1>8, <2>2, SMTT(20)
        <3>2. PICK i0 \in Nat : i0 = node.sizeIdx
            BY DEF NodeType
        <3>3. PICK old \in Seq(Int) : old = OldSizes(erase_info, c0, i0)
            BY <1>7, <1>8, <3>0, <3>1, <3>2, UpdatedInfo
        <3>4. Updated(erase_info', erase_info, part, c0, old)
            BY <1>7, <1>8, <1>13, <3>0, <3>1, <3>2, <3>3, UpdatedInfo
        <3>5. /\ \A d \in 0 .. Commands : d # c0 => erase_info'[d] = erase_info[d]
              /\ erase_info'[c0].num = erase_info[c0].num
              /\ erase_info'[c0].sizes \in Seq(Int) /\ Len(erase_info'[c0].sizes) = Len(old)
              /\ \A j \in 1 .. Len(old) : j # i0 => erase_info'[c0].sizes[j] = old[j]
              /\ i0 \in 1 .. Len(old) =>
                    erase_info'[c0].sizes[i0] = IF node.nullify THEN -1 ELSE old[i0] + ip
            BY <1>8, <3>2, <3>4 DEF Updated
        <3>6. c0 \in 0 .. Commands /\ c0 # 0 /\ i0 \in 1 .. erase_info[c0].num /\ erase_info[c0].num \in Nat
            BY <1>4, <1>7, <1>15, <3>1, <3>2 DEF Placed
        \* The sizes before the step, whether or not there was an array.
        <3>7. Len(old) = erase_info[c0].num /\ \A j \in 1 .. Len(old) : old[j] = SizeAt(c0, j)
            <4>0. erase_info[c0].sizes \in Seq(Int)
                BY <1>7, <3>6 DEF InfoType
            <4>1. CASE erase_info[c0].sizes = << >>
                <5>1. DOMAIN erase_info[c0].sizes = {}
                    BY <4>1, SMTT(20)
                <5>2. old = [j \in 1 .. erase_info[c0].num |-> 0]
                    BY <3>3, <5>1 DEF OldSizes
                <5>3. Len(old) = erase_info[c0].num
                    BY <3>6, <5>2, SMTT(20)
                <5>4. \A j \in 1 .. Len(old) : old[j] = 0 /\ SizeAt(c0, j) = 0
                    BY <5>1, <5>2, <5>3 DEF SizeAt
                <5> QED
                    BY <5>3, <5>4
            <4>2. CASE erase_info[c0].sizes # << >>
                <5>1. Len(erase_info[c0].sizes) = erase_info[c0].num
                    BY <3>6, <4>2 DEF Placed
                <5>2. DOMAIN erase_info[c0].sizes = 1 .. erase_info[c0].num
                    BY <4>0, <5>1, SeqLen
                <5>3. old = erase_info[c0].sizes
                    BY <3>3, <3>6, <5>2 DEF OldSizes
                <5> QED
                    BY <5>1, <5>2, <5>3 DEF SizeAt
            <4> QED
                BY <4>1, <4>2
        <3>8. DOMAIN erase_info'[c0].sizes = 1 .. erase_info[c0].num
            BY <3>5, <3>7, SeqLen
        <3>9. ASSUME NEW j \in 1 .. erase_info[c0].num
              PROVE  SizeAt(c0, j)' = erase_info'[c0].sizes[j]
            BY <3>8 DEF SizeAt
        <3>10. ASSUME NEW c \in 1 .. Commands, c # c0, NEW j PROVE SizeAt(c, j)' = SizeAt(c, j)
            <4>1. erase_info'[c] = erase_info[c]
                BY <1>15, <3>5, <3>10
            <4> QED
                BY <4>1 DEF SizeAt
        <3>11. ASSUME NEW j \in 1 .. erase_info[c0].num, j # i0 PROVE SizeAt(c0, j)' = SizeAt(c0, j)
            BY <3>5, <3>7, <3>9, <3>11
        <3>12. SizeAt(c0, i0)' = IF node.nullify THEN -1 ELSE SizeAt(c0, i0) + ip
            BY <3>5, <3>6, <3>7, <3>9
        <3>13. ASSUME NEW c \in 0 .. Commands PROVE erase_info'[c].num = erase_info[c].num
            BY <3>5
        <3>14. ASSUME NEW c \in 0 .. Commands
               PROVE  erase_info'[c].sizes = << >> \/ Len(erase_info'[c].sizes) = erase_info'[c].num
            BY <3>5, <3>7 DEF Placed
        <3>15. erase_info'[0].sizes = << >>
            <4>1. 0 \in 0 .. Commands
                BY CommandIs
            <4> QED
                BY <3>5, <3>6, <4>1 DEF Placed
        <3>16. ASSUME NEW c \in 1 .. Commands, NEW j \in 1 .. erase_info[c].num,
                      ~ (c = node.idx /\ j = node.sizeIdx)
               PROVE  SizeAt(c, j)' = SizeAt(c, j)
            <4>1. CASE c = c0
                BY <3>1, <3>2, <3>11, <3>16, <4>1
            <4>2. CASE c # c0
                BY <3>10, <4>2
            <4> QED
                BY <4>1, <4>2
        <3>17. SizeAt(node.idx, node.sizeIdx)' =
                  IF node.nullify THEN -1 ELSE SizeAt(node.idx, node.sizeIdx) + ip
            BY <3>1, <3>2, <3>12
        <3> QED
            BY <3>13, <3>14, <3>15, <3>16, <3>17
    <2> QED
        BY <2>1, <2>2
<1>18. Placed'
    <2>1. ASSUME NEW n \in Nodes', filter_info'[n].idx # 0
          PROVE  filter_info'[n].sizeIdx \in 1 .. erase_info'[filter_info'[n].idx].num
        <3>1. PICK m \in Nodes : /\ filter_info'[n].idx = filter_info[m].idx
                                  /\ filter_info'[n].sizeIdx = filter_info[m].sizeIdx
            BY <1>11
        <3>2. filter_info[m].idx \in 0 .. Commands
            <4>1. filter_info[m] \in NodeType
                BY <1>7, SeqElement DEF Nodes
            <4> QED
                BY <4>1 DEF NodeType
        <3>3. filter_info[m].sizeIdx \in 1 .. erase_info[filter_info[m].idx].num
            BY <2>1, <3>1 DEF Placed
        <3> QED
            BY <1>17, <3>1, <3>2, <3>3
    <2>2. ASSUME NEW m \in Nodes', NEW n \in Nodes', filter_info'[m].idx # 0,
                 filter_info'[m].idx = filter_info'[n].idx,
                 filter_info'[m].sizeIdx = filter_info'[n].sizeIdx
          PROVE  m = n
        <3>1. /\ OldPlace(m, k, gone) \in Nodes /\ OldPlace(n, k, gone) \in Nodes
              /\ filter_info'[m].idx = filter_info[OldPlace(m, k, gone)].idx
              /\ filter_info'[m].sizeIdx = filter_info[OldPlace(m, k, gone)].sizeIdx
              /\ filter_info'[n].idx = filter_info[OldPlace(n, k, gone)].idx
              /\ filter_info'[n].sizeIdx = filter_info[OldPlace(n, k, gone)].sizeIdx
            BY <1>11
        <3>2. OldPlace(m, k, gone) = OldPlace(n, k, gone)
            BY <2>2, <3>1 DEF Placed
        <3> QED
            BY <1>12, <3>2
    <2> QED
        BY <1>1, <1>17, <2>1, <2>2 DEF Placed
<1>19. Accounted'
    <2> SUFFICES ASSUME NEW c \in 1 .. Commands, NEW j \in (1 .. erase_info[c].num)'
                 PROVE  (\E o \in Asked(<< c, j >>) : CountedOf(o, c, j))'
        BY DEF Accounted
    <2>1. j \in 1 .. erase_info[c].num
        BY <1>15, <1>17
    <2>2. PICK o \in Asked(<< c, j >>) : CountedOf(o, c, j)
        BY <2>1 DEF Accounted
    <2>3. o.paddr \in Nat /\ o.size \in Nat /\ o \in Asked(<< c, j >>)'
        BY <1>7, <1>16, AskedOrder
    <2> SUFFICES CountedOf(o, c, j)'
        BY <2>3
    <2>4. CASE ~ (c = node.idx /\ j = node.sizeIdx)
        <3>1. SizeAt(c, j)' = SizeAt(c, j)
            BY <1>17, <2>1, <2>4
        <3>2. ASSUME NEW n \in Nodes', filter_info'[n].idx = c, filter_info'[n].sizeIdx = j
              PROVE  \E m \in Nodes : filter_info'[n] = filter_info[m] /\ Holds(m, c, j)
            <4>1. OldPlace(n, k, gone) # k
                BY <1>4, <1>11, <2>4, <3>2
            <4> QED
                BY <1>11, <3>2, <4>1 DEF Holds
        <3>3. erased \subseteq erased'
            BY <1>13
        <3>4. CASE /\ SizeAt(c, j) = -1
                   /\ \A n \in Nodes : Holds(n, c, j) => filter_info[n].nullify
            BY <3>1, <3>2, <3>4 DEF CountedOf, Holds
        <3>5. CASE /\ SizeAt(c, j) \in 0 .. o.size
                   /\ \A b \in Nat : o.paddr <= b /\ b < o.paddr + SizeAt(c, j) => b \in erased
                   /\ \A n \in Nodes : Holds(n, c, j) =>
                         /\ filter_info[n].paddr = o.paddr + SizeAt(c, j)
                         /\ filter_info[n].size = o.size - SizeAt(c, j)
            <4>1. ASSUME NEW n \in Nodes', Holds(n, c, j)'
                  PROVE  /\ filter_info'[n].paddr = o.paddr + SizeAt(c, j)
                         /\ filter_info'[n].size = o.size - SizeAt(c, j)
                BY <3>2, <3>5, <4>1 DEF Holds
            <4> QED
                BY <3>1, <3>3, <3>5, <4>1 DEF CountedOf
        <3> QED
            BY <2>2, <3>4, <3>5 DEF CountedOf
    <2>5. CASE c = node.idx /\ j = node.sizeIdx
        <3>1. SizeAt(c, j)' = IF node.nullify THEN -1 ELSE SizeAt(c, j) + ip
            BY <1>15, <1>17, <2>5
        <3>2. Holds(k, c, j)
            BY <1>4, <2>5 DEF Holds
        <3>3. ASSUME NEW n \in Nodes', Holds(n, c, j)'
              PROVE  /\ filter_info'[n].paddr = node.paddr + ip
                     /\ filter_info'[n].size = node.size - ip
                     /\ filter_info'[n].nullify = node.nullify
            <4>1. OldPlace(n, k, gone) = k
                <5>1. /\ OldPlace(n, k, gone) \in Nodes
                      /\ filter_info[OldPlace(n, k, gone)].idx = filter_info[k].idx
                      /\ filter_info[OldPlace(n, k, gone)].sizeIdx = filter_info[k].sizeIdx
                      /\ filter_info[OldPlace(n, k, gone)].idx # 0
                    BY <1>11, <1>15, <3>2, <3>3 DEF Holds
                <5> QED
                    BY <5>1 DEF Placed
            <4> QED
                BY <1>4, <1>11, <4>1
        <3>4. CASE node.nullify
            BY <3>1, <3>3, <3>4 DEF CountedOf
        <3>5. CASE ~node.nullify
            <4>1. /\ SizeAt(c, j) \in 0 .. o.size
                  /\ \A b \in Nat : o.paddr <= b /\ b < o.paddr + SizeAt(c, j) => b \in erased
                  /\ node.paddr = o.paddr + SizeAt(c, j)
                  /\ node.size = o.size - SizeAt(c, j)
                BY <1>4, <2>2, <3>2, <3>5 DEF CountedOf
            <4>2. PICK sz \in 0 .. o.size : sz = SizeAt(c, j)
                BY <4>1
            <4>3. /\ sz + ip \in 0 .. o.size
                  /\ node.paddr + ip = o.paddr + (sz + ip)
                  /\ node.size - ip = o.size - (sz + ip)
                BY <1>8, <1>9, <2>3, <4>1, <4>2, SMTT(20)
            <4>4. SizeAt(c, j)' = sz + ip
                BY <3>1, <3>5, <4>2
            <4>5. ASSUME NEW b \in Nat, o.paddr <= b, b < o.paddr + (sz + ip) PROVE b \in erased'
                <5>1. b < o.paddr + sz \/ (node.paddr <= b /\ b < node.paddr + ip)
                    BY <2>3, <4>1, <4>2, <4>5, SMTT(20)
                <5> QED
                    BY <1>13, <1>14, <4>1, <4>2, <4>5, <5>1
            <4>6. ASSUME NEW n \in Nodes', Holds(n, c, j)'
                  PROVE  /\ filter_info'[n].paddr = o.paddr + (sz + ip)
                         /\ filter_info'[n].size = o.size - (sz + ip)
                BY <3>3, <4>3, <4>6
            <4> QED
                BY <4>3, <4>4, <4>5, <4>6 DEF CountedOf
        <3> QED
            BY <3>4, <3>5
    <2> QED
        BY <2>4, <2>5
<1> QED
    BY <1>18, <1>19

\* A line of an order that was met has the size counted for that order.
LEMMA StringIs ==
    ASSUME NEW ei \in InfoType, NEW a \in Lines(ei), ei[a[1]].sizes[a[2]] # 0
    PROVE  StringAt(ei, a) = ei[a[1]].sizes[a[2]]
<1> DEFINE made == {b \in Lines(ei) : Before(b, a) /\ ei[b[1]].sizes[b[2]] # 0}
           last == CHOOSE b \in made : \A c \in made : Before(c, b)
<1>1. \A b \in Lines(ei) : \E c \in 0 .. Commands, j \in Nat : b = << c, j >>
    <2> SUFFICES ASSUME NEW b \in Lines(ei) PROVE \E c \in 0 .. Commands, j \in Nat : b = << c, j >>
        BY SMTT(20)
    <2>1. DOMAIN ei = 0 .. Commands /\ \A x \in 0 .. Commands : ei[x].sizes \in Seq(Int)
        BY DEF InfoType
    <2>2. PICK c \in 0 .. Commands : b \in {c} \X DOMAIN ei[c].sizes
        BY <2>1 DEF Lines
    <2>3. PICK j \in DOMAIN ei[c].sizes : b = << c, j >>
        BY <2>2, SMTT(20)
    <2>4. j \in 1 .. Len(ei[c].sizes)
        BY <2>1, SeqLen
    <2>5. Len(ei[c].sizes) \in Nat
        BY <2>1, SMTT(20)
    <2>6. j \in Nat
        BY <2>4, <2>5, SMTT(20)
    <2> QED
        BY <2>3, <2>6
<1>2. PICK c \in 0 .. Commands, j \in Nat : a = << c, j >>
    BY <1>1
<1>3. Before(a, a)
    <2>1. a[1] = c /\ a[2] = j
        BY <1>2, SMTT(20)
    <2>2. j <= j
        BY SMTT(20)
    <2> QED
        BY <2>1, <2>2 DEF Before
<1>4. a \in made
    BY <1>3
<1>5. ASSUME NEW b \in made, Before(a, b) PROVE a = b
    <2>1. Before(b, a) /\ b \in Lines(ei)
        OBVIOUS
    <2>2. PICK d \in 0 .. Commands, m \in Nat : b = << d, m >>
        BY <1>1, <2>1
    <2>3. a[1] = c /\ a[2] = j /\ b[1] = d /\ b[2] = m
        BY <1>2, <2>2, SMTT(20)
    <2>4. /\ c < d \/ (c = d /\ j <= m)
          /\ d < c \/ (d = c /\ m <= j)
        BY <1>5, <2>1, <2>3 DEF Before
    <2>5. c = d /\ j = m
        BY <2>4, SMTT(20)
    <2> QED
        BY <1>2, <2>2, <2>5
<1>6. \A b \in made : Before(b, a)
    OBVIOUS
<1>7. \E b \in made : \A x \in made : Before(x, b)
    BY <1>4, <1>6
<1>8. last \in made /\ \A x \in made : Before(x, last)
    BY <1>7
<1>9. last = a
    BY <1>4, <1>5, <1>8
<1>10. StringAt(ei, a) = IF made = {} THEN Unset ELSE ei[last[1]].sizes[last[2]]
    BY DEF StringAt
<1> QED
    BY <1>4, <1>9, <1>10

\* write_eraseinfo(): the lines repeat the counts.
LEMMA ReportWritten ==
    ASSUME CasesOK, Inv, Placed, Accounted, WriteEraseinfo
    PROVE  ReportTrue'
<1> USE DEF Inv
<1>1. /\ in' = in /\ erase_info' = erase_info /\ erased' = erased
      /\ report' = {[line |-> a, size |-> StringAt(erase_info, a),
                     own |-> erase_info[a[1]].sizes[a[2]] # 0] : a \in Lines(erase_info)}
    BY DEF WriteEraseinfo
<1>2. in \in Cases /\ erase_info \in InfoType
    BY DEF Types
<1> SUFFICES ASSUME NEW r \in report', r.own, r.size # -1
             PROVE  (\E o \in Asked(r.line) : /\ r.size <= o.size
                                              /\ o.paddr .. o.paddr + r.size - 1 \subseteq erased)'
    BY DEF ReportTrue
<1>3. PICK a \in Lines(erase_info) :
         r = [line |-> a, size |-> StringAt(erase_info, a),
              own |-> erase_info[a[1]].sizes[a[2]] # 0]
    BY <1>1
<1>4. r.line = a /\ r.size = StringAt(erase_info, a) /\ r.own = (erase_info[a[1]].sizes[a[2]] # 0)
    BY <1>3
<1>5. erase_info[a[1]].sizes[a[2]] # 0
    BY <1>4
<1>6. r.size = erase_info[a[1]].sizes[a[2]]
    BY <1>2, <1>4, <1>5, StringIs
<1>7. PICK c \in 0 .. Commands : a \in {c} \X DOMAIN erase_info[c].sizes
    <2>1. DOMAIN erase_info = 0 .. Commands
        BY <1>2 DEF InfoType
    <2> QED
        BY <2>1 DEF Lines
<1>8. PICK j \in DOMAIN erase_info[c].sizes : a = << c, j >>
    BY <1>7, SMTT(20)
<1>9. a[1] = c /\ a[2] = j
    BY <1>8, SMTT(20)
<1>10. erase_info[c].sizes # << >>
    <2>1. DOMAIN << >> = {}
        BY SMTT(20)
    <2> QED
        BY <1>8, <2>1
<1>11. c # 0 /\ Len(erase_info[c].sizes) = erase_info[c].num
    BY <1>10 DEF Placed
<1>12. c \in 1 .. Commands
    BY <1>11, SMTT(20)
<1>13. j \in 1 .. erase_info[c].num
    <2>1. erase_info[c].sizes \in Seq(Int)
        BY <1>2 DEF InfoType
    <2> QED
        BY <1>8, <1>11, <2>1, SeqLen
<1>14. SizeAt(c, j) = r.size
    BY <1>6, <1>8, <1>9 DEF SizeAt
<1>15. PICK o \in Asked(a) : CountedOf(o, c, j)
    BY <1>8, <1>12, <1>13 DEF Accounted
<1>16. /\ r.size \in 0 .. o.size
       /\ \A b \in Nat : o.paddr <= b /\ b < o.paddr + r.size => b \in erased
    BY <1>14, <1>15 DEF CountedOf
<1>17. o.paddr \in Nat /\ o.size \in Nat
    BY <1>2, <1>15, AskedOrder
<1>18. r.size <= o.size
    BY <1>16, <1>17, SMTT(20)
<1>19. ASSUME NEW b \in o.paddr .. o.paddr + r.size - 1 PROVE b \in erased
    <2>1. b \in Nat /\ o.paddr <= b /\ b < o.paddr + r.size
        BY <1>16, <1>17, SMTT(20)
    <2> QED
        BY <1>16, <2>1
<1>20. o \in Asked(r.line)'
    <2>1. \A x : Asked(x)' = Asked(x)
        BY <1>1, SMTT(20) DEF Asked, FirstAt, LineOf
    <2> QED
        BY <1>4, <1>15, <2>1
<1> QED
    BY <1>1, <1>18, <1>19, <1>20

RInv == Inv /\ ReportInv

\* Every step keeps the invariant of the report.
LEMMA ReportStep ==
    ASSUME CasesOK, RInv, [Next]_vars
    PROVE  RInv'
<1> USE DEF RInv, ReportInv
<1>0. Inv'
    BY EraseStep
<1> SUFFICES Numbered' /\ Placed' /\ Accounted' /\ (pc' # "done" => report' = {}) /\ ReportTrue'
    BY <1>0
\* A step before the report.
<1>1. ASSUME report' = report, pc # "done" PROVE (pc' # "done" => report' = {}) /\ ReportTrue'
    <2>1. report' = {}
        BY <1>1
    <2> QED
        BY <2>1 DEF ReportTrue
<1>2. CASE UpdateFilterInfo
    <2>1. report' = report /\ pc # "done"
        BY <1>2 DEF UpdateFilterInfo
    <2> QED
        BY <1>1, <1>2, <2>1, PlacesUpdate, NumberedUpdate
<1>3. CASE Gathered
    <2>1. /\ report' = report /\ pc = "gather" /\ in' = in /\ erase_info' = erase_info
          /\ erased' = erased /\ filter_info' = filter_info
        BY <1>3 DEF Gathered
    <2>2. pc # "done" /\ pc' # "gather"
        BY <1>3 DEF Gathered
    <2> QED
        BY <1>1, <2>1, <2>2, PlacesKept DEF Numbered
<1>4. ASSUME NEW w \in Writers, TakePage(w) \/ PageDone(w)
      PROVE  Numbered' /\ Placed' /\ Accounted' /\ (pc' # "done" => report' = {}) /\ ReportTrue'
    <2>1. /\ report' = report /\ pc = "write" /\ pc' = pc /\ in' = in /\ erase_info' = erase_info
          /\ erased' = erased /\ filter_info' = filter_info
        BY <1>4 DEF TakePage, PageDone
    <2>2. pc # "done" /\ pc' # "gather"
        BY <2>1
    <2> QED
        BY <1>1, <2>1, <2>2, PlacesKept DEF Numbered
<1>5. ASSUME NEW w \in Writers, FilterDataBuffer(w)
      PROVE  Numbered' /\ Placed' /\ Accounted' /\ (pc' # "done" => report' = {}) /\ ReportTrue'
    <2>1. report' = report /\ pc # "done" /\ pc' # "gather"
        BY <1>5 DEF FilterDataBuffer
    <2>2. Placed' /\ Accounted'
        BY <1>5, PlacesFilter
    <2> QED
        BY <1>1, <2>1, <2>2 DEF Numbered
<1>6. CASE WriteEraseinfo
    <2>1. /\ pc' = "done" /\ in' = in /\ erase_info' = erase_info
          /\ erased' = erased /\ filter_info' = filter_info
        BY <1>6 DEF WriteEraseinfo
    <2>2. pc' # "gather"
        BY <2>1
    <2> QED
        BY <1>6, <2>1, <2>2, PlacesKept, ReportWritten DEF Numbered
<1>7. CASE ClearFilterInfo
    <2>1. /\ report' = report /\ pc' = pc /\ pc = "done" /\ in' = in /\ erased' = erased
          /\ erase_info' = NoInfo /\ filter_info' = << >>
        BY <1>7 DEF ClearFilterInfo
    <2>2. \A c \in 0 .. Commands : erase_info'[c].sizes = << >> /\ erase_info'[c].num = 0
        BY <2>1, NoInfoIs
    <2>3. Nodes' = {} /\ 1 .. 0 = {}
        BY <2>1, SMTT(20) DEF Nodes
    <2>4. 0 \in 0 .. Commands /\ \A c \in 1 .. Commands : c \in 0 .. Commands
        BY CommandIs
    <2>5. Placed'
        BY <2>2, <2>3, <2>4 DEF Placed
    <2>6. Accounted'
        BY <2>2, <2>3, <2>4 DEF Accounted
    <2>7. \A a : Asked(a)' = Asked(a)
        BY <2>1, SMTT(20) DEF Asked, FirstAt, LineOf
    <2>8. ReportTrue'
        BY <2>1, <2>7 DEF ReportTrue
    <2> QED
        BY <2>1, <2>5, <2>6, <2>8 DEF Numbered
<1>8. CASE UNCHANGED vars
    <2>1. /\ report' = report /\ pc' = pc /\ in' = in /\ erase_info' = erase_info
          /\ taken' = taken /\ erased' = erased /\ filter_info' = filter_info
        BY <1>8 DEF vars
    <2>2. Placed' /\ Accounted'
        BY <2>1, PlacesKept
    <2>5. \A a : Asked(a)' = Asked(a)
        BY <2>1, SMTT(20) DEF Asked, FirstAt, LineOf
    <2>3. ReportTrue'
        BY <2>1, <2>5 DEF ReportTrue
    <2>4. Numbered'
        BY <2>1 DEF Numbered, Nodes, NewOf, FirstAt
    <2> QED
        BY <2>1, <2>2, <2>3, <2>4
<1> QED
    BY <1>2, <1>3, <1>4, <1>5, <1>6, <1>7, <1>8 DEF Next

\* It holds before the first order.
LEMMA ReportInit ==
    ASSUME CasesOK, Init
    PROVE  RInv
<1>1. Inv
    BY EraseInit
<1>2. erase_info = NoInfo /\ filter_info = << >> /\ report = {} /\ pc = "gather" /\ taken = 0
    BY DEF Init
<1>3. \A c \in 0 .. Commands : erase_info[c].sizes = << >> /\ erase_info[c].num = 0
    BY <1>2, NoInfoIs
<1>4. Nodes = {} /\ 1 .. 0 = {} /\ 0 \in 0 .. Commands /\ \A c \in 1 .. Commands : c \in 0 .. Commands
    <2>1. Nodes = {} /\ 1 .. 0 = {}
        BY <1>2, SMTT(20) DEF Nodes
    <2> QED
        BY <2>1, CommandIs
<1>5. Placed
    BY <1>3, <1>4 DEF Placed
<1>6. Accounted
    BY <1>3, <1>4 DEF Accounted
<1>7. ReportTrue
    BY <1>2 DEF ReportTrue
<1>8. Numbered
    <2>1. \A c : NewOf(c, taken) = {}
        BY <1>2, <1>4 DEF NewOf
    <2>2. Cardinality({}) = 0
        BY FS_EmptySet
    <2>3. Ascending(filter_info)
        BY <1>4 DEF Ascending, Nodes
    <2> QED
        BY <1>2, <1>3, <1>4, <2>1, <2>2, <2>3 DEF Numbered
<1> QED
    BY <1>1, <1>2, <1>5, <1>6, <1>7, <1>8 DEF RInv, ReportInv

(***************************************************************************)
(* write_eraseinfo() reports what update_erase_info() counted: as many     *)
(* bytes as a line with a string of its own says were overwritten from the *)
(* address of its order on, and no more were asked for there, for any      *)
(* orders, pages and number of writers.                                    *)
(***************************************************************************)
THEOREM ReportsTrue ==
    ASSUME CasesOK
    PROVE  Spec => []ReportTrue
<1>1. Init => RInv
    BY ReportInit, SMTT(20)
<1>2. RInv /\ [Next]_vars => RInv'
    BY ReportStep, SMTT(20)
<1>3. RInv => ReportTrue
    BY SMTT(20) DEF RInv, ReportInv
<1> QED
    BY <1>1, <1>2, <1>3, PTL DEF Spec
=============================================================================
