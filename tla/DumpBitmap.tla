----------------------------- MODULE DumpBitmap -----------------------------
(***************************************************************************)
(* The two stores of a dump bitmap and the cycles over it.                 *)
(*                                                                         *)
(* In cyclic mode a bitmap is one buffer that holds the bits of the        *)
(* current cycle.  Otherwise it is a half of the bitmap file, of which one *)
(* block at a time is in the buffer; no_block says which, or is -1.        *)
(*   disk  the pages whose bit is set in the file (with fd)                *)
(*   buf   the bits set in the buffer, from the start of the block or of   *)
(*         the cycle                                                       *)
(***************************************************************************)
EXTENDS Integers

CONSTANTS
    BlockPfns,     \* PFN_BUFBITMAP
    BitPerByte     \* BITPERBYTE

Round(x, y) == (x \div y) * y

Roundup(x, y) == ((x + y - 1) \div y) * y

-----------------------------------------------------------------------------
(***************************************************************************)
(* Cycles.  exclude_pfn_start, _end and _counter are an exclusion of       *)
(* several pages that goes on in the next cycle.                           *)
(***************************************************************************)
CycleEnd(start, max, pfn_cyclic) ==
    IF start + pfn_cyclic > max THEN max ELSE start + pfn_cyclic

FirstCycle(start, max, pfn_cyclic, elf) ==
    LET s == Round(start, pfn_cyclic)
    IN  [start |-> IF elf /\ s < start THEN Round(start, BitPerByte) ELSE s,
         end |-> CycleEnd(s, max, pfn_cyclic),
         exStart |-> 0, exEnd |-> 0, exCounter |-> "none"]

UpdateCycle(c, max, pfn_cyclic) ==
    [c EXCEPT !.start = c.end, !.end = CycleEnd(c.end, max, pfn_cyclic)]

EndCycle(c, max) == c.start >= max

InCycle(pfn, c) == c.start <= pfn /\ pfn < c.end

-----------------------------------------------------------------------------
(***************************************************************************)
(* Bitmaps.                                                                *)
(***************************************************************************)
NewBitmap(fd) == [fd |-> fd, no_block |-> -1, buf |-> {}, disk |-> {}]

\* initialize_bitmap(): the buffer is cleared and holds no block.
InitializeBitmap(bm) == [bm EXCEPT !.no_block = -1, !.buf = {}]

BlockOf(pfn) == pfn \div BlockPfns

InBlock(pfns, n) == {p \in pfns : BlockOf(p) = n}

LoadBlock(bm, n) ==
    [bm EXCEPT !.no_block = n, !.buf = {p % BlockPfns : p \in InBlock(bm.disk, n)}]

StoreBlock(bm) ==
    [bm EXCEPT !.disk = (@ \ InBlock(@, bm.no_block))
                            \cup {bm.no_block * BlockPfns + b : b \in bm.buf}]

PutBit(bm, bit, val) ==
    [bm EXCEPT !.buf = IF val THEN @ \cup {bit} ELSE @ \ {bit}]

SetBitmapFile(bm, pfn, val) ==
    LET old == IF bm.no_block >= 0 /\ bm.no_block # BlockOf(pfn)
               THEN StoreBlock(bm) ELSE bm
    IN  PutBit(IF old.no_block = BlockOf(pfn) THEN old ELSE LoadBlock(old, BlockOf(pfn)),
               pfn % BlockPfns, val)

\* set_bitmap(), and whether it returns TRUE; a buffer refuses what is not in
\* the cycle.
CanSetBit(bm, pfn, c) == bm.fd \/ InCycle(pfn, c)

SetBitmap(bm, pfn, val, c) ==
    IF bm.fd THEN SetBitmapFile(bm, pfn, val)
    ELSE IF InCycle(pfn, c) THEN PutBit(bm, pfn - c.start, val)
    ELSE bm

SyncBitmap(bm) == IF bm.fd /\ bm.no_block >= 0 THEN StoreBlock(bm) ELSE bm

(***************************************************************************)
(* is_dumpable(): asking may load a block over a buffer that was changed;  *)
(* AfterAsking is the bitmap then, page 0 is loaded every time.            *)
(***************************************************************************)
AfterAsking(bm, pfn) ==
    IF bm.fd /\ (pfn = 0 \/ bm.no_block # BlockOf(pfn))
    THEN LoadBlock(bm, BlockOf(pfn)) ELSE bm

IsDumpable(bm, pfn, c) ==
    IF bm.fd THEN pfn % BlockPfns \in AfterAsking(bm, pfn).buf
    ELSE InCycle(pfn, c) /\ pfn - c.start \in bm.buf
=============================================================================
