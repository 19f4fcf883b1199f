----------------------------- MODULE OutputFile -----------------------------
(***************************************************************************)
(* The dump file and the write caches in front of it: write_buffer(),      *)
(* write_and_check_space(), write_cache() and write_cache_bufsz(), for a   *)
(* file that can seek.                                                     *)
(*                                                                         *)
(* A file is a record: cells maps the offsets written so far to words, and *)
(* an offset below the end that is not in its domain is a hole and reads   *)
(* as zero; limit is info->size_limit; space is how many more words the    *)
(* device can hold; bad are the offsets the device refuses with another    *)
(* error than ENOSPC; nospace is info->flag_nospace.                       *)
(* A cache is a record: buf are the buf_size words buffered, offset is     *)
(* where they go.  The failing write of a cache leaves it as it was.       *)
(***************************************************************************)
EXTENDS Integers, Sequences, FiniteSets

CONSTANTS
    PageSize,      \* info->page_size, in words
    CacheSize      \* cache_size, page_size << block_order

ASSUME SizesAssumption ==
    /\ PageSize \in Nat \ {0}
    /\ CacheSize \in Nat
    /\ CacheSize >= PageSize

Zero == [field |-> "zero", value |-> 0]

ZeroWords(n) == [j \in 1 .. n |-> Zero]

EmptyCache(offset) == [buf |-> << >>, offset |-> offset]

(***************************************************************************)
(* The device takes the first n words of a write at offset o.              *)
(***************************************************************************)
Takes(f, o, n) ==
    LET touched == o .. o + n - 1
    IN  /\ n > 0 => o + n <= f.limit
        /\ Cardinality(touched \ DOMAIN f.cells) <= f.space
        /\ touched \cap f.bad = {}

Prefix(f, o, buf) ==
    CHOOSE n \in 0 .. Len(buf) :
        /\ Takes(f, o, n)
        /\ \A m \in 0 .. Len(buf) : Takes(f, o, m) => m <= n

(***************************************************************************)
(* write_buffer(): seek and write.  A write that stops early is one for    *)
(* lack of space, unless the device refused the next word.                 *)
(***************************************************************************)
WriteBuffer(f, o, buf) ==
    LET n == Prefix(f, o, buf)
        touched == o .. o + n - 1
    IN  [file |-> [f EXCEPT
            !.cells = [x \in touched \cup DOMAIN f.cells |->
                          IF x \in touched THEN buf[x - o + 1]
                                           ELSE f.cells[x]],
            !.space = @ - Cardinality(touched \ DOMAIN f.cells),
            !.nospace = IF n = Len(buf) THEN @
                        ELSE ~ (o + n \in f.bad /\ o + n < f.limit)],
         ok |-> n = Len(buf)]

\* Variant: what was beyond the flushed part of the buffer is forgotten.
WriteCacheTruncating(cd, f, words) ==
    LET b == cd.buf \o words
        w == WriteBuffer(f, cd.offset, SubSeq(b, 1, CacheSize))
    IN  IF Len(b) < CacheSize
        THEN [cd |-> [cd EXCEPT !.buf = b], file |-> f, ok |-> TRUE]
        ELSE [cd |-> IF w.ok THEN EmptyCache(cd.offset + CacheSize)
                     ELSE [cd EXCEPT !.buf = b],
              file |-> w.file, ok |-> w.ok]

\* Variant: the buffer is written out and not shortened.
WriteCacheGrowing(cd, f, words) ==
    LET b == cd.buf \o words
        w == WriteBuffer(f, cd.offset, SubSeq(b, 1, CacheSize))
    IN  IF Len(b) < CacheSize
        THEN [cd |-> [cd EXCEPT !.buf = b], file |-> f, ok |-> TRUE]
        ELSE [cd |-> [cd EXCEPT !.buf = b], file |-> w.file, ok |-> w.ok]

(***************************************************************************)
(* write_cache(): add words to a cache; a full cache is written out and    *)
(* what is beyond cache_size stays in it.                                  *)
(***************************************************************************)
WriteCache(cd, f, words) ==
    LET b == cd.buf \o words
        w == WriteBuffer(f, cd.offset, SubSeq(b, 1, CacheSize))
    IN  IF Len(b) < CacheSize
        THEN [cd |-> [cd EXCEPT !.buf = b], file |-> f, ok |-> TRUE]
        ELSE [cd |-> IF w.ok THEN [buf |-> SubSeq(b, CacheSize + 1, Len(b)),
                                   offset |-> cd.offset + CacheSize]
                     ELSE [cd EXCEPT !.buf = b],
              file |-> w.file, ok |-> w.ok]

(***************************************************************************)
(* write_cache_bufsz() writes a cache out and empties it; write_cd_buf()   *)
(* only writes it out.                                                     *)
(***************************************************************************)
WriteCacheBufsz(cd, f) ==
    LET w == WriteBuffer(f, cd.offset, cd.buf)
    IN  [cd |-> IF w.ok THEN EmptyCache(cd.offset + Len(cd.buf)) ELSE cd,
         file |-> w.file, ok |-> w.ok]

WriteCdBuf(cd, f) == WriteBuffer(f, cd.offset, cd.buf)

(***************************************************************************)
(* What a reader of the file sees: lseek() to the end, and one word.       *)
(***************************************************************************)
FileEnd(f) ==
    IF DOMAIN f.cells = {} THEN 0
    ELSE 1 + CHOOSE x \in DOMAIN f.cells : \A y \in DOMAIN f.cells : y <= x

WordAt(f, o) == IF o \in DOMAIN f.cells THEN f.cells[o] ELSE Zero
=============================================================================
