----------------------------- MODULE SplitProofs -----------------------------
(***************************************************************************)
(* What writeout_multiple_dumpfiles() reports, that its children are       *)
(* waited for, that setup_splitting() leaves out no page, and that         *)
(* reassemble_dumpfile() puts every page in its place and accepts the      *)
(* files in any order, for any number of files, dump levels, pages and     *)
(* failures.                                                               *)
(***************************************************************************)
EXTENDS SplitDump, DataLemmas

\* Zenon proves every leaf that names no other prover; the limits, in seconds,
\* leave room for a slower machine.
USE ZenonT(30)

Codes == {"0", "1", "2"}

Types ==
    /\ in.files \in Nat \ {0}
    /\ child \in [1 .. in.files -> Codes \cup {"none", "run"}]
    /\ file = [i \in 1 .. in.files |-> file[i]]
    /\ waited \in 0 .. in.files
    /\ ret \in {"TRUE", "FALSE", "NOSPACE", "fork"}

\* The children up to k, and no others, have been forked.
ForkedTo(k) == \A i \in 1 .. in.files : child[i] # "none" <=> i <= k

\* ret tells the worst of the exit codes of the first n children.
Told(n) ==
    /\ \A i \in 1 .. n : child[i] \in Codes
    /\ ret = "FALSE" <=> \E i \in 1 .. n : child[i] = "1"
    /\ ret = "TRUE" <=> \A i \in 1 .. n : child[i] = "0"

Control ==
    /\ pc = "count" => ~Running /\ ret # "fork"
    /\ pc = "fork" => /\ waited = 0 /\ ret # "fork"
                      /\ \E k \in 0 .. in.files - 1 : ForkedTo(k) /\ (k > 0 => ret = "TRUE")
    /\ pc = "wait" => /\ waited < in.files /\ ret # "fork"
                      /\ ForkedTo(in.files) /\ Told(waited)
    /\ pc = "waited" => waited = in.files /\ ret # "fork" /\ Told(in.files)
    /\ pc \notin {"count", "fork", "wait", "waited"} =>
          ret = "fork" \/ (~Running /\ (waited = in.files => Told(in.files)))

\* The file of a child has every page of its range at the current level.
Whole(i) ==
    /\ file[i].level = attempt /\ file[i].status = "complete"
    /\ \A c \in 0 .. (Pages(i) - 1) : c \in DOMAIN file[i].cells

Files ==
    pc \in {"fork", "wait", "waited"} \/ ret = "TRUE" =>
        \A i \in 1 .. in.files : child[i] = "0" => Whole(i)

Inv == Types /\ Control /\ Files

-----------------------------------------------------------------------------
(***************************************************************************)
(* The invariant of the ranges and of reassembling.                        *)
(***************************************************************************)
Early == {"count", "fork", "wait", "waited"}

Invoked ==
    /\ InputsOK /\ in \in Inputs
    /\ attempt \in 1 .. Len(in.dumpable) /\ size \in Nat

\* Consecutive ranges from 0 to max_mapnr.
Partition(r, files, max) ==
    /\ r[1].start = 0 /\ r[files].end = max
    /\ \A i \in 1 .. files : /\ r[i].start \in Nat /\ r[i].end \in Nat
                             /\ r[i].start <= r[i].end
    /\ \A i \in 2 .. files : r[i].start = r[i - 1].end

Ranged ==
    pc \in {"fork", "wait", "waited"} \/ (pc # "count" /\ ret # "FALSE") =>
        Partition(ranges, in.files, in.max)

\* The descriptors of the first k pages, nothing where the next ones would be,
\* and the data of the pages that are stored.
ZeroIn(x, p) == x.dropZero /\ p \in x.zero
DataIn(x, kept, pages, j) ==
    Cardinality(kept) + (IF x.dropZero THEN 1 ELSE 0)
        + Cardinality({i \in 1 .. (j - 1) : ~ZeroIn(x, pages[i])})

CellsIn(cells, x, kept, pages, k) ==
    /\ \A c \in Nat : c < k =>
          /\ c \in DOMAIN cells
          /\ cells[c] = Desc(IF ZeroIn(x, pages[c + 1]) THEN Cardinality(kept)
                             ELSE DataIn(x, kept, pages, c + 1), 1)
    /\ \A c \in Nat : k <= c /\ c < Cardinality(kept) => c \notin DOMAIN cells
    /\ \A j \in 1 .. k : ~ZeroIn(x, pages[j]) =>
          /\ DataIn(x, kept, pages, j) \in DOMAIN cells
          /\ cells[DataIn(x, kept, pages, j)] = Page(pages[j])

\* A file a child has written: the header, and k pages of its range.
Held(f, x, kept, r, k) ==
    /\ f = [status |-> f.status, level |-> f.level, max |-> x.max, bitmap |-> kept,
            start |-> r.start, end |-> r.end, eOff |-> f.eOff, eSize |-> f.eSize, cells |-> f.cells]
    /\ f.eOff \in Nat /\ f.eSize \in Nat /\ (x.erased \cap kept = {} => f.eSize = 0)
    /\ CellsIn(f.cells, x, kept, Ascending(kept \cap Frames(r)), k)

Share(kept, r) == Cardinality(kept \cap Frames(r))

HasFile(f, x, kept, r, code) ==
    \E k \in 0 .. Share(kept, r) : Held(f, x, kept, r, k) /\ (code = "0" => k = Share(kept, r))

Written ==
    /\ pc # "count" => \A i \in 1 .. in.files :
          child[i] \in Codes => HasFile(file[i], in, Kept, ranges[i], child[i])
    /\ pc \notin Early /\ ret \in {"TRUE", "NOSPACE"} => waited = in.files
    /\ pc \notin Early /\ ret = "NOSPACE" => \A i \in 1 .. in.files : file[i].status = "incomplete"

\* The splitting_info names files, with their ranges.
EntryType(files) == [name : 1 .. files, start : Nat, end : Nat, eOff : Nat, eSize : Nat]

Named(s, f, files) ==
    /\ s \in Seq(EntryType(files)) /\ Len(s) >= 2
    /\ \A i \in 1 .. Len(s) : s[i].start = f[s[i].name].start /\ s[i].end = f[s[i].name].end

Turn(n, place) == \E i \in 1 .. n - 1 : \E j \in i .. n : place = << i, j >>

Entries ==
    /\ pc \in {"sort", "header", "pages", "reassembled", "refused"} => ret \in {"TRUE", "NOSPACE"}
    /\ pc \in {"sort", "header", "pages"} => Named(sorted, file, in.files) /\ order[1] \in 1 .. in.files
    /\ pc = "sort" => Turn(Len(sorted), at)
    /\ pc \in {"header", "pages"} => CheckSplittingInfo(sorted, in.max)

HeaderOf(st, kept) == [status |-> st, bitmap |-> kept, eOff |-> 0, eSize |-> 0, cells |-> << >>]

Headed ==
    pc = "pages" => /\ out = HeaderOf(out.status, Kept)
                    /\ ret = "NOSPACE" => out.status = "incomplete"

\* Every descriptor leads to its page, or its page was lost.
Exact(o, x, kept) ==
    LET pages == Ascending(kept)
        Right(k) == LET pd == ReadCell(o, k - 1)
                    IN  IF pd.size = 0 THEN o.status = "incomplete"
                        ELSE ReadCell(o, pd.off) = IF ZeroIn(x, pages[k]) THEN ZeroPage ELSE Page(pages[k])
    IN  o.bitmap = kept /\ \A k \in 1 .. Len(pages) : Right(k)

Rebuilt == pc = "reassembled" => Exact(out, in, Kept)

PagesOf(i) == Ascending(Kept \cap Frames(ranges[i]))
NotedIn(i, whole) == IF whole THEN Ascending(in.erased \cap Kept \cap Frames(ranges[i])) ELSE << >>

-----------------------------------------------------------------------------
\* The loop of setup_splitting() takes each end from the one before.
Follow(ends, table, per, max, needed, files) ==
    ends = [i \in 0 .. (files - 1) |-> IF i = 0 THEN [end |-> 0, cur |-> 0]
                                      ELSE EndOfFile(table, per, max, needed, ends[i - 1])]

\* The recursive function that SplitEnds() chooses exists, so it is that function.
LEMMA EndsIs ==
    ASSUME NEW table, NEW per, NEW max, NEW needed, NEW files \in Nat \ {0}
    PROVE  Follow(SplitEnds(table, per, max, needed, files), table, per, max, needed, files)
  <1> DEFINE Def(f, n) == f = [i \in 0 .. n |-> IF i = 0 THEN [end |-> 0, cur |-> 0]
                                               ELSE EndOfFile(table, per, max, needed, f[i - 1])]
             None == {n \in Nat : ~ \E f : Def(f, n)}
  <1>1. \E f : Def(f, files - 1)
    <2> SUFFICES ASSUME None # {} PROVE FALSE
      <3>1. files - 1 \in Nat
        BY SMTT(20)
      <3> QED BY <3>1
    <2>1. None \subseteq Nat
      OBVIOUS
    <2>2. PICK n \in None : \A m \in None : n <= m
      BY <2>1, LeastNatural
    <2>3. n \in Nat /\ ~ \E f : Def(f, n)
      BY <2>2
    <2>4. n # 0
      <3> DEFINE one == [i \in 0 .. 0 |-> [end |-> 0, cur |-> 0]]
      <3>1. \A i \in 0 .. 0 : i = 0
        BY SMTT(20)
      <3>2. Def(one, 0)
        BY <3>1
      <3> QED BY <2>3, <3>2
    <2>5. n - 1 \in Nat /\ ~ (n <= n - 1)
      BY <2>3, <2>4, SMTT(20)
    <2>6. PICK f : Def(f, n - 1)
      BY <2>2, <2>5
    <2> DEFINE g == [i \in 0 .. n |-> IF i = n THEN EndOfFile(table, per, max, needed, f[n - 1]) ELSE f[i]]
    <2>7. ASSUME NEW i \in 0 .. n
          PROVE  g[i] = IF i = 0 THEN [end |-> 0, cur |-> 0]
                        ELSE EndOfFile(table, per, max, needed, g[i - 1])
      <3>1. CASE i = n
        <4>1. n - 1 \in 0 .. n /\ n - 1 # n /\ i # 0
          BY <2>3, <2>4, <3>1, SMTT(20)
        <4>2. g[i - 1] = f[n - 1]
          BY <3>1, <4>1
        <4>3. g[i] = EndOfFile(table, per, max, needed, f[n - 1])
          BY <3>1
        <4> QED BY <4>1, <4>2, <4>3
      <3>2. CASE i # n
        <4>1. i \in 0 .. n - 1 /\ (i # 0 => i - 1 \in 0 .. n /\ i - 1 # n)
          BY <2>3, <3>2, SMTT(20)
        <4>2. g[i] = f[i] /\ (i # 0 => g[i - 1] = f[i - 1])
          BY <3>2, <4>1
        <4>3. f[i] = IF i = 0 THEN [end |-> 0, cur |-> 0]
                     ELSE EndOfFile(table, per, max, needed, f[i - 1])
          BY <2>6, <4>1
        <4> QED BY <4>2, <4>3
      <3> QED BY <3>1, <3>2
    <2>8. Def(g, n)
      BY <2>7
    <2> QED BY <2>3, <2>8
  <1> DEFINE e == CHOOSE f : Def(f, files - 1)
  <1>2. Def(e, files - 1)
    BY <1>1
  <1>3. SplitEnds(table, per, max, needed, files) = e
    BY DEF SplitEnds
  <1> QED BY <1>2, <1>3 DEF Follow

\* calculate_end_pfn_by_splitblock() takes no more blocks than there are.
LEMMA TakenIs ==
    ASSUME NEW table, NEW cur, NEW needed, Cardinality(DOMAIN table) - cur \in Nat
    PROVE  BlocksTaken(table, cur, needed) \in 0 .. (Cardinality(DOMAIN table) - cur)
  <1> DEFINE most == Cardinality(DOMAIN table) - cur
             Enough(n) == Gathered(table, cur, n) >= needed
             S == {n \in 0 .. most : Enough(n)}
  <1>1. BlocksTaken(table, cur, needed) =
          IF \E n \in 0 .. most : Enough(n)
          THEN CHOOSE n \in 0 .. most : Enough(n) /\ \A m \in 0 .. (n - 1) : ~Enough(m)
          ELSE most
    BY DEF BlocksTaken
  <1>0. most \in Nat
    BY SMTT(20)
  <1> SUFFICES BlocksTaken(table, cur, needed) \in 0 .. most
    BY SMTT(20)
  <1> HIDE DEF most
  <1>2. CASE \E n \in 0 .. most : Enough(n)
    <2>1. S # {} /\ S \subseteq 0 .. most
      BY <1>2
    <2>2. 0 .. most \subseteq Nat
      BY <1>0, SMTT(20)
    <2>3. S \subseteq Nat
      BY <2>1, <2>2
    <2>4. PICK n \in S : \A m \in S : n <= m
      BY <2>1, <2>3, LeastNatural
    <2>5. n \in 0 .. most /\ Enough(n)
      BY <2>4
    <2>6. ASSUME NEW m \in 0 .. (n - 1) PROVE ~Enough(m)
      <3>1. m \in 0 .. most /\ ~(n <= m)
        BY <1>0, <2>5, SMTT(20)
      <3> QED BY <2>4, <3>1
    <2>7. \E x \in 0 .. most : Enough(x) /\ \A m \in 0 .. (x - 1) : ~Enough(m)
      BY <2>5, <2>6
    <2> QED BY <1>1, <1>2, <2>7
  <1>3. CASE ~ \E n \in 0 .. most : Enough(n)
    <2>1. most \in 0 .. most
      BY <1>0, SMTT(20)
    <2> QED BY <1>1, <1>3, <2>1
  <1> QED BY <1>2, <1>3

\* A place of the loop of setup_splitting(): an end, and the next block.
Cut(v, per, max, num) ==
    /\ v.cur \in 0 .. num /\ v.end \in 0 .. max
    /\ v.end = max \/ v.end = v.cur * per

\* An end is never before the one before it, nor beyond max_mapnr.
LEMMA EndIs ==
    ASSUME NEW num \in Nat, NEW table, DOMAIN table = 0 .. num - 1,
           NEW per \in Nat, NEW max \in Nat, NEW needed, NEW v, Cut(v, per, max, num)
    PROVE  /\ Cut(EndOfFile(table, per, max, needed, v), per, max, num)
           /\ v.end <= EndOfFile(table, per, max, needed, v).end
  <1>0. v.cur \in 0 .. num /\ v.end \in 0 .. max /\ (v.end = max \/ v.end = v.cur * per)
    BY DEF Cut
  <1> DEFINE w == EndOfFile(table, per, max, needed, v)
             taken == BlocksTaken(table, v.cur, needed)
  <1>1. CASE v.end >= max
    <2>1. w = [end |-> max, cur |-> v.cur]
      BY <1>1 DEF EndOfFile
    <2>2. w.end = max /\ w.cur = v.cur
      BY <2>1, SMTT(20)
    <2>3. max \in 0 .. max /\ v.end <= max
      BY <1>0, SMTT(20)
    <2> QED BY <1>0, <2>2, <2>3 DEF Cut
  <1>2. CASE ~(v.end >= max)
    <2>1. w = [end |-> MinOf((v.cur + taken) * per, max), cur |-> v.cur + taken]
      BY <1>2 DEF EndOfFile
    <2> HIDE DEF w, taken
    <2>2. w.end = MinOf((v.cur + taken) * per, max) /\ w.cur = v.cur + taken
      BY <2>1, SMTT(20)
    <2>3. Cardinality(DOMAIN table) = num
      <3>1. 0 \in Int /\ num - 1 \in Int
        BY SMTT(20)
      <3>2. Cardinality(0 .. num - 1) = IF 0 > num - 1 THEN 0 ELSE num - 1 - 0 + 1
        BY <3>1, FS_Interval
      <3>3. Cardinality(0 .. num - 1) = num
        BY <3>2, SMTT(20)
      <3> QED BY <3>3
    <2>4. num - v.cur \in Nat
      BY <1>0, SMTT(20)
    <2>5. taken \in 0 .. num - v.cur
      BY <2>3, <2>4, TakenIs DEF taken
    <2>6. v.cur + taken \in 0 .. num /\ v.cur \in Nat /\ taken \in Nat
      BY <1>0, <2>5, SMTT(20)
    <2>7. v.end = v.cur * per /\ v.end <= max
      BY <1>0, <1>2, SMTT(20)
    <2>8. v.cur * per <= (v.cur + taken) * per /\ (v.cur + taken) * per \in Nat
      BY <2>6, SMTT(20)
    <2>9. /\ w.end \in 0 .. max /\ (w.end = max \/ w.end = (v.cur + taken) * per) /\ v.end <= w.end
      <3> DEFINE c == (v.cur + taken) * per
                 b == v.cur * per
      <3> HIDE DEF c, b
      <3>1. c \in Nat /\ b <= c /\ v.end = b /\ v.end \in 0 .. max
        BY <1>0, <2>7, <2>8 DEF b, c
      <3>2. w.end = IF c < max THEN c ELSE max
        BY <2>2 DEF c, MinOf
      <3>3. w.end \in 0 .. max /\ (w.end = max \/ w.end = c) /\ v.end <= w.end
        BY <3>1, <3>2, SMTT(20)
      <3> QED BY <3>3 DEF c
    <2> QED BY <2>2, <2>6, <2>9 DEF Cut, w
  <1> QED BY <1>1, <1>2

\* setup_splitting() leaves no frame out and none in two files.
LEMMA SplittingIs ==
    ASSUME NEW dumpable, NEW max \in Nat, NEW files \in Nat \ {0}, NEW per \in Nat \ {0}
    PROVE  Partition(SetupSplitting(dumpable, max, files, per), files, max)
  <1> DEFINE num == Divideup(max, per)
             table == Table(dumpable, max, per)
             needed == Cardinality(dumpable) \div files
             ends == SplitEnds(table, per, max, needed, files)
             r == SetupSplitting(dumpable, max, files, per)
  <1>1. num \in Nat
    BY SMTT(20) DEF Divideup
  <1>2. DOMAIN table = 0 .. num - 1
    BY DEF Table
  <1>3. ends = [i \in 0 .. (files - 1) |-> IF i = 0 THEN [end |-> 0, cur |-> 0]
                                          ELSE EndOfFile(table, per, max, needed, ends[i - 1])]
    <2>1. Follow(ends, table, per, max, needed, files)
      BY EndsIs
    <2> HIDE DEF ends, table, needed
    <2> QED BY <2>1 DEF Follow
  <1>4. r = [i \in 1 .. files |-> [start |-> ends[i - 1].end,
                                  end |-> IF i = files THEN max ELSE ends[i].end]]
    BY DEF SetupSplitting
  <1> HIDE DEF num, table, needed, ends, r
  <1>5. 0 \in 0 .. files - 1
    BY SMTT(20)
  <1>6. ends[0] = [end |-> 0, cur |-> 0]
    BY <1>3, <1>5
  <1>7. Cut(ends[0], per, max, num)
    <2>1. ends[0].end = 0 /\ ends[0].cur = 0
      BY <1>6, SMTT(20)
    <2>2. 0 \in 0 .. num /\ 0 \in 0 .. max /\ 0 = 0 * per
      BY <1>1, SMTT(20)
    <2> QED BY <2>1, <2>2 DEF Cut
  <1>8. ASSUME NEW i \in 1 .. files - 1, Cut(ends[i - 1], per, max, num)
        PROVE  Cut(ends[i], per, max, num) /\ ends[i - 1].end <= ends[i].end
    <2>1. i \in 0 .. files - 1 /\ i # 0
      BY SMTT(20)
    <2>2. ends[i] = EndOfFile(table, per, max, needed, ends[i - 1])
      BY <1>3, <2>1
    <2> QED BY <1>1, <1>2, <1>8, <2>2, EndIs
  <1>9. \A i \in 0 .. files - 1 : Cut(ends[i], per, max, num)
    <2> DEFINE Bad == {i \in 0 .. files - 1 : ~Cut(ends[i], per, max, num)}
    <2> SUFFICES ASSUME Bad # {} PROVE FALSE
      OBVIOUS
    <2>1. Bad \subseteq 0 .. files - 1 /\ 0 .. files - 1 \subseteq Nat
      BY SMTT(20)
    <2>2. Bad \subseteq Nat
      BY <2>1
    <2>3. PICK n \in Bad : \A m \in Bad : n <= m
      BY <2>2, LeastNatural
    <2>4. n \in 0 .. files - 1 /\ n # 0
      BY <1>7, <2>3
    <2>5. n \in 1 .. files - 1 /\ n - 1 \in 0 .. files - 1 /\ ~(n <= n - 1)
      BY <2>4, SMTT(20)
    <2>6. Cut(ends[n - 1], per, max, num)
      BY <2>3, <2>5
    <2> QED BY <1>8, <2>3, <2>5, <2>6
  <1>10. \A i \in 0 .. files - 1 : ends[i].end \in 0 .. max
    BY <1>9 DEF Cut
  <1>11. \A i \in 1 .. files - 1 : ends[i - 1].end <= ends[i].end
    <2> TAKE i \in 1 .. files - 1
    <2>1. i - 1 \in 0 .. files - 1
      BY SMTT(20)
    <2> QED BY <1>8, <1>9, <2>1
  <1>12. ASSUME NEW i \in 1 .. files
         PROVE  /\ r[i].start = ends[i - 1].end
                /\ r[i].end = IF i = files THEN max ELSE ends[i].end
    BY <1>4
  <1>13. r[1].start = 0 /\ r[files].end = max
    <2>1. 1 \in 1 .. files /\ files \in 1 .. files /\ 1 - 1 = 0
      BY SMTT(20)
    <2>2. r[1].start = ends[0].end
      BY <1>12, <2>1
    <2>3. ends[0].end = 0
      BY <1>6, SMTT(20)
    <2> QED BY <1>12, <2>1, <2>2, <2>3
  <1>14. ASSUME NEW i \in 1 .. files
         PROVE  r[i].start \in Nat /\ r[i].end \in Nat /\ r[i].start <= r[i].end
    <2>1. i - 1 \in 0 .. files - 1
      BY SMTT(20)
    <2>2. r[i].start \in 0 .. max
      BY <1>10, <1>12, <2>1
    <2>3. CASE i = files
      BY <1>12, <2>2, <2>3, SMTT(20)
    <2>4. CASE i # files
      <3>1. i \in 1 .. files - 1 /\ i \in 0 .. files - 1
        BY <2>4, SMTT(20)
      <3>2. r[i].start <= r[i].end /\ r[i].end \in 0 .. max
        BY <1>10, <1>11, <1>12, <2>4, <3>1
      <3> QED BY <2>2, <3>2, SMTT(20)
    <2> QED BY <2>3, <2>4
  <1>15. ASSUME NEW i \in 2 .. files
         PROVE  r[i].start = r[i - 1].end
    <2>1. i \in 1 .. files /\ i - 1 \in 1 .. files /\ i - 1 # files
      BY SMTT(20)
    <2> QED BY <1>12, <2>1
  <1> QED BY <1>13, <1>14, <1>15 DEF Partition, r

-----------------------------------------------------------------------------
\* A file written with k pages has the header of its level and k descriptors.
LEMMA WrittenHeader ==
    ASSUME NEW r, NEW k, NEW whole
    PROVE  /\ WrittenFile(r, k, whole).level = attempt
           /\ WrittenFile(r, k, whole).status = "complete"
           /\ 0 .. (k - 1) \subseteq DOMAIN WrittenFile(r, k, whole).cells
  <1>1. ASSUME NEW e, NEW n, NEW cells
        PROVE  /\ KdumpFile(r, e, n, cells).level = attempt
               /\ KdumpFile(r, e, n, cells).status = "complete"
               /\ KdumpFile(r, e, n, cells).cells = cells
    BY DEF KdumpFile
  <1>2. ASSUME NEW pages, NEW noted PROVE 0 .. (k - 1) \subseteq DOMAIN FileCells(pages, k, noted)
    BY SMTT(20) DEF FileCells
  <1> QED BY <1>1, <1>2, SMTT(20) DEF WrittenFile

-----------------------------------------------------------------------------
\* When the first k children are forked, the next one is child k + 1.
LEMMA NextForked ==
    ASSUME Types, NEW k \in 0 .. in.files - 1, ForkedTo(k)
    PROVE  Forked = k
  <1>1. {i \in 1 .. in.files : child[i] # "none"} = 1 .. k
    BY SMTT(20) DEF Types, ForkedTo
  <1>2. Cardinality(1 .. k) = k
    BY FS_Interval, SMTT(20)
  <1> QED BY <1>1, <1>2 DEF Forked

\* Nothing has been forked when create_dumpfile() begins.
LEMMA InitInv ==
    ASSUME \A x \in Inputs : x.files \in Nat \ {0}, Init
    PROVE  Inv
  <1>1. in.files \in Nat \ {0}
    BY DEF Init
  <1>2. Types
    BY <1>1, SMTT(20) DEF Init, Types, Codes
  <1>3. Control
    BY <1>1 DEF Init, Control, Running
  <1>4. Files
    BY <1>1 DEF Init, Files
  <1> QED BY <1>2, <1>3, <1>4, SMTT(20) DEF Inv

\* A step that leaves what the invariant reads alone keeps it.
LEMMA Untouched ==
    ASSUME Inv, UNCHANGED <<in, attempt, ranges, child, file, waited, ret>>,
           pc \notin {"count", "fork", "wait", "waited"},
           pc' \notin {"count", "fork", "wait", "waited"}
    PROVE  Inv'
  <1>1. Types'
    BY DEF Inv, Types
  <1>2. Control'
    BY DEF Inv, Control, Running, Told
  <1>3. Files'
    BY DEF Inv, Files, Whole, Pages, Kept, Frames
  <1> QED BY <1>1, <1>2, <1>3 DEF Inv

\* A new attempt counts the pages with no child left.
LEMMA CountInv == Inv /\ CountPages => Inv'
  <1> SUFFICES ASSUME Inv, CountPages PROVE Inv'
    OBVIOUS
  <1> USE DEF Inv
  <1>1. /\ in' = in /\ file' = file /\ waited' = 0
        /\ child' = [i \in 1 .. in.files |-> "none"]
        /\ \/ pc' = "fork" /\ ret' = ret
           \/ pc' = "returned" /\ ret' = "FALSE"
    BY DEF CountPages
  <1>2. ret # "fork"
    BY DEF CountPages, Control
  <1>3. Types'
    BY <1>1, SMTT(20) DEF Types
  <1>4. Control'
    <2>1. ~Running'
      BY <1>1 DEF Running
    <2>2. ForkedTo(0)'
      BY <1>1, SMTT(20) DEF ForkedTo, Types
    <2>3. 0 \in 0 .. in.files - 1 /\ in.files # 0
      BY SMTT(20) DEF Types
    <2> QED BY <1>1, <1>2, <2>1, <2>2, <2>3, SMTT(20) DEF Control
  <1>5. Files'
    BY <1>1 DEF Files, Types
  <1> QED BY <1>3, <1>4, <1>5

\* The children are forked one after the other.
LEMMA ForkInv == Inv /\ Fork => Inv'
  <1> SUFFICES ASSUME Inv, Fork PROVE Inv'
    OBVIOUS
  <1> USE DEF Inv
  <1>1. PICK k \in 0 .. in.files - 1 : ForkedTo(k)
    BY DEF Fork, Control
  <1>2. Forked = k
    BY <1>1, NextForked
  <1>3. /\ UNCHANGED <<in, attempt, ranges, file, waited>>
        /\ child' = [child EXCEPT ![k + 1] = "run"]
        /\ pc' = IF k + 1 = in.files THEN "wait" ELSE "fork"
        /\ ret' = "TRUE" /\ pc = "fork" /\ waited = 0
    BY <1>2 DEF Fork, Control
  <1>4. /\ in.files \in Nat \ {0} /\ k + 1 \in 1 .. in.files
        /\ \A i \in 1 .. in.files : child'[i] = IF i = k + 1 THEN "run" ELSE child[i]
    BY <1>3, SMTT(20) DEF Types
  <1>5. Types'
    BY <1>3, <1>4 DEF Types
  <1>6. ForkedTo(k + 1)'
    BY <1>1, <1>3, <1>4, SMTT(20) DEF ForkedTo
  <1>7. Control'
    <2>1. CASE k + 1 = in.files
      <3>1. Told(0)'
        BY <1>3, SMTT(20) DEF Told
      <3> QED BY <1>3, <1>4, <1>6, <2>1, <3>1, SMTT(20) DEF Control
    <2>2. CASE k + 1 # in.files
      BY <1>3, <1>4, <1>6, <2>2, SMTT(20) DEF Control
    <2> QED BY <2>1, <2>2
  <1>8. Files'
    <2>1. ASSUME NEW i \in 1 .. in.files, child'[i] = "0" PROVE Whole(i)'
      <3>1. child[i] = "0"
        BY <1>4, <2>1
      <3>2. Whole(i)
        BY <1>3, <3>1 DEF Files
      <3> QED BY <1>3, <3>2 DEF Whole, Pages, Kept, Frames
    <2> QED BY <1>3, <2>1 DEF Files
  <1> QED BY <1>5, <1>7, <1>8, SMTT(20)

\* A failing fork() ends the attempt.
LEMMA ForkFailsInv == Inv /\ ForkFails => Inv'
  <1> SUFFICES ASSUME Inv, ForkFails PROVE Inv'
    OBVIOUS
  <1>1. Types'
    BY DEF Inv, ForkFails, Types
  <1>2. Control' /\ Files'
    BY DEF ForkFails, Control, Files
  <1> QED BY <1>1, <1>2 DEF Inv

\* A child that exits leaves a file, whole if it reports success.
LEMMA ChildInv ==
    ASSUME Inv, NEW i \in 1 .. in.files, NEW k, NEW code \in Codes, ChildExits(i, k, code)
    PROVE  Inv'
  <1> USE DEF Inv
  <1>1. /\ UNCHANGED <<in, pc, attempt, ranges, waited, ret>>
        /\ child[i] = "run" /\ code = "0" => k = Pages(i)
        /\ child' = [child EXCEPT ![i] = code]
        /\ file' = [file EXCEPT ![i] = WrittenFile(ranges[i], k, code = "0")]
    BY DEF ChildExits
  <1>2. /\ in.files \in Nat \ {0} /\ Running /\ child[i] = "run"
        /\ \A j \in 1 .. in.files : child'[j] = IF j = i THEN code ELSE child[j]
        /\ \A j \in 1 .. in.files :
              file'[j] = IF j = i THEN WrittenFile(ranges[i], k, code = "0") ELSE file[j]
    BY <1>1 DEF Types, Running, ChildExits
  <1>3. Types'
    BY <1>1, <1>2 DEF Types
  <1>4. \A n \in 0 .. in.files : ForkedTo(n) => ForkedTo(n)'
    BY <1>1, <1>2 DEF ForkedTo, Codes
  <1>5. \A n \in 0 .. in.files : Told(n) => Told(n)'
    BY <1>1, <1>2, SMTT(20) DEF Told, Codes
  <1>6. ~Told(in.files)
    BY <1>2 DEF Told, Codes
  <1>7. Control'
    <2>1. CASE pc = "fork"
      BY <1>1, <1>2, <1>4, <2>1, SMTT(20) DEF Control
    <2>2. CASE pc = "wait"
      BY <1>1, <1>2, <1>4, <1>5, <2>2, SMTT(20) DEF Control, Types
    <2>3. CASE pc \notin {"fork", "wait"}
      BY <1>1, <1>2, <1>6, <2>3, SMTT(20) DEF Control
    <2> QED BY <2>1, <2>2, <2>3
  <1>8. Files'
    <2>1. ASSUME pc \in {"fork", "wait", "waited"} \/ ret = "TRUE",
                 NEW j \in 1 .. in.files, child'[j] = "0"
          PROVE  Whole(j)'
      <3>1. Pages(j)' = Pages(j)
        BY <1>1 DEF Pages, Kept, Frames
      <3>2. CASE j = i
        BY <1>1, <1>2, <2>1, <3>1, <3>2, WrittenHeader, SMTT(20) DEF Whole
      <3>3. CASE j # i
        BY <1>1, <1>2, <2>1, <3>1, <3>3, SMTT(20) DEF Files, Whole
      <3> QED BY <3>2, <3>3
    <2> QED BY <1>1, <2>1 DEF Files
  <1> QED BY <1>3, <1>7, <1>8

\* Each exit code waited for is put into the status.
LEMMA WaitInv == Inv /\ WaitChild => Inv'
  <1> SUFFICES ASSUME Inv, WaitChild PROVE Inv'
    OBVIOUS
  <1> USE DEF Inv
  <1>0. PICK n \in Nat : n = waited
    BY SMTT(20) DEF Types
  <1>1. /\ UNCHANGED <<in, attempt, ranges, child, file>> /\ pc = "wait"
        /\ waited' = n + 1 /\ child[n + 1] \in Codes
        /\ ret' = StatusAfter(ret, child[n + 1])
        /\ pc' = IF n + 1 = in.files THEN "waited" ELSE "wait"
    BY <1>0 DEF WaitChild, Codes
  <1>2. in.files \in Nat \ {0} /\ n \in 0 .. in.files - 1 /\ n + 1 \in 1 .. in.files
    BY <1>0, <1>1, SMTT(20) DEF Types, Control
  <1>3. ret \in {"TRUE", "FALSE", "NOSPACE"} /\ Told(n) /\ ForkedTo(in.files)
    BY <1>0, <1>1, SMTT(20) DEF Types, Control
  <1>4. Types'
    BY <1>1, <1>2, SMTT(20) DEF Types, StatusAfter
  <1>5. Told(n + 1)'
    <2>1. \A i \in 1 .. n + 1 : i \in 1 .. n \/ i = n + 1
      BY <1>2, SMTT(20)
    <2> QED BY <1>1, <1>2, <1>3, <2>1, SMTT(20) DEF Told, StatusAfter, Codes
  <1>6. ForkedTo(in.files)' /\ ret' # "fork"
    BY <1>1, <1>3 DEF ForkedTo, StatusAfter
  <1>7. Control'
    <2>1. CASE n + 1 = in.files
      BY <1>1, <1>5, <1>6, <2>1, SMTT(20) DEF Control
    <2>2. CASE n + 1 # in.files
      BY <1>1, <1>2, <1>5, <1>6, <2>2, SMTT(20) DEF Control
    <2> QED BY <2>1, <2>2
  <1>8. Files'
    BY <1>1 DEF Files, Whole, Pages, Kept, Frames
  <1> QED BY <1>4, <1>7, <1>8

\* The parent retries, or returns, only after all its children.
LEMMA FinishInv == Inv /\ Finish => Inv'
  <1> SUFFICES ASSUME Inv, Finish PROVE Inv'
    OBVIOUS
  <1> USE DEF Inv
  <1>1. /\ UNCHANGED <<in, ranges, child, waited, ret>> /\ pc = "waited"
        /\ pc' \in {"count", "returned"}
        /\ ret # "NOSPACE" => UNCHANGED <<attempt, file>>
        /\ file' = DeleteDumpfile \/ file' = MarkIncomplete \/ file' = file
    BY DEF Finish
  <1>2. waited = in.files /\ Told(in.files) /\ ret # "fork"
    BY <1>1 DEF Control
  <1>3. ~Running
    BY <1>2 DEF Told, Running, Codes
  <1>4. Types'
    BY <1>1 DEF Types, DeleteDumpfile, MarkIncomplete
  <1>5. Control'
    <2>1. ~Running' /\ Told(in.files)'
      BY <1>1, <1>2, <1>3 DEF Running, Told
    <2> QED BY <1>1, <1>2, <2>1 DEF Control
  <1>6. Files'
    <2>1. CASE ret = "TRUE"
      BY <1>1, <2>1 DEF Files, Whole, Pages, Kept, Frames
    <2>2. CASE ret # "TRUE"
      BY <1>1, <2>2 DEF Files
    <2> QED BY <2>1, <2>2
  <1> QED BY <1>4, <1>5, <1>6

\* Every step keeps the invariant of the status.
LEMMA NextInv == Inv /\ [Next]_vars => Inv'
  <1> SUFFICES ASSUME Inv, [Next]_vars PROVE Inv'
    OBVIOUS
  <1>1. CASE ChildStep
    BY <1>1, ChildInv DEF ChildStep, Codes
  <1>2. CASE Reassembling
    <2>1. /\ UNCHANGED <<in, attempt, ranges, child, file, waited, ret>>
          /\ pc \notin {"count", "fork", "wait", "waited"}
          /\ pc' \notin {"count", "fork", "wait", "waited"}
      BY <1>2 DEF Reassembling, StoreSplittingInfo, SortSplittingInfo,
         ReassembleHeader, ReassemblePages
    <2> QED BY <2>1, Untouched
  <1>3. CASE UNCHANGED vars
    <2>1. UNCHANGED <<in, pc, attempt, ranges, child, file, waited, ret>>
      BY <1>3 DEF vars
    <2>2. Types' /\ Control'
      BY <2>1 DEF Inv, Types, Control, ForkedTo, Told, Running
    <2>3. Files'
      BY <2>1 DEF Inv, Files, Whole, Pages, Kept, Frames
    <2> QED BY <2>2, <2>3 DEF Inv
  <1> QED BY <1>1, <1>2, <1>3, CountInv, ForkInv, ForkFailsInv, WaitInv,
             FinishInv, SMTT(20) DEF Next, Creating, Stop

-----------------------------------------------------------------------------
\* No child of writeout_multiple_dumpfiles() still runs when a retry deletes the
\* files or when the parent returns, unless fork() failed, for any number of
\* files and of dump levels.
THEOREM WaitsForChildren ==
    ASSUME \A x \in Inputs : x.files \in Nat \ {0}
    PROVE  Spec => []ChildrenReaped
  <1>1. Inv => ChildrenReaped
    BY DEF Inv, Control, ChildrenReaped, Told, Running, Codes
  <1>2. Init => Inv
    BY InitInv
  <1> QED BY <1>1, <1>2, NextInv, PTL DEF Spec

\* What writeout_multiple_dumpfiles() returns is the worst of what its children
\* report, and TRUE only if every file has all the pages of its range.
THEOREM ReportsHonestly ==
    ASSUME \A x \in Inputs : x.files \in Nat \ {0}
    PROVE  Spec => []StatusHonest
  <1>1. Inv => StatusHonest
    BY DEF Inv, Types, Control, Files, StatusHonest, Told, Whole
  <1>2. Init => Inv
    BY InitInv
  <1> QED BY <1>1, <1>2, NextInv, PTL DEF Spec

-----------------------------------------------------------------------------
\* The pages of an attempt.
LEMMA InvokedIs ==
    ASSUME Invoked
    PROVE  /\ in.files \in Nat \ {0} /\ in.max \in Nat /\ in.option \in Nat
           /\ Kept \subseteq 0 .. (in.max - 1) /\ Kept \subseteq Nat
           /\ IsFiniteSet(Kept) /\ Cardinality(Kept) \in Nat
           /\ Len(in.dumpable) \in Nat
  <1>1. InputOK(in)
    BY DEF Invoked, InputsOK
  <1>2. /\ in.files \in Nat \ {0} /\ in.max \in Nat /\ in.option \in Nat
        /\ in.dumpable \in Seq(SUBSET (0 .. (in.max - 1)))
    BY <1>1 DEF InputOK
  <1>3. attempt \in 1 .. Len(in.dumpable)
    BY DEF Invoked
  <1>4. Kept \subseteq 0 .. (in.max - 1)
    <2>1. in.dumpable[attempt] \in SUBSET (0 .. (in.max - 1))
      BY <1>2, <1>3, SeqElement
    <2> QED BY <2>1 DEF Kept
  <1>5. 0 .. (in.max - 1) \subseteq Nat /\ 0 \in Int /\ in.max - 1 \in Int
    BY <1>2, SMTT(20)
  <1>6. IsFiniteSet(0 .. (in.max - 1))
    BY <1>5, FS_Interval
  <1>7. IsFiniteSet(Kept)
    BY <1>4, <1>6, FS_Subset
  <1>8. Cardinality(Kept) \in Nat
    BY <1>7, FS_CardinalityType
  <1>9. Len(in.dumpable) \in Nat
    BY <1>2, SeqLen
  <1> QED BY <1>2, <1>4, <1>5, <1>7, <1>8, <1>9

\* A size that is a multiple of the page size has a page.
LEMMA WholePages ==
    ASSUME NEW x \in Nat \ {0}, NEW P \in Nat \ {0}, x % P = 0 \/ x >= P
    PROVE  x \div P \in Nat \ {0}
  <1>1. x \div P \in Nat /\ x = (x \div P) * P + (x % P) /\ x % P \in 0 .. P - 1
    BY SMTT(20)
  <1> DEFINE q == x \div P
             m == x % P
  <1>2. q \in Nat /\ m \in 0 .. P - 1 /\ x = q * P + m /\ (m = 0 \/ x >= P)
    BY <1>1
  <1> HIDE DEF q, m
  <1>3. q # 0
    BY <1>2, SMTT(20)
  <1> QED BY <1>2, <1>3 DEF q

\* check_splitblock_size() and setup_splitting().
LEMMA RangesCounted ==
    ASSUME Invoked, CountPages
    PROVE  Invoked' /\ Ranged'
  <1>0. /\ Kilo \in Nat \ {0} /\ PageSize \in Nat \ {0} /\ size \in Nat
        /\ DefaultSize \in Nat /\ DefaultSize >= PageSize
        /\ InputsOK /\ in \in Inputs /\ attempt \in 1 .. Len(in.dumpable)
    BY DEF Invoked, InputsOK
  <1>1. /\ in' = in /\ attempt' = attempt /\ size' = ScaledSize
        /\ \/ /\ size = 0 \/ ScaledSize % PageSize = 0
              /\ ranges' = SetupSplitting(Kept, in.max, in.files, PerBlock(ScaledSize))
              /\ pc' = "fork"
           \/ pc' = "returned" /\ ret' = "FALSE"
    BY DEF CountPages
  <1>2. ScaledSize \in Nat \ {0} /\ (size = 0 => ScaledSize >= PageSize)
    <2>1. CASE size = 0
      <3>1. ScaledSize = DefaultSize
        BY <2>1 DEF ScaledSize
      <3> QED BY <1>0, <3>1, SMTT(20)
    <2>2. CASE size # 0
      <3>1. ScaledSize = size * Kilo
        BY <2>2 DEF ScaledSize
      <3>2. size * Kilo \in Nat \ {0}
        BY <1>0, <2>2, SMTT(20)
      <3> QED BY <2>2, <3>1, <3>2
    <2> QED BY <2>1, <2>2
  <1>3. Invoked'
    BY <1>0, <1>1, <1>2 DEF Invoked
  <1>4. CASE pc' = "fork"
    <2>1. /\ size = 0 \/ ScaledSize % PageSize = 0
          /\ ranges' = SetupSplitting(Kept, in.max, in.files, PerBlock(ScaledSize))
      BY <1>1, <1>4
    <2>2. PerBlock(ScaledSize) \in Nat \ {0}
      BY <1>0, <1>2, <2>1, WholePages DEF PerBlock
    <2>3. in.files \in Nat \ {0} /\ in.max \in Nat
      BY InvokedIs
    <2>4. Partition(ranges', in.files, in.max)
      BY <2>1, <2>2, <2>3, SplittingIs
    <2> QED BY <1>1, <1>3, <2>4 DEF Ranged
  <1>5. CASE pc' = "returned" /\ ret' = "FALSE"
    BY <1>3, <1>5 DEF Ranged
  <1> QED BY <1>1, <1>4, <1>5

\* The other steps keep the ranges.
LEMMA RangesKept ==
    ASSUME Inv, Invoked, Ranged, [Next]_vars
    PROVE  Invoked' /\ Ranged'
  <1>1. CASE CountPages
    BY <1>1, RangesCounted
  <1>2. CASE Finish
    <2>1. /\ in' = in /\ size' = size /\ ranges' = ranges /\ ret' = ret /\ pc = "waited"
          /\ \/ attempt < Len(in.dumpable) /\ attempt' = attempt + 1 /\ pc' = "count"
             \/ attempt' = attempt /\ pc' = "returned"
      BY <1>2 DEF Finish
    <2>2. attempt' \in 1 .. Len(in.dumpable)
      <3>1. attempt \in 1 .. Len(in.dumpable) /\ Len(in.dumpable) \in Nat
        BY InvokedIs DEF Invoked
      <3> QED BY <2>1, <3>1, SMTT(20)
    <2> QED BY <2>1, <2>2 DEF Invoked, Ranged
  <1>3. ASSUME in' = in, attempt' = attempt, size' = size, ranges' = ranges,
               pc \in {"fork", "wait", "waited"}
        PROVE  Invoked' /\ Ranged'
    BY <1>3 DEF Invoked, Ranged
  <1>4. CASE Fork \/ ForkFails \/ WaitChild
    BY <1>3, <1>4 DEF Fork, ForkFails, WaitChild
  <1>5. CASE ChildStep
    <2>1. UNCHANGED << in, pc, attempt, size, ranges, ret >>
      BY <1>5 DEF ChildStep, ChildExits
    <2> QED BY <2>1 DEF Invoked, Ranged
  <1>6. CASE Reassembling
    <2>1. /\ UNCHANGED << in, attempt, size, ranges, ret >>
          /\ pc \notin {"count", "fork", "wait", "waited"}
          /\ pc' \notin {"count", "fork", "wait", "waited"}
      BY <1>6 DEF Reassembling, StoreSplittingInfo, SortSplittingInfo,
         ReassembleHeader, ReassemblePages
    <2> QED BY <2>1 DEF Invoked, Ranged
  <1>7. CASE UNCHANGED vars
    BY <1>7 DEF vars, Invoked, Ranged
  <1> QED BY <1>1, <1>2, <1>4, <1>5, <1>6, <1>7 DEF Next, Creating, Stop

RangeInv == Inv /\ Invoked /\ Ranged

\* create_dumpfile() begins without ranges.
LEMMA RangeInit ==
    ASSUME InputsOK, Init
    PROVE  RangeInv
  <1>1. \A x \in Inputs : x.files \in Nat \ {0}
    BY DEF InputsOK, InputOK
  <1>2. Inv
    BY <1>1, InitInv
  <1>3. in \in Inputs /\ pc = "count" /\ attempt = 1 /\ size = in.option
    BY DEF Init
  <1>4. InputOK(in)
    BY <1>3 DEF InputsOK
  <1>5. in.option \in Nat /\ 1 \in 1 .. Len(in.dumpable)
    <2>1. in.dumpable \in Seq(SUBSET (0 .. (in.max - 1))) /\ in.dumpable # << >> /\ in.option \in Nat
      BY <1>4 DEF InputOK
    <2> QED BY <2>1, SMTT(20)
  <1>6. Invoked /\ Ranged
    BY <1>3, <1>5 DEF Invoked, Ranged
  <1> QED BY <1>2, <1>6 DEF RangeInv

\* The ranges that setup_splitting() gives to the children begin at page 0, end
\* at max_mapnr and adjoin, for any pages, number of files and splitblock size.
THEOREM RangesPartition ==
    ASSUME InputsOK
    PROVE  Spec => []FilesPartition
  <1>1. Init => RangeInv
    BY RangeInit, SMTT(20)
  <1>2. RangeInv /\ [Next]_vars => RangeInv'
    BY RangesKept, NextInv DEF RangeInv
  <1>3. RangeInv => FilesPartition
    BY DEF RangeInv, Ranged, Partition, FilesPartition
  <1> QED BY <1>1, <1>2, <1>3, PTL DEF Spec

-----------------------------------------------------------------------------
(***************************************************************************)
(* Pages in ascending order.                                               *)
(***************************************************************************)
Rank(S, p) == Cardinality({q \in S : q < p})

\* The rank of a page among finitely many is a number below their count.
LEMMA RankType ==
    ASSUME NEW S, S \subseteq Nat, IsFiniteSet(S), NEW p \in Nat
    PROVE  /\ IsFiniteSet({q \in S : q < p})
           /\ Rank(S, p) \in Nat /\ Rank(S, p) <= Cardinality(S)
           /\ p \in S => Rank(S, p) \in 0 .. Cardinality(S) - 1
  <1> DEFINE B == {q \in S : q < p}
  <1>1. B \in SUBSET S
    OBVIOUS
  <1>2. /\ IsFiniteSet(B) /\ Cardinality(B) <= Cardinality(S)
        /\ Cardinality(S) = Cardinality(B) => S = B
    BY <1>1, FS_Subset
  <1>3. Cardinality(B) \in Nat /\ Cardinality(S) \in Nat
    BY <1>2, FS_CardinalityType
  <1>4. p \in S => S # B
    <2>1. ~(p < p)
      BY SMTT(20)
    <2> QED BY <2>1
  <1> DEFINE b == Cardinality(B)
             n == Cardinality(S)
  <1>5. b \in Nat /\ n \in Nat /\ b <= n /\ (p \in S => n # b)
    BY <1>2, <1>3, <1>4
  <1>6. Rank(S, p) = b
    BY DEF Rank
  <1> HIDE DEF b, n, B
  <1>7. p \in S => b \in 0 .. n - 1
    BY <1>5, SMTT(20)
  <1> QED BY <1>2, <1>5, <1>6, <1>7 DEF B, n

\* A later page has a larger rank.
LEMMA RankGrows ==
    ASSUME NEW S, S \subseteq Nat, IsFiniteSet(S), NEW p \in S, NEW r \in Nat, p < r
    PROVE  Rank(S, p) < Rank(S, r)
  <1> DEFINE B == {q \in S : q < p}
             C == {q \in S : q < r}
  <1>1. p \in Nat
    OBVIOUS
  <1>2. IsFiniteSet(B) /\ IsFiniteSet(C) /\ Rank(S, p) \in Nat /\ Rank(S, r) \in Nat
    BY <1>1, RankType
  <1>3. B \in SUBSET C
    <2>1. ASSUME NEW q \in S, q < p PROVE q < r
      <3>1. q \in Nat
        OBVIOUS
      <3> QED BY <1>1, <2>1, <3>1, SMTT(20)
    <2> QED BY <2>1
  <1>4. p \in C /\ p \notin B
    <2>1. ~(p < p)
      BY <1>1, SMTT(20)
    <2> QED BY <2>1
  <1>5. Cardinality(B) <= Cardinality(C) /\ Cardinality(C) # Cardinality(B)
    BY <1>2, <1>3, <1>4, FS_Subset
  <1>6. Rank(S, p) <= Rank(S, r) /\ Rank(S, p) # Rank(S, r)
    BY <1>5 DEF Rank
  <1> QED BY <1>2, <1>6, SMTT(20)

\* Each place has a page.
LEMMA RankOnto ==
    ASSUME NEW S, S \subseteq Nat, IsFiniteSet(S), NEW k \in 1 .. Cardinality(S)
    PROVE  \E p \in S : Rank(S, p) = k - 1
  <1>1. Cardinality(S) \in Nat
    BY FS_CardinalityType
  <1> DEFINE n == Cardinality(S)
             T == 0 .. n - 1
             f == [p \in S |-> Rank(S, p)]
  <1>2. n \in Nat
    BY <1>1
  <1>3. f \in [S -> T]
    BY RankType
  <1>4. ASSUME NEW p \in S, NEW q \in S, f[p] = f[q] PROVE p = q
    <2>1. p \in Nat /\ q \in Nat /\ Rank(S, p) = Rank(S, q)
      BY <1>4
    <2>2. Rank(S, p) \in Nat
      BY <2>1, RankType
    <2>3. ~(Rank(S, p) < Rank(S, p))
      BY <2>2, SMTT(20)
    <2>4. ~(p < q) /\ ~(q < p)
      BY <2>1, <2>3, RankGrows
    <2> QED BY <2>1, <2>4, SMTT(20)
  <1>5. f \in Injection(S, T)
    BY <1>3, <1>4 DEF Injection, IsInjective
  <1>6. IsFiniteSet(T) /\ Cardinality(T) = n
    <2>1. 0 \in Int /\ n - 1 \in Int
      BY <1>2, SMTT(20)
    <2>2. IsFiniteSet(T) /\ Cardinality(T) = IF 0 > n - 1 THEN 0 ELSE n - 1 - 0 + 1
      BY <2>1, FS_Interval
    <2> HIDE DEF n, T
    <2>3. Cardinality(T) = n
      BY <1>2, <2>2, SMTT(20)
    <2> QED BY <2>2, <2>3
  <1>7. f \in Surjection(S, T)
    BY <1>5, <1>6, FS_Injection
  <1>8. k - 1 \in T
    BY <1>2, SMTT(20)
  <1> QED BY <1>7, <1>8 DEF Surjection

InOrder(s, S) ==
    /\ s \in Seq(S) /\ Len(s) = Cardinality(S) /\ Len(s) \in Nat
    /\ \A k \in 1 .. Len(s) : s[k] \in S /\ Rank(S, s[k]) = k - 1
    /\ \A p \in S : Rank(S, p) + 1 \in 1 .. Len(s) /\ s[Rank(S, p) + 1] = p

\* Ascending() lists the pages in ascending order, each once.
LEMMA AscendingIs ==
    ASSUME NEW S, S \subseteq Nat, IsFiniteSet(S)
    PROVE  InOrder(Ascending(S), S)
  <1> DEFINE n == Cardinality(S)
             s == Ascending(S)
  <1>1. n \in Nat
    BY FS_CardinalityType
  <1>2. s = [k \in 1 .. n |-> CHOOSE p \in S : Rank(S, p) = k - 1]
    BY DEF Ascending, Rank
  <1>3. ASSUME NEW k \in 1 .. n PROVE s[k] \in S /\ Rank(S, s[k]) = k - 1
    <2>1. \E p \in S : Rank(S, p) = k - 1
      BY RankOnto
    <2>2. s[k] = CHOOSE p \in S : Rank(S, p) = k - 1
      BY <1>2
    <2> QED BY <2>1, <2>2
  <1> HIDE DEF n, s
  <1>4. s \in Seq(S) /\ Len(s) = n
    <2>1. s \in [1 .. n -> S]
      BY <1>2, <1>3
    <2> QED BY <1>1, <2>1, SMTT(20)
  <1>5. ASSUME NEW p \in S PROVE Rank(S, p) + 1 \in 1 .. n /\ s[Rank(S, p) + 1] = p
    <2>1. p \in Nat
      OBVIOUS
    <2>2. Rank(S, p) \in 0 .. n - 1
      BY <2>1, RankType DEF n
    <2>3. PICK r \in Nat : r = Rank(S, p) /\ r + 1 \in 1 .. n /\ (r + 1) - 1 = r
      BY <1>1, <2>2, SMTT(20)
    <2>4. PICK q \in S : q = s[r + 1] /\ Rank(S, q) = r
      BY <1>3, <2>3
    <2>5. q \in Nat /\ ~(r < r)
      BY <2>3, SMTT(20)
    <2>6. ~(p < q) /\ ~(q < p)
      BY <2>1, <2>3, <2>4, <2>5, RankGrows
    <2>7. p = q
      BY <2>1, <2>5, <2>6, SMTT(20)
    <2> QED BY <2>3, <2>4, <2>7
  <1> QED BY <1>1, <1>3, <1>4, <1>5 DEF InOrder, n, s

-----------------------------------------------------------------------------
(***************************************************************************)
(* The cells of a file.                                                    *)
(***************************************************************************)
LEMMA DataCellIs ==
    ASSUME Invoked, NEW pages, NEW j \in Nat
    PROVE  /\ DataCell(pages, j) \in Nat /\ ZeroCells \in 0 .. 1
           /\ DataCell(pages, j) >= Cardinality(Kept) + ZeroCells
           /\ IsFiniteSet({i \in 1 .. (j - 1) : ~IsZero(pages[i])})
  <1> DEFINE N == {i \in 1 .. (j - 1) : ~IsZero(pages[i])}
             n == Cardinality(N)
             base == Cardinality(Kept)
  <1>1. IsFiniteSet(1 .. (j - 1))
    <2>1. 1 \in Int /\ j - 1 \in Int
      BY SMTT(20)
    <2> QED BY <2>1, FS_Interval
  <1>2. IsFiniteSet(N)
    <2>1. N \in SUBSET (1 .. (j - 1))
      OBVIOUS
    <2> QED BY <1>1, <2>1, FS_Subset
  <1>3. n \in Nat
    BY <1>2, FS_CardinalityType
  <1>4. base \in Nat
    BY InvokedIs
  <1>5. ZeroCells \in 0 .. 1
    BY SMTT(20) DEF ZeroCells
  <1>6. DataCell(pages, j) = base + ZeroCells + n
    BY DEF DataCell
  <1> HIDE DEF N, n, base
  <1>7. DataCell(pages, j) \in Nat /\ DataCell(pages, j) >= base + ZeroCells
    BY <1>3, <1>4, <1>5, <1>6, SMTT(20)
  <1> QED BY <1>2, <1>5, <1>7 DEF N, base

\* The data of two stored pages lie in different cells, in order.
LEMMA DataCellGrows ==
    ASSUME Invoked, NEW pages, NEW i \in Nat \ {0}, NEW j \in Nat, i < j, ~IsZero(pages[i])
    PROVE  DataCell(pages, i) < DataCell(pages, j)
  <1> DEFINE M == {h \in 1 .. (i - 1) : ~IsZero(pages[h])}
             N == {h \in 1 .. (j - 1) : ~IsZero(pages[h])}
             m == Cardinality(M)
             n == Cardinality(N)
             base == Cardinality(Kept)
  <1>1. IsFiniteSet(M) /\ IsFiniteSet(N) /\ ZeroCells \in 0 .. 1
    BY DataCellIs
  <1>2. 1 .. (i - 1) \subseteq 1 .. (j - 1) /\ i \in 1 .. (j - 1) /\ i \notin 1 .. (i - 1)
    BY SMTT(20)
  <1>3. M \in SUBSET N /\ i \in N /\ i \notin M
    BY <1>2
  <1>4. m <= n /\ n # m
    BY <1>1, <1>3, FS_Subset
  <1>5. m \in Nat /\ n \in Nat
    BY <1>1, FS_CardinalityType
  <1>6. base \in Nat
    BY InvokedIs
  <1>7. DataCell(pages, i) = base + ZeroCells + m /\ DataCell(pages, j) = base + ZeroCells + n
    BY DEF DataCell
  <1> HIDE DEF M, N, m, n, base
  <1> QED BY <1>1, <1>4, <1>5, <1>6, <1>7, SMTT(20)

\* The cells of a file, in terms of DataCell().
CellsOf(cells, pages, k) ==
    /\ \A c \in Nat : c < k =>
          /\ c \in DOMAIN cells
          /\ cells[c] = Desc(IF IsZero(pages[c + 1]) THEN Cardinality(Kept)
                             ELSE DataCell(pages, c + 1), 1)
    /\ \A c \in Nat : k <= c /\ c < Cardinality(Kept) => c \notin DOMAIN cells
    /\ \A j \in 1 .. k : ~IsZero(pages[j]) =>
          /\ DataCell(pages, j) \in DOMAIN cells
          /\ cells[DataCell(pages, j)] = Page(pages[j])

\* FileCells() has those cells, whatever erase information follows.
LEMMA CellsIs ==
    ASSUME Invoked, NEW pages, Len(pages) \in Nat, NEW noted, Len(noted) \in Nat,
           NEW k \in Nat, k <= Cardinality(Kept)
    PROVE  CellsOf(FileCells(pages, k, noted), pages, k)
  <1> DEFINE base == Cardinality(Kept)
             stored == {j \in 1 .. k : ~IsZero(pages[j])}
             eOff == DataCell(pages, Len(pages) + 1)
             At(c) == CASE c < k -> Desc(IF IsZero(pages[c + 1]) THEN base ELSE DataCell(pages, c + 1), 1)
                        [] in.dropZero /\ c = base -> ZeroPage
                        [] \E j \in stored : DataCell(pages, j) = c ->
                              Page(pages[CHOOSE j \in stored : DataCell(pages, j) = c])
                        [] OTHER -> Erased(noted[c - eOff + 1])
             D == (0 .. (k - 1)) \cup (IF in.dropZero THEN {base} ELSE {})
                     \cup {DataCell(pages, j) : j \in stored} \cup (eOff .. (eOff + Len(noted) - 1))
             cells == FileCells(pages, k, noted)
  <1>1. cells = [c \in D |-> At(c)]
    BY DEF FileCells
  <1>2. base \in Nat /\ k <= base
    BY InvokedIs
  <1>3. ASSUME NEW j \in stored
        PROVE  DataCell(pages, j) \in Nat /\ ~(DataCell(pages, j) < k)
               /\ ~(in.dropZero /\ DataCell(pages, j) = base) /\ DataCell(pages, j) >= base
    <2>1. j \in Nat
      BY SMTT(20)
    <2>2. /\ DataCell(pages, j) \in Nat /\ ZeroCells \in 0 .. 1
          /\ DataCell(pages, j) >= base + ZeroCells
      BY <2>1, DataCellIs
    <2>3. in.dropZero => ZeroCells = 1
      BY DEF ZeroCells
    <2> HIDE DEF base
    <2>4. /\ ~(DataCell(pages, j) < k) /\ DataCell(pages, j) >= base
          /\ ZeroCells = 1 => DataCell(pages, j) # base
      BY <1>2, <2>2, SMTT(20)
    <2> QED BY <2>2, <2>3, <2>4
  <1>4. ASSUME NEW c \in Nat, c < k
        PROVE  c \in D /\ At(c) = Desc(IF IsZero(pages[c + 1]) THEN base ELSE DataCell(pages, c + 1), 1)
    <2>1. At(c) = Desc(IF IsZero(pages[c + 1]) THEN base ELSE DataCell(pages, c + 1), 1)
      BY <1>2, <1>3, <1>4, SMTT(20)
    <2>2. c \in 0 .. (k - 1)
      BY <1>4, SMTT(20)
    <2> QED BY <2>1, <2>2
  <1>5. eOff \in Nat /\ eOff >= base
    <2>1. Len(pages) + 1 \in Nat
      BY SMTT(20)
    <2>2. eOff \in Nat /\ ZeroCells \in 0 .. 1 /\ eOff >= base + ZeroCells
      BY <2>1, DataCellIs
    <2> HIDE DEF eOff, base
    <2> QED BY <1>2, <2>2, SMTT(20)
  <1>6. ASSUME NEW c \in Nat, k <= c, c < base PROVE c \notin D
    <2> HIDE DEF base, eOff
    <2>1. c \notin 0 .. (k - 1) /\ c # base /\ c \notin eOff .. (eOff + Len(noted) - 1)
      BY <1>2, <1>5, <1>6, SMTT(20)
    <2>2. ASSUME NEW j \in stored PROVE c # DataCell(pages, j)
      BY <1>2, <1>3, <1>6, SMTT(20)
    <2> QED BY <2>1, <2>2
  <1>7. ASSUME NEW j \in stored, NEW h \in stored, DataCell(pages, j) = DataCell(pages, h)
        PROVE  j = h
    <2>1. j \in Nat \ {0} /\ h \in Nat \ {0} /\ ~IsZero(pages[j]) /\ ~IsZero(pages[h])
      BY SMTT(20)
    <2>2. ~(DataCell(pages, j) < DataCell(pages, j))
      BY <1>3, SMTT(20)
    <2>3. ~(j < h) /\ ~(h < j)
      BY <1>7, <2>1, <2>2, DataCellGrows
    <2> QED BY <2>1, <2>3, SMTT(20)
  <1>8. ASSUME NEW j \in stored
        PROVE  DataCell(pages, j) \in D /\ At(DataCell(pages, j)) = Page(pages[j])
    <2> DEFINE c == DataCell(pages, j)
    <2>1. (CHOOSE h \in stored : DataCell(pages, h) = c) = j
      BY <1>7
    <2>2. ~(c < k) /\ ~(in.dropZero /\ c = base) /\ (\E h \in stored : DataCell(pages, h) = c)
      BY <1>3
    <2>3. At(c) = Page(pages[CHOOSE h \in stored : DataCell(pages, h) = c])
      <3> HIDE DEF c, stored, base, eOff
      <3> QED BY <2>2, SMTT(20)
    <2> QED BY <2>1, <2>3
  <1> HIDE DEF D, At
  <1>9. DOMAIN cells = D /\ \A c \in D : cells[c] = At(c)
    BY <1>1
  <1>10. \A c \in Nat : c < k =>
          /\ c \in DOMAIN cells
          /\ cells[c] = Desc(IF IsZero(pages[c + 1]) THEN Cardinality(Kept)
                             ELSE DataCell(pages, c + 1), 1)
    BY <1>4, <1>9
  <1>11. \A c \in Nat : k <= c /\ c < Cardinality(Kept) => c \notin DOMAIN cells
    BY <1>6, <1>9
  <1>12. \A j \in 1 .. k : ~IsZero(pages[j]) =>
          /\ DataCell(pages, j) \in DOMAIN cells
          /\ cells[DataCell(pages, j)] = Page(pages[j])
    BY <1>8, <1>9
  <1> QED BY <1>10, <1>11, <1>12 DEF CellsOf

-----------------------------------------------------------------------------
(***************************************************************************)
(* Reading the files.                                                      *)
(***************************************************************************)
InRange(i) == Kept \cap Frames(ranges[i])

\* The pages of a range, and those noted as erased, in order.
LEMMA LocalPages ==
    ASSUME Invoked, NEW i
    PROVE  /\ InRange(i) \subseteq Nat /\ IsFiniteSet(InRange(i))
           /\ InOrder(PagesOf(i), InRange(i)) /\ Len(PagesOf(i)) = Pages(i)
           /\ Pages(i) \in Nat /\ Pages(i) <= Cardinality(Kept)
           /\ \A whole \in BOOLEAN : NotedIn(i, whole) \in Seq(Nat)
  <1>1. Kept \subseteq Nat /\ IsFiniteSet(Kept)
    BY InvokedIs
  <1>2. InRange(i) \in SUBSET Kept /\ InRange(i) \subseteq Nat
    BY <1>1 DEF InRange
  <1>3. IsFiniteSet(InRange(i)) /\ Cardinality(InRange(i)) <= Cardinality(Kept)
    BY <1>1, <1>2, FS_Subset
  <1>4. InOrder(PagesOf(i), InRange(i))
    BY <1>2, <1>3, AscendingIs DEF PagesOf, InRange
  <1>5. Len(PagesOf(i)) = Pages(i) /\ Pages(i) \in Nat /\ Pages(i) = Cardinality(InRange(i))
    BY <1>4 DEF InOrder, Pages, InRange
  <1>6. Pages(i) <= Cardinality(Kept)
    BY <1>3, <1>5
  <1>7. ASSUME NEW whole \in BOOLEAN PROVE NotedIn(i, whole) \in Seq(Nat)
    <2>1. CASE whole
      <3> DEFINE E == in.erased \cap Kept \cap Frames(ranges[i])
      <3>1. E \in SUBSET Kept /\ E \subseteq Nat
        BY <1>1
      <3>2. IsFiniteSet(E)
        BY <1>1, <3>1, FS_Subset
      <3>3. Ascending(E) \in Seq(E)
        BY <3>1, <3>2, AscendingIs DEF InOrder
      <3>4. NotedIn(i, whole) = Ascending(E)
        BY <2>1 DEF NotedIn
      <3> HIDE DEF E
      <3>5. Ascending(E) \in Seq(Nat)
        BY <3>1, <3>3, SeqWider
      <3> QED BY <3>4, <3>5
    <2>2. CASE ~whole
      <3>1. NotedIn(i, whole) = << >>
        BY <2>2 DEF NotedIn
      <3> QED BY <3>1, SeqNone
    <2> QED BY <2>1, <2>2
  <1> QED BY <1>2, <1>3, <1>4, <1>5, <1>6, <1>7

\* Both ways to say what the cells of a file are agree.
LEMMA CellsSame ==
    ASSUME NEW cells, NEW pages, NEW k
    PROVE  CellsOf(cells, pages, k) <=> CellsIn(cells, in, Kept, pages, k)
  BY DEF CellsOf, CellsIn, IsZero, ZeroIn, DataCell, DataIn, ZeroCells

\* Nothing is noted where nothing is erased.
LEMMA NotedNone ==
    ASSUME in.erased \cap Kept = {}, NEW i, NEW whole \in BOOLEAN
    PROVE  Len(NotedIn(i, whole)) = 0
  <1>1. CASE whole
    <2>1. in.erased \cap Kept \cap Frames(ranges[i]) = {}
      OBVIOUS
    <2>2. NotedIn(i, whole) = Ascending({})
      BY <1>1, <2>1 DEF NotedIn
    <2>3. {} \subseteq Nat /\ IsFiniteSet({}) /\ Cardinality({}) = 0
      BY FS_EmptySet
    <2>4. Len(Ascending({})) = 0
      BY <2>3, AscendingIs DEF InOrder
    <2> QED BY <2>2, <2>4
  <1>2. CASE ~whole
    <2>1. NotedIn(i, whole) = << >>
      BY <1>2 DEF NotedIn
    <2>2. Len(<< >>) = 0
      BY SMTT(20)
    <2> QED BY <2>1, <2>2
  <1> QED BY <1>1, <1>2

\* writeout_dumpfile() leaves a file with the first k pages of the range.
LEMMA WrittenIs ==
    ASSUME Invoked, NEW i, NEW k \in 0 .. Pages(i), NEW whole \in BOOLEAN
    PROVE  Held(WrittenFile(ranges[i], k, whole), in, Kept, ranges[i], k)
  <1> DEFINE noted == NotedIn(i, whole)
             eOff == IF noted = << >> THEN 0 ELSE DataCell(PagesOf(i), Len(PagesOf(i)) + 1)
             cells == FileCells(PagesOf(i), k, noted)
             f == WrittenFile(ranges[i], k, whole)
  <1>1. f = KdumpFile(ranges[i], eOff, Len(noted), cells)
    BY DEF WrittenFile, PagesOf, NotedIn
  <1>2. Len(PagesOf(i)) \in Nat /\ Pages(i) \in Nat /\ Pages(i) <= Cardinality(Kept)
    BY LocalPages
  <1>3. Len(noted) \in Nat
    <2>1. noted \in Seq(Nat)
      BY LocalPages
    <2> QED BY <2>1, SeqLen
  <1>4. eOff \in Nat
    <2>1. Len(PagesOf(i)) + 1 \in Nat /\ 0 \in Nat
      BY <1>2, SMTT(20)
    <2>2. DataCell(PagesOf(i), Len(PagesOf(i)) + 1) \in Nat
      BY <2>1, DataCellIs
    <2> QED BY <2>1, <2>2
  <1>5. Cardinality(Kept) \in Nat
    BY InvokedIs
  <1>6. k \in Nat /\ k <= Cardinality(Kept)
    BY <1>2, <1>5, SMTT(20)
  <1>7. CellsOf(cells, PagesOf(i), k)
    BY <1>2, <1>3, <1>6, CellsIs
  <1>8. CellsIn(cells, in, Kept, Ascending(Kept \cap Frames(ranges[i])), k)
    BY <1>7, CellsSame DEF PagesOf
  <1> HIDE DEF noted, eOff, cells, f
  <1>9. f = [status |-> "complete", level |-> attempt, max |-> in.max, bitmap |-> Kept,
             start |-> ranges[i].start, end |-> ranges[i].end, eOff |-> eOff,
             eSize |-> Len(noted), cells |-> cells]
    BY <1>1 DEF KdumpFile
  <1>10. f.status = "complete" /\ f.level = attempt /\ f.eOff = eOff /\ f.eSize = Len(noted) /\ f.cells = cells
    BY <1>9, SMTT(20)
  <1>11. f = [status |-> f.status, level |-> f.level, max |-> in.max, bitmap |-> Kept,
              start |-> ranges[i].start, end |-> ranges[i].end, eOff |-> f.eOff,
              eSize |-> f.eSize, cells |-> f.cells]
    BY <1>9, <1>10
  <1>12. f.eOff \in Nat /\ f.eSize \in Nat
    BY <1>3, <1>4, <1>10
  <1>14. in.erased \cap Kept = {} => f.eSize = 0
    BY <1>10, NotedNone DEF noted
  <1>13. CellsIn(f.cells, in, Kept, Ascending(Kept \cap Frames(ranges[i])), k)
    BY <1>8, <1>10
  <1> QED BY <1>11, <1>12, <1>13, <1>14 DEF Held, f

\* What the header and the cells of a written file are.
LEMMA HeldIs ==
    ASSUME NEW f, NEW i, NEW k, Held(f, in, Kept, ranges[i], k)
    PROVE  /\ f.start = ranges[i].start /\ f.end = ranges[i].end
           /\ f.max = in.max /\ f.bitmap = Kept
           /\ CellsOf(f.cells, PagesOf(i), k)
  <1>1. PICK st, lv, eOff, eSize, cells :
           f = [status |-> st, level |-> lv, max |-> in.max, bitmap |-> Kept,
                start |-> ranges[i].start, end |-> ranges[i].end, eOff |-> eOff,
                eSize |-> eSize, cells |-> cells]
    BY DEF Held
  <1>2. /\ f.start = ranges[i].start /\ f.end = ranges[i].end
        /\ f.max = in.max /\ f.bitmap = Kept
    BY <1>1, SMTT(20)
  <1>3. CellsOf(f.cells, PagesOf(i), k)
    BY CellsSame DEF Held, PagesOf
  <1> QED BY <1>2, <1>3

\* The files named on the command line of --reassemble, after the check.
Sources ==
    /\ Named(sorted, file, in.files)
    /\ CheckSplittingInfo(sorted, in.max)
    /\ \A i \in 1 .. in.files : /\ HasFile(file[i], in, Kept, ranges[i], child[i])
                                /\ ret = "TRUE" => child[i] = "0"
    /\ out.bitmap = Kept

\* The checked ranges leave no page out.
LEMMA EntryIs ==
    ASSUME Invoked, Sources, NEW p \in Kept
    PROVE  EntryOf(p) \in Range(sorted) /\ p \in Frames(EntryOf(p))
  <1>1. /\ p \in Nat /\ p \in 0 .. (in.max - 1) /\ in.max \in Nat
    BY InvokedIs
  <1>2. sorted \in Seq(EntryType(in.files)) /\ DOMAIN sorted = 1 .. Len(sorted) /\ Len(sorted) \in Nat
    BY SeqLen DEF Sources, Named
  <1> DEFINE S == {i \in 1 .. Len(sorted) : p < sorted[i].end}
  <1>3. \A i \in 1 .. Len(sorted) : sorted[i].start \in Nat /\ sorted[i].end \in Nat
    <2> TAKE i \in 1 .. Len(sorted)
    <2>1. sorted[i] \in EntryType(in.files)
      BY <1>2, SeqElement
    <2> QED BY <2>1 DEF EntryType
  <1>4. Len(sorted) >= 2 /\ sorted[1].start = 0 /\ sorted[Len(sorted)].end = in.max
        /\ \A i \in 2 .. Len(sorted) : sorted[i - 1].end = sorted[i].start
    BY DEF Sources, Named, CheckSplittingInfo
  <1>5. Len(sorted) \in S
    <2>1. p < in.max
      BY <1>1, SMTT(20)
    <2>2. Len(sorted) \in 1 .. Len(sorted)
      BY <1>2, <1>4, SMTT(20)
    <2> QED BY <1>4, <2>1, <2>2
  <1>6. S \subseteq Nat
    BY <1>2, SMTT(20)
  <1>7. PICK i \in S : \A j \in S : i <= j
    BY <1>5, <1>6, LeastNatural
  <1>8. i \in 1 .. Len(sorted) /\ p < sorted[i].end
    BY <1>7
  <1>9. sorted[i].start <= p
    <2>1. CASE i = 1
      BY <1>1, <1>4, <2>1, SMTT(20)
    <2>2. CASE i # 1
      <3>1. i \in 2 .. Len(sorted) /\ i - 1 \in 1 .. Len(sorted) /\ ~(i <= i - 1)
        BY <1>2, <1>8, <2>2, SMTT(20)
      <3>2. ~(p < sorted[i - 1].end) /\ sorted[i - 1].end = sorted[i].start
        BY <1>4, <1>7, <3>1
      <3>3. sorted[i].start \in Nat
        BY <1>3, <1>8
      <3>4. ~(p < sorted[i].start)
        BY <3>2
      <3> QED BY <1>1, <3>3, <3>4, SMTT(20)
    <2> QED BY <2>1, <2>2
  <1>10. p \in Frames(sorted[i])
    <2>1. sorted[i].start \in Nat /\ sorted[i].end \in Nat
      BY <1>3, <1>8
    <2>2. p \in sorted[i].start .. (sorted[i].end - 1)
      BY <1>1, <1>8, <1>9, <2>1, SMTT(20)
    <2> QED BY <2>2 DEF Frames
  <1>11. sorted[i] \in Range(sorted)
    BY <1>2, <1>8 DEF Range
  <1>12. \E e \in Range(sorted) : p \in Frames(e)
    BY <1>10, <1>11
  <1> QED BY <1>12 DEF EntryOf

\* What the copying loop finds of a page.
IsDesc(x, off, sz) == x = Desc(off, sz)
Found(p) ==
    \/ IsZero(p) /\ IsDesc(SourceDesc(p), Cardinality(Kept), 1)
    \/ /\ ~IsZero(p)
       /\ \E d \in Nat : /\ d >= Cardinality(Kept) + ZeroCells /\ IsDesc(SourceDesc(p), d, 1)
                         /\ ReadCell(file[EntryOf(p).name], d) = Page(p)
    \/ SourceDesc(p) \in {Hole, Eof} /\ ret # "TRUE"

\* The descriptor read for a page is its own, or the page was lost.
LEMMA SourceIs ==
    ASSUME Invoked, Sources, NEW p \in Kept
    PROVE  Found(p)
  <1>1. PICK e \in Range(sorted) : e = EntryOf(p) /\ p \in Frames(e)
    BY EntryIs
  <1>2. sorted \in Seq(EntryType(in.files)) /\ DOMAIN sorted = 1 .. Len(sorted)
    BY SeqLen DEF Sources, Named
  <1>3. PICK m \in 1 .. Len(sorted) : e = sorted[m]
    BY <1>1, <1>2 DEF Range
  <1>4. PICK i \in 1 .. in.files : i = e.name
    <2>1. sorted[m] \in EntryType(in.files)
      BY <1>2, SeqElement
    <2> QED BY <1>3, <2>1 DEF EntryType
  <1>5. PICK k \in 0 .. Pages(i) :
           Held(file[i], in, Kept, ranges[i], k) /\ (ret = "TRUE" => k = Pages(i))
    BY DEF Sources, HasFile, Pages, Share
  <1>6. /\ file[i].start = ranges[i].start /\ file[i].end = ranges[i].end
        /\ CellsOf(file[i].cells, PagesOf(i), k)
    BY <1>5, HeldIs
  <1>7. Frames(e) = Frames(ranges[i])
    <2>1. e.start = file[i].start /\ e.end = file[i].end
      BY <1>3, <1>4 DEF Sources, Named
    <2> QED BY <1>6, <2>1 DEF Frames
  <1>8. p \in InRange(i)
    BY <1>1, <1>7 DEF InRange
  <1>9. /\ InRange(i) \subseteq Nat /\ IsFiniteSet(InRange(i)) /\ InOrder(PagesOf(i), InRange(i))
        /\ Len(PagesOf(i)) = Pages(i) /\ Pages(i) \in Nat /\ Pages(i) <= Cardinality(Kept)
    BY LocalPages
  <1>10. PICK c \in Nat : c = Rank(InRange(i), p)
    BY <1>8, <1>9, RankType
  <1>11. c + 1 \in 1 .. Pages(i) /\ PagesOf(i)[c + 1] = p
    BY <1>8, <1>9, <1>10 DEF InOrder
  <1>12. SourceDesc(p) = ReadCell(file[i], c)
    <2>1. out.bitmap \cap Frames(EntryOf(p)) = InRange(i)
      BY <1>1, <1>7 DEF InRange, Sources
    <2>2. Cardinality({q \in out.bitmap \cap Frames(EntryOf(p)) : q < p}) = c
      BY <1>10, <2>1 DEF Rank
    <2> QED BY <1>1, <1>4, <2>2 DEF SourceDesc
  <1>13. Cardinality(Kept) \in Nat
    BY InvokedIs
  <1>14. CASE c < k
    <2>1. /\ c \in DOMAIN file[i].cells
          /\ file[i].cells[c] = Desc(IF IsZero(p) THEN Cardinality(Kept)
                                     ELSE DataCell(PagesOf(i), c + 1), 1)
      BY <1>6, <1>11, <1>14 DEF CellsOf
    <2>2. SourceDesc(p) = Desc(IF IsZero(p) THEN Cardinality(Kept)
                               ELSE DataCell(PagesOf(i), c + 1), 1)
      BY <1>12, <2>1 DEF ReadCell
    <2>3. CASE IsZero(p)
      BY <2>2, <2>3 DEF Found, IsDesc
    <2>4. CASE ~IsZero(p)
      <3>1. PICK d : d = DataCell(PagesOf(i), c + 1)
        OBVIOUS
      <3>2. c + 1 \in 1 .. k /\ c + 1 \in Nat
        BY <1>9, <1>14, SMTT(20)
      <3>3. d \in DOMAIN file[i].cells /\ file[i].cells[d] = Page(p)
        BY <1>6, <1>11, <2>4, <3>1, <3>2 DEF CellsOf
      <3>4. d \in Nat /\ d >= Cardinality(Kept) + ZeroCells
        BY <3>1, <3>2, DataCellIs
      <3>5. ReadCell(file[EntryOf(p).name], d) = Page(p)
        BY <1>1, <1>4, <3>3 DEF ReadCell
      <3> QED BY <2>2, <2>4, <3>1, <3>4, <3>5 DEF Found, IsDesc
    <2> QED BY <2>3, <2>4
  <1>15. CASE ~(c < k)
    <2>1. k <= c /\ c < Cardinality(Kept) /\ k # Pages(i)
      BY <1>9, <1>11, <1>13, <1>15, SMTT(20)
    <2>2. c \notin DOMAIN file[i].cells
      BY <1>6, <2>1 DEF CellsOf
    <2>3. SourceDesc(p) \in {Hole, Eof}
      BY <1>12, <2>2 DEF ReadCell
    <2> QED BY <1>5, <2>1, <2>3 DEF Found, IsDesc
  <1> QED BY <1>14, <1>15

-----------------------------------------------------------------------------
(***************************************************************************)
(* Writing the file.                                                       *)
(***************************************************************************)
Joined(r, s, t) ==
    /\ Len(r) = Len(s) + Len(t)
    /\ \A k \in 1 .. Len(s) : r[k] = s[k]
    /\ \A k \in 1 .. Len(t) : r[Len(s) + k] = t[k]

\* What the concatenation of two sequences is.
LEMMA JoinedIs ==
    ASSUME NEW S, NEW s \in Seq(S), NEW T, NEW t \in Seq(T)
    PROVE  s \o t \in Seq(S \cup T) /\ Joined(s \o t, s, t)
  <1> DEFINE U == S \cup T
             r == s \o t
  <1>1. s \in Seq(U) /\ t \in Seq(U)
    <2>1. S \subseteq U /\ T \subseteq U
      OBVIOUS
    <2> QED BY <2>1, SeqWider
  <1> HIDE DEF U
  <1>2. /\ r \in Seq(U) /\ Len(r) = Len(s) + Len(t)
        /\ \A k \in 1 .. Len(s) + Len(t) : r[k] = IF k <= Len(s) THEN s[k] ELSE t[k - Len(s)]
    BY <1>1, SeqJoin
  <1>3. Len(s) \in Nat /\ Len(t) \in Nat
    BY SeqLen
  <1>4. ASSUME NEW k \in 1 .. Len(s) PROVE r[k] = s[k]
    <2>1. k \in 1 .. Len(s) + Len(t) /\ k <= Len(s)
      BY <1>3, SMTT(20)
    <2> QED BY <1>2, <2>1
  <1>5. ASSUME NEW k \in 1 .. Len(t) PROVE r[Len(s) + k] = t[k]
    <2>1. PICK m \in 1 .. Len(s) + Len(t) : m = Len(s) + k /\ ~(m <= Len(s)) /\ m - Len(s) = k
      BY <1>3, SMTT(20)
    <2>2. r[m] = t[m - Len(s)]
      BY <1>2, <2>1
    <2>3. r[m] = t[k]
      BY <2>1, <2>2
    <2> QED BY <2>1, <2>3
  <1> QED BY <1>2, <1>4, <1>5 DEF Joined, U

\* Chained() of sequences is a sequence.
LEMMA FlattenIs ==
    ASSUME NEW V, NEW seqs \in Seq(Seq(V)), Len(seqs) # 0
    PROVE  Chained(seqs) \in Seq(V)
  <1> DEFINE Def(f, n) == f = [i \in 1 .. n |-> IF i = 1 THEN seqs[i] ELSE f[i - 1] \o seqs[i]]
             None == {n \in 1 .. Len(seqs) : ~ \E f : Def(f, n) /\ \A i \in 1 .. n : f[i] \in Seq(V)}
  <1>1. Len(seqs) \in Nat /\ \A i \in 1 .. Len(seqs) : seqs[i] \in Seq(V)
    BY SeqLen, SeqElement
  <1>2. Len(seqs) \in 1 .. Len(seqs)
    BY <1>1, SMTT(20)
  <1>3. \E f : Def(f, Len(seqs)) /\ \A i \in 1 .. Len(seqs) : f[i] \in Seq(V)
    <2> SUFFICES ASSUME None # {} PROVE FALSE
      BY <1>2
    <2>1. 1 .. Len(seqs) \subseteq Nat
      BY <1>1, SMTT(20)
    <2>2. None \subseteq Nat
      BY <2>1
    <2>3. PICK n \in None : \A m \in None : n <= m
      BY <2>2, LeastNatural
    <2>4. /\ n \in 1 .. Len(seqs) /\ n \in Nat
          /\ ~ \E f : Def(f, n) /\ \A i \in 1 .. n : f[i] \in Seq(V)
      BY <2>1, <2>3
    <2>5. n # 1
      <3> DEFINE one == [i \in 1 .. 1 |-> seqs[1]]
      <3>1. \A i \in 1 .. 1 : i = 1
        BY SMTT(20)
      <3>2. Def(one, 1)
        BY <3>1
      <3>3. 1 \in 1 .. Len(seqs)
        BY <1>1, <1>2, SMTT(20)
      <3>4. \A i \in 1 .. 1 : one[i] \in Seq(V)
        BY <1>1, <3>1, <3>3
      <3> QED BY <2>4, <3>2, <3>4
    <2>6. n - 1 \in 1 .. Len(seqs) /\ ~ (n <= n - 1) /\ n - 1 \in Nat
      BY <1>1, <2>4, <2>5, SMTT(20)
    <2>7. PICK f : Def(f, n - 1) /\ \A i \in 1 .. n - 1 : f[i] \in Seq(V)
      BY <2>3, <2>6
    <2> DEFINE g == [i \in 1 .. n |-> IF i = n THEN f[n - 1] \o seqs[n] ELSE f[i]]
    <2>8. ASSUME NEW i \in 1 .. n
          PROVE  g[i] \in Seq(V) /\ g[i] = IF i = 1 THEN seqs[i] ELSE g[i - 1] \o seqs[i]
      <3>1. CASE i = n
        <4>1. n - 1 \in 1 .. n /\ n - 1 # n /\ i # 1 /\ n - 1 \in 1 .. n - 1
          BY <2>4, <2>5, <3>1, SMTT(20)
        <4>2. g[i - 1] = f[n - 1]
          BY <3>1, <4>1
        <4>3. g[i] = f[n - 1] \o seqs[n]
          BY <3>1
        <4>4. f[n - 1] \in Seq(V) /\ seqs[n] \in Seq(V)
          BY <1>1, <2>4, <2>7, <4>1
        <4>5. f[n - 1] \o seqs[n] \in Seq(V)
          BY <4>4, SeqJoin
        <4> QED BY <3>1, <4>1, <4>2, <4>3, <4>5
      <3>2. CASE i # n
        <4>1. i \in 1 .. n - 1 /\ (i # 1 => i - 1 \in 1 .. n /\ i - 1 # n)
          BY <2>4, <3>2, SMTT(20)
        <4>2. g[i] = f[i] /\ (i # 1 => g[i - 1] = f[i - 1])
          BY <3>2, <4>1
        <4>3. f[i] = IF i = 1 THEN seqs[i] ELSE f[i - 1] \o seqs[i]
          BY <2>7, <4>1
        <4>4. f[i] \in Seq(V)
          BY <2>7, <4>1
        <4> QED BY <4>2, <4>3, <4>4
      <3> QED BY <3>1, <3>2
    <2>9. Def(g, n) /\ \A i \in 1 .. n : g[i] \in Seq(V)
      BY <2>8
    <2> QED BY <2>4, <2>9
  <1> DEFINE e == CHOOSE f : Def(f, Len(seqs))
  <1>4. Def(e, Len(seqs))
    BY <1>3
  <1>5. Chained(seqs) = e[Len(seqs)]
    BY DEF Chained
  <1>6. PICK f : Def(f, Len(seqs)) /\ \A i \in 1 .. Len(seqs) : f[i] \in Seq(V)
    BY <1>3
  <1>7. \A n \in 1 .. Len(seqs) : e[n] = f[n]
    <2> DEFINE Bad == {n \in 1 .. Len(seqs) : e[n] # f[n]}
    <2> SUFFICES ASSUME Bad # {} PROVE FALSE
      OBVIOUS
    <2> HIDE DEF e
    <2>1. Bad \subseteq 1 .. Len(seqs) /\ 1 .. Len(seqs) \subseteq Nat
      BY <1>1, SMTT(20)
    <2>2. Bad \subseteq Nat
      BY <2>1
    <2>3. PICK n \in Bad : \A m \in Bad : n <= m
      BY <2>2, LeastNatural
    <2>4. n \in 1 .. Len(seqs) /\ e[n] # f[n]
      BY <2>3
    <2>5. /\ e[n] = IF n = 1 THEN seqs[n] ELSE e[n - 1] \o seqs[n]
          /\ f[n] = IF n = 1 THEN seqs[n] ELSE f[n - 1] \o seqs[n]
      BY <1>4, <1>6, <2>4
    <2>6. n # 1
      BY <2>4, <2>5
    <2>7. n - 1 \in 1 .. Len(seqs) /\ ~(n <= n - 1)
      BY <1>1, <2>4, <2>6, SMTT(20)
    <2>8. e[n - 1] = f[n - 1]
      BY <2>3, <2>7
    <2> QED BY <2>4, <2>5, <2>6, <2>8
  <1> HIDE DEF e
  <1>8. e[Len(seqs)] \in Seq(V)
    BY <1>2, <1>6, <1>7
  <1> QED BY <1>5, <1>8

Listed(f, n) == f = [h \in 1 .. n |-> f[h]]

\* A function on 1 .. n is a sequence.
LEMMA ListedIs ==
    ASSUME NEW n \in Nat, NEW f, Listed(f, n)
    PROVE  f \in Seq({f[h] : h \in 1 .. n}) /\ Len(f) = n
  <1> DEFINE T == {f[h] : h \in 1 .. n}
  <1>1. \A h \in 1 .. n : f[h] \in T
    OBVIOUS
  <1>2. f \in [1 .. n -> T]
    BY <1>1 DEF Listed
  <1> HIDE DEF T
  <1>3. f \in Seq(T) /\ Len(f) = n
    BY <1>2, SMTT(20)
  <1> QED BY <1>3 DEF T

\* The elements before one are as many in the sequence as in the set.
LEMMA BeforeIs ==
    ASSUME NEW S, S \subseteq Nat, IsFiniteSet(S), NEW s, InOrder(s, S), NEW k \in S
    PROVE  Cardinality({i \in 1 .. Len(s) : s[i] < k}) = Rank(S, k)
  <1>1. PICK r \in Nat : r = Rank(S, k)
    BY RankType
  <1>2. Len(s) \in Nat /\ r + 1 \in 1 .. Len(s)
    BY <1>1 DEF InOrder
  <1>3. ASSUME NEW i \in 1 .. Len(s) PROVE s[i] < k <=> i \in 1 .. r
    <2>1. s[i] \in S /\ s[i] \in Nat /\ k \in Nat /\ Rank(S, s[i]) = i - 1
      BY DEF InOrder
    <2>2. s[i] < k => i - 1 < r
      BY <1>1, <2>1, RankGrows
    <2>3. k < s[i] => r < i - 1
      BY <1>1, <2>1, RankGrows
    <2>4. k = s[i] => r = i - 1
      BY <1>1, <2>1
    <2> QED BY <1>2, <2>1, <2>2, <2>3, <2>4, SMTT(20)
  <1>4. 1 .. r \subseteq 1 .. Len(s)
    BY <1>2, SMTT(20)
  <1>5. {i \in 1 .. Len(s) : s[i] < k} = 1 .. r
    BY <1>3, <1>4
  <1>6. Cardinality(1 .. r) = r
    <2>1. 1 \in Int /\ r \in Int
      BY SMTT(20)
    <2>2. Cardinality(1 .. r) = IF 1 > r THEN 0 ELSE r - 1 + 1
      BY <2>1, FS_Interval
    <2> QED BY <2>2, SMTT(20)
  <1> QED BY <1>1, <1>5, <1>6

\* A descriptor of the file leads to its page, or its page was lost.
RightIn(o, k) ==
    LET pd == ReadCell(o, k - 1)
    IN  IF pd.size = 0 THEN o.status = "incomplete"
        ELSE ReadCell(o, pd.off) = IF IsZero(Ascending(Kept)[k]) THEN ZeroPage ELSE Page(Ascending(Kept)[k])

Assembled(base, erase) == CopiedPages(base).descs \o CopiedPages(base).data \o erase
OutIs(o, cells) ==
    /\ o.status = out.status
    /\ o.cells = [c \in 0 .. (Len(cells) - 1) |-> cells[c + 1]]

\* What a cell that is a descriptor says, and what is read where there is none.
LEMMA DescIs ==
    ASSUME NEW x, NEW off, NEW sz, IsDesc(x, off, sz)
    PROVE  x.off = off /\ x.size = sz
  BY SMTT(20) DEF IsDesc, Desc, Cell

\* A hole, or the end of the file, reads as an empty descriptor.
LEMMA NoDescIs ==
    ASSUME NEW x, x \in {Hole, Eof}
    PROVE  x.off = 0 /\ x.size = 0
  BY SMTT(20) DEF Hole, Eof, Cell

\* The copying loop of reassemble_kdump_pages() keeps every descriptor right.
LEMMA CopiedIs ==
    ASSUME Invoked, Sources, ret = "TRUE" \/ out.status = "incomplete",
           NEW base, base = Cardinality(out.bitmap), NEW V, NEW erase \in Seq(V),
           NEW cells, cells = Assembled(base, erase), NEW o, OutIs(o, cells),
           NEW k \in 1 .. base
    PROVE  RightIn(o, k)
  <1> DEFINE pages == Ascending(out.bitmap)
             pd == [h \in 1 .. Len(pages) |-> SourceDesc(pages[h])]
             zero == {h \in 1 .. Len(pages) : in.dropZero /\ pd[h].off = base}
             S == {h \in 1 .. Len(pages) : pd[h].size = 1} \ zero
             stored == Ascending(S)
             Place(h) == base + ZeroCells + Cardinality({i \in 1 .. Len(stored) : stored[i] < h})
             descs == [h \in 1 .. Len(pages) |-> IF h \in zero THEN Desc(base, 1)
                                                ELSE Desc(Place(h), pd[h].size)]
             Z == IF in.dropZero THEN << ZeroPage >> ELSE << >>
             X == [i \in 1 .. Len(stored) |->
                     ReadCell(file[EntryOf(pages[stored[i]]).name], pd[stored[i]].off)]
  <1>1. CopiedPages(base) = [ok |-> Eof \notin Range(pd), descs |-> descs, data |-> Z \o X]
    BY DEF CopiedPages
  <1>2. CopiedPages(base).descs = descs /\ CopiedPages(base).data = Z \o X
    <2> HIDE DEF descs, Z, X, pd
    <2> QED BY <1>1, SMTT(20)
  <1>3. cells = descs \o (Z \o X) \o erase
    BY <1>2 DEF Assembled
  <1>4. out.bitmap = Kept /\ Kept \subseteq Nat /\ IsFiniteSet(Kept) /\ base \in Nat
    BY InvokedIs DEF Sources
  <1>5. InOrder(pages, Kept) /\ Len(pages) = base
    <2>1. InOrder(pages, Kept)
      BY <1>4, AscendingIs
    <2> QED BY <1>4, <2>1 DEF InOrder
  <1>6. ASSUME NEW h \in 1 .. base PROVE pages[h] \in Kept /\ pd[h] = SourceDesc(pages[h]) /\ Found(pages[h])
    <2>1. pages[h] \in Kept /\ pd[h] = SourceDesc(pages[h])
      BY <1>5 DEF InOrder
    <2> QED BY <2>1, SourceIs
  <1>7. (in.dropZero => ZeroCells = 1) /\ (~in.dropZero => ZeroCells = 0)
    BY DEF ZeroCells
  <1>35. ZeroCells \in 0 .. 1
    BY <1>7, SMTT(20)
  <1>8. S \subseteq 1 .. base /\ S \subseteq Nat /\ IsFiniteSet(S)
    <2>1. S \in SUBSET (1 .. base)
      BY <1>5
    <2>2. 1 .. base \subseteq Nat /\ 1 \in Int /\ base \in Int
      BY <1>4, SMTT(20)
    <2>3. IsFiniteSet(1 .. base)
      BY <2>2, FS_Interval
    <2>4. IsFiniteSet(S)
      BY <2>1, <2>3, FS_Subset
    <2> QED BY <2>1, <2>2, <2>4
  <1>9. InOrder(stored, S)
    BY <1>8, AscendingIs
  <1>10. descs \in Seq({descs[h] : h \in 1 .. base}) /\ Len(descs) = base
    <2>1. Listed(descs, base)
      BY <1>5 DEF Listed
    <2> HIDE DEF descs
    <2> QED BY <1>4, <2>1, ListedIs
  <1>11. Z \in Seq({ZeroPage}) /\ Len(Z) = ZeroCells /\ (in.dropZero => Z[1] = ZeroPage)
    <2>1. CASE in.dropZero
      <3>1. Z = << ZeroPage >>
        BY <2>1
      <3>2. << ZeroPage >> \in Seq({ZeroPage}) /\ Len(<< ZeroPage >>) = 1 /\ << ZeroPage >>[1] = ZeroPage
        BY SMTT(20)
      <3> QED BY <1>7, <2>1, <3>1, <3>2
    <2>2. CASE ~in.dropZero
      <3>1. Z = << >>
        BY <2>2
      <3>2. << >> \in Seq({ZeroPage}) /\ Len(<< >>) = 0
        BY SMTT(20)
      <3> QED BY <1>7, <2>2, <3>1, <3>2
    <2> QED BY <2>1, <2>2
  <1> DEFINE n == Len(stored)
  <1>12. n \in Nat
    BY <1>9 DEF InOrder
  <1>13. X \in Seq({X[i] : i \in 1 .. n}) /\ Len(X) = n
    <2> HIDE DEF pages, pd, stored
    <2>1. Listed(X, Len(stored))
      BY DEF Listed
    <2>2. Listed(X, n) /\ n \in Nat
      BY <1>12, <2>1
    <2> HIDE DEF X, n
    <2> QED BY <2>2, ListedIs
  <1>14. \A i \in 1 .. n : X[i] = ReadCell(file[EntryOf(pages[stored[i]]).name], pd[stored[i]].off)
    OBVIOUS
  <1>15. ASSUME NEW h \in 1 .. base
         PROVE  /\ h \in zero => IsDesc(descs[h], base, 1)
                /\ h \notin zero => IsDesc(descs[h], Place(h), pd[h].size)
    BY <1>5 DEF IsDesc
  <1>16. ASSUME NEW h \in 1 .. base
         PROVE  /\ h \in zero <=> in.dropZero /\ pd[h].off = base
                /\ h \in S <=> pd[h].size = 1 /\ h \notin zero
    BY <1>5
  <1> HIDE DEF pages, pd, zero, S, stored, descs, Z, X
  <1>17. ASSUME NEW h \in S
         PROVE  \E m \in 1 .. n : Place(h) = base + ZeroCells + (m - 1) /\ stored[m] = h
    <2>1. PICK m \in 1 .. n : m = Rank(S, h) + 1 /\ stored[m] = h
      BY <1>9 DEF InOrder
    <2>2. h \in Nat /\ Rank(S, h) \in Nat
      BY <1>8, RankType
    <2>3. Rank(S, h) = m - 1
      <3> HIDE DEF n
      <3> QED BY <1>12, <2>1, <2>2, SMTT(20)
    <2>4. Cardinality({i \in 1 .. Len(stored) : stored[i] < h}) = m - 1
      BY <1>8, <1>9, <2>3, BeforeIs
    <2> QED BY <2>1, <2>4
  <1> HIDE DEF Place, n
  \* The cells of the file.
  <1> DEFINE data == Z \o X
             T == {descs[h] : h \in 1 .. base} \cup ({ZeroPage} \cup {X[i] : i \in 1 .. n})
  <1>18. data \in Seq({ZeroPage} \cup {X[i] : i \in 1 .. n}) /\ Joined(data, Z, X)
    BY <1>11, <1>13, JoinedIs
  <1>19. descs \o data \in Seq(T) /\ Joined(descs \o data, descs, data)
    <2> HIDE DEF data
    <2> QED BY <1>10, <1>18, JoinedIs
  <1>20. Joined((descs \o data) \o erase, descs \o data, erase)
    <2> HIDE DEF data, T
    <2> QED BY <1>19, JoinedIs
  <1>21. cells = (descs \o data) \o erase
    BY <1>3
  <1>22. Len(data) = ZeroCells + n
    BY <1>11, <1>13, <1>18 DEF Joined
  <1> HIDE DEF data, T
  <1>23. Len(descs \o data) = base + (ZeroCells + n) /\ Len(erase) \in Nat
    BY <1>10, <1>19, <1>22, SeqLen DEF Joined
  <1>24. PICK len \in Nat : len = Len(cells) /\ len >= base + ZeroCells + n
    <2>1. Len(cells) = Len(descs \o data) + Len(erase)
      BY <1>20, <1>21 DEF Joined
    <2>2. \A l, z, e : z \in 0 .. 1 /\ e \in Nat /\ l = base + (z + n) + e
                         => l \in Nat /\ l >= base + z + n
      BY <1>4, <1>12, SMTT(20)
    <2> QED BY <1>23, <1>35, <2>1, <2>2
  <1>25. ASSUME NEW h \in 1 .. base PROVE cells[h] = descs[h]
    <2>1. \A z \in 0 .. 1 : h \in 1 .. base + (z + n)
      BY <1>4, <1>12, SMTT(20)
    <2>2. h \in 1 .. Len(descs \o data)
      BY <1>23, <1>35, <2>1
    <2> QED BY <1>10, <1>19, <1>20, <1>21, <2>2 DEF Joined
  <1>26. ASSUME NEW m \in 1 .. ZeroCells + n PROVE cells[base + m] = data[m]
    <2>1. base + m \in 1 .. Len(descs \o data)
      <3>1. \A z \in 0 .. 1 : m \in 1 .. z + n => base + m \in 1 .. base + (z + n)
        BY <1>4, <1>12, SMTT(20)
      <3> QED BY <1>23, <1>35, <3>1
    <2>2. (descs \o data)[base + m] = data[m]
      BY <1>10, <1>19, <1>22 DEF Joined
    <2> QED BY <1>20, <1>21, <2>1, <2>2 DEF Joined
  <1>27. ASSUME NEW c \in Nat, c < len PROVE ReadCell(o, c) = cells[c + 1]
    <2>1. c \in 0 .. (Len(cells) - 1)
      BY <1>24, <1>27, SMTT(20)
    <2>2. c \in DOMAIN o.cells /\ o.cells[c] = cells[c + 1]
      BY <2>1 DEF OutIs
    <2> QED BY <2>2 DEF ReadCell
  <1>28. ReadCell(o, k - 1) = descs[k]
    <2>1. PICK c \in Nat : c = k - 1 /\ c < len /\ c + 1 = k
      <3>1. \A z \in 0 .. 1 : len >= base + z + n => k <= len
        BY <1>4, <1>12, SMTT(20)
      <3>2. k <= len
        BY <1>24, <1>35, <3>1
      <3> QED BY <1>4, <3>2, SMTT(20)
    <2>2. ReadCell(o, c) = cells[k]
      BY <1>27, <2>1
    <2> QED BY <1>25, <2>1, <2>2
  <1>29. PICK p \in Kept : p = pages[k] /\ pd[k] = SourceDesc(p) /\ Found(p)
    BY <1>6
  <1>30. p = Ascending(Kept)[k]
    BY <1>4, <1>29 DEF pages
  \* The zero page.
  <1>32. CASE k \in zero
    <2>1. in.dropZero /\ pd[k].off = base /\ IsDesc(descs[k], base, 1)
      BY <1>15, <1>16, <1>32
    <2>2. IsZero(p)
      <3>1. CASE SourceDesc(p) \in {Hole, Eof}
        <4>1. pd[k].off = 0
          BY <1>29, <3>1, NoDescIs
        <4>2. base = 0
          BY <2>1, <4>1
        <4> QED BY <4>2, SMTT(20)
      <3>2. ASSUME NEW d \in Nat, d >= Cardinality(Kept) + ZeroCells, IsDesc(SourceDesc(p), d, 1)
            PROVE  FALSE
        <4>1. pd[k].off = d
          BY <1>29, <3>2, DescIs
        <4>2. d >= base + 1
          BY <1>4, <1>7, <2>1, <3>2
        <4>3. d = base
          BY <2>1, <4>1
        <4> QED BY <1>4, <4>2, <4>3, SMTT(20)
      <3> QED BY <1>29, <3>1, <3>2 DEF Found
    <2>3. ReadCell(o, base) = ZeroPage
      <3>1. base < len /\ 1 \in 1 .. ZeroCells + n /\ 1 \in 1 .. ZeroCells
        <4>1. ZeroCells = 1
          BY <1>7, <2>1
        <4>2. \A z : z = 1 /\ len >= base + z + n => base < len /\ 1 \in 1 .. z + n /\ 1 \in 1 .. z
          BY <1>4, <1>12, SMTT(20)
        <4> QED BY <1>24, <4>1, <4>2
      <3>2. ReadCell(o, base) = cells[base + 1]
        BY <1>4, <1>27, <3>1
      <3>3. cells[base + 1] = data[1]
        BY <1>26, <3>1
      <3>4. data[1] = Z[1]
        BY <1>11, <1>18, <3>1 DEF Joined
      <3> QED BY <1>11, <2>1, <3>2, <3>3, <3>4
    <2>4. 1 # 0
      BY SMTT(20)
    <2>5. ReadCell(o, k - 1).off = base /\ ReadCell(o, k - 1).size = 1
      BY <1>28, <2>1, DescIs
    <2> QED BY <1>30, <2>2, <2>3, <2>4, <2>5 DEF RightIn
  \* A page that was copied.
  <1>33. CASE k \in S
    <2>1. k \notin zero /\ pd[k].size = 1
      BY <1>16, <1>33
    <2>2. PICK m \in 1 .. n : Place(k) = base + ZeroCells + (m - 1) /\ stored[m] = k
      BY <1>17, <1>33
    <2>3. IsDesc(descs[k], Place(k), 1)
      BY <1>15, <2>1
    <2>4. PICK c \in Nat : c = Place(k) /\ c < len /\ c + 1 = base + (ZeroCells + m)
                           /\ ZeroCells + m \in 1 .. ZeroCells + n
      <3>1. ASSUME NEW z \in 0 .. 1, len >= base + z + n
            PROVE  /\ base + z + (m - 1) \in Nat /\ base + z + (m - 1) < len
                   /\ base + z + (m - 1) + 1 = base + (z + m) /\ z + m \in 1 .. z + n
        <4>1. base \in Nat /\ n \in Nat /\ len \in Nat /\ m \in 1 .. n
          BY <1>4, <1>12
        <4>2. z \in Int /\ m \in Int /\ 0 <= z /\ 1 <= m /\ m <= n
          BY <4>1, SMTT(20)
        <4>3. z + m \in 1 .. z + n
          BY <4>1, <4>2, SMTT(20)
        <4>4. base + z + (m - 1) + 1 = base + (z + m)
          BY <4>1, <4>2, SMTT(20)
        <4>5. base + z + (m - 1) \in Nat /\ base + z + (m - 1) < len
          BY <3>1, <4>1, <4>2, SMTT(20)
        <4> QED BY <4>3, <4>4, <4>5
      <3> QED BY <1>24, <1>35, <2>2, <3>1
    <2>5. ReadCell(o, c) = X[m]
      <3>1. ReadCell(o, c) = cells[base + (ZeroCells + m)]
        BY <1>27, <2>4
      <3>2. cells[base + (ZeroCells + m)] = data[ZeroCells + m]
        BY <1>26, <2>4
      <3>3. data[ZeroCells + m] = X[m]
        BY <1>11, <1>13, <1>18 DEF Joined
      <3> QED BY <3>1, <3>2, <3>3
    <2>6. X[m] = ReadCell(file[EntryOf(p).name], pd[k].off)
      BY <1>14, <1>29, <2>2
    <2>7. ~IsZero(p) /\ X[m] = Page(p)
      <3>1. CASE IsZero(p) /\ IsDesc(SourceDesc(p), Cardinality(Kept), 1)
        <4>1. pd[k].off = base /\ in.dropZero
          BY <1>4, <1>29, <3>1, DescIs DEF IsZero
        <4> QED BY <1>16, <2>1, <4>1
      <3>2. CASE SourceDesc(p) \in {Hole, Eof}
        <4>1. pd[k].size = 0
          BY <1>29, <3>2, NoDescIs
        <4>2. 0 = 1
          BY <2>1, <4>1
        <4> QED BY <4>2, SMTT(20)
      <3>3. ASSUME ~IsZero(p), NEW d \in Nat, IsDesc(SourceDesc(p), d, 1),
                   ReadCell(file[EntryOf(p).name], d) = Page(p)
            PROVE  X[m] = Page(p)
        <4>1. pd[k].off = d
          BY <1>29, <3>3, DescIs
        <4> QED BY <2>6, <3>3, <4>1
      <3> QED BY <1>29, <3>1, <3>2, <3>3 DEF Found
    <2>8. 1 # 0
      BY SMTT(20)
    <2>9. ReadCell(o, k - 1).off = c /\ ReadCell(o, k - 1).size = 1
      BY <1>28, <2>3, <2>4, DescIs
    <2> QED BY <1>30, <2>5, <2>7, <2>8, <2>9 DEF RightIn
  \* A page that was lost.
  <1>34. CASE k \notin zero /\ k \notin S
    <2>1. pd[k].size # 1 /\ IsDesc(descs[k], Place(k), pd[k].size)
      BY <1>15, <1>16, <1>34
    <2>2. \A d : ~IsDesc(SourceDesc(p), d, 1)
      BY <1>29, <2>1, DescIs
    <2>3. SourceDesc(p) \in {Hole, Eof} /\ ret # "TRUE"
      BY <1>29, <2>2 DEF Found
    <2>4. pd[k].size = 0
      BY <1>29, <2>3, NoDescIs
    <2>5. ReadCell(o, k - 1).size = 0
      BY <1>28, <2>1, <2>4, DescIs
    <2>6. o.status = "incomplete"
      BY <2>3 DEF OutIs
    <2> QED BY <2>5, <2>6 DEF RightIn
  <1> QED BY <1>32, <1>33, <1>34

-----------------------------------------------------------------------------
(***************************************************************************)
(* The files on disk, step by step.                                        *)
(***************************************************************************)
Late == {"sort", "header", "pages", "reassembled", "refused"}

\* Only a reassembling process gets past the return of create_dumpfile().
LEMMA CreatingEarly ==
    ASSUME Inv, Entries, Creating
    PROVE  pc' \notin Late
  <1>1. CASE ChildStep
    <2>1. Running /\ pc' = pc
      BY <1>1 DEF ChildStep, ChildExits, Running
    <2>2. pc \in Late => ret # "fork" /\ pc \notin {"count", "fork", "wait", "waited"}
      BY DEF Entries, Late
    <2> QED BY <2>1, <2>2 DEF Inv, Control
  <1> QED BY <1>1 DEF Creating, CountPages, Fork, ForkFails, WaitChild, Finish,
             Late

\* check_and_modify_multiple_kdump_headers() changes the status and nothing else.
LEMMA MarkedIs ==
    ASSUME NEW f, NEW x, NEW kept, NEW r, NEW k, Held(f, x, kept, r, k)
    PROVE  /\ Held([f EXCEPT !.status = "incomplete"], x, kept, r, k)
           /\ [f EXCEPT !.status = "incomplete"].status = "incomplete"
  <1> DEFINE g == [f EXCEPT !.status = "incomplete"]
  <1>1. PICK st, lv, eOff, eSize, cells :
           /\ f = [status |-> st, level |-> lv, max |-> x.max, bitmap |-> kept,
                   start |-> r.start, end |-> r.end, eOff |-> eOff, eSize |-> eSize, cells |-> cells]
           /\ f.eOff = eOff /\ f.eSize = eSize /\ f.cells = cells
    BY DEF Held
  <1>2. /\ g = [status |-> "incomplete", level |-> lv, max |-> x.max, bitmap |-> kept,
                start |-> r.start, end |-> r.end, eOff |-> eOff, eSize |-> eSize, cells |-> cells]
    BY <1>1, SMTT(20)
  <1> HIDE DEF g
  <1>3. /\ g.status = "incomplete" /\ g.level = lv /\ g.eOff = eOff
        /\ g.eSize = eSize /\ g.cells = cells
    BY <1>2, SMTT(20)
  <1>4. g = [status |-> g.status, level |-> g.level, max |-> x.max, bitmap |-> kept,
             start |-> r.start, end |-> r.end, eOff |-> g.eOff, eSize |-> g.eSize, cells |-> g.cells]
    BY <1>2, <1>3
  <1>5. g.eOff \in Nat /\ g.eSize \in Nat /\ (x.erased \cap kept = {} => g.eSize = 0)
    BY <1>1, <1>3 DEF Held
  <1>6. CellsIn(g.cells, x, kept, Ascending(kept \cap Frames(r)), k)
    BY <1>1, <1>3 DEF Held
  <1>7. Held(g, x, kept, r, k)
    BY <1>4, <1>5, <1>6 DEF Held
  <1> QED BY <1>3, <1>7 DEF g

\* Every child that has exited left a file with pages of its range.
LEMMA WrittenChild ==
    ASSUME Inv, Invoked, Written, ChildStep
    PROVE  Written'
  <1>0. PICK i \in 1 .. in.files, code \in {"0", "1", "2"} :
           child[i] = "run" /\ \E k \in 0 .. Pages(i) : ChildExits(i, k, code)
    BY DEF ChildStep
  <1>1. PICK k \in 0 .. Pages(i) : child[i] = "run" /\ ChildExits(i, k, code)
    BY <1>0
  <1>2. /\ UNCHANGED << in, pc, attempt, ranges, waited, ret >>
        /\ code = "0" => k = Pages(i)
        /\ child' = [child EXCEPT ![i] = code]
        /\ file' = [file EXCEPT ![i] = WrittenFile(ranges[i], k, code = "0")]
    BY <1>1 DEF ChildExits
  <1>3. /\ \A j \in 1 .. in.files : child'[j] = IF j = i THEN code ELSE child[j]
        /\ \A j \in 1 .. in.files :
              file'[j] = IF j = i THEN WrittenFile(ranges[i], k, code = "0") ELSE file[j]
    BY <1>2 DEF Inv, Types
  <1>4. Running
    BY <1>1 DEF Running
  <1>5. pc # "count" /\ (pc \notin Early => ret = "fork")
    BY <1>4 DEF Inv, Control, Early
  <1>6. Kept' = Kept
    BY <1>2 DEF Kept
  <1>7. HasFile(WrittenFile(ranges[i], k, code = "0"), in, Kept, ranges[i], code)
    <2>1. (code = "0") \in BOOLEAN
      OBVIOUS
    <2>2. Held(WrittenFile(ranges[i], k, code = "0"), in, Kept, ranges[i], k)
      BY <2>1, WrittenIs
    <2>3. Pages(i) = Share(Kept, ranges[i])
      BY DEF Pages, Share
    <2> QED BY <1>2, <2>2, <2>3 DEF HasFile
  <1>8. ASSUME NEW j \in 1 .. in.files, child'[j] \in Codes
        PROVE  HasFile(file'[j], in, Kept, ranges[j], child'[j])
    <2>1. CASE j = i
      BY <1>3, <1>7, <2>1
    <2>2. CASE j # i
      BY <1>3, <1>5, <1>8, <2>2 DEF Written
    <2> QED BY <2>1, <2>2
  <1> QED BY <1>2, <1>5, <1>6, <1>8 DEF Written

\* A dump left without space keeps its files, marked as incomplete.
LEMMA WrittenFinish ==
    ASSUME Inv, Written, Finish
    PROVE  Written'
  <1>1. pc = "waited" /\ UNCHANGED << in, ranges, child, waited, ret >>
    BY DEF Finish
  <1>2. waited = in.files /\ Told(in.files)
    BY <1>1 DEF Inv, Control
  <1>3. CASE pc' = "count"
    BY <1>3 DEF Written, Early
  <1>4. CASE pc' # "count"
    <2>1. pc' = "returned" /\ attempt' = attempt
          /\ file' = IF ret = "NOSPACE" THEN MarkIncomplete ELSE file
      BY <1>4 DEF Finish
    <2>2. Kept' = Kept
      BY <1>1, <2>1 DEF Kept
    <2>3. CASE ret = "NOSPACE"
      <3>1. ASSUME NEW i \in 1 .. in.files
            PROVE  HasFile(file'[i], in, Kept, ranges[i], child[i]) /\ file'[i].status = "incomplete"
        <4>1. child[i] \in Codes
          BY <1>2 DEF Told
        <4>2. HasFile(file[i], in, Kept, ranges[i], child[i])
          BY <1>1, <4>1 DEF Written
        <4>3. PICK k \in 0 .. Share(Kept, ranges[i]) :
                 /\ Held(file[i], in, Kept, ranges[i], k)
                 /\ child[i] = "0" => k = Share(Kept, ranges[i])
          BY <4>2 DEF HasFile
        <4>4. file'[i] = [file[i] EXCEPT !.status = "incomplete"]
          BY <2>1, <2>3 DEF MarkIncomplete
        <4>5. Held(file'[i], in, Kept, ranges[i], k) /\ file'[i].status = "incomplete"
          <5>1. /\ Held([file[i] EXCEPT !.status = "incomplete"], in, Kept, ranges[i], k)
                /\ [file[i] EXCEPT !.status = "incomplete"].status = "incomplete"
            BY <4>3, MarkedIs
          <5>2. PICK g : g = [file[i] EXCEPT !.status = "incomplete"]
            OBVIOUS
          <5>3. Held(g, in, Kept, ranges[i], k) /\ g.status = "incomplete"
            BY <5>1, <5>2
          <5>4. file'[i] = g
            BY <4>4, <5>2
          <5> QED BY <5>3, <5>4
        <4> QED BY <4>3, <4>5 DEF HasFile
      <3> QED BY <1>1, <1>2, <2>2, <3>1 DEF Written
    <2>4. CASE ret # "NOSPACE"
      BY <1>1, <1>2, <2>1, <2>2, <2>4 DEF Written
    <2> QED BY <2>3, <2>4
  <1> QED BY <1>3, <1>4

\* No step takes a file away from a child that has exited, but a retry.
LEMMA WrittenKept ==
    ASSUME Inv, Invoked, Written, [Next]_vars
    PROVE  Written'
  <1>1. CASE CountPages
    <2>1. /\ in' = in /\ child' = [i \in 1 .. in.files |-> "none"]
          /\ pc' = "fork" \/ (pc' = "returned" /\ ret' = "FALSE")
      BY <1>1 DEF CountPages
    <2>2. \A i \in 1 .. in.files : child'[i] \notin Codes
      BY <2>1 DEF Codes
    <2> QED BY <2>1, <2>2 DEF Written, Early
  <1>2. CASE Fork
    <2>1. /\ UNCHANGED << in, attempt, ranges, file >> /\ pc = "fork" /\ pc' \in {"fork", "wait"}
          /\ child' = [child EXCEPT ![Forked + 1] = "run"]
      BY <1>2 DEF Fork
    <2>2. \A i \in 1 .. in.files : child'[i] \in Codes => child'[i] = child[i]
      BY <2>1 DEF Inv, Types, Codes
    <2>3. Kept' = Kept
      BY <2>1 DEF Kept
    <2> QED BY <2>1, <2>2, <2>3 DEF Written, Early
  <1>3. ASSUME UNCHANGED << in, attempt, ranges, child, file >>, pc # "count",
               pc' \in Early \/ ret' = "fork" \/ (pc \notin Early /\ waited' = waited /\ ret' = ret)
        PROVE  Written'
    <2>1. Kept' = Kept
      BY <1>3 DEF Kept
    <2> QED BY <1>3, <2>1 DEF Written
  <1>4. CASE ForkFails \/ WaitChild
    BY <1>3, <1>4 DEF ForkFails, WaitChild, Early
  <1>5. CASE Reassembling
    <2>1. /\ UNCHANGED << in, attempt, ranges, child, file, waited, ret >> /\ pc \notin Early
      BY <1>5 DEF Reassembling, StoreSplittingInfo, SortSplittingInfo,
         ReassembleHeader, ReassemblePages, Early
    <2> QED BY <1>3, <2>1 DEF Early
  <1>6. CASE UNCHANGED vars
    <2>1. UNCHANGED << in, pc, attempt, ranges, child, file, waited, ret >>
      BY <1>6 DEF vars
    <2>2. Kept' = Kept
      BY <2>1 DEF Kept
    <2> QED BY <2>1, <2>2 DEF Written
  <1> QED BY <1>1, <1>2, <1>4, <1>5, <1>6, WrittenChild, WrittenFinish
             DEF Next, Creating, Stop

-----------------------------------------------------------------------------
(***************************************************************************)
(* Reassembling, step by step.                                             *)
(***************************************************************************)
JoinInv == RangeInv /\ Written /\ Entries /\ Headed /\ Rebuilt

\* The files that --reassemble finds: one of every child.
LEMMA FilesThere ==
    ASSUME RangeInv, Written, pc \notin Early, ret \in {"TRUE", "NOSPACE"}, NEW i \in 1 .. in.files
    PROVE  /\ HasFile(file[i], in, Kept, ranges[i], child[i])
           /\ ret = "TRUE" => child[i] = "0"
           /\ file[i].start = ranges[i].start /\ file[i].end = ranges[i].end
           /\ file[i].start \in Nat /\ file[i].end \in Nat
           /\ file[i].eOff \in Nat /\ file[i].eSize \in Nat
           /\ in.erased \cap Kept = {} => file[i].eSize = 0
           /\ file[i].max = in.max /\ file[i].bitmap = Kept
  <1>1. waited = in.files
    BY DEF Written
  <1>2. Told(in.files)
    BY <1>1 DEF RangeInv, Inv, Control, Early
  <1>3. child[i] \in Codes /\ (ret = "TRUE" => child[i] = "0")
    BY <1>2 DEF Told
  <1>4. HasFile(file[i], in, Kept, ranges[i], child[i])
    BY <1>3 DEF Written, Early
  <1>5. PICK k : Held(file[i], in, Kept, ranges[i], k)
    BY <1>4 DEF HasFile
  <1>6. /\ file[i].start = ranges[i].start /\ file[i].end = ranges[i].end
        /\ file[i].max = in.max /\ file[i].bitmap = Kept
    BY <1>5, HeldIs
  <1>7. file[i].eOff \in Nat /\ file[i].eSize \in Nat /\ (in.erased \cap Kept = {} => file[i].eSize = 0)
    BY <1>5 DEF Held
  <1>8. ranges[i].start \in Nat /\ ranges[i].end \in Nat
    BY DEF RangeInv, Ranged, Partition, Early
  <1> QED BY <1>3, <1>4, <1>6, <1>7, <1>8

\* store_splitting_info() reads the range of each file it is given.
LEMMA StoredIs ==
    ASSUME RangeInv, Written, pc \notin Early, ret \in {"TRUE", "NOSPACE"}, NEW o \in Orders
    PROVE  /\ Named(SplittingInfo(o), file, in.files) /\ Turn(Len(SplittingInfo(o)), << 1, 1 >>)
           /\ o[1] \in 1 .. in.files
  <1>1. PICK m \in 2 .. in.files : o \in [1 .. m -> 1 .. in.files]
    BY DEF Orders
  <1>2. in.files \in Nat
    BY DEF RangeInv, Inv, Types
  <1>3. m \in Nat /\ m >= 2 /\ 1 \in 1 .. m
    BY <1>2, SMTT(20)
  <1>4. o \in Seq(1 .. in.files) /\ Len(o) = m
    <2>1. \A T : o \in [1 .. m -> T] => o \in Seq(T) /\ Len(o) = m
      BY <1>3, SMTT(20)
    <2> QED BY <1>1, <2>1
  <1> DEFINE s == SplittingInfo(o)
             E(i) == [name |-> o[i], start |-> file[o[i]].start, end |-> file[o[i]].end,
                      eOff |-> file[o[i]].eOff, eSize |-> file[o[i]].eSize]
  <1>5. s = [i \in 1 .. m |-> E(i)]
    BY <1>4 DEF SplittingInfo
  <1>6. ASSUME NEW i \in 1 .. m
        PROVE  /\ E(i) \in EntryType(in.files)
               /\ E(i).start = file[E(i).name].start /\ E(i).end = file[E(i).name].end
    <2>1. PICK n \in 1 .. in.files : n = o[i]
      BY <1>1
    <2>2. /\ file[n].start \in Nat /\ file[n].end \in Nat
          /\ file[n].eOff \in Nat /\ file[n].eSize \in Nat
      BY FilesThere
    <2>3. E(i) = [name |-> n, start |-> file[n].start, end |-> file[n].end,
                  eOff |-> file[n].eOff, eSize |-> file[n].eSize]
      BY <2>1
    <2> HIDE DEF E
    <2>4. E(i) \in EntryType(in.files)
      <3>1. [name |-> n, start |-> file[n].start, end |-> file[n].end,
             eOff |-> file[n].eOff, eSize |-> file[n].eSize] \in EntryType(in.files)
        BY <2>2 DEF EntryType
      <3> QED BY <2>3, <3>1
    <2>5. E(i).name = n /\ E(i).start = file[n].start /\ E(i).end = file[n].end
      BY <2>3, SMTT(20)
    <2> QED BY <2>4, <2>5
  <1> HIDE DEF E, s
  <1>7. s \in [1 .. m -> EntryType(in.files)]
    BY <1>5, <1>6
  <1>8. s \in Seq(EntryType(in.files)) /\ Len(s) = m
    BY <1>3, <1>7, SMTT(20)
  <1>9. ASSUME NEW i \in 1 .. m
        PROVE  s[i].start = file[s[i].name].start /\ s[i].end = file[s[i].name].end
    <2>1. s[i] = E(i)
      BY <1>5
    <2> QED BY <1>6, <2>1
  <1>10. Named(s, file, in.files)
    BY <1>3, <1>8, <1>9 DEF Named
  <1>11. 1 \in 1 .. m - 1 /\ 1 \in 1 .. m
    BY <1>3, SMTT(20)
  <1>12. Turn(m, << 1, 1 >>)
    BY <1>11 DEF Turn
  <1>13. o[1] \in 1 .. in.files
    BY <1>1, <1>3
  <1> QED BY <1>8, <1>10, <1>12, <1>13 DEF s

\* sort_splitting_info() keeps a name and its range together.
Moved(a, d, e, files) ==
    /\ a \in EntryType(files) /\ a.name = d.name /\ a.start = d.start /\ a.end = d.end
    /\ a.eSize = e.eSize

\* The entry that gets the name and the range of another.
LEMMA MovedIs ==
    ASSUME NEW files, NEW e \in EntryType(files), NEW d \in EntryType(files)
    PROVE  Moved([e EXCEPT !.name = d.name, !.start = d.start, !.end = d.end], d, e, files)
  <1>1. PICK x, y, z : x = d.name /\ y = d.start /\ z = d.end
    OBVIOUS
  <1>2. PICK a : a = [e EXCEPT !.name = x, !.start = y, !.end = z]
    OBVIOUS
  <1>3. x \in 1 .. files /\ y \in Nat /\ z \in Nat
    BY <1>1 DEF EntryType
  <1>4. a \in EntryType(files) /\ a.name = x /\ a.start = y /\ a.end = z /\ a.eSize = e.eSize
    <2>1. PICK en, es, ee, eo, ez :
             /\ e = [name |-> en, start |-> es, end |-> ee, eOff |-> eo, eSize |-> ez]
             /\ eo \in Nat /\ ez \in Nat
      BY DEF EntryType
    <2>2. PICK b : b = [e EXCEPT !.name = x]
      OBVIOUS
    <2>3. b = [name |-> x, start |-> es, end |-> ee, eOff |-> eo, eSize |-> ez]
      BY <2>1, <2>2, SMTT(20)
    <2>4. PICK c : c = [b EXCEPT !.start = y]
      OBVIOUS
    <2>8. c = [name |-> x, start |-> y, end |-> ee, eOff |-> eo, eSize |-> ez]
      BY <2>3, <2>4, SMTT(20)
    <2>9. a = [c EXCEPT !.end = z]
      BY <1>2, <2>2, <2>4
    <2>5. a = [name |-> x, start |-> y, end |-> z, eOff |-> eo, eSize |-> ez]
      BY <2>8, <2>9, SMTT(20)
    <2>6. [name |-> x, start |-> y, end |-> z, eOff |-> eo, eSize |-> ez] \in EntryType(files)
      BY <1>3, <2>1 DEF EntryType
    <2>7. a.name = x /\ a.start = y /\ a.end = z /\ a.eSize = ez
      BY <2>5, SMTT(20)
    <2>10. e.eSize = ez
      BY <2>1, SMTT(20)
    <2> QED BY <2>5, <2>6, <2>7, <2>10
  <1>5. Moved(a, d, e, files)
    BY <1>1, <1>4 DEF Moved
  <1> QED BY <1>1, <1>2, <1>5

\* Two entries have exchanged name and range.
HasName(a, d) == a.name = d.name /\ a.start = d.start /\ a.end = d.end
Swap(s, t, i, j, files) ==
    /\ t \in Seq(EntryType(files)) /\ Len(t) = Len(s)
    /\ HasName(t[i], s[j]) /\ HasName(t[j], s[i])
    /\ \A m \in 1 .. Len(s) : t[m].eSize = s[m].eSize /\ (m # i /\ m # j => t[m] = s[m])

\* What an exchange of two entries does.
LEMMA SwapIs ==
    ASSUME NEW s, NEW files, s \in Seq(EntryType(files)), NEW i \in 1 .. Len(s), NEW j \in 1 .. Len(s)
    PROVE  Swap(s, Swapped(s, i, j), i, j, files)
  <1> DEFINE A == [s[i] EXCEPT !.name = s[j].name, !.start = s[j].start, !.end = s[j].end]
             B == [s[j] EXCEPT !.name = s[i].name, !.start = s[i].start, !.end = s[i].end]
             t == Swapped(s, i, j)
  <1>1. t = [[s EXCEPT ![i] = A] EXCEPT ![j] = B]
    BY DEF Swapped
  <1>2. Len(s) \in Nat
    BY SeqLen
  <1>3. s[i] \in EntryType(files) /\ s[j] \in EntryType(files)
    BY SeqElement
  <1>4. Moved(A, s[j], s[i], files) /\ Moved(B, s[i], s[j], files)
    BY <1>3, MovedIs
  <1> HIDE DEF A, B, t
  <1>5. A \in EntryType(files) /\ HasName(A, s[j]) /\ A.eSize = s[i].eSize
    BY <1>4 DEF Moved, HasName
  <1>6. B \in EntryType(files) /\ HasName(B, s[i]) /\ B.eSize = s[j].eSize
    BY <1>4 DEF Moved, HasName
  <1>7. /\ t \in Seq(EntryType(files)) /\ Len(t) = Len(s)
        /\ \A m \in 1 .. Len(s) : t[m] = IF m = j THEN B ELSE IF m = i THEN A ELSE s[m]
    BY <1>1, <1>2, <1>5, <1>6, SMTT(20)
  <1>8. t[j] = B /\ (i # j => t[i] = A)
    BY <1>7
  <1>9. HasName(t[j], s[i]) /\ HasName(t[i], s[j])
    <2>1. CASE i = j
      BY <1>6, <1>8, <2>1
    <2>2. CASE i # j
      BY <1>5, <1>6, <1>8, <2>2
    <2> QED BY <2>1, <2>2
  <1>10. ASSUME NEW m \in 1 .. Len(s)
         PROVE  t[m].eSize = s[m].eSize /\ (m # i /\ m # j => t[m] = s[m])
    <2>1. CASE m = j
      BY <1>6, <1>7, <2>1
    <2>2. CASE m # j /\ m = i
      BY <1>5, <1>7, <2>2
    <2>3. CASE m # j /\ m # i
      BY <1>7, <2>3
    <2> QED BY <2>1, <2>2, <2>3
  <1> QED BY <1>7, <1>9, <1>10 DEF Swap, t

\* An exchange of two entries leaves every name with the range of its file.
LEMMA ExchangeIs ==
    ASSUME NEW s, NEW f, NEW files, Named(s, f, files), NEW i \in 1 .. Len(s), NEW j \in 1 .. Len(s)
    PROVE  Named(Exchange(s, i, j), f, files) /\ Len(Exchange(s, i, j)) = Len(s)
  <1>1. CASE s[i].start < s[j].start
    BY <1>1 DEF Exchange
  <1>2. CASE ~(s[i].start < s[j].start)
    <2>1. PICK t : t = Exchange(s, i, j) /\ t = Swapped(s, i, j)
      BY <1>2 DEF Exchange
    <2>2. Swap(s, t, i, j, files)
      BY <2>1, SwapIs DEF Named
    <2>3. ASSUME NEW m \in 1 .. Len(s)
          PROVE  t[m].start = f[t[m].name].start /\ t[m].end = f[t[m].name].end
      <3>1. CASE m = j
        BY <2>2, <3>1 DEF Named, Swap, HasName
      <3>2. CASE m = i
        BY <2>2, <3>2 DEF Named, Swap, HasName
      <3>3. CASE m # j /\ m # i
        BY <2>2, <3>3 DEF Named, Swap
      <3> QED BY <3>1, <3>2, <3>3
    <2>4. Named(t, f, files) /\ Len(t) = Len(s)
      BY <2>2, <2>3 DEF Named, Swap
    <2> QED BY <2>1, <2>4
  <1> QED BY <1>1, <1>2

\* A turn of the two loops stays within the entries.
LEMMA TurnIs ==
    ASSUME NEW n \in Nat, NEW place, Turn(n, place)
    PROVE  /\ place[1] \in 1 .. n /\ place[2] \in 1 .. n
           /\ place[2] < n => Turn(n, << place[1], place[2] + 1 >>)
           /\ place[1] + 1 < n => Turn(n, << place[1] + 1, place[1] + 1 >>)
  <1>1. PICK i \in 1 .. n - 1 : \E j \in i .. n : place = << i, j >>
    BY DEF Turn
  <1>2. PICK j \in i .. n : place = << i, j >>
    BY <1>1
  <1>3. place[1] = i /\ place[2] = j
    BY <1>2, SMTT(20)
  <1>4. i \in 1 .. n /\ j \in 1 .. n
    BY SMTT(20)
  <1>5. ASSUME j < n PROVE Turn(n, << i, j + 1 >>)
    <2>1. j + 1 \in i .. n
      BY <1>5, SMTT(20)
    <2> QED BY <2>1 DEF Turn
  <1>6. ASSUME i + 1 < n PROVE Turn(n, << i + 1, i + 1 >>)
    <2>1. i + 1 \in 1 .. n - 1 /\ i + 1 \in i + 1 .. n
      BY <1>6, SMTT(20)
    <2> QED BY <2>1 DEF Turn
  <1> QED BY <1>3, <1>4, <1>5, <1>6

\* A turn of the sorting loops, and the check after the last one.
LEMMA SortStep ==
    ASSUME JoinInv, SortSplittingInfo
    PROVE  Entries'
  <1>1. /\ pc = "sort" /\ UNCHANGED << in, file, ret, order >>
        /\ sorted' = Exchange(sorted, at[1], at[2])
        /\ at' = IF at[2] < Len(sorted) THEN << at[1], at[2] + 1 >> ELSE << at[1] + 1, at[1] + 1 >>
        /\ pc' = IF at'[1] < Len(sorted) THEN "sort"
                 ELSE IF CheckSplittingInfo(sorted', file[order[1]].max) THEN "header" ELSE "refused"
    BY DEF SortSplittingInfo
  <1>2. /\ Named(sorted, file, in.files) /\ order[1] \in 1 .. in.files /\ ret \in {"TRUE", "NOSPACE"}
        /\ Turn(Len(sorted), at)
    BY <1>1 DEF JoinInv, Entries
  <1>3. Len(sorted) \in Nat
    BY <1>2, SeqLen DEF Named
  <1>4. /\ at[1] \in 1 .. Len(sorted) /\ at[2] \in 1 .. Len(sorted)
        /\ at[2] < Len(sorted) => Turn(Len(sorted), << at[1], at[2] + 1 >>)
        /\ at[1] + 1 < Len(sorted) => Turn(Len(sorted), << at[1] + 1, at[1] + 1 >>)
    BY <1>2, <1>3, TurnIs
  <1>5. Named(sorted', file, in.files) /\ Len(sorted') = Len(sorted)
    BY <1>1, <1>2, <1>4, ExchangeIs
  <1>6. file[order[1]].max = in.max
    BY <1>1, <1>2, FilesThere DEF JoinInv, Early
  <1>7. pc' \in {"sort", "header", "refused"} /\ (pc' = "header" => CheckSplittingInfo(sorted', in.max))
    BY <1>1, <1>6
  <1>8. ASSUME pc' = "sort" PROVE Turn(Len(sorted), at')
    <2>1. CASE at[2] < Len(sorted)
      BY <1>1, <1>4, <2>1
    <2>2. CASE ~(at[2] < Len(sorted))
      <3>1. at' = << at[1] + 1, at[1] + 1 >>
        BY <1>1, <2>2
      <3>2. at'[1] = at[1] + 1
        BY <3>1, SMTT(20)
      <3>3. at'[1] < Len(sorted)
        BY <1>1, <1>8
      <3> QED BY <1>4, <3>1, <3>2, <3>3
    <2> QED BY <2>1, <2>2
  <1> QED BY <1>1, <1>2, <1>5, <1>7, <1>8 DEF Entries

\* The entries before sorting.
LEMMA StoreStep ==
    ASSUME JoinInv, NEW o \in Orders, StoreSplittingInfo(o)
    PROVE  Entries'
  <1>1. /\ pc = "returned" /\ ret \in {"TRUE", "NOSPACE"} /\ UNCHANGED << in, file, ret >>
        /\ order' = o /\ sorted' = SplittingInfo(o) /\ at' = << 1, 1 >>
        /\ pc' \in {"sort", "refused"}
    BY DEF StoreSplittingInfo
  <1>2. /\ Named(sorted', file, in.files) /\ Turn(Len(sorted'), at') /\ order'[1] \in 1 .. in.files
    BY <1>1, StoredIs DEF JoinInv, Early
  <1> QED BY <1>1, <1>2 DEF Entries

\* An entry names one of the files.
LEMMA NameIs ==
    ASSUME NEW s, NEW f, NEW files, Named(s, f, files), NEW i \in 1 .. Len(s)
    PROVE  s[i].name \in 1 .. files /\ s[i].eOff \in Nat /\ s[i].eSize \in Nat
  <1>1. s \in Seq(EntryType(files))
    BY DEF Named
  <1>2. s[i] \in EntryType(files)
    BY <1>1, SeqElement
  <1> QED BY <1>2 DEF EntryType

\* The files of a dump without space are incomplete, so its header is.
LEMMA HeaderIs ==
    ASSUME RangeInv, Written, pc \notin Early, ret = "NOSPACE", Named(sorted, file, in.files)
    PROVE  HeaderFrom(sorted).status = "incomplete"
  <1>1. sorted \in Seq(EntryType(in.files)) /\ Len(sorted) \in Nat /\ Len(sorted) >= 2
    BY SeqLen DEF Named
  <1>2. \A i \in 1 .. Len(sorted) : file[sorted[i].name].status = "incomplete"
    <2> TAKE i \in 1 .. Len(sorted)
    <2>1. sorted[i].name \in 1 .. in.files
      BY NameIs
    <2> QED BY <2>1 DEF Written
  <1> DEFINE bad == {i \in 1 .. Len(sorted) : file[sorted[i].name].status = "incomplete"}
  <1>3. 1 \in 1 .. Len(sorted) /\ 1 .. Len(sorted) \subseteq Nat
    BY <1>1, SMTT(20)
  <1>4. bad # {} /\ bad \subseteq Nat
    BY <1>2, <1>3
  <1>5. \E i \in bad : \A j \in bad : i <= j
    BY <1>4, LeastNatural
  <1> DEFINE i == CHOOSE i \in bad : \A j \in bad : i <= j
  <1>6. i \in bad
    BY <1>5
  <1>7. HeaderFrom(sorted) = file[sorted[i].name]
    BY <1>4 DEF HeaderFrom
  <1> QED BY <1>2, <1>6, <1>7

\* The header written has the bitmap of the level in force.
LEMMA HeaderStep ==
    ASSUME JoinInv, ReassembleHeader
    PROVE  Entries' /\ Headed'
  <1>1. /\ pc = "header" /\ pc' = "pages" /\ UNCHANGED << in, attempt, file, ret, order, sorted >>
        /\ out' = [status |-> HeaderFrom(sorted).status, bitmap |-> file[sorted[1].name].bitmap,
                   eOff |-> 0, eSize |-> 0, cells |-> << >>]
    BY DEF ReassembleHeader
  <1>2. /\ Named(sorted, file, in.files) /\ order[1] \in 1 .. in.files /\ ret \in {"TRUE", "NOSPACE"}
        /\ CheckSplittingInfo(sorted, in.max)
    BY <1>1 DEF JoinInv, Entries
  <1>3. Entries'
    BY <1>1, <1>2 DEF Entries
  <1>4. file[sorted[1].name].bitmap = Kept
    <2>1. sorted \in Seq(EntryType(in.files)) /\ Len(sorted) \in Nat /\ Len(sorted) >= 2
      BY <1>2, SeqLen DEF Named
    <2>2. 1 \in 1 .. Len(sorted)
      BY <2>1, SMTT(20)
    <2>3. sorted[1].name \in 1 .. in.files
      BY <1>2, <2>2, NameIs
    <2> QED BY <1>1, <1>2, <2>3, FilesThere DEF JoinInv, Early
  <1>5. PICK st : st = HeaderFrom(sorted).status
    OBVIOUS
  <1>6. out' = HeaderOf(st, Kept)
    BY <1>1, <1>4, <1>5 DEF HeaderOf
  <1>7. out'.status = st
    BY <1>6, SMTT(20) DEF HeaderOf
  <1>8. ret = "NOSPACE" => st = "incomplete"
    BY <1>1, <1>2, <1>5, HeaderIs DEF JoinInv, Early
  <1>9. Kept' = Kept
    BY <1>1 DEF Kept
  <1> QED BY <1>1, <1>3, <1>6, <1>7, <1>8, <1>9 DEF Headed

\* reassemble_kdump_pages() finds the files it was given.
LEMMA SourcesIs ==
    ASSUME JoinInv, pc = "pages"
    PROVE  Invoked /\ Sources /\ (ret = "TRUE" \/ out.status = "incomplete")
  <1>1. /\ Named(sorted, file, in.files) /\ ret \in {"TRUE", "NOSPACE"}
        /\ CheckSplittingInfo(sorted, in.max)
    BY DEF JoinInv, Entries
  <1>2. \A i \in 1 .. in.files : /\ HasFile(file[i], in, Kept, ranges[i], child[i])
                                 /\ ret = "TRUE" => child[i] = "0"
    BY <1>1, FilesThere DEF JoinInv, Early
  <1>3. PICK st : out = HeaderOf(st, Kept)
    BY DEF JoinInv, Headed
  <1>4. out.bitmap = Kept
    BY <1>3, SMTT(20) DEF HeaderOf
  <1>5. ret = "TRUE" \/ out.status = "incomplete"
    BY <1>1 DEF JoinInv, Headed
  <1> QED BY <1>1, <1>2, <1>4, <1>5 DEF JoinInv, RangeInv, Sources

\* The erase information that is copied is a sequence of cells.
LEMMA EraseIs ==
    ASSUME Named(sorted, file, in.files)
    PROVE  \E V : CopiedEraseinfo \in Seq(V)
  <1> DEFINE C(i) == [k \in 1 .. sorted[i].eSize |-> ReadCell(file[sorted[i].name], sorted[i].eOff + k - 1)]
             R(i) == {C(i)[k] : k \in 1 .. sorted[i].eSize}
             V == UNION {R(i) : i \in 1 .. Len(sorted)}
             seqs == [i \in 1 .. Len(sorted) |-> C(i)]
  <1>1. Len(sorted) \in Nat /\ Len(sorted) >= 2
    BY SeqLen DEF Named
  <1>2. ASSUME NEW i \in 1 .. Len(sorted) PROVE C(i) \in Seq(V)
    <2>1. sorted[i].eSize \in Nat
      BY NameIs
    <2>2. Listed(C(i), sorted[i].eSize)
      BY DEF Listed
    <2> HIDE DEF C
    <2>3. C(i) \in Seq(R(i))
      BY <2>1, <2>2, ListedIs
    <2>4. R(i) \subseteq V
      <3> HIDE DEF R
      <3> QED OBVIOUS
    <2> HIDE DEF R, V
    <2> QED BY <2>3, <2>4, SeqWider
  <1>3. PICK n \in Nat : n = Len(sorted) /\ n # 0
    BY <1>1, SMTT(20)
  <1> HIDE DEF V, C
  <1>4. seqs \in [1 .. n -> Seq(V)]
    BY <1>2, <1>3
  <1>5. CopiedEraseinfo = Chained(seqs)
    BY DEF CopiedEraseinfo, C
  <1> HIDE DEF seqs
  <1>6. seqs \in Seq(Seq(V)) /\ Len(seqs) = n
    <2>1. \A T : seqs \in [1 .. n -> T] => seqs \in Seq(T) /\ Len(seqs) = n
      BY SMTT(20)
    <2> QED BY <1>4, <2>1
  <1>7. Chained(seqs) \in Seq(V)
    BY <1>3, <1>6, FlattenIs
  <1> QED BY <1>5, <1>7

\* The copying loop leaves the file that ReassembledExact asks for.
LEMMA PagesStep ==
    ASSUME JoinInv, ReassemblePages
    PROVE  Rebuilt'
  <1> DEFINE base == Cardinality(out.bitmap)
             erase == CopiedEraseinfo
             cells == Assembled(base, erase)
             eOff == IF erase = << >> THEN 0 ELSE base + Len(CopiedPages(base).data)
  <1>1. /\ pc = "pages" /\ UNCHANGED << in, attempt >>
        /\ out' = [out EXCEPT !.cells = [c \in 0 .. (Len(cells) - 1) |-> cells[c + 1]],
                              !.eOff = eOff, !.eSize = Len(erase)]
    BY DEF ReassemblePages, Assembled
  <1>2. Invoked /\ Sources /\ (ret = "TRUE" \/ out.status = "incomplete")
    BY <1>1, SourcesIs
  <1>3. PICK V : erase \in Seq(V)
    BY <1>2, EraseIs DEF Sources
  <1> HIDE DEF eOff, erase, cells
  <1>4. PICK st : out = HeaderOf(st, Kept)
    BY <1>1 DEF JoinInv, Headed
  <1>5. PICK x, y, z : /\ x = [c \in 0 .. (Len(cells) - 1) |-> cells[c + 1]] /\ y = eOff /\ z = Len(erase)
    OBVIOUS
  <1>6. out' = [out EXCEPT !.cells = x, !.eOff = y, !.eSize = z]
    BY <1>1, <1>5
  <1>7. out'.status = st /\ out'.bitmap = Kept /\ out'.cells = x /\ out.status = st
    <2>1. out = [status |-> st, bitmap |-> Kept, eOff |-> 0, eSize |-> 0, cells |-> << >>]
      BY <1>4 DEF HeaderOf
    <2>2. PICK b : b = [out EXCEPT !.cells = x]
      OBVIOUS
    <2>3. b = [status |-> st, bitmap |-> Kept, eOff |-> 0, eSize |-> 0, cells |-> x]
      BY <2>1, <2>2, SMTT(20)
    <2>4. PICK c : c = [b EXCEPT !.eOff = y]
      OBVIOUS
    <2>5. c = [status |-> st, bitmap |-> Kept, eOff |-> y, eSize |-> 0, cells |-> x]
      BY <2>3, <2>4, SMTT(20)
    <2>6. out' = [c EXCEPT !.eSize = z]
      BY <1>6, <2>2, <2>4
    <2>7. out' = [status |-> st, bitmap |-> Kept, eOff |-> y, eSize |-> z, cells |-> x]
      BY <2>5, <2>6, SMTT(20)
    <2>8. out'.status = st /\ out'.bitmap = Kept /\ out'.cells = x
      BY <2>7, SMTT(20)
    <2>9. out.status = st
      BY <2>1, SMTT(20)
    <2> QED BY <2>8, <2>9
  <1>8. PICK o : o = out'
    OBVIOUS
  <1>9. OutIs(o, cells)
    BY <1>5, <1>7, <1>8 DEF OutIs
  <1>10. cells = Assembled(base, erase)
    BY DEF cells
  <1>11. PICK n : n = base
    OBVIOUS
  <1> HIDE DEF base
  <1>12. \A k \in 1 .. n : RightIn(o, k)
    <2>1. n = Cardinality(out.bitmap)
      BY <1>11 DEF base
    <2>2. cells = Assembled(n, erase)
      BY <1>10, <1>11
    <2> QED BY <1>2, <1>3, <1>9, <2>1, <2>2, CopiedIs
  <1>13. Len(Ascending(Kept)) = n
    <2>1. Kept \subseteq Nat /\ IsFiniteSet(Kept)
      BY <1>2, InvokedIs
    <2>2. InOrder(Ascending(Kept), Kept)
      BY <2>1, AscendingIs
    <2>3. n = Cardinality(Kept)
      BY <1>2, <1>11 DEF base, Sources
    <2> QED BY <2>2, <2>3 DEF InOrder
  <1>14. Exact(o, in, Kept)
    <2>1. o.bitmap = Kept
      BY <1>7, <1>8
    <2> QED BY <1>12, <1>13, <2>1 DEF Exact, RightIn, IsZero, ZeroIn
  <1>15. Kept' = Kept
    BY <1>1 DEF Kept
  <1> QED BY <1>1, <1>8, <1>14, <1>15 DEF Rebuilt

\* Every step of the two invocations keeps the invariant.
LEMMA JoinNext == JoinInv /\ [Next]_vars => JoinInv'
  <1> SUFFICES ASSUME JoinInv, [Next]_vars PROVE JoinInv'
    OBVIOUS
  <1>1. RangeInv' /\ Written'
    BY RangesKept, NextInv, WrittenKept DEF JoinInv, RangeInv
  <1>2. CASE Creating
    <2>1. pc' \notin Late
      BY <1>2, CreatingEarly DEF JoinInv, RangeInv
    <2> QED BY <1>1, <2>1 DEF JoinInv, Entries, Headed, Rebuilt, Late
  <1>3. ASSUME NEW o \in Orders, StoreSplittingInfo(o) PROVE JoinInv'
    <2>1. pc' \in {"sort", "refused"}
      BY <1>3 DEF StoreSplittingInfo
    <2>2. Entries'
      BY <1>3, StoreStep
    <2> QED BY <1>1, <2>1, <2>2 DEF JoinInv, Headed, Rebuilt
  <1>4. CASE SortSplittingInfo
    <2>1. pc' \in {"sort", "header", "refused"}
      BY <1>4 DEF SortSplittingInfo
    <2>2. Entries'
      BY <1>4, SortStep
    <2> QED BY <1>1, <2>1, <2>2 DEF JoinInv, Headed, Rebuilt
  <1>5. CASE ReassembleHeader
    <2>1. pc' = "pages"
      BY <1>5 DEF ReassembleHeader
    <2>2. Entries' /\ Headed'
      BY <1>5, HeaderStep
    <2> QED BY <1>1, <2>1, <2>2 DEF JoinInv, Rebuilt
  <1>6. CASE ReassemblePages
    <2>1. pc = "pages" /\ ret' = ret /\ pc' \in {"reassembled", "refused"}
      BY <1>6 DEF ReassemblePages
    <2>2. Rebuilt'
      BY <1>6, PagesStep
    <2>3. Entries' /\ Headed'
      BY <2>1 DEF JoinInv, Entries, Headed
    <2> QED BY <1>1, <2>2, <2>3 DEF JoinInv
  <1>7. CASE UNCHANGED vars
    <2>1. UNCHANGED << in, pc, attempt, file, ret, order, sorted, at, out >>
      BY <1>7 DEF vars
    <2>2. Kept' = Kept
      BY <2>1 DEF Kept
    <2>3. Entries'
      BY <2>1 DEF JoinInv, Entries
    <2>4. Headed' /\ Rebuilt'
      BY <2>1, <2>2 DEF JoinInv, Headed, Rebuilt
    <2> QED BY <1>1, <2>3, <2>4 DEF JoinInv
  <1> QED BY <1>2, <1>3, <1>4, <1>5, <1>6, <1>7 DEF Next, Reassembling, Stop

\* Nothing has been written when create_dumpfile() begins.
LEMMA JoinInit ==
    ASSUME InputsOK, Init
    PROVE  JoinInv
  <1>1. RangeInv
    BY RangeInit
  <1>2. pc = "count"
    BY DEF Init
  <1> QED BY <1>1, <1>2 DEF JoinInv, Written, Entries, Headed, Rebuilt, Early

\* What reassemble_dumpfile() writes has, for every dumpable page in order, a
\* descriptor that leads to the data of that page, for any number of files named
\* in any order, any pages, zero pages, dump levels and failures; a page may
\* only be missing when the header says that the dump is incomplete.
THEOREM ReassemblesExactly ==
    ASSUME InputsOK
    PROVE  Spec => []ReassembledExact
  <1>1. Init => JoinInv
    BY JoinInit, SMTT(20)
  <1>2. JoinInv /\ [Next]_vars => JoinInv'
    BY JoinNext, SMTT(20)
  <1>3. JoinInv => ReassembledExact
    BY DEF JoinInv, Rebuilt, Exact, ZeroIn, ReassembledExact, IsZero
  <1> QED BY <1>1, <1>2, <1>3, PTL DEF Spec

-----------------------------------------------------------------------------
(***************************************************************************)
(* The files of a complete dump are accepted in any order.                 *)
(***************************************************************************)
AllIn(o, n) == Len(o) = n /\ \A i, j \in 1 .. Len(o) : i # j => o[i] # o[j]
Apart(r, n) == \A i, j \in 1 .. n : i # j => r[i].start # r[j].start

\* A complete dump, every file named once, no two starting at one frame and
\* nothing erased.
Sound == /\ ret = "TRUE" /\ AllIn(order, in.files) /\ Apart(ranges, in.files)
         /\ in.erased \cap Kept = {}

\* Each of the n files has one entry, without erase information.
Once(s, n) ==
    /\ Len(s) = n
    /\ \A i, j \in 1 .. n : i # j => s[i].name # s[j].name
    /\ \A i \in 1 .. n : s[i].eSize = 0

\* The entries before i are in place, and entry i is the least of those up to j.
InPlace(k, n, i, j) ==
    /\ \A a, b \in 1 .. n : a < i /\ a < b => k[a] < k[b]
    /\ \A b \in 1 .. n : i < b /\ b < j => k[i] < k[b]
Keys(s, n) == [a \in 1 .. n |-> s[a].start]

Sorting ==
    /\ pc \in {"sort", "header", "pages"} /\ Sound => Once(sorted, in.files)
    /\ pc = "sort" /\ Sound => InPlace(Keys(sorted, in.files), in.files, at[1], at[2])
    /\ pc = "refused" => ~Sound

\* The ranges start one after the other.
LEMMA StartsGrow ==
    ASSUME NEW r, NEW n \in Nat, NEW max, Partition(r, n, max)
    PROVE  \A a, b \in 1 .. n : a <= b => r[a].start <= r[b].start
  <1> DEFINE D == {b \in 1 .. n : \E a \in 1 .. n : a <= b /\ ~(r[a].start <= r[b].start)}
  <1>1. SUFFICES ASSUME D # {} PROVE FALSE
    OBVIOUS
  <1>2. 1 .. n \subseteq Nat
    BY SMTT(20)
  <1>3. PICK b \in D : \A c \in D : b <= c
    <2>1. D \subseteq Nat
      BY <1>2
    <2> HIDE DEF D
    <2> QED BY <1>1, <2>1, LeastNatural
  <1>4. PICK a \in 1 .. n : a <= b /\ ~(r[a].start <= r[b].start)
    BY <1>3
  <1>5. b \in 1 .. n
    BY <1>3
  <1>6. a # b
    <2>1. r[b].start \in Nat
      BY <1>5 DEF Partition
    <2>2. r[b].start <= r[b].start
      BY <2>1, SMTT(20)
    <2> QED BY <1>4, <2>2
  <1>7. b \in 2 .. n /\ b - 1 \in 1 .. n /\ a <= b - 1 /\ ~(b <= b - 1)
    BY <1>4, <1>5, <1>6, SMTT(20)
  <1>8. b - 1 \notin D
    <2> HIDE DEF D
    <2> QED BY <1>3, <1>7
  <1>9. r[a].start <= r[b - 1].start
    BY <1>7, <1>8
  <1>10. /\ r[b].start = r[b - 1].end /\ r[b - 1].start <= r[b - 1].end
         /\ r[b - 1].start \in Nat /\ r[b - 1].end \in Nat /\ r[a].start \in Nat
    BY <1>5, <1>7 DEF Partition
  <1>11. PICK x, y, z \in Nat : x = r[a].start /\ y = r[b - 1].start /\ z = r[b].start
    BY <1>10
  <1>12. x <= y /\ y <= z /\ ~(x <= z)
    BY <1>4, <1>9, <1>10, <1>11
  <1> QED BY <1>12, SMTT(20)

\* One turn of the loops: the lesser of two keys comes to place i.
Turned(k, l, n, i, j) ==
    \/ k[i] < k[j] /\ l = k
    \/ /\ ~(k[i] < k[j]) /\ l[i] = k[j] /\ l[j] = k[i]
       /\ \A m \in 1 .. n : m # i /\ m # j => l[m] = k[m]

\* The turn at i and j leaves the least of the entries up to j at i.
LEMMA TurnSorts ==
    ASSUME NEW n \in Nat, NEW k \in [1 .. n -> Nat], NEW l \in [1 .. n -> Nat],
           \A a, b \in 1 .. n : a # b => k[a] # k[b],
           NEW i \in 1 .. n, NEW j \in 1 .. n, i <= j,
           InPlace(k, n, i, j), Turned(k, l, n, i, j)
    PROVE  InPlace(l, n, i, j + 1)
  <1>1. CASE k[i] < k[j] /\ l = k
    <2>1. ASSUME NEW b \in 1 .. n, i < b, b < j + 1 PROVE k[i] < k[b]
      <3>1. b < j \/ b = j
        BY <2>1, SMTT(20)
      <3> QED BY <1>1, <2>1, <3>1 DEF InPlace
    <2> QED BY <1>1, <2>1 DEF InPlace
  <1>2. CASE /\ ~(k[i] < k[j]) /\ l[i] = k[j] /\ l[j] = k[i]
             /\ \A m \in 1 .. n : m # i /\ m # j => l[m] = k[m]
    <2>1. ASSUME NEW a \in 1 .. n, NEW b \in 1 .. n, a < i, a < b PROVE l[a] < l[b]
      <3>1. a # i /\ a # j /\ a < j
        BY <2>1, SMTT(20)
      <3>2. l[a] = k[a] /\ k[a] < k[b] /\ k[a] < k[i] /\ k[a] < k[j]
        BY <1>2, <2>1, <3>1 DEF InPlace
      <3>3. l[b] \in {k[b], k[i], k[j]}
        BY <1>2
      <3> QED BY <3>2, <3>3
    <2>2. ASSUME NEW b \in 1 .. n, i < b, b < j + 1 PROVE l[i] < l[b]
      <3>1. k[i] \in Nat /\ k[j] \in Nat /\ k[b] \in Nat
        OBVIOUS
      <3>2. CASE b = j
        <4>1. i # j
          BY <2>2, <3>2, SMTT(20)
        <4>2. k[i] # k[j]
          BY <4>1
        <4>3. k[j] < k[i]
          BY <1>2, <3>1, <4>2, SMTT(20)
        <4> QED BY <1>2, <3>2, <4>3
      <3>3. CASE b # j
        <4>1. b < j /\ b # i
          BY <2>2, <3>3, SMTT(20)
        <4>2. k[i] < k[b] /\ l[b] = k[b]
          BY <1>2, <2>2, <3>3, <4>1 DEF InPlace
        <4>3. k[j] < k[b]
          BY <1>2, <3>1, <4>2, SMTT(20)
        <4> QED BY <1>2, <4>2, <4>3
      <3> QED BY <3>2, <3>3
    <2> QED BY <2>1, <2>2 DEF InPlace
  <1> QED BY <1>1, <1>2 DEF Turned

\* When the inner loop has ended, one more entry is in place.
LEMMA PlaceGrows ==
    ASSUME NEW n \in Nat, NEW k, NEW i \in 1 .. n, InPlace(k, n, i, n + 1)
    PROVE  InPlace(k, n, i + 1, i + 1)
  <1>1. ASSUME NEW a \in 1 .. n, NEW b \in 1 .. n, a < i + 1, a < b PROVE k[a] < k[b]
    <2>1. a < i \/ a = i
      BY <1>1, SMTT(20)
    <2>2. b < n + 1
      BY SMTT(20)
    <2> QED BY <1>1, <2>1, <2>2 DEF InPlace
  <1>2. \A b \in 1 .. n : ~(i + 1 < b /\ b < i + 1)
    BY SMTT(20)
  <1> QED BY <1>1, <1>2 DEF InPlace

NamesIn(s, n) == \A i \in 1 .. n : s[i].name \in 1 .. n
HasEntry(s, n, x) == \E p \in 1 .. n : s[p].name = x

\* Where every entry names another file, every file has its entry.
LEMMA EveryFile ==
    ASSUME NEW n \in Nat \ {0}, NEW s, Once(s, n), NamesIn(s, n), NEW x \in 1 .. n
    PROVE  HasEntry(s, n, x)
  <1> SUFFICES ASSUME \A p \in 1 .. n : s[p].name # x PROVE FALSE
    BY DEF HasEntry
  <1> DEFINE S == 1 .. n
             T == S \ {x}
             g == [p \in S |-> s[p].name]
  <1>1. g \in [S -> T]
    BY DEF NamesIn
  <1>2. IsFiniteSet(S) /\ Cardinality(S) = n
    <2>1. 1 \in Int /\ n \in Int /\ n - 1 + 1 = n /\ ~(1 > n)
      BY SMTT(20)
    <2>2. IsFiniteSet(1 .. n) /\ Cardinality(1 .. n) = IF 1 > n THEN 0 ELSE n - 1 + 1
      BY <2>1, FS_Interval
    <2> QED BY <2>1, <2>2
  <1>3. IsFiniteSet(T) /\ Cardinality(T) = n - 1
    <2> HIDE DEF S
    <2>1. x \in S
      BY DEF S
    <2> QED BY <1>2, <2>1, FS_RemoveElement
  <1>4. Cardinality(T) < Cardinality(S)
    <2>1. n - 1 < n
      BY SMTT(20)
    <2> QED BY <1>2, <1>3, <2>1
  <1> HIDE DEF T
  <1>5. \E p, q \in S : p # q /\ g[p] = g[q]
    <2>1. PICK A, B, h : A = S /\ B = T /\ h = g
      OBVIOUS
    <2>2. IsFiniteSet(A) /\ IsFiniteSet(B) /\ Cardinality(B) < Cardinality(A) /\ h \in [A -> B]
      BY <1>1, <1>2, <1>3, <1>4, <2>1
    <2>3. \E y, z \in A : y # z /\ h[y] = h[z]
      BY <2>2, FS_PigeonHole, SMTT(20)
    <2> HIDE DEF S, g
    <2> QED BY <2>1, <2>3
  <1> QED BY <1>5 DEF Once

\* Every entry has the range of the file it names.
Follows(s, r, n) ==
    \A i \in 1 .. n : s[i].name \in 1 .. n /\ s[i].start = r[s[i].name].start /\ s[i].end = r[s[i].name].end

\* The sorted entries pass check_splitting_info().
LEMMA SortedPass ==
    ASSUME NEW n \in Nat, n >= 2, NEW s, NEW r, NEW max, Partition(r, n, max), Apart(r, n),
           Once(s, n), Follows(s, r, n), InPlace(Keys(s, n), n, n, n)
    PROVE  CheckSplittingInfo(s, max)
  <1>1. /\ n \in Nat \ {0} /\ 1 \in 1 .. n /\ n \in 1 .. n
        /\ \A i \in 1 .. n : n <= i => i = n
        /\ \A i \in 1 .. n : 1 <= i /\ i <= n /\ (i <= 1 => i = 1)
    BY SMTT(20)
  <1>2. \A x \in 1 .. n : \E p \in 1 .. n : s[p].name = x
    <2>1. NamesIn(s, n)
      BY DEF Follows, NamesIn
    <2>2. n \in Nat \ {0}
      BY <1>1
    <2> TAKE x \in 1 .. n
    <2>3. HasEntry(s, n, x)
      BY <2>1, <2>2, EveryFile
    <2> QED BY <2>3 DEF HasEntry
  <1>3. \A i \in 1 .. n : s[i].start \in Nat /\ r[i].start \in Nat
    BY DEF Follows, Partition
  <1>4. \A a, b \in 1 .. n : a <= b => r[a].start <= r[b].start
    BY StartsGrow
  <1>5. \A a, b \in 1 .. n : a < b => s[a].start < s[b].start
    <2> TAKE a, b \in 1 .. n
    <2> HAVE a < b
    <2>1. a < n
      BY SMTT(20)
    <2>2. Keys(s, n)[a] = s[a].start /\ Keys(s, n)[b] = s[b].start
      BY DEF Keys
    <2> QED BY <2>1, <2>2 DEF InPlace
  <1>6. \A u, v \in Nat : ~(u < v /\ v <= u) /\ (u <= v \/ v < u) /\ (u # v /\ u <= v => u < v)
    BY SMTT(20)
  <1>7. s[1].start = 0
    <2>1. PICK p \in 1 .. n : s[p].name = 1
      BY <1>1, <1>2
    <2>2. s[p].start = 0
      BY <2>1 DEF Follows, Partition
    <2>3. p = 1
      <3>1. CASE 1 < p
        <4>1. s[1].start < 0 /\ s[1].start \in Nat
          BY <1>1, <1>3, <1>5, <2>2, <3>1
        <4> QED BY <4>1, SMTT(20)
      <3>2. CASE ~(1 < p)
        BY <3>2, SMTT(20)
      <3> QED BY <3>1, <3>2
    <2> QED BY <2>2, <2>3
  <1>8. s[n].end = max
    <2>1. PICK p \in 1 .. n : s[p].name = n
      BY <1>1, <1>2
    <2>2. p = n
      <3>1. CASE p < n
        <4>1. s[p].start < s[n].start
          BY <1>1, <1>5, <3>1
        <4>2. s[n].start <= s[p].start
          <5>1. s[n].name \in 1 .. n /\ s[n].start = r[s[n].name].start
            BY <1>1 DEF Follows
          <5>2. s[n].name <= n
            BY <1>1, <5>1
          <5>3. r[s[n].name].start <= r[n].start
            BY <1>1, <1>4, <5>1, <5>2
          <5>4. s[p].start = r[n].start
            BY <2>1 DEF Follows
          <5> QED BY <5>1, <5>3, <5>4
        <4> QED BY <1>1, <1>3, <1>6, <4>1, <4>2
      <3>2. CASE ~(p < n)
        BY <3>2, SMTT(20)
      <3> QED BY <3>1, <3>2
    <2> QED BY <1>1, <2>1, <2>2 DEF Follows, Partition
  <1>9. ASSUME NEW i \in 2 .. n PROVE s[i - 1].end = s[i].start
    <2>1. i \in 1 .. n /\ i - 1 \in 1 .. n /\ i - 1 < i
      BY SMTT(20)
    <2>2. PICK x \in 1 .. n : x = s[i - 1].name
      BY <2>1 DEF Follows
    <2>3. PICK y \in 1 .. n : y = s[i].name
      BY <2>1 DEF Follows
    <2>4. /\ s[i - 1].start = r[x].start /\ s[i - 1].end = r[x].end /\ s[i].start = r[y].start
      BY <2>1, <2>2, <2>3 DEF Follows
    <2>5. r[x].start < r[y].start
      BY <1>5, <2>1, <2>4
    <2>6. ~(y <= x)
      <3>1. y <= x => r[y].start <= r[x].start
        BY <1>4
      <3>2. PICK u, v \in Nat : u = r[x].start /\ v = r[y].start
        BY <1>3
      <3>3. ~(u < v /\ v <= u)
        BY SMTT(20)
      <3> QED BY <2>5, <3>1, <3>2, <3>3
    <2>7. x + 1 \in 1 .. n /\ x + 1 <= y /\ x + 1 \in 2 .. n /\ x + 1 - 1 = x /\ x <= x + 1 /\ x # x + 1
      BY <2>6, SMTT(20)
    <2>8. r[x + 1].start = r[x].end
      <3>1. \A m \in 2 .. n : r[m].start = r[m - 1].end
        BY DEF Partition
      <3>2. PICK m \in 2 .. n : m = x + 1
        BY <2>7
      <3>3. m - 1 = x
        BY <3>2, SMTT(20)
      <3>4. r[m].start = r[m - 1].end
        BY <3>1
      <3> QED BY <3>2, <3>3, <3>4
    <2>9. PICK p \in 1 .. n : s[p].name = x + 1
      BY <1>2, <2>7
    <2>10. s[p].start = r[x + 1].start
      BY <2>9 DEF Follows
    <2>11. r[x].start < r[x + 1].start
      <3>1. r[x].start # r[x + 1].start
        BY <2>7 DEF Apart
      <3>2. r[x].start <= r[x + 1].start
        BY <1>4, <2>7
      <3> QED BY <1>3, <1>6, <2>7, <3>1, <3>2
    <2>12. ~(p <= i - 1)
      <3> SUFFICES ASSUME p <= i - 1 PROVE FALSE
        OBVIOUS
      <3>1. p < i - 1 \/ p = i - 1
        BY SMTT(20)
      <3>2. s[p].start < s[i - 1].start \/ s[p].start = s[i - 1].start
        BY <1>5, <2>1, <3>1
      <3>3. \A u, v \in Nat : u < v => ~(v < u) /\ v # u
        BY SMTT(20)
      <3>4. s[i - 1].start < s[p].start
        BY <2>4, <2>10, <2>11
      <3> QED BY <1>3, <2>1, <3>2, <3>3, <3>4
    <2>13. ~(i < p)
      <3> SUFFICES ASSUME i < p PROVE FALSE
        OBVIOUS
      <3>1. r[y].start < r[x + 1].start
        BY <1>5, <2>1, <2>4, <2>10
      <3>2. r[x + 1].start <= r[y].start
        BY <1>4, <2>7
      <3> QED BY <1>3, <1>6, <2>7, <3>1, <3>2
    <2>14. p = i
      BY <2>12, <2>13, SMTT(20)
    <2> QED BY <2>4, <2>8, <2>10, <2>14
  <1>10. Len(s) = n
    BY DEF Once
  <1> QED BY <1>7, <1>8, <1>9, <1>10 DEF CheckSplittingInfo

\* The entries follow the ranges of the children's files.
LEMMA EntriesFollow ==
    ASSUME RangeInv, Written, pc \notin Early, ret = "TRUE", NEW s,
           Named(s, file, in.files), Len(s) = in.files
    PROVE  Follows(s, ranges, in.files)
  <1> SUFFICES ASSUME NEW i \in 1 .. in.files
               PROVE  /\ s[i].name \in 1 .. in.files
                      /\ s[i].start = ranges[s[i].name].start /\ s[i].end = ranges[s[i].name].end
    BY DEF Follows
  <1>1. s[i].name \in 1 .. in.files
    BY NameIs
  <1>2. file[s[i].name].start = ranges[s[i].name].start /\ file[s[i].name].end = ranges[s[i].name].end
    BY <1>1, FilesThere
  <1> QED BY <1>1, <1>2 DEF Named

\* A turn of the loops keeps one entry for each file, and sorts.
LEMMA TurnOnce ==
    ASSUME NEW n \in Nat, NEW s, NEW f, Named(s, f, n), NEW r, Apart(r, n), Follows(s, r, n), Once(s, n),
           NEW i \in 1 .. n, NEW j \in 1 .. n, i <= j, InPlace(Keys(s, n), n, i, j)
    PROVE  Once(Exchange(s, i, j), n) /\ InPlace(Keys(Exchange(s, i, j), n), n, i, j + 1)
  <1>1. PICK t : t = Exchange(s, i, j)
    OBVIOUS
  <1>2. Len(s) = n /\ s \in Seq(EntryType(n))
    BY DEF Once, Named
  <1>3. \/ s[i].start < s[j].start /\ t = s
        \/ ~(s[i].start < s[j].start) /\ Swap(s, t, i, j, n)
    <2>1. Swap(s, Swapped(s, i, j), i, j, n)
      BY <1>2, SwapIs
    <2> QED BY <1>1, <2>1 DEF Exchange
  <1>4. Once(t, n)
    <2>1. CASE Swap(s, t, i, j, n)
      <3>1. Len(t) = n
        BY <1>2, <2>1 DEF Swap
      <3>2. \A m \in 1 .. n : t[m].eSize = 0
        BY <1>2, <2>1 DEF Swap, Once
      <3>3. /\ t[i].name = s[j].name /\ t[j].name = s[i].name
            /\ \A m \in 1 .. n : m # i /\ m # j => t[m].name = s[m].name
        BY <1>2, <2>1 DEF Swap, HasName
      <3>4. ASSUME NEW a \in 1 .. n, NEW b \in 1 .. n, a # b PROVE t[a].name # t[b].name
        <4>1. \A c, d \in 1 .. n : c # d => s[c].name # s[d].name
          BY DEF Once
        <4>2. CASE a = i
          <5>1. CASE b = j
            BY <3>3, <3>4, <4>1, <4>2, <5>1
          <5>2. CASE b # j
            <6>1. b # i /\ t[b].name = s[b].name
              BY <3>3, <3>4, <4>2, <5>2
            <6> QED BY <3>3, <4>1, <4>2, <5>2, <6>1
          <5> QED BY <5>1, <5>2
        <4>3. CASE a = j
          BY <3>3, <3>4, <4>1, <4>3
        <4>4. CASE a # i /\ a # j
          BY <3>3, <3>4, <4>1, <4>4
        <4> QED BY <4>2, <4>3, <4>4
      <3> QED BY <3>1, <3>2, <3>4 DEF Once
    <2> QED BY <1>3, <2>1
  <1> DEFINE k == Keys(s, n)
             l == Keys(t, n)
  <1>5. \A m \in 1 .. n : k[m] = s[m].start /\ l[m] = t[m].start
    BY DEF Keys
  <1>6. k \in [1 .. n -> Nat]
    <2>1. \A m \in 1 .. n : s[m].start \in Nat
      <3> TAKE m \in 1 .. n
      <3>1. s[m] \in EntryType(n)
        BY <1>2, SeqElement
      <3> QED BY <3>1 DEF EntryType
    <2> QED BY <2>1 DEF Keys
  <1>7. l \in [1 .. n -> Nat]
    <2>1. t \in Seq(EntryType(n)) /\ Len(t) = n
      BY <1>2, <1>3 DEF Swap
    <2>2. \A m \in 1 .. n : t[m].start \in Nat
      <3> TAKE m \in 1 .. n
      <3>1. t[m] \in EntryType(n)
        BY <2>1, SeqElement
      <3> QED BY <3>1 DEF EntryType
    <2> QED BY <2>2 DEF Keys
  <1>8. \A a, b \in 1 .. n : a # b => k[a] # k[b]
    <2> TAKE a, b \in 1 .. n
    <2> HAVE a # b
    <2>1. s[a].name # s[b].name
      BY DEF Once
    <2>2. s[a].start # s[b].start
      <3>1. s[a].name \in 1 .. n /\ s[b].name \in 1 .. n
        BY DEF Follows
      <3>2. r[s[a].name].start # r[s[b].name].start
        BY <2>1, <3>1 DEF Apart
      <3>3. s[a].start = r[s[a].name].start /\ s[b].start = r[s[b].name].start
        BY DEF Follows
      <3> QED BY <3>2, <3>3
    <2> QED BY <1>5, <2>2
  <1>9. Turned(k, l, n, i, j)
    <2>1. CASE s[i].start < s[j].start /\ t = s
      BY <1>5, <2>1 DEF Turned
    <2>2. CASE ~(s[i].start < s[j].start) /\ Swap(s, t, i, j, n)
      <3> HIDE DEF k, l
      <3>1. l[i] = k[j] /\ l[j] = k[i]
        BY <1>5, <2>2 DEF Swap, HasName
      <3>2. \A m \in 1 .. n : m # i /\ m # j => l[m] = k[m]
        BY <1>2, <1>5, <2>2 DEF Swap
      <3>3. ~(k[i] < k[j])
        BY <1>5, <2>2
      <3> QED BY <3>1, <3>2, <3>3 DEF Turned
    <2> QED BY <1>3, <2>1, <2>2
  <1>10. InPlace(l, n, i, j + 1)
    <2>1. InPlace(k, n, i, j)
      OBVIOUS
    <2> HIDE DEF k, l
    <2> QED BY <1>6, <1>7, <1>8, <1>9, <2>1, TurnSorts
  <1> QED BY <1>1, <1>4, <1>10

\* The check after the last turn finds no gap.
LEMMA SortSorts ==
    ASSUME JoinInv, Sorting, SortSplittingInfo
    PROVE  Sorting'
  <1>1. /\ pc = "sort" /\ UNCHANGED << in, attempt, ranges, file, ret, order >>
        /\ sorted' = Exchange(sorted, at[1], at[2])
        /\ at' = IF at[2] < Len(sorted) THEN << at[1], at[2] + 1 >> ELSE << at[1] + 1, at[1] + 1 >>
        /\ pc' = IF at'[1] < Len(sorted) THEN "sort"
                 ELSE IF CheckSplittingInfo(sorted', file[order[1]].max) THEN "header" ELSE "refused"
    BY DEF SortSplittingInfo
  <1>2. Sound' <=> Sound
    BY <1>1 DEF Sound, Kept
  <1>3. SUFFICES ASSUME Sound PROVE Sorting'
    <2>1. CASE ~Sound
      BY <1>2, <2>1 DEF Sorting
    <2> QED BY <1>3, <2>1
  <1>4. /\ Named(sorted, file, in.files) /\ order[1] \in 1 .. in.files
        /\ Turn(Len(sorted), at) /\ RangeInv /\ Written
    BY <1>1 DEF JoinInv, Entries
  <1>5. Once(sorted, in.files) /\ InPlace(Keys(sorted, in.files), in.files, at[1], at[2])
    BY <1>1, <1>3 DEF Sorting
  <1>6. Len(sorted) = in.files /\ in.files \in Nat /\ in.files >= 2
    BY <1>4, <1>5, SeqLen DEF Once, Named
  <1>7. PICK i \in 1 .. in.files - 1 : \E j \in i .. in.files : at = << i, j >>
    BY <1>4, <1>6 DEF Turn
  <1>8. PICK j \in i .. in.files : at = << i, j >>
    BY <1>7
  <1>9. at[1] = i /\ at[2] = j
    BY <1>8, SMTT(20)
  <1>10. i \in 1 .. in.files /\ j \in 1 .. in.files /\ i <= j /\ i < in.files
    BY <1>6, SMTT(20)
  <1>11. Follows(sorted, ranges, in.files) /\ Apart(ranges, in.files)
    BY <1>1, <1>3, <1>4, <1>6, EntriesFollow DEF Sound, Early
  <1>12. Once(sorted', in.files) /\ InPlace(Keys(sorted', in.files), in.files, i, j + 1)
    BY <1>1, <1>4, <1>5, <1>6, <1>9, <1>10, <1>11, TurnOnce
  <1>13. CASE j < in.files
    <2>1. at' = << i, j + 1 >>
      BY <1>1, <1>6, <1>9, <1>13
    <2>2. at'[1] = i /\ at'[2] = j + 1
      BY <2>1, SMTT(20)
    <2>3. pc' = "sort"
      BY <1>1, <1>6, <1>10, <2>2
    <2> QED BY <1>1, <1>12, <2>2, <2>3 DEF Sorting
  <1>14. CASE ~(j < in.files)
    <2>1. at' = << i + 1, i + 1 >>
      BY <1>1, <1>6, <1>9, <1>14
    <2>2. at'[1] = i + 1 /\ at'[2] = i + 1
      BY <2>1, SMTT(20)
    <2>3. j = in.files
      BY <1>6, <1>14, SMTT(20)
    <2>4. InPlace(Keys(sorted', in.files), in.files, i + 1, i + 1)
      BY <1>6, <1>10, <1>12, <2>3, PlaceGrows
    <2>5. CASE i + 1 < in.files
      <3>1. pc' = "sort"
        BY <1>1, <1>6, <2>2, <2>5
      <3> QED BY <1>1, <1>12, <2>2, <2>4, <3>1 DEF Sorting
    <2>6. CASE ~(i + 1 < in.files)
      <3>1. i + 1 = in.files
        BY <1>6, <1>10, <2>6, SMTT(20)
      <3>2. Named(sorted', file, in.files) /\ Len(sorted') = in.files
        BY <1>1, <1>4, <1>6, <1>9, <1>10, ExchangeIs
      <3>3. Follows(sorted', ranges, in.files)
        <4>1. PICK t : t = sorted'
          OBVIOUS
        <4>2. Follows(t, ranges, in.files)
          BY <1>1, <1>3, <1>4, <3>2, <4>1, EntriesFollow DEF Sound, Early
        <4> QED BY <4>1, <4>2
      <3>4. Partition(ranges, in.files, in.max)
        BY <1>1, <1>3, <1>4 DEF RangeInv, Ranged, Sound
      <3>5. CheckSplittingInfo(sorted', in.max)
        <4>1. PICK t : t = sorted'
          OBVIOUS
        <4>2. InPlace(Keys(t, in.files), in.files, in.files, in.files)
          BY <2>4, <3>1, <4>1
        <4>3. CheckSplittingInfo(t, in.max)
          BY <1>6, <1>11, <1>12, <3>3, <3>4, <4>1, <4>2, SortedPass
        <4> QED BY <4>1, <4>3
      <3>6. file[order[1]].max = in.max
        BY <1>1, <1>3, <1>4, FilesThere DEF Sound, Early
      <3>7. pc' = "header"
        BY <1>1, <1>6, <2>2, <2>6, <3>5, <3>6
      <3> QED BY <1>1, <1>12, <3>7 DEF Sorting
    <2> QED BY <2>5, <2>6
  <1> QED BY <1>13, <1>14

\* The entries hold what was read from the files named.
LEMMA StoredEntry ==
    ASSUME in.files \in Nat, NEW o \in Orders
    PROVE  /\ o \in Seq(1 .. in.files) /\ Len(o) \in Nat /\ Len(SplittingInfo(o)) = Len(o)
           /\ \A i \in 1 .. Len(o) : /\ o[i] \in 1 .. in.files
                                     /\ SplittingInfo(o)[i].name = o[i]
                                     /\ SplittingInfo(o)[i].eSize = file[o[i]].eSize
  <1>1. PICK m \in 2 .. in.files : o \in [1 .. m -> 1 .. in.files]
    BY DEF Orders
  <1>2. m \in Nat
    BY SMTT(20)
  <1>3. o \in Seq(1 .. in.files) /\ Len(o) = m
    <2>1. \A T : o \in [1 .. m -> T] => o \in Seq(T) /\ Len(o) = m
      BY <1>2, SMTT(20)
    <2> QED BY <1>1, <2>1
  <1> DEFINE s == SplittingInfo(o)
             E(i) == [name |-> o[i], start |-> file[o[i]].start, end |-> file[o[i]].end,
                      eOff |-> file[o[i]].eOff, eSize |-> file[o[i]].eSize]
  <1>4. s = [i \in 1 .. m |-> E(i)]
    BY <1>3 DEF SplittingInfo
  <1>5. \A i \in 1 .. m : s[i] = E(i)
    BY <1>4
  <1>6. Len(s) = m
    <2> HIDE DEF E, s
    <2>1. DOMAIN s = 1 .. m
      BY <1>4
    <2>2. Listed(s, m)
      BY <1>4 DEF Listed
    <2> QED BY <1>2, <2>2, ListedIs
  <1>7. ASSUME NEW i \in 1 .. m PROVE s[i].name = o[i] /\ s[i].eSize = file[o[i]].eSize
    <2>1. PICK x, a, b, c, d : x = o[i] /\ a = file[o[i]].start /\ b = file[o[i]].end
                               /\ c = file[o[i]].eOff /\ d = file[o[i]].eSize
      OBVIOUS
    <2>2. s[i] = [name |-> x, start |-> a, end |-> b, eOff |-> c, eSize |-> d]
      BY <1>5, <2>1
    <2> HIDE DEF s
    <2>3. s[i].name = x /\ s[i].eSize = d
      BY <2>2, SMTT(20)
    <2> QED BY <2>1, <2>3
  <1>8. \A i \in 1 .. m : o[i] \in 1 .. in.files
    BY <1>1
  <1> QED BY <1>2, <1>3, <1>6, <1>7, <1>8

\* The headers of a complete dump agree.
LEMMA StoreSorts ==
    ASSUME JoinInv, NEW o \in Orders, StoreSplittingInfo(o)
    PROVE  Sorting'
  <1>1. /\ pc = "returned" /\ UNCHANGED << in, attempt, ranges, file, ret >>
        /\ order' = o /\ sorted' = SplittingInfo(o) /\ at' = << 1, 1 >>
        /\ pc' = IF \A i \in 1 .. Len(o) : Header(file[o[i]]) = Header(file[o[1]]) THEN "sort" ELSE "refused"
    BY DEF StoreSplittingInfo
  <1>2. SUFFICES ASSUME Sound' PROVE Sorting'
    BY DEF Sorting
  <1>3. /\ ret = "TRUE" /\ AllIn(o, in.files) /\ in.erased \cap Kept = {}
    BY <1>1, <1>2 DEF Sound, Kept
  <1>4. RangeInv /\ Written /\ pc \notin Early /\ in.files \in Nat
    BY <1>1 DEF JoinInv, RangeInv, Inv, Types, Early
  <1>5. \A i \in 1 .. in.files :
           file[i].eSize = 0 /\ file[i].max = in.max /\ child[i] = "0"
    BY <1>3, <1>4, FilesThere
  <1>6. \A i \in 1 .. in.files : file[i].status = "complete"
    BY <1>3, <1>4, <1>5 DEF RangeInv, Inv, Files, Whole
  <1>7. /\ Len(o) = in.files /\ Len(SplittingInfo(o)) = in.files
        /\ \A i \in 1 .. in.files : /\ o[i] \in 1 .. in.files
                                    /\ SplittingInfo(o)[i].name = o[i]
                                    /\ SplittingInfo(o)[i].eSize = file[o[i]].eSize
    BY <1>3, <1>4, StoredEntry DEF AllIn
  <1>8. Once(SplittingInfo(o), in.files)
    <2>1. \A i \in 1 .. in.files : SplittingInfo(o)[i].eSize = 0
      BY <1>5, <1>7
    <2>2. \A i, j \in 1 .. in.files : i # j => SplittingInfo(o)[i].name # SplittingInfo(o)[j].name
      <3>1. \A i, j \in 1 .. in.files : i # j => o[i] # o[j]
        BY <1>3 DEF AllIn
      <3> TAKE i, j \in 1 .. in.files
      <3>2. SplittingInfo(o)[i].name = o[i] /\ SplittingInfo(o)[j].name = o[j]
        BY <1>7
      <3>3. i # j => o[i] # o[j]
        BY <3>1
      <3> QED BY <3>2, <3>3
    <2> QED BY <1>7, <2>1, <2>2 DEF Once
  <1>9. pc' = "sort"
    <2>1. o[1] \in 1 .. in.files
      BY <1>4, StoredIs, <1>3
    <2>2. \A i \in 1 .. in.files : Header(file[i]) = [status |-> "complete", max |-> in.max]
      BY <1>5, <1>6 DEF Header
    <2>3. \A i \in 1 .. Len(o) : Header(file[o[i]]) = Header(file[o[1]])
      BY <1>7, <2>1, <2>2
    <2> QED BY <1>1, <2>3
  <1>10. at'[1] = 1 /\ at'[2] = 1
    BY <1>1, SMTT(20)
  <1>11. \A k : InPlace(k, in.files, 1, 1)
    <2>1. \A b \in 1 .. in.files : ~(b < 1) /\ ~(1 < b /\ b < 1)
      BY <1>4, SMTT(20)
    <2> QED BY <2>1 DEF InPlace
  <1> QED BY <1>1, <1>8, <1>9, <1>10, <1>11 DEF Sorting

\* Without erase information nothing is read for it.
LEMMA EraseNone ==
    ASSUME Named(sorted, file, in.files), \A i \in 1 .. Len(sorted) : sorted[i].eSize = 0
    PROVE  Eof \notin Range(CopiedEraseinfo)
  <1> DEFINE C(i) == [k \in 1 .. sorted[i].eSize |-> ReadCell(file[sorted[i].name], sorted[i].eOff + k - 1)]
             seqs == [i \in 1 .. Len(sorted) |-> C(i)]
  <1>1. Len(sorted) \in Nat /\ Len(sorted) >= 2
    BY SeqLen DEF Named
  <1>2. ASSUME NEW i \in 1 .. Len(sorted) PROVE C(i) \in Seq({})
    <2>1. 1 .. 0 = {} /\ 0 \in Nat
      BY SMTT(20)
    <2>2. Listed(C(i), 0)
      BY DEF Listed
    <2> HIDE DEF C
    <2>3. C(i) \in Seq({C(i)[k] : k \in 1 .. 0})
      BY <2>1, <2>2, ListedIs
    <2>4. {C(i)[k] : k \in 1 .. 0} = {}
      BY <2>1
    <2> QED BY <2>3, <2>4
  <1>3. PICK n \in Nat : n = Len(sorted) /\ n # 0
    BY <1>1, SMTT(20)
  <1> HIDE DEF C
  <1>4. seqs \in [1 .. n -> Seq({})]
    BY <1>2, <1>3
  <1>5. CopiedEraseinfo = Chained(seqs)
    BY DEF CopiedEraseinfo, C
  <1> HIDE DEF seqs
  <1>6. seqs \in Seq(Seq({})) /\ Len(seqs) = n
    <2>1. \A T : seqs \in [1 .. n -> T] => seqs \in Seq(T) /\ Len(seqs) = n
      BY SMTT(20)
    <2> QED BY <1>4, <2>1
  <1>7. PICK q : q = CopiedEraseinfo /\ q \in Seq({})
    BY <1>3, <1>5, <1>6, FlattenIs
  <1>8. \A i \in DOMAIN q : FALSE
    <2> TAKE i \in DOMAIN q
    <2>1. i \in 1 .. Len(q)
      BY <1>7, SeqLen
    <2>2. q[i] \in {}
      BY <1>7, <2>1, SeqElement
    <2> QED BY <2>2
  <1> QED BY <1>7, <1>8 DEF Range

\* Every descriptor of a complete dump is there to be read.
LEMMA PagesFound ==
    ASSUME Invoked, Sources, ret = "TRUE", NEW base
    PROVE  CopiedPages(base).ok
  <1> DEFINE pages == Ascending(out.bitmap)
             pd == [h \in 1 .. Len(pages) |-> SourceDesc(pages[h])]
  <1>1. PICK ds, da : CopiedPages(base) = [ok |-> Eof \notin Range(pd), descs |-> ds, data |-> da]
    BY DEF CopiedPages
  <1>2. PICK b : b = (Eof \notin Range(pd))
    OBVIOUS
  <1>3. CopiedPages(base) = [ok |-> b, descs |-> ds, data |-> da]
    BY <1>1, <1>2
  <1>4. CopiedPages(base).ok = b
    <2>1. PICK c : c = CopiedPages(base)
      OBVIOUS
    <2>2. c = [ok |-> b, descs |-> ds, data |-> da]
      BY <1>3, <2>1
    <2>3. c.ok = b
      BY <2>2, SMTT(20)
    <2> QED BY <2>1, <2>3
  <1>5. InOrder(pages, Kept) /\ Len(pages) = Cardinality(Kept)
    <2>1. out.bitmap = Kept /\ Kept \subseteq Nat /\ IsFiniteSet(Kept)
      BY InvokedIs DEF Sources
    <2>2. InOrder(pages, Kept)
      BY <2>1, AscendingIs
    <2> QED BY <2>2 DEF InOrder
  <1>6. ASSUME NEW h \in 1 .. Len(pages) PROVE pd[h] # Eof
    <2>1. pages[h] \in Kept /\ pd[h] = SourceDesc(pages[h])
      BY <1>5 DEF InOrder
    <2> HIDE DEF pd, pages
    <2>2. Found(pages[h])
      BY <2>1, SourceIs
    <2>3. PICK off : IsDesc(pd[h], off, 1)
      BY <2>1, <2>2 DEF Found
    <2>4. pd[h].kind = "desc"
      BY <2>3, SMTT(20) DEF IsDesc, Desc, Cell
    <2>5. Eof.kind = "eof"
      BY SMTT(20) DEF Eof, Cell
    <2> QED BY <2>4, <2>5
  <1>7. DOMAIN pd = 1 .. Len(pages)
    OBVIOUS
  <1>8. Eof \notin Range(pd)
    <2> HIDE DEF pd
    <2> QED BY <1>6, <1>7 DEF Range
  <1> QED BY <1>2, <1>4, <1>8

\* The copying loop reads to the end of the pages.
LEMMA PagesSort ==
    ASSUME JoinInv, Sorting, ReassemblePages
    PROVE  Sorting'
  <1> DEFINE base == Cardinality(out.bitmap)
  <1>1. /\ pc = "pages" /\ UNCHANGED << in, attempt, ranges, ret, order >>
        /\ pc' = IF CopiedPages(base).ok /\ Eof \notin Range(CopiedEraseinfo) THEN "reassembled" ELSE "refused"
    BY DEF ReassemblePages
  <1>2. Sound' <=> Sound
    BY <1>1 DEF Sound, Kept
  <1>3. ASSUME Sound PROVE pc' = "reassembled"
    <2>1. Once(sorted, in.files)
      BY <1>1, <1>3 DEF Sorting
    <2>2. Invoked /\ Sources /\ ret = "TRUE"
      BY <1>1, <1>3, SourcesIs DEF Sound
    <2>3. CopiedPages(base).ok
      <3> HIDE DEF base
      <3> QED BY <2>2, PagesFound
    <2>4. Eof \notin Range(CopiedEraseinfo)
      BY <2>1, <2>2, EraseNone DEF Sources, Once
    <2> QED BY <1>1, <2>3, <2>4
  <1>4. pc' \in {"reassembled", "refused"}
    BY <1>1
  <1> QED BY <1>2, <1>3, <1>4 DEF Sorting

\* Every step keeps the entries of a complete dump acceptable.
LEMMA SortingNext == JoinInv /\ Sorting /\ [Next]_vars => Sorting'
  <1> SUFFICES ASSUME JoinInv, Sorting, [Next]_vars PROVE Sorting'
    OBVIOUS
  <1>1. CASE Creating
    <2>1. pc' \notin Late
      BY <1>1, CreatingEarly DEF JoinInv, RangeInv
    <2> QED BY <2>1 DEF Sorting, Late
  <1>2. ASSUME NEW o \in Orders, StoreSplittingInfo(o) PROVE Sorting'
    BY <1>2, StoreSorts
  <1>3. CASE SortSplittingInfo
    BY <1>3, SortSorts
  <1>4. CASE ReassembleHeader
    <2>1. pc = "header" /\ pc' = "pages" /\ UNCHANGED << in, attempt, ranges, ret, order, sorted >>
      BY <1>4 DEF ReassembleHeader
    <2>2. Sound' <=> Sound
      BY <2>1 DEF Sound, Kept
    <2> QED BY <2>1, <2>2 DEF Sorting
  <1>5. CASE ReassemblePages
    BY <1>5, PagesSort
  <1>6. CASE UNCHANGED vars
    <2>1. UNCHANGED << in, pc, attempt, ranges, ret, order, sorted, at >>
      BY <1>6 DEF vars
    <2>2. Sound' <=> Sound
      BY <2>1 DEF Sound, Kept
    <2> QED BY <2>1, <2>2 DEF Sorting
  <1> QED BY <1>1, <1>2, <1>3, <1>4, <1>5, <1>6 DEF Next, Reassembling, Stop

\* The files of a complete dump, each named once and in any order, are sorted,
\* pass check_splitting_info() and are copied to the end by reassemble_dumpfile(),
\* for any number of files, unless two of them start at the same frame or some
\* page was erased.
THEOREM AcceptsAnyOrder ==
    ASSUME InputsOK
    PROVE  Spec => []OrderIrrelevant
  <1>1. Init => JoinInv /\ Sorting
    <2>1. Init => pc = "count"
      BY DEF Init
    <2>2. pc = "count" => Sorting
      BY DEF Sorting
    <2> QED BY <2>1, <2>2, JoinInit
  <1>2. JoinInv /\ Sorting /\ [Next]_vars => (JoinInv /\ Sorting)'
    BY JoinNext, SortingNext
  <1>3. Sorting => OrderIrrelevant
    BY DEF Sorting, Sound, AllIn, Apart, OrderIrrelevant, AllNamed,
       Permutation, DistinctStarts
  <1> QED BY <1>1, <1>2, <1>3, PTL DEF Spec
=============================================================================
