---------------------------- MODULE MCPageFilter ----------------------------
(***************************************************************************)
(* Memories tiled by aligned blocks of pages.                              *)
(***************************************************************************)
EXTENDS Integers, Sequences, TLC

\* The descriptors of a block: of its first page and of the others.
First(kind, order) ==
    CASE kind = "kernel"   -> [attr |-> {}, order |-> 0]
      [] kind = "slab"     -> [attr |-> {"slab", "anon"} \cup (IF order > 0 THEN {"head"} ELSE {}), order |-> order]
      [] kind = "free"     -> [attr |-> {"buddy"}, order |-> order]
      [] kind = "cache"    -> [attr |-> {"lru"}, order |-> 0]
      [] kind = "swap"     -> [attr |-> {"swapcache"}, order |-> 0]
      [] kind = "cachepri" -> [attr |-> {"lru", "private"}, order |-> 0]
      [] kind = "user"     -> [attr |-> IF order = 0 THEN {"lru", "anon"} ELSE {"head", "hugetlb"}, order |-> order]
      [] kind = "hwpoison" -> [attr |-> {"hwpoison"}, order |-> 0]
      [] kind = "offline"  -> [attr |-> {"offline"}, order |-> 0]

Rest(kind) == [attr |-> IF kind \in {"slab", "user"} THEN {"tail"} ELSE {}, order |-> 0]

\* Tilings of 2^n frames from frame s on: sets of <<start, order, kind>>.
RECURSIVE Tilings(_, _, _, _)
Tilings(s, n, one, many) ==
    IF n = 0 THEN {{<<s, 0, k>>} : k \in one}
    ELSE {{<<s, n, k>>} : k \in many}
           \cup {a \cup b : a \in Tilings(s, n - 1, one, many),
                            b \in Tilings(s + 2 ^ (n - 1), n - 1, one, many)}

BlockAt(t, p) == CHOOSE b \in t : b[1] <= p /\ p < b[1] + 2 ^ b[2]

Memory(t, frames) ==
    [page |-> [p \in frames |-> LET b == BlockAt(t, p)
                                IN  IF b[1] = p THEN First(b[3], b[2]) ELSE Rest(b[3])],
     kind |-> [p \in frames |-> BlockAt(t, p)[3]],
     head |-> [p \in frames |-> BlockAt(t, p)[1]]]

Load(s, d, e) == [start |-> s, data |-> d, end |-> e]
Map(s, e) == [start |-> s, end |-> e]

Input(t, loads, memmaps, level, cyclic, elf, buddy) ==
    LET max == loads[Len(loads)].end
        frames == 0 .. max - 1
    IN  Memory(t, frames) @@
        [max |-> max, pfn_cyclic |-> IF elf THEN 4 ELSE 6,
                  loads |-> loads, memmaps |-> memmaps, level |-> level,
                  cyclic |-> cyclic, elf |-> elf, buddy |-> buddy,
                  zero |-> {p \in frames : p % 3 = 1}, mfn |-> [p \in frames |-> p],
                  gvmem |-> << >>, excludevm |-> FALSE, poison |-> TRUE, broken |-> FALSE]

Whole == << Load(0, 8, 8) >>
Holes == << Load(0, 3, 3), Load(5, 8, 8) >>
Nodata == << Load(0, 2, 4), Load(4, 8, 8) >>
OneMap == << Map(0, 8) >>
Sections == << Map(0, 4), Map(4, 8) >>

\* Every tiling with free and user blocks; few layouts.
Tiled ==
    {Input(t, l, m, {"free", "user"}, c, FALSE, TRUE)
        : t \in Tilings(0, 3, {"kernel"}, {"free", "user"}),
          l \in {Whole, Holes}, m \in {OneMap, Sections}, c \in BOOLEAN}

\* ELF dumps and free lists, with zero pages and pages without data.  Only
\* pages of memory are on a free list.
Mixed ==
    {i \in {Input(t, l, Sections, lev, c, elf, b)
        : t \in {u \cup v : u \in Tilings(0, 2, {"kernel"}, {"user"}),
                            v \in Tilings(4, 2, {"free"}, {"user"})},
          l \in {Whole, Holes, Nodata}, lev \in {{"free", "zero"}, {"user"}},
          c \in BOOLEAN, elf \in BOOLEAN, b \in BOOLEAN} : i.buddy \/ i.loads # Holes}

\* Every kind of page and every dump level.
Kinds ==
    {Input(t, Whole, OneMap, lev, TRUE, FALSE, TRUE)
        : t \in {{<<0, 2, "free">>, <<4, 0, k[1]>>, <<5, 0, k[2]>>, <<6, 1, k[3]>>}
                    : k \in {"cache", "cachepri", "swap", "hwpoison", "offline"}
                        \X {"slab", "user", "cache", "cachepri"} \X {"slab", "user", "free"}},
          lev \in SUBSET {"cache", "cachepri", "user", "free"}}

\* No PG_hwpoison in the VMCOREINFO: the descriptors may not be looked at.
Unpoisoned ==
    {[i EXCEPT !.poison = FALSE] : i \in {j \in Kinds : j.level \in {{}, {"free"}, {"user"}}}}

\* Domain-0 of Xen: frames in another order; and a broken free list.
Others ==
    {[Input(t, Whole, OneMap, {"free", "user"}, FALSE, FALSE, TRUE)
        EXCEPT !.mfn = [p \in 0 .. 7 |-> (5 * p + 3) % 8]]
        : t \in Tilings(0, 3, {"kernel"}, {"free", "user"})}
    \cup {[Input(t, Whole, OneMap, {"free"}, c, FALSE, FALSE) EXCEPT !.broken = TRUE]
        : t \in Tilings(0, 3, {"kernel"}, {"free"}), c \in BOOLEAN}

\* --exclude-unused-vm: the last nine frames hold the page structs.  None to
\* three runs of unused pages fill no, part of one, one or part of a second page
\* of the save file.
Vmemmap ==
    {[Input(t \cup {<<p, 0, "kernel">> : p \in 12 .. 20},
            << Load(0, 21, 21) >>, << Map(0, 21) >>, {"free", "user"}, FALSE, FALSE, TRUE)
        EXCEPT !.excludevm = TRUE,
               !.gvmem = << [rep |-> 0, repEnd |-> 7, vmap |-> 12], [rep |-> 8, repEnd |-> 15, vmap |-> 18] >>]
        : t \in {u \cup v : u \in Tilings(0, 3, {"kernel"}, {"free"}),
                            v \in Tilings(8, 2, {"kernel"}, {"free"})}}

\* Blocks over several cycles.
Short == {[i EXCEPT !.pfn_cyclic = 2] : i \in {j \in Tiled : j.cyclic /\ j.memmaps = Sections}}

MCInputs == Tiled \cup Short \cup Mixed \cup Kinds \cup Unpoisoned \cup Others \cup Vmemmap
=============================================================================
