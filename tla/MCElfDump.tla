----------------------------- MODULE MCElfDump ------------------------------
(***************************************************************************)
(* Memories of one or two PT_LOADs, aligned and not, one with a part that  *)
(* has no data, and of three, one of them without a physical address;      *)
(* pages of four bytes.                                                    *)
(***************************************************************************)
EXTENDS Integers, Sequences

Load(p, m, f, o) == [paddr |-> p, memsz |-> m, filesz |-> f, offset |-> o]

Layouts == {<< Load(4, 24, 24, 2) >>,
            << Load(2, 10, 10, 2), Load(16, 14, 14, 13) >>,
            << Load(0, 6, 6, 5), Load(8, 20, 12, 20) >>,
            << Load(2, 6, 6, 2), Load(63, 8, 8, 8), Load(16, 12, 12, 16) >>}

\* The page frames that start in a PT_LOAD, where it has data.
Pfns(l) == {p \in 0 .. 7 : \E k \in 1 .. Len(l) : l[k].paddr <= p * 4 /\ p * 4 < l[k].paddr + l[k].filesz}

Dump(l, d, cyclic, flatten, limit, erase) ==
    [loads |-> l, dumpable |-> d, elf64 |-> erase = 0, pfn_cyclic |-> IF cyclic THEN 2 ELSE 8,
     flatten |-> flatten, arrives |-> IF flatten /\ cyclic THEN 5 ELSE 1000, limit |-> limit,
     note |-> 1, erase |-> erase, erased |-> erase \div 2]

\* To a file with room for 8, 17 or all bytes, or flattened.
MCDumps ==
    UNION {{Dump(l, d, c, FALSE, limit, e) :
                d \in SUBSET Pfns(l), c \in BOOLEAN, limit \in {8, 17, 1000}, e \in {0, 2}} : l \in Layouts}
    \cup UNION {{Dump(l, d, c, TRUE, 1000, e) : d \in SUBSET Pfns(l), c \in BOOLEAN, e \in {0, 2}} : l \in Layouts}
=============================================================================
