----------------------------- MODULE MCPageCache -----------------------------
(***************************************************************************)
(* PageCache for TLC: three entries, windows of up to three pages.         *)
(***************************************************************************)
EXTENDS PageCache

\* Two PT_LOADs, whose last pages 4 and 9 are never mapped.  Page 5 is in none.
MCLoads == {[start |-> 0, size |-> 5, offset |-> 1],
            [start |-> 7, size |-> 3, offset |-> 6]}
AllPages == {0, 1, 2, 4, 5, 7}
MappedPages == {0, 1, 3, 7}

\* With mmap(), only pages that can be mapped.
MCInputs == {[pages |-> AllPages, usemmap |-> "DISABLE"],
             [pages |-> MappedPages, usemmap |-> "TRY"]}
MmapInputs == {[pages |-> AllPages, usemmap |-> "TRY"]}

AllFaults == {"mmap", "read"}
NoFaults == {}
=============================================================================
