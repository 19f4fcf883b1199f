--------------------------- MODULE MCParallelDump ---------------------------
(***************************************************************************)
(* ParallelDump for TLC.                                                   *)
(***************************************************************************)
EXTENDS ParallelDump

\* Two cycles of three pfns; pfn 1 is excluded, pfn 2 is a zero page.
MCDumpable == {0, 2, 3, 4}
MCZeroPages == {2}

\* One cycle of three pages.
MCThreePages == {0, 1, 2}
MCFirstPage == {0}

NoFaults == {}
PageFaults == {"read", "write", "timeout"}
AllFaults == {"alloc", "read", "write", "timeout"}
=============================================================================
