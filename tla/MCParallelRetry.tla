--------------------------- MODULE MCParallelRetry ---------------------------
(***************************************************************************)
(* ParallelRetry for TLC: one cycle of three pages, two dump levels.       *)
(***************************************************************************)
EXTENDS ParallelRetry

MCThreePages == {0, 1, 2}
MCZeroPages == {}
WriteFaults == {"write"}
=============================================================================
