----------------------------- MODULE MCSplitDump -----------------------------
(***************************************************************************)
(* Small invocations of --split and --reassemble: page frames 0..5, two or *)
(* three output files, one or two dump levels.                             *)
(***************************************************************************)
EXTENDS Integers, Sequences

Invocation(max, levels, zero, drop, erased, files, option) ==
    [max |-> max, dumpable |-> levels, zero |-> zero, dropZero |-> drop, erased |-> erased,
     files |-> files, option |-> option, faults |-> Len(levels) > 1 \/ (files = 3 /\ option = 4 /\ 0 \in levels[1])]

(* Every set of dumpable pages, cut into blocks of one, two or five pages  *)
(* (the default), so that the last block is whole, cut short or the only.  *)
Shapes == {Invocation(5, <<d>>, {1, 3}, TRUE, {}, f, o) :
              d \in SUBSET (0 .. 4), f \in {2}, o \in {0, 2, 4}}
          \cup {Invocation(5, <<d>>, {1, 3}, TRUE, {}, 3, o) :
              d \in SUBSET (0 .. 4), o \in {2, 4}}
(* Retries with a smaller second set of pages, and a misaligned option.    *)
Retries == {Invocation(4, <<0 .. 3, d>>, {2}, z, {}, 2, o) :
              d \in {{0, 1, 3}, {2, 3}}, z \in BOOLEAN, o \in {0, 1, 2}}
(* Erase information in some of the files.                                 *)
Erasing == {Invocation(4, <<0 .. 3>>, {}, FALSE, e, 2, 2) : e \in {{0}, {3}, {0, 1}, {0, 1, 2}}}

MCInputs == Shapes \cup Retries \cup Erasing
=============================================================================
