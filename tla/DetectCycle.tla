----------------------------- MODULE DetectCycle -----------------------------
(***************************************************************************)
(* detect_cycle.c: Brent's algorithm for finding a cycle in a linked list  *)
(* whose entries are visited once, in order, with dc_next().               *)
(*                                                                         *)
(* The list is the function next, dc->next with its private data.          *)
(***************************************************************************)
EXTENDS Naturals

dc_init(head) ==
    [head |-> head, fast_p |-> head, slow_p |-> head, length |-> 0, power |-> 2]

\* Variant: the length is not started again when slow_p moves.
AdvanceCounting(dc, next) ==
    LET d == IF dc.length = dc.power
             THEN [dc EXCEPT !.power = 2 * @, !.slow_p = dc.fast_p]
             ELSE dc
    IN  [d EXCEPT !.fast_p = next[d.fast_p], !.length = @ + 1]

\* dc_next(): one entry further; slow_p jumps to fast_p at powers of two.
Advance(dc, next) ==
    LET d == IF dc.length = dc.power
             THEN [dc EXCEPT !.length = 0, !.power = 2 * @, !.slow_p = dc.fast_p]
             ELSE dc
    IN  [d EXCEPT !.fast_p = next[d.fast_p], !.length = @ + 1]

\* dc_next() returns 1.
Detected(dc) == dc.slow_p = dc.fast_p
=============================================================================
