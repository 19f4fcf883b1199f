----------------------------- MODULE PageStream -----------------------------
(***************************************************************************)
(* What a writer of kdump-compressed pages promises its caller: one        *)
(* descriptor for every dumpable page, in the order of the pfns, with the  *)
(* data of that page and no other.  The file has no pfn in a descriptor,   *)
(* so a reader relies on all three.  A writer that fails stops early, and  *)
(* leaves the descriptors of the first pages.                              *)
(***************************************************************************)
EXTENDS Integers, Sequences

CONSTANTS
    Pages,     \* the dumpable pfns
    Zero       \* the pages the dump level replaces by the one zero page

VARIABLES
    out,       \* the descriptors of the file
    status     \* "writing", "complete" or "incomplete"

vars == <<out, status>>

NoData == -1

Unwritten == {p \in Pages : \A n \in 1 .. Len(out) : out[n].pfn # p}

DescriptorOf(p) ==
    [pfn |-> p, zero |-> p \in Zero, page |-> IF p \in Zero THEN NoData ELSE p]

Init == out = << >> /\ status = "writing"

Emit ==
    /\ status = "writing"
    /\ \E p \in Unwritten :
          /\ \A q \in Unwritten : p <= q
          /\ out' = Append(out, DescriptorOf(p))
    /\ UNCHANGED status

Complete ==
    /\ status = "writing"
    /\ Unwritten = {}
    /\ status' = "complete"
    /\ UNCHANGED out

GiveUp ==
    /\ status = "writing"
    /\ status' = "incomplete"
    /\ UNCHANGED out

Next == Emit \/ Complete \/ GiveUp

Spec == Init /\ [][Next]_vars
=============================================================================
