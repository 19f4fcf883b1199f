---------------------------- MODULE MCEraseInfo -----------------------------
(***************************************************************************)
(* Three orders to erase bytes of four pages of four bytes; some pages are *)
(* dumped, by one writer (ELF) or by two.                                  *)
(***************************************************************************)
EXTENDS Integers, Sequences

Order(c, p, s, n) == [cmd |-> c, paddr |-> p, size |-> s, nullify |-> n]

Ranges == {<< 0, 2 >>, << 1, 12 >>, << 3, 1 >>, << 4, 10 >>, << 8, 2 >>}

\* c is the command of the second and third orders; 0 is an eppic macro.
MCCases ==
    {[orders |-> << Order(1, r[1], r[2], FALSE), Order(c, s[1], s[2], c = 2 /\ s[2] = 1),
                    Order(c, t[1], t[2], FALSE) >>,
      pages |-> p, elf |-> e, parallel |-> ~e]
        : r \in Ranges, s \in Ranges, t \in {<< 2, 3 >>, << 9, 5 >>}, c \in 0 .. 2,
          p \in {<< 0, 1, 2, 3 >>, << 1, 2 >>, << 1, 2, 3 >>}, e \in BOOLEAN}
=============================================================================
