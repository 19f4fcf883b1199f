----------------------------- MODULE MCSerialDump -----------------------------
(***************************************************************************)
(* SerialDump for TLC.  A page has 8 words, compressed 3; a cache holds 32 *)
(* words: four pages, or ten descriptors and two words of the eleventh.    *)
(***************************************************************************)
EXTENDS SerialDump

Unlimited == 1000

\* Seven pages fill cd_page twice; twelve zero pages fill cd_header.
SevenPages ==
    [dumpable |-> {0, 1, 3, 4, 5, 6, 8}, zero |-> {}, exclude |-> FALSE]
MostlyZero ==
    [dumpable |-> 0 .. 14, zero |-> (0 .. 14) \ {0, 6, 14}, exclude |-> TRUE]
MCMemories == {SevenPages, MostlyZero}

\* No page is zero, but zero pages would be excluded.
NoneZero == [dumpable |-> {0, 1, 3, 4}, zero |-> {}, exclude |-> TRUE]
ZeroMemories == {NoneZero}
OneSize == {3}

\* Every size limit and every size of the device, up to the whole file, and
\* some broken ones.
Large == [limit |-> Unlimited, space |-> Unlimited, bad |-> {}]
Limited(sizes) == {[Large EXCEPT !.limit = n] : n \in sizes}
Full(sizes) == {[Large EXCEPT !.space = n] : n \in sizes}
Broken(offsets) == {[Large EXCEPT !.bad = {n}] : n \in offsets}
MCDevices ==
    {Large} \cup Limited(1 .. 78) \cup Full(0 .. 77)
            \cup Broken({2, 20, 40, 77})
FullDevices == Full(0 .. 77)
=============================================================================
