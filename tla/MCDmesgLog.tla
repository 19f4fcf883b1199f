----------------------------- MODULE MCDmesgLog -----------------------------
(***************************************************************************)
(* DmesgLog for TLC: every log of LogBufLen places, intact or corrupted.   *)
(***************************************************************************)
EXTENDS DmesgLog

MaxLen == 3

AllLogs ==
    [len : [Places -> 0 .. MaxLen], first : Places, next : Places]

\* The logs in which no place of the cycle and of the way to it stands for the
\* record of another.
OtherLogs == {l \in AllLogs : ~ BackToMarker(l) /\ ~ TwiceAtStart(l)}

AllFaults == {"write", "truncate", "close"}
NoFaults == {}
=============================================================================
