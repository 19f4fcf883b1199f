------------------------------ MODULE DmesgLog ------------------------------
(***************************************************************************)
(* dump_dmesg() for the log of Linux 3.5 to 5.9: the walk over the records *)
(* of log_buf, from log_first_idx to log_next_idx, with the detection of a *)
(* cycle in a corrupted log.                                               *)
(*                                                                         *)
(* Places in the log count units of SIZE(printk_log).  A record is known   *)
(* by its place; a record of length 0 marks the end of the buffer and      *)
(* stands for the one at place 0.  The text of a record is left out.       *)
(***************************************************************************)
EXTENDS DetectCycle, Sequences, FiniteSets, Functions

CONSTANTS
    LogBufLen,     \* log_buf_len
    Logs,          \* the logs: [len, first, next], len[i] at every place i
    Faults         \* "write", "truncate" and "close" may fail

Places == 0 .. LogBufLen - 1

ASSUME LogsAssumption ==
    /\ LogBufLen \in Nat \ {0}
    /\ \A l \in Logs : /\ l.len \in [Places -> Nat]
                       /\ l.first \in Places /\ l.next \in Places
    /\ Faults \subseteq {"write", "truncate", "close"}

VARIABLES
    log,           \* the log in log_buffer, log_first_idx and log_next_idx
    pc,            \* where dump_dmesg() is
    ptr,           \* the place of the next record
    dc,            \* the state of the detection
    slow_p, fast_p, tmp,        \* the variables of dc_find_start()
    first, len, in_cycle,       \* where the cycle starts and what is left
    written        \* the records in the file

vars == <<log, pc, ptr, dc, slow_p, fast_p, tmp, first, len, in_cycle, written>>
finding == <<slow_p, fast_p, tmp>>
cycle == <<first, len, in_cycle>>

\* log_from_ptr()
LogFromPtr(l, p) == IF l.len[p] = 0 THEN 0 ELSE p

\* log_next()
LogNext(l) == [p \in Places |-> IF l.len[p] = 0 THEN l.len[0] ELSE p + l.len[p]]

Init ==
    /\ log \in Logs
    /\ pc = "walk"
    /\ ptr = log.first
    /\ dc = dc_init(log.first)
    /\ slow_p = 0 /\ fast_p = 0 /\ tmp = 0
    /\ first = 0 /\ len = 0 /\ in_cycle = FALSE
    /\ written = << >>

-----------------------------------------------------------------------------
WriteFails ==
    /\ "write" \in Faults
    /\ \/ pc = "walk" /\ ptr # log.next
       \/ pc = "rewrite" /\ len # 0
    /\ pc' = "failed"
    /\ UNCHANGED <<log, ptr, dc, finding, cycle, written>>

\* One record is written and the next one looked for.  On a cycle the file
\* is emptied.
Walk ==
    LET d == Advance(dc, LogNext(log))
    IN  /\ pc = "walk" /\ ptr # log.next
        /\ dc' = d
        /\ \/ /\ Detected(d)
              /\ pc' = "ahead"
              /\ written' = << >>
              /\ ptr' = log.first
              /\ slow_p' = d.head /\ fast_p' = d.head /\ tmp' = d.length
           \/ /\ Detected(d) /\ "truncate" \in Faults
              /\ pc' = "failed"
              /\ written' = Append(written, LogFromPtr(log, ptr))
              /\ UNCHANGED <<ptr, finding>>
           \/ /\ ~ Detected(d) /\ d.fast_p \notin Places
              /\ pc' = "outside"
              /\ written' = Append(written, LogFromPtr(log, ptr))
              /\ UNCHANGED <<ptr, finding>>
           \/ /\ ~ Detected(d) /\ d.fast_p \in Places
              /\ written' = Append(written, LogFromPtr(log, ptr))
              /\ ptr' = d.fast_p
              /\ UNCHANGED <<pc, finding>>
        /\ UNCHANGED <<log, cycle>>

\* Variant: the walk ends behind log_next_idx, so at once in a log that wraps.
WalkEndsBehind ==
    /\ pc = "walk" /\ ptr >= log.next
    /\ \/ pc' = "done"
       \/ "close" \in Faults /\ pc' = "failed"
    /\ UNCHANGED <<log, ptr, dc, finding, cycle, written>>

WalkEnds ==
    /\ pc = "walk" /\ ptr = log.next
    /\ \/ pc' = "done"
       \/ "close" \in Faults /\ pc' = "failed"
    /\ UNCHANGED <<log, ptr, dc, finding, cycle, written>>

-----------------------------------------------------------------------------
\* dc_find_start(): fast_p goes ahead by the length of the cycle, then both
\* go on until they meet.
GoAhead ==
    /\ pc = "ahead" /\ tmp # 0
    /\ fast_p' = LogNext(log)[fast_p]
    /\ tmp' = tmp - 1
    /\ UNCHANGED <<log, pc, ptr, dc, slow_p, cycle, written>>

\* Variant: slow_p stays at the head of the list.
MeetAtHead ==
    /\ pc = "ahead" /\ tmp = 0 /\ slow_p # fast_p
    /\ fast_p' = LogNext(log)[fast_p]
    /\ UNCHANGED <<log, pc, ptr, dc, slow_p, tmp, cycle, written>>

Meet ==
    /\ pc = "ahead" /\ tmp = 0 /\ slow_p # fast_p
    /\ slow_p' = LogNext(log)[slow_p]
    /\ fast_p' = LogNext(log)[fast_p]
    /\ UNCHANGED <<log, pc, ptr, dc, tmp, cycle, written>>

StartFound ==
    /\ pc = "ahead" /\ tmp = 0 /\ slow_p = fast_p
    /\ first' = slow_p
    /\ len' = dc.length
    /\ in_cycle' = FALSE
    /\ pc' = "rewrite"
    /\ UNCHANGED <<log, ptr, dc, finding, written>>

\* Variant: the first record of the cycle is not counted.
RewriteLate ==
    /\ pc = "rewrite" /\ len # 0
    /\ written' = Append(written, LogFromPtr(log, ptr))
    /\ ptr' = LogNext(log)[ptr]
    /\ len' = IF in_cycle THEN len - 1 ELSE len
    /\ in_cycle' = (in_cycle \/ LogFromPtr(log, ptr) = first)
    /\ UNCHANGED <<log, pc, dc, finding, first>>

\* The records up to the cycle and once around it are written again.
Rewrite ==
    /\ pc = "rewrite" /\ len # 0
    /\ written' = Append(written, LogFromPtr(log, ptr))
    /\ ptr' = LogNext(log)[ptr]
    /\ in_cycle' = (in_cycle \/ LogFromPtr(log, ptr) = first)
    /\ len' = IF in_cycle' THEN len - 1 ELSE len
    /\ UNCHANGED <<log, pc, dc, finding, first>>

RewriteEnds ==
    /\ pc = "rewrite" /\ len = 0
    /\ pc' = "cycle"
    /\ UNCHANGED <<log, ptr, dc, finding, cycle, written>>

\* dump_dmesg() has returned: TRUE for "done" only.
Returned == pc \in {"done", "cycle", "outside", "failed"}
Stopped == Returned /\ UNCHANGED vars

Step ==
    \/ WriteFails \/ Walk \/ WalkEnds \/ GoAhead \/ Meet \/ StartFound
    \/ Rewrite \/ RewriteEnds

Next == Step \/ Stopped

Spec == Init /\ [][Next]_vars
FairSpec == Spec /\ WF_vars(Step)

-----------------------------------------------------------------------------
(***************************************************************************)
(* For reference: the places the walk comes to, without any detection, as  *)
(* a sequence that ends where a place comes up again, is outside or is     *)
(* log_next_idx.                                                           *)
(***************************************************************************)
Path(l) ==
    LET at[k \in 0 .. LogBufLen] ==
            IF k = 0 THEN l.first
            ELSE IF at[k - 1] \in Places THEN LogNext(l)[at[k - 1]]
            ELSE at[k - 1]
        ends == {k \in 0 .. LogBufLen :
                    \/ at[k] \notin Places \/ at[k] = l.next
                    \/ \E j \in 0 .. k - 1 : at[j] = at[k]}
        n == CHOOSE k \in ends : \A j \in ends : k <= j
    IN  [path |-> [k \in 1 .. n |-> at[k - 1]], end |-> at[n]]

\* The records at the places of the path.
Records(l) == [k \in 1 .. Len(Path(l).path) |-> LogFromPtr(l, Path(l).path[k])]

Cyclic(l) == Path(l).end \in Range(Path(l).path)

\* The walk comes back first to an end marker, not to a record.
BackToMarker(l) == Cyclic(l) /\ LogFromPtr(l, Path(l).end) # Path(l).end

\* The walk is at the record at the start of the buffer twice, at place 0 and at
\* an end marker or at two of them, before it comes back to any place.
TwiceAtStart(l) ==
    \E j, k \in 1 .. Len(Records(l)) :
        j # k /\ Records(l)[j] = 0 /\ Records(l)[k] = 0

\* How many places of the path are on the cycle.
CycleLength(l) ==
    LET p == Path(l).path
    IN  Cardinality({k \in 1 .. Len(p) :
            \E j \in 1 .. k : p[j] = Path(l).end})

(***************************************************************************)
(* The types of the variables.                                             *)
(***************************************************************************)
TypeOK ==
    /\ pc \in {"walk", "ahead", "rewrite", "done", "cycle", "outside", "failed"}
    /\ ptr \in Places /\ dc.head \in Places /\ dc.slow_p \in Places
    /\ slow_p \in Places /\ fast_p \in Places /\ first \in Places
    /\ tmp \in Nat /\ len \in Nat /\ in_cycle \in BOOLEAN
    /\ \A k \in 1 .. Len(written) : written[k] \in Places

(***************************************************************************)
(* dump_dmesg() returns TRUE only for a log without a cycle, and then the  *)
(* file holds the records from log_first_idx to log_next_idx, each once.   *)
(***************************************************************************)
WholeLogWhenDone ==
    pc = "done" =>
        /\ ~ Cyclic(log)
        /\ written = Records(log)
        /\ IsInjective(written)

(***************************************************************************)
(* dc_find_start() finds the place the walk comes back to first and the    *)
(* length of the cycle, and there is no cycle if none is reported.  It     *)
(* never leaves the log buffer.                                            *)
(***************************************************************************)
CycleFound ==
    /\ TypeOK
    /\ pc = "rewrite" /\ written = << >> =>
          /\ Cyclic(log)
          /\ first = Path(log).end
          /\ len = CycleLength(log)
    /\ pc = "outside" => ~ Cyclic(log)

(***************************************************************************)
(* On a cycle dump_dmesg() starts the file again "and only write[s] up to  *)
(* the corruption": the records before the cycle and on it, in order, and  *)
(* none a second time.                                                     *)
(***************************************************************************)
OnlyUpToCorruption ==
    /\ pc \in {"rewrite", "cycle"} =>
          /\ Len(written) <= Len(Records(log))
          /\ written = SubSeq(Records(log), 1, Len(written))
          /\ IsInjective(written)
    /\ pc = "cycle" => Range(written) = Range(Records(log))

(***************************************************************************)
(* dump_dmesg() returns, whatever is in the log.                           *)
(***************************************************************************)
Returns == <>Returned
=============================================================================
