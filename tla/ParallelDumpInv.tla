-------------------------- MODULE ParallelDumpInv ---------------------------
(***************************************************************************)
(* The inductive invariant of ParallelDump, in the parts its proof uses.   *)
(*                                                                         *)
(*  Control    which threads run while the consumer is where it is, and    *)
(*             what a producer's program counter says of its slot;         *)
(*  Lists      the used slots of a list are an interval that begins at the *)
(*             consumer's slot and ends at the producer's, pfns ascending; *)
(*  Pages      the pfns taken are the dumpable ones in ascending order,    *)
(*             the first ones written, the others in the lists;            *)
(*  Counting   the semaphore counts the slots not yet waited for;          *)
(*  Scanning   the consumer's scan finds the first page not yet written;   *)
(*  Ends       end_count is the number of end markers taken;               *)
(*  Owners     a used buffer has one owner, a producer or a slot.          *)
(***************************************************************************)
EXTENDS ParallelDump

\* The consumer is inside a cycle / has a page, or an end marker, to look for.
Active == {"create", "sem_wait", "scan", "check", "write", "free_buffer",
           "release"}
PastWait == {"scan", "check", "write"}

\* The producer looks for a page / has one, or an end marker, in its slot.
Seeking == {"begin", "lock_data", "find_buffer", "wait_slot", "lock_pfn",
            "scan"}
Filling == {"fill", "post", "end", "read", "mark_ready"}
SlotTaken == {"lock_pfn", "scan"} \cup Filling
Holding == {"wait_slot"} \cup SlotTaken

\* The threads that have been created in this cycle.
Created == IF cpc = "create" THEN 0 .. i - 1 ELSE Threads

AllUnused == \A t \in Threads : \A s \in Slots : ready[t][s] = "UNUSED"
AllEnded == \A t \in Threads : pc[t] \in Ended

-----------------------------------------------------------------------------
(***************************************************************************)
(* Control.                                                                *)
(***************************************************************************)
ThreadsWait ==
    /\ cpc \in {"prepare", "return", "complete", "incomplete"} => AllEnded
    /\ cpc = "create" => \A t \in Threads : t >= i => pc[t] \in Ended
    /\ cpc = "join" => \A t \in Threads : t < i => pc[t] \in Ended
    /\ start_pfn < end_pfn

ProducerSlot(t) ==
    LET s == page_flag_buf[t]
    IN  /\ pc[t] \in SlotTaken => ready[t][s] # "READY"
        /\ pc[t] \in Filling => slotPfn[t][s] = pfn[t]
        /\ pc[t] \in {"read", "mark_ready"} => pfn[t] < end_pfn
        /\ pc[t] = "end" => pfn[t] >= end_pfn

ReadySlots ==
    /\ \A t \in Threads : \A s \in Slots :
          ready[t][s] = "READY" => slotPfn[t][s] < end_pfn
    /\ cpc \in {"write", "free_buffer", "release"} => Candidate = "READY"

Control ==
    /\ ThreadsWait
    /\ \A t \in Threads : ProducerSlot(t)
    /\ ReadySlots

TypeInv == TypeOK /\ Control

-----------------------------------------------------------------------------
(***************************************************************************)
(* Lists.  A slot is in use from the moment its pfn is taken.              *)
(***************************************************************************)
InUse(t, s) ==
    ready[t][s] # "UNUSED" \/ (pc[t] = "fill" /\ s = page_flag_buf[t])

Rank(t, s) ==
    IF s >= head[t] THEN s - head[t] ELSE s + PageFlagNum - head[t]

Interval(t) ==
    \A s1, s2 \in Slots :
        Rank(t, s1) < Rank(t, s2) /\ InUse(t, s2) =>
            InUse(t, s1) /\ slotPfn[t][s1] < slotPfn[t][s2]

SeekingList(t) ==
    LET b == page_flag_buf[t]
    IN  pc[t] \in Seeking =>
        /\ \A s \in Slots : InUse(t, s) => ready[t][s] = "READY"
        /\ \/ \A s \in Slots : InUse(t, s) <=> Rank(t, s) < Rank(t, b)
           \/ b = head[t] /\ \A s \in Slots : InUse(t, s)

FillingList(t) ==
    LET b == page_flag_buf[t]
    IN  pc[t] \in Filling \/ (pc[t] = "done" /\ t \in Created) =>
        /\ ready[t][b] # "READY"
        /\ \A s \in Slots :
              InUse(t, s) /\ s # b => /\ ready[t][s] = "READY"
                                      /\ Rank(t, s) < Rank(t, b)
        /\ pfn[t] < end_pfn => InUse(t, b)
        /\ InUse(t, b) \/ \A s \in Slots : ~ InUse(t, s)

Markers(t) ==
    \A s \in Slots :
        InUse(t, s) /\ slotPfn[t][s] >= end_pfn =>
            /\ pc[t] \in {"fill", "post", "end", "done"}
            /\ pfn[t] >= end_pfn
            /\ s = page_flag_buf[t]
            /\ \A r \in Slots : InUse(t, r) => Rank(t, r) <= Rank(t, s)

ListInv(t) ==
    /\ Interval(t) /\ SeekingList(t) /\ FillingList(t) /\ Markers(t)
    /\ t \notin Created => \A s \in Slots : ready[t][s] = "UNUSED"

Lists == cpc \in Active => \A t \in Threads : ListInv(t)

-----------------------------------------------------------------------------
(***************************************************************************)
(* Pages.                                                                  *)
(***************************************************************************)
NumWritten == Len(written) - base
NumReleased ==
    IF cpc \in {"free_buffer", "release"} THEN NumWritten - 1 ELSE NumWritten

WrittenBelow(p) ==
    \A q \in Dumpable : q < p => \E n \in 1 .. Len(written) : written[n].pfn = q

TakenOrder ==
    \A j, k \in 1 .. Len(taken) :
        j < k /\ taken[k] < end_pfn => taken[j] < taken[k]

TakenPages ==
    \A j \in 1 .. Len(taken) :
        IF taken[j] < end_pfn
        THEN taken[j] \in Dumpable /\ start_pfn <= taken[j] /\ taken[j] < current_pfn
        ELSE current_pfn >= end_pfn

TakenAll ==
    \A p \in Dumpable :
        start_pfn <= p /\ p < end_pfn /\ p < current_pfn =>
            \E j \in 1 .. Len(taken) : taken[j] = p

WrittenTaken ==
    /\ base <= Len(written)
    /\ NumWritten <= Len(taken)
    /\ cpc \in {"free_buffer", "release"} => NumWritten >= 1
    /\ \A j \in 1 .. NumWritten :
          taken[j] < end_pfn /\ written[base + j].pfn = taken[j]
    /\ \A n \in 1 .. base : written[n].pfn < start_pfn
    /\ \A q \in Dumpable : q < start_pfn =>
          \E n \in 1 .. base : written[n].pfn = q

TakenInUse ==
    \A j \in 1 .. Len(taken) :
        j > NumReleased /\ taken[j] < end_pfn =>
            \E t \in Threads : \E s \in Slots :
                InUse(t, s) /\ slotPfn[t][s] = taken[j]

InUseTaken ==
    \A t \in Threads : \A s \in Slots :
        InUse(t, s) /\ slotPfn[t][s] < end_pfn =>
            \E j \in 1 .. Len(taken) :
                j > NumReleased /\ taken[j] = slotPfn[t][s]

OneSlot ==
    \A t1, t2 \in Threads : \A s1, s2 \in Slots :
        /\ InUse(t1, s1) /\ InUse(t2, s2)
        /\ slotPfn[t1][s1] = slotPfn[t2][s2] /\ slotPfn[t1][s1] < end_pfn
        => t1 = t2 /\ s1 = s2

Locked ==
    \A t \in Threads :
        /\ pc[t] \in {"scan", "fill"} => current_pfn_mutex = t
        /\ pc[t] = "fill" => Len(taken) > 0 /\ pfn[t] = taken[Len(taken)]
        /\ pc[t] = "fill" => ready[t][page_flag_buf[t]] = "UNUSED"
        /\ t \in Created /\ pc[t] = "done" => pfn[t] >= end_pfn
        /\ pc[t] \in {"post", "end", "done"} /\ t \in Created
              /\ pfn[t] >= end_pfn => current_pfn >= end_pfn

Pages ==
    /\ OrderedWrites
    /\ cpc = "prepare" => AllUnused /\ WrittenBelow(start_pfn)
                          /\ \A n \in 1 .. Len(written) : written[n].pfn < start_pfn
    /\ cpc \in Active =>
          /\ ~ ret /\ start_pfn <= current_pfn
          /\ TakenOrder /\ TakenPages /\ TakenAll /\ WrittenTaken
          /\ TakenInUse /\ InUseTaken /\ OneSlot /\ Locked
    /\ cpc \in {"cancel", "join", "return"} /\ ret =>
          /\ AllUnused
          /\ WrittenBelow(end_pfn)
          /\ \A n \in 1 .. Len(written) : written[n].pfn < end_pfn
          /\ \A t \in Threads : pc[t] \in {"post", "end", "done"}
                                /\ pfn[t] >= end_pfn
    /\ cpc = "complete" => WrittenBelow(MaxMapnr)

-----------------------------------------------------------------------------
(***************************************************************************)
(* Counting.                                                               *)
(***************************************************************************)
Posting == {t \in Threads : pc[t] \in {"fill", "post"}}
Waited == IF cpc \in PastWait THEN NumWritten + 1 ELSE NumWritten

Counting ==
    cpc \in Active => sem + Waited + Cardinality(Posting) = Len(taken)

(***************************************************************************)
(* Scanning.  The first page not yet written is taken[NumWritten + 1].     *)
(***************************************************************************)
Sought == taken[NumWritten + 1]
AtHead(t) ==
    ready[t][head[t]] # "UNUSED" /\ slotPfn[t][head[t]] = Sought

Scanning ==
    /\ cpc = "check" => i = 0
    /\ cpc = "scan" =>
          /\ smallest <= end_pfn
          /\ smallest < end_pfn => Sought < end_pfn /\ Sought <= smallest
          /\ \A t \in Threads :
                t < i /\ Sought < end_pfn /\ AtHead(t) =>
                    smallest = Sought /\ consuming = t
    /\ cpc \in {"check", "write"} /\ Sought < end_pfn =>
          smallest = Sought /\ AtHead(consuming)
    /\ cpc = "write" => Sought < end_pfn
    /\ cpc \in {"free_buffer", "release"} =>
          slotPfn[consuming][head[consuming]] = taken[NumWritten]

(***************************************************************************)
(* Ends.                                                                   *)
(***************************************************************************)
Counted ==
    {t \in Created : /\ pc[t] \in {"post", "end", "done"}
                     /\ pfn[t] >= end_pfn
                     /\ \A s \in Slots : ready[t][s] = "UNUSED"}

Ends ==
    /\ cpc \in Active => end_count = Cardinality(Counted)
    /\ cpc \in {"sem_wait", "write", "free_buffer", "release"} =>
          end_count < NumThreads
    /\ cpc = "create" => end_count = 0
    /\ cpc \in {"cancel", "join", "return"} /\ end_count >= NumThreads =>
          /\ end_count = NumThreads
          /\ \A t \in Threads : pc[t] \in {"post", "end", "done"}
                                /\ pfn[t] >= end_pfn
    /\ cpc \in {"complete", "incomplete", "prepare"} => EndsCountedOnce

-----------------------------------------------------------------------------
(***************************************************************************)
(* Owners.  A slot owns its buffer until the consumer frees it.            *)
(***************************************************************************)
Full(t, s) ==
    /\ ready[t][s] = "READY"
    /\ ~ slotZero[t][s]
    /\ ~ (cpc = "release" /\ t = consuming /\ s = head[t])

ProducerOwns ==
    /\ \A t \in Threads : pc[t] \in Holding => used[index[t]]
    /\ \A t1, t2 \in Threads :
          pc[t1] \in Holding /\ pc[t2] \in Holding /\ index[t1] = index[t2]
              => t1 = t2

SlotFilled ==
    \A t \in Threads : \A s \in Slots :
       Full(t, s) => used[slotIndex[t][s]] /\ data[slotIndex[t][s]] = slotPfn[t][s]

SlotsApart ==
    \A t1, t2 \in Threads : \A s1, s2 \in Slots :
       Full(t1, s1) /\ Full(t2, s2) /\ slotIndex[t1][s1] = slotIndex[t2][s2]
           => t1 = t2 /\ s1 = s2

SlotsNotHeld ==
    \A t1, t2 \in Threads : \A s \in Slots :
       Full(t1, s) /\ pc[t2] \in Holding => slotIndex[t1][s] # index[t2]

SlotOwns == SlotFilled /\ SlotsApart /\ SlotsNotHeld

ZeroSlots ==
    /\ \A t \in Threads : \A s \in Slots :
          ready[t][s] = "READY" => (slotZero[t][s] <=> slotPfn[t][s] \in ZeroPages)
    /\ \A t \in Threads : pc[t] = "mark_ready" =>
          LET s == page_flag_buf[t]
          IN  /\ slotZero[t][s] <=> pfn[t] \in ZeroPages
              /\ slotZero[t][s] <=> ~ buf_ready[t]
              /\ ~ slotZero[t][s] => /\ slotIndex[t][s] = index[t]
                                     /\ data[index[t]] = pfn[t]
    /\ \A t \in Threads : pc[t] \in Holding \ {"mark_ready"} => ~ buf_ready[t]
    /\ \A t \in Threads : pc[t] = "find_buffer" => ~ buf_ready[t]
    /\ cpc = "free_buffer" => ~ slotZero[consuming][head[consuming]]

Owners == OwnData /\ ProducerOwns /\ SlotOwns /\ ZeroSlots

-----------------------------------------------------------------------------
OrderInv == TypeInv /\ Lists /\ Pages /\ Counting /\ Scanning /\ Ends
Inv == OrderInv /\ Owners
=============================================================================
