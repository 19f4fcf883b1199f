---------------------------- MODULE ParallelDump ----------------------------
(***************************************************************************)
(* The multi-threaded writer of kdump-compressed pages:                    *)
(* write_kdump_pages_parallel_cyclic() (the consumer, which runs in the    *)
(* main thread) and kdump_thread_function_cyclic() (the producers), called *)
(* once per cycle of the cyclic mode.                                      *)
(*                                                                         *)
(* Every producer owns a circular list of PageFlagNum page_flag slots; all *)
(* producers share NumBuffers page_data buffers.  A producer takes a       *)
(* buffer, then the next dumpable pfn, fills a slot (and the buffer, if    *)
(* the page is not zero) and marks it ready.  The consumer repeatedly      *)
(* looks for the smallest pfn at the heads of the lists and writes it.     *)
(* The page descriptors of a kdump file carry no pfn: the n-th descriptor  *)
(* is the n-th dumpable page, so the order of the writes is the format.    *)
(*                                                                         *)
(* Memory is sequentially consistent, and cancellation is deferred: a      *)
(* pending request takes effect at a cancellation point only.              *)
(***************************************************************************)
EXTENDS Integers, Sequences, FiniteSets

CONSTANTS
    NumThreads,    \* info->num_threads
    PageFlagNum,   \* PAGE_FLAG_NUM, the slots in one producer's list
    NumBuffers,    \* info->num_buffers
    MaxMapnr,      \* info->max_mapnr
    PfnCyclic,     \* info->pfn_cyclic, the pfns of one cycle
    Dumpable,      \* the pfns whose bit is on in the 2nd bitmap
    ZeroPages,     \* the zero-filled pages, when DL_EXCLUDE_ZERO is set
    BitmapInFile,  \* info->fd_bitmap >= 0: is_dumpable() may read(2)
    Faults         \* what the environment may do to a run

ASSUME ThreadsAssumption == NumThreads \in Nat \ {0}
ASSUME SlotsAssumption == PageFlagNum \in Nat \ {0}
ASSUME BuffersAssumption == NumBuffers \in Nat /\ NumBuffers >= NumThreads
ASSUME PagesAssumption ==
    /\ MaxMapnr \in Nat \ {0}
    /\ PfnCyclic \in Nat \ {0}
    /\ Dumpable \subseteq 0 .. MaxMapnr - 1
    /\ ZeroPages \subseteq Dumpable
ASSUME FaultsAssumption ==
    /\ BitmapInFile \in BOOLEAN
    /\ Faults \subseteq {"alloc", "read", "write", "timeout"}

Threads == 0 .. NumThreads - 1
Slots == 0 .. PageFlagNum - 1
Buffers == 0 .. NumBuffers - 1
Pfns == 0 .. MaxMapnr - 1

NoThread == -1     \* a mutex nobody holds
NoPage == -1       \* a buffer that was never filled

VARIABLES
    \* the consumer
    cpc,           \* where the consumer is
    ret,           \* ret of the current call
    start_pfn,     \* cycle->start_pfn
    end_pfn,       \* cycle->end_pfn
    i,             \* the thread the consumer's for loop is at
    consuming,     \* the thread whose head slot has the smallest pfn so far
    smallest,      \* the local current_pfn, the smallest pfn so far
    end_count,     \* threads seen to have reached the end
    written,       \* the page descriptors written, in file order
    \* shared between the threads
    current_pfn,       \* info->current_pfn
    current_pfn_mutex, \* the holder of info->current_pfn_mutex
    page_data_mutex,   \* the holder of info->page_data_mutex
    sem,               \* info->page_flag_buf_sem
    used,              \* page_data_buf[b].used
    data,              \* the page whose data page_data_buf[b].buf holds
    head,              \* info->page_flag_buf[t], the consumer's slot
    ready,             \* page_flag.ready
    slotPfn,           \* page_flag.pfn
    slotZero,          \* page_flag.zero
    slotIndex,         \* page_flag.index
    \* the producers
    pc,            \* where the producer is
    pfn,           \* its local pfn
    index,         \* its local index
    page_flag_buf, \* its local page_flag_buf, the slot it fills
    buf_ready,     \* its local buf_ready
    cancel,        \* a cancellation request is pending
    \* history
    taken,         \* this cycle's pfns, as current_pfn_mutex handed them out
    base           \* Len(written) when this cycle began

consumerVars == <<cpc, ret, start_pfn, end_pfn, i, consuming, smallest,
                  end_count, written>>
pfnVars == <<current_pfn, current_pfn_mutex, taken, base>>
bufferVars == <<page_data_mutex, used, data>>
flagVars == <<ready, slotPfn, slotZero, slotIndex>>
localVars == <<pfn, index, page_flag_buf, buf_ready>>
vars == <<consumerVars, pfnVars, bufferVars, flagVars, localVars, sem, head,
          pc, cancel>>

\* Variant: the last slot of a list is not linked back to the first.
NextSlotUnlinked(s) == s + 1

(***************************************************************************)
(* page_flag->next: the slots of a list are linked in a circle.            *)
(***************************************************************************)
NextSlot(s) == IF s = PageFlagNum - 1 THEN 0 ELSE s + 1

(***************************************************************************)
(* first_cycle(0, max_mapnr) and update_cycle(max_mapnr): the end of the   *)
(* cycle that begins at s.                                                 *)
(***************************************************************************)
CycleEnd(s) == IF s + PfnCyclic > MaxMapnr THEN MaxMapnr ELSE s + PfnCyclic

(***************************************************************************)
(* Where "for (pfn = info->current_pfn; pfn < cycle->end_pfn; pfn++)"      *)
(* stops: at the next dumpable pfn of the cycle, else past its end.        *)
(***************************************************************************)
Remaining == {q \in Dumpable : current_pfn <= q /\ q < end_pfn}
PastEnd == IF current_pfn < end_pfn THEN end_pfn ELSE current_pfn
ScanStop(p) ==
    \/ /\ p \in Remaining
       /\ \A q \in Remaining : p <= q
    \/ /\ Remaining = {}
       /\ p = PastEnd

Ended == {"done", "failed", "cancelled"}

-----------------------------------------------------------------------------
Init ==
    /\ cpc = "prepare"
    /\ ret = FALSE
    /\ start_pfn = 0
    /\ end_pfn = CycleEnd(0)
    /\ i = 0
    /\ consuming = 0
    /\ smallest = 0
    /\ end_count = 0
    /\ written = << >>
    /\ current_pfn = 0
    /\ current_pfn_mutex = NoThread
    /\ page_data_mutex = NoThread
    /\ sem = 0
    /\ used = [b \in Buffers |-> FALSE]
    /\ data = [b \in Buffers |-> NoPage]
    /\ head = [t \in Threads |-> 0]
    /\ ready = [t \in Threads |-> [s \in Slots |-> "UNUSED"]]
    /\ slotPfn = [t \in Threads |-> [s \in Slots |-> 0]]
    /\ slotZero = [t \in Threads |-> [s \in Slots |-> FALSE]]
    /\ slotIndex = [t \in Threads |-> [s \in Slots |-> 0]]
    /\ pc = [t \in Threads |-> "done"]
    /\ pfn = [t \in Threads |-> 0]
    /\ index = [t \in Threads |-> t]
    /\ page_flag_buf = [t \in Threads |-> 0]
    /\ buf_ready = [t \in Threads |-> FALSE]
    /\ cancel = [t \in Threads |-> FALSE]
    /\ taken = << >>
    /\ base = 0

-----------------------------------------------------------------------------
(***************************************************************************)
(* The producer, kdump_thread_function_cyclic().                           *)
(***************************************************************************)
Goto(t, from, to) ==
    /\ pc[t] = from
    /\ pc' = [pc EXCEPT ![t] = to]

\* The buffers a producer needs to read the bitmap from a file may be refused.
Begin(t) ==
    /\ \/ Goto(t, "begin", "lock_data")
       \/ BitmapInFile /\ "alloc" \in Faults /\ Goto(t, "begin", "failed")
    /\ UNCHANGED <<consumerVars, pfnVars, bufferVars, flagVars, localVars,
                   sem, head, cancel>>

LockData(t) ==
    /\ Goto(t, "lock_data", "find_buffer")
    /\ page_data_mutex = NoThread
    /\ page_data_mutex' = t
    /\ buf_ready' = [buf_ready EXCEPT ![t] = FALSE]
    /\ UNCHANGED <<consumerVars, pfnVars, used, data, flagVars, pfn, index,
                   page_flag_buf, sem, head, cancel>>

\* The search for a free buffer spins with page_data_mutex held.
SkipBuffer(t) ==
    /\ pc[t] = "find_buffer"
    /\ used[index[t]]
    /\ ~ cancel[t]
    /\ index' = [index EXCEPT ![t] = IF index[t] = NumBuffers - 1
                                     THEN 0 ELSE index[t] + 1]
    /\ UNCHANGED <<consumerVars, pfnVars, bufferVars, flagVars, pfn,
                   page_flag_buf, buf_ready, sem, head, pc, cancel>>

TakeBuffer(t) ==
    /\ Goto(t, "find_buffer", "wait_slot")
    /\ ~ used[index[t]]
    /\ used' = [used EXCEPT ![index[t]] = TRUE]
    /\ page_data_mutex' = NoThread
    /\ UNCHANGED <<consumerVars, pfnVars, data, flagVars, localVars, sem,
                   head, cancel>>

\* Variant: the producer does not wait for its slot to be written.
SlotFreeUnchecked(t) ==
    /\ Goto(t, "wait_slot", "lock_pfn")
    /\ ~ cancel[t]
    /\ UNCHANGED <<consumerVars, pfnVars, bufferVars, flagVars, localVars,
                   sem, head, cancel>>

\* The producer waits while the consumer has yet to write its slot.
SlotFree(t) ==
    /\ Goto(t, "wait_slot", "lock_pfn")
    /\ ~ cancel[t]
    /\ ready[t][page_flag_buf[t]] # "READY"
    /\ UNCHANGED <<consumerVars, pfnVars, bufferVars, flagVars, localVars,
                   sem, head, cancel>>

LockPfn(t) ==
    /\ Goto(t, "lock_pfn", "scan")
    /\ current_pfn_mutex = NoThread
    /\ current_pfn_mutex' = t
    /\ UNCHANGED <<consumerVars, current_pfn, taken, base, bufferVars, flagVars,
                   localVars, sem, head, cancel>>

ScanPfn(t) ==
    /\ Goto(t, "scan", "fill")
    /\ \E p \in Pfns \cup {PastEnd} :
          /\ ScanStop(p)
          /\ pfn' = [pfn EXCEPT ![t] = p]
          /\ current_pfn' = p + 1
          /\ slotPfn' = [slotPfn EXCEPT ![t][page_flag_buf[t]] = p]
          /\ taken' = Append(taken, p)
    /\ UNCHANGED <<consumerVars, current_pfn_mutex, base, bufferVars, ready,
                   slotZero, slotIndex, index, page_flag_buf, buf_ready, sem,
                   head, cancel>>

MarkFilling(t) ==
    /\ Goto(t, "fill", "post")
    /\ ready' = [ready EXCEPT ![t][page_flag_buf[t]] = "FILLING"]
    /\ current_pfn_mutex' = NoThread
    /\ UNCHANGED <<consumerVars, current_pfn, taken, base, bufferVars, slotPfn,
                   slotZero, slotIndex, localVars, sem, head, cancel>>

Post(t) ==
    /\ Goto(t, "post", IF pfn[t] >= end_pfn THEN "end" ELSE "read")
    /\ sem' = sem + 1
    /\ UNCHANGED <<consumerVars, pfnVars, bufferVars, flagVars, localVars,
                   head, cancel>>

\* No page is left: the producer returns its buffer and stops.  It writes
\* info->current_pfn without holding current_pfn_mutex.
EndOfCycle(t) ==
    /\ Goto(t, "end", "done")
    /\ current_pfn' = end_pfn
    /\ used' = [used EXCEPT ![index[t]] = FALSE]
    /\ UNCHANGED <<consumerVars, current_pfn_mutex, taken, base,
                   page_data_mutex, data, flagVars, localVars, sem, head, cancel>>

\* A failed read leaves the slot FILLING and the buffer used.
ReadFails(t) ==
    /\ "read" \in Faults
    /\ Goto(t, "read", "failed")
    /\ UNCHANGED <<consumerVars, pfnVars, bufferVars, flagVars, localVars,
                   sem, head, cancel>>

\* A zero page takes a slot only: the producer keeps its buffer for the next.
ReadZeroPage(t) ==
    /\ Goto(t, "read", "mark_ready")
    /\ pfn[t] \in ZeroPages
    /\ slotZero' = [slotZero EXCEPT ![t][page_flag_buf[t]] = TRUE]
    /\ UNCHANGED <<consumerVars, pfnVars, bufferVars, ready, slotPfn,
                   slotIndex, localVars, sem, head, cancel>>

\* Variant: the zero flag of the slot's previous page is not cleared.
ReadPageStaleZero(t) ==
    /\ Goto(t, "read", "mark_ready")
    /\ pfn[t] \notin ZeroPages
    /\ slotIndex' = [slotIndex EXCEPT ![t][page_flag_buf[t]] = index[t]]
    /\ data' = [data EXCEPT ![index[t]] = pfn[t]]
    /\ buf_ready' = [buf_ready EXCEPT ![t] = TRUE]
    /\ UNCHANGED <<consumerVars, pfnVars, page_data_mutex, used, ready,
                   slotZero, slotPfn, pfn, index, page_flag_buf, sem, head,
                   cancel>>

ReadPage(t) ==
    /\ Goto(t, "read", "mark_ready")
    /\ pfn[t] \notin ZeroPages
    /\ slotZero' = [slotZero EXCEPT ![t][page_flag_buf[t]] = FALSE]
    /\ slotIndex' = [slotIndex EXCEPT ![t][page_flag_buf[t]] = index[t]]
    /\ data' = [data EXCEPT ![index[t]] = pfn[t]]
    /\ buf_ready' = [buf_ready EXCEPT ![t] = TRUE]
    /\ UNCHANGED <<consumerVars, pfnVars, page_data_mutex, used, ready,
                   slotPfn, pfn, index, page_flag_buf, sem, head, cancel>>

MarkReady(t) ==
    /\ Goto(t, "mark_ready", IF buf_ready[t] THEN "lock_data"
                                             ELSE "wait_slot")
    /\ ready' = [ready EXCEPT ![t][page_flag_buf[t]] = "READY"]
    /\ page_flag_buf' = [page_flag_buf EXCEPT ![t] = NextSlot(@)]
    /\ UNCHANGED <<consumerVars, pfnVars, bufferVars, slotPfn, slotZero,
                   slotIndex, pfn, index, buf_ready, sem, head, cancel>>

\* Deferred cancellation at the producer's cancellation points: the two calls
\* of pthread_testcancel(), and read(2), which the producer calls for a page
\* and, when the bitmap is a file, for a block of the bitmap.  A handler
\* unlocks page_data_mutex; nothing unlocks current_pfn_mutex.
Cancelled(t) ==
    /\ cancel[t]
    /\ \/ Goto(t, "find_buffer", "cancelled") /\ used[index[t]]
       \/ Goto(t, "wait_slot", "cancelled")
       \/ Goto(t, "read", "cancelled")
       \/ Goto(t, "scan", "cancelled") /\ BitmapInFile
    /\ page_data_mutex' = IF page_data_mutex = t THEN NoThread
                                                 ELSE page_data_mutex
    /\ UNCHANGED <<consumerVars, pfnVars, used, data, flagVars, localVars,
                   sem, head, cancel>>

Producer(t) ==
    \/ Begin(t) \/ LockData(t) \/ SkipBuffer(t) \/ TakeBuffer(t)
    \/ SlotFree(t) \/ LockPfn(t) \/ ScanPfn(t) \/ MarkFilling(t) \/ Post(t)
    \/ EndOfCycle(t) \/ ReadFails(t) \/ ReadZeroPage(t) \/ ReadPage(t)
    \/ MarkReady(t) \/ Cancelled(t)

-----------------------------------------------------------------------------
(***************************************************************************)
(* The consumer, write_kdump_pages_parallel_cyclic().  The locks, the      *)
(* semaphore and the used flags are initialized for every cycle, the       *)
(* page_flag lists only once, by initial_for_parallel().                   *)
(***************************************************************************)
Prepare ==
    /\ cpc = "prepare"
    /\ cpc' = "create"
    /\ ret' = FALSE
    /\ i' = 0
    /\ end_count' = 0
    /\ current_pfn' = start_pfn
    /\ current_pfn_mutex' = NoThread
    /\ page_data_mutex' = NoThread
    /\ sem' = 0
    /\ used' = [b \in Buffers |-> FALSE]
    /\ taken' = << >>
    /\ base' = Len(written)
    /\ UNCHANGED <<start_pfn, end_pfn, consuming, smallest, written, data,
                   flagVars, localVars, head, pc, cancel>>

\* The loop that creates the threads; a thread may run before the next one
\* is created.
CreateThread ==
    /\ cpc = "create"
    /\ pc' = [pc EXCEPT ![i] = "begin"]
    /\ pfn' = [pfn EXCEPT ![i] = start_pfn]
    /\ index' = [index EXCEPT ![i] = i]
    /\ page_flag_buf' = [page_flag_buf EXCEPT ![i] = head[i]]
    /\ cancel' = [cancel EXCEPT ![i] = FALSE]
    /\ IF i = NumThreads - 1 THEN cpc' = "sem_wait" /\ i' = 0
                             ELSE cpc' = cpc /\ i' = i + 1
    /\ UNCHANGED <<ret, start_pfn, end_pfn, consuming, smallest, end_count,
                   written, pfnVars, bufferVars, flagVars, buf_ready, sem,
                   head>>

SemWait ==
    /\ cpc = "sem_wait"
    /\ sem > 0
    /\ sem' = sem - 1
    /\ cpc' = "scan"
    /\ consuming' = 0
    /\ smallest' = end_pfn
    /\ i' = 0
    /\ UNCHANGED <<ret, start_pfn, end_pfn, end_count, written, pfnVars,
                   bufferVars, flagVars, localVars, head, pc, cancel>>

\* Variant: the marker of a producer that has ended stays in its slot.
ScanThreadKeepsMarker ==
    /\ cpc = "scan"
    /\ LET s == head[i]
           p == slotPfn[i][s]
           inUse == ready[i][s] # "UNUSED"
           atEnd == inUse /\ p >= end_pfn
           smaller == inUse /\ p < end_pfn /\ ~ (smallest < p)
       IN  /\ end_count' = IF atEnd THEN end_count + 1 ELSE end_count
           /\ consuming' = IF smaller THEN i ELSE consuming
           /\ smallest' = IF smaller THEN p ELSE smallest
    /\ IF i = NumThreads - 1 THEN cpc' = "check" /\ i' = 0
                             ELSE cpc' = cpc /\ i' = i + 1
    /\ UNCHANGED <<ret, start_pfn, end_pfn, written, pfnVars, bufferVars,
                   flagVars, localVars, sem, head, pc, cancel>>

\* One turn of the for loop over the heads of the lists.
ScanThread ==
    /\ cpc = "scan"
    /\ LET s == head[i]
           p == slotPfn[i][s]
           inUse == ready[i][s] # "UNUSED"
           atEnd == inUse /\ p >= end_pfn
           smaller == inUse /\ p < end_pfn /\ ~ (smallest < p)
       IN  /\ ready' = [ready EXCEPT ![i][s] = IF atEnd THEN "UNUSED" ELSE @]
           /\ end_count' = IF atEnd THEN end_count + 1 ELSE end_count
           /\ consuming' = IF smaller THEN i ELSE consuming
           /\ smallest' = IF smaller THEN p ELSE smallest
    /\ IF i = NumThreads - 1 THEN cpc' = "check" /\ i' = 0
                             ELSE cpc' = cpc /\ i' = i + 1
    /\ UNCHANGED <<ret, start_pfn, end_pfn, written, pfnVars, bufferVars,
                   slotPfn, slotZero, slotIndex, localVars, sem, head, pc,
                   cancel>>

Candidate == ready[consuming][head[consuming]]

\* Variant: the consumer stops one producer short.
FinishEarly ==
    /\ cpc = "check"
    /\ end_count >= NumThreads - 1
    /\ cpc' = "cancel"
    /\ ret' = TRUE
    /\ UNCHANGED <<start_pfn, end_pfn, i, consuming, smallest, end_count,
                   written, pfnVars, bufferVars, flagVars, localVars, sem,
                   head, pc, cancel>>

Finish ==
    /\ cpc = "check"
    /\ end_count >= NumThreads
    /\ cpc' = "cancel"
    /\ ret' = TRUE
    /\ UNCHANGED <<start_pfn, end_pfn, i, consuming, smallest, end_count,
                   written, pfnVars, bufferVars, flagVars, localVars, sem,
                   head, pc, cancel>>

Found ==
    /\ cpc = "check"
    /\ end_count < NumThreads
    /\ Candidate = "READY"
    /\ smallest = slotPfn[consuming][head[consuming]]
    /\ cpc' = "write"
    /\ UNCHANGED <<ret, start_pfn, end_pfn, i, consuming, smallest,
                   end_count, written, pfnVars, bufferVars, flagVars,
                   localVars, sem, head, pc, cancel>>

\* The slot is still being filled, or changed since the scan: look again.
Rescan ==
    /\ cpc = "check"
    /\ end_count < NumThreads
    /\ \/ Candidate # "READY"
       \/ smallest # slotPfn[consuming][head[consuming]]
    /\ cpc' = "scan"
    /\ smallest' = end_pfn
    /\ UNCHANGED <<ret, start_pfn, end_pfn, i, consuming, end_count, written,
                   pfnVars, bufferVars, flagVars, localVars, sem, head, pc,
                   cancel>>

\* WAIT_TIME has passed since sem_wait().
Timeout ==
    /\ "timeout" \in Faults
    /\ cpc = "check"
    /\ end_count < NumThreads
    /\ Candidate # "READY"
    /\ cpc' = "cancel"
    /\ UNCHANGED <<ret, start_pfn, end_pfn, i, consuming, smallest,
                   end_count, written, pfnVars, bufferVars, flagVars,
                   localVars, sem, head, pc, cancel>>

\* The descriptor of the page at the head of the consuming thread's list.
Descriptor ==
    LET s == head[consuming]
    IN  IF slotZero[consuming][s]
        THEN [pfn |-> slotPfn[consuming][s], zero |-> TRUE, page |-> NoPage]
        ELSE [pfn |-> slotPfn[consuming][s], zero |-> FALSE,
              page |-> data[slotIndex[consuming][s]]]

\* write_cache() copies the descriptor, then the data, out of the buffers.
WritePage ==
    /\ cpc = "write"
    /\ written' = Append(written, Descriptor)
    /\ cpc' = IF slotZero[consuming][head[consuming]]
              THEN "release" ELSE "free_buffer"
    /\ UNCHANGED <<ret, start_pfn, end_pfn, i, consuming, smallest,
                   end_count, pfnVars, bufferVars, flagVars, localVars, sem,
                   head, pc, cancel>>

\* A failed write_cache() leaves the slot READY and the buffer used, whether it
\* is the one of the descriptor or, after it, the one of the data: the page is
\* not counted as written in either case.
WriteFails ==
    /\ "write" \in Faults
    /\ cpc = "write"
    /\ cpc' = "cancel"
    /\ UNCHANGED <<ret, start_pfn, end_pfn, i, consuming, smallest,
                   end_count, written, pfnVars, bufferVars, flagVars,
                   localVars, sem, head, pc, cancel>>

\* Variant: the buffer of a page that is written is never freed.
FreeBufferForgotten ==
    /\ cpc = "free_buffer"
    /\ cpc' = "release"
    /\ UNCHANGED <<ret, start_pfn, end_pfn, i, consuming, smallest,
                   end_count, written, pfnVars, bufferVars, flagVars,
                   localVars, sem, head, pc, cancel>>

FreeBuffer ==
    /\ cpc = "free_buffer"
    /\ cpc' = "release"
    /\ used' = [used EXCEPT ![slotIndex[consuming][head[consuming]]] = FALSE]
    /\ UNCHANGED <<ret, start_pfn, end_pfn, i, consuming, smallest,
                   end_count, written, pfnVars, page_data_mutex, data,
                   flagVars, localVars, sem, head, pc, cancel>>

ReleaseSlot ==
    /\ cpc = "release"
    /\ cpc' = "sem_wait"
    /\ ready' = [ready EXCEPT ![consuming][head[consuming]] = "UNUSED"]
    /\ head' = [head EXCEPT ![consuming] = NextSlot(@)]
    /\ UNCHANGED <<ret, start_pfn, end_pfn, i, consuming, smallest,
                   end_count, written, pfnVars, bufferVars, slotPfn, slotZero,
                   slotIndex, localVars, sem, pc, cancel>>

\* "out:" - every thread is cancelled, then every thread is joined.
CancelThread ==
    /\ cpc = "cancel"
    /\ cancel' = [cancel EXCEPT ![i] = TRUE]
    /\ IF i = NumThreads - 1 THEN cpc' = "join" /\ i' = 0
                             ELSE cpc' = cpc /\ i' = i + 1
    /\ UNCHANGED <<ret, start_pfn, end_pfn, consuming, smallest, end_count,
                   written, pfnVars, bufferVars, flagVars, localVars, sem,
                   head, pc>>

JoinThread ==
    /\ cpc = "join"
    /\ pc[i] \in Ended
    /\ IF i = NumThreads - 1 THEN cpc' = "return" /\ i' = 0
                             ELSE cpc' = cpc /\ i' = i + 1
    /\ UNCHANGED <<ret, start_pfn, end_pfn, consuming, smallest, end_count,
                   written, pfnVars, bufferVars, flagVars, localVars, sem,
                   head, pc, cancel>>

\* Variant: what the call returned is not looked at.
NextCycleUnchecked ==
    /\ cpc = "return"
    /\ IF end_pfn < MaxMapnr
       THEN /\ cpc' = "prepare"
            /\ start_pfn' = end_pfn
            /\ end_pfn' = CycleEnd(end_pfn)
       ELSE /\ cpc' = "complete"
            /\ UNCHANGED <<start_pfn, end_pfn>>
    /\ UNCHANGED <<ret, i, consuming, smallest, end_count, written, pfnVars,
                   bufferVars, flagVars, localVars, sem, head, pc, cancel>>

\* for_each_cycle() in write_kdump_pages_and_bitmap_cyclic(): the next cycle,
\* or the end of the dump.
NextCycle ==
    /\ cpc = "return"
    /\ IF ret /\ end_pfn < MaxMapnr
       THEN /\ cpc' = "prepare"
            /\ start_pfn' = end_pfn
            /\ end_pfn' = CycleEnd(end_pfn)
       ELSE /\ cpc' = IF ret THEN "complete" ELSE "incomplete"
            /\ UNCHANGED <<start_pfn, end_pfn>>
    /\ UNCHANGED <<ret, i, consuming, smallest, end_count, written, pfnVars,
                   bufferVars, flagVars, localVars, sem, head, pc, cancel>>

Consumer ==
    \/ Prepare \/ CreateThread \/ SemWait \/ ScanThread \/ Finish \/ Found
    \/ Rescan \/ Timeout \/ WritePage \/ WriteFails \/ FreeBuffer
    \/ ReleaseSlot \/ CancelThread \/ JoinThread \/ NextCycle

Finished == cpc \in {"complete", "incomplete"}

\* The program goes on to the next part of the dump.
Stopped == Finished /\ UNCHANGED vars

Next == Consumer \/ (\E t \in Threads : Producer(t)) \/ Stopped

Spec == Init /\ [][Next]_vars

(***************************************************************************)
(* The scheduler runs every thread that can run, and the clock passes      *)
(* WAIT_TIME if the consumer waits for one page for ever.  Nothing is      *)
(* assumed of the order in which waiting threads get a mutex.              *)
(***************************************************************************)
Fairness ==
    /\ WF_vars(Consumer)
    /\ SF_vars(Timeout)
    /\ \A t \in Threads : WF_vars(Producer(t))

FairSpec == Spec /\ Fairness

-----------------------------------------------------------------------------
(***************************************************************************)
(* The types of the variables.                                             *)
(***************************************************************************)
ProducerPc == {"begin", "lock_data", "find_buffer", "wait_slot", "lock_pfn",
               "scan", "fill", "post", "end", "read", "mark_ready"} \cup Ended
ConsumerPc == {"prepare", "create", "sem_wait", "scan", "check", "write",
               "free_buffer", "release", "cancel", "join", "return",
               "complete", "incomplete"}

DescriptorType == [pfn : Pfns, zero : BOOLEAN, page : Pfns \cup {NoPage}]

ConsumerType ==
    /\ cpc \in ConsumerPc
    /\ ret \in BOOLEAN
    /\ start_pfn \in 0 .. MaxMapnr - 1 /\ end_pfn \in 1 .. MaxMapnr
    /\ i \in Threads /\ consuming \in Threads
    /\ smallest \in 0 .. MaxMapnr
    /\ end_count \in Nat
    /\ written \in Seq(DescriptorType)

SharedType ==
    /\ current_pfn \in Nat
    /\ current_pfn_mutex \in Threads \cup {NoThread}
    /\ page_data_mutex \in Threads \cup {NoThread}
    /\ sem \in Nat
    /\ used \in [Buffers -> BOOLEAN]
    /\ data \in [Buffers -> Pfns \cup {NoPage}]
    /\ taken \in Seq(Nat)
    /\ base \in Nat

SlotType ==
    /\ head \in [Threads -> Slots]
    /\ ready \in [Threads -> [Slots -> {"UNUSED", "FILLING", "READY"}]]
    /\ slotPfn \in [Threads -> [Slots -> Nat]]
    /\ slotZero \in [Threads -> [Slots -> BOOLEAN]]
    /\ slotIndex \in [Threads -> [Slots -> Buffers]]

ProducerType ==
    /\ pc \in [Threads -> ProducerPc]
    /\ pfn \in [Threads -> Nat]
    /\ index \in [Threads -> Buffers]
    /\ page_flag_buf \in [Threads -> Slots]
    /\ buf_ready \in [Threads -> BOOLEAN]
    /\ cancel \in [Threads -> BOOLEAN]

TypeOK == ConsumerType /\ SharedType /\ SlotType /\ ProducerType

(***************************************************************************)
(* The descriptors are written in the order of their pfns and none is left *)
(* out: a reader finds the descriptor of a page by counting the dumpable   *)
(* pages before it, so one swap corrupts every later page of the dump.     *)
(***************************************************************************)
OrderedWrites ==
    /\ \A m, n \in 1 .. Len(written) :
          m < n => written[m].pfn < written[n].pfn
    /\ \A n \in 1 .. Len(written) : \A p \in Dumpable :
          p < written[n].pfn => \E m \in 1 .. n : written[m].pfn = p
    /\ \A n \in 1 .. Len(written) : written[n].pfn \in Dumpable

(***************************************************************************)
(* Every descriptor points to the data of its own page: no producer fills  *)
(* a shared buffer before the consumer has copied the page in it.          *)
(***************************************************************************)
OwnData ==
    \A n \in 1 .. Len(written) :
        IF written[n].pfn \in ZeroPages
        THEN written[n].zero
        ELSE ~ written[n].zero /\ written[n].page = written[n].pfn

(***************************************************************************)
(* When the consumer reports success, every dumpable page of the cycles    *)
(* done so far has its descriptor, and the lists are as the next cycle     *)
(* needs them: every slot unused, with the producer, which restarts at the *)
(* consumer's slot, in step with the consumer.                             *)
(***************************************************************************)
CompleteOnSuccess ==
    cpc = "return" /\ ret =>
        /\ \A p \in Dumpable : p < end_pfn =>
              \E n \in 1 .. Len(written) : written[n].pfn = p
        /\ \A t \in Threads : \A s \in Slots : ready[t][s] = "UNUSED"

(***************************************************************************)
(* The consumer stops only when every producer has left its end marker: a  *)
(* marker counted twice would end the dump while a producer holds a page.  *)
(***************************************************************************)
EndsCountedOnce ==
    end_count >= NumThreads =>
        /\ end_count = NumThreads
        /\ \A t \in Threads : pc[t] \in {"post", "end", "done"}

(***************************************************************************)
(* The threads together write the stream of pages that one thread would.   *)
(***************************************************************************)
Status == IF Finished THEN cpc ELSE "writing"

Stream == INSTANCE PageStream
          WITH Pages <- Dumpable, Zero <- ZeroPages, out <- written,
               status <- Status

WritesPageStream == Stream!Spec

(***************************************************************************)
(* Whatever happens, the call returns: no producer and no consumer waits   *)
(* for ever for a buffer, a slot, a lock or the semaphore.                 *)
(***************************************************************************)
Returns == <>Finished

(***************************************************************************)
(* Without faults the dump is completed.                                   *)
(***************************************************************************)
Completes == <>(cpc = "complete")
=============================================================================
