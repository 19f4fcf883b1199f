------------------------- MODULE ParallelDumpProofs -------------------------
(***************************************************************************)
(* Proofs about ParallelDump, for any number of threads, slots, buffers,   *)
(* pages and cycles.                                                       *)
(***************************************************************************)
EXTENDS ParallelDumpInv, TLAPS

\* Zenon proves every leaf that names no other prover; the limits, in seconds,
\* leave room for a slower machine.
USE ZenonT(30)

(***************************************************************************)
(* The index sets.                                                         *)
(***************************************************************************)
LEMMA ThreadFacts ==
    /\ 0 \in Threads
    /\ Threads \subseteq Nat
    /\ \A n \in Threads : n < NumThreads
    /\ \A n \in Threads : n # NumThreads - 1 => n + 1 \in Threads
    /\ \A n \in Threads : n = NumThreads - 1 => \A m \in Threads : m <= n
BY ThreadsAssumption, SMTT(20) DEF Threads

LEMMA SlotFacts ==
    /\ 0 \in Slots
    /\ Slots \subseteq Nat
    /\ \A s \in Slots : NextSlot(s) \in Slots
BY SlotsAssumption, SMTT(20) DEF Slots, NextSlot

LEMMA BufferFacts ==
    /\ 0 \in Buffers
    /\ Threads \subseteq Buffers
    /\ \A b \in Buffers : b # NumBuffers - 1 => b + 1 \in Buffers
BY ThreadsAssumption, BuffersAssumption, SMTT(20) DEF Threads, Buffers

-----------------------------------------------------------------------------
(***************************************************************************)
(* Types and control.                                                      *)
(***************************************************************************)
LEMMA TypeInit == Init => TypeInv
<1> SUFFICES ASSUME Init PROVE TypeInv
  OBVIOUS
<1>1. ConsumerType
  <2>1. start_pfn \in 0 .. MaxMapnr - 1 /\ end_pfn \in 1 .. MaxMapnr
    BY PagesAssumption, SMTT(20) DEF Init, CycleEnd
  <2>2. smallest \in 0 .. MaxMapnr
    BY PagesAssumption, SMTT(20) DEF Init
  <2>3. written \in Seq(DescriptorType)
    BY SMTT(20) DEF Init
  <2> QED BY <2>1, <2>2, <2>3, ThreadFacts DEF Init, ConsumerType, ConsumerPc
<1>2. SharedType /\ SlotType /\ ProducerType
  BY SlotFacts, BufferFacts, SMTT(20) DEF Init, SharedType, SlotType, ProducerType,
     ProducerPc, Ended
<1>3. Control
  BY PagesAssumption, SMTT(20) DEF Init, Control, ThreadsWait, ProducerSlot,
     ReadySlots, AllEnded, Ended, SlotTaken, Filling, CycleEnd
<1> QED BY <1>1, <1>2, <1>3 DEF TypeInv, TypeOK

\* What every step of a producer leaves alone.
LEMMA ProducerFrame ==
    ASSUME NEW t \in Threads, Producer(t)
    PROVE  UNCHANGED <<cpc, ret, start_pfn, end_pfn, i, consuming, smallest,
                       end_count, written, base, head, cancel>>
BY DEF Producer, Begin, LockData, SkipBuffer, TakeBuffer, SlotFree, LockPfn,
   ScanPfn, MarkFilling, Post, EndOfCycle, ReadFails, ReadZeroPage, ReadPage,
   MarkReady, Cancelled, consumerVars, pfnVars

\* The steps of a producer that leave the slots alone.
Quiet(t) ==
    \/ Begin(t) \/ LockData(t) \/ SkipBuffer(t) \/ TakeBuffer(t) \/ SlotFree(t)
    \/ LockPfn(t) \/ Post(t) \/ EndOfCycle(t) \/ ReadFails(t) \/ Cancelled(t)

\* A producer moves its own program counter only.
LEMMA ProducerMoves ==
    ASSUME TypeOK, NEW t \in Threads, Producer(t)
    PROVE  /\ pc[t] \notin Ended
           /\ pc' \in [Threads -> ProducerPc]
           /\ \A u \in Threads : u # t => pc'[u] = pc[u]
<1> USE DEF TypeOK, ProducerType, Goto
<1>1. CASE SkipBuffer(t)
  BY <1>1 DEF SkipBuffer, Ended
<1>2. CASE Cancelled(t)
  <2>1. pc' = [pc EXCEPT ![t] = "cancelled"] /\ pc[t] \notin Ended
    BY <1>2 DEF Cancelled, Ended
  <2> QED BY <2>1 DEF ProducerPc, Ended
<1>3. CASE Begin(t) \/ LockData(t) \/ TakeBuffer(t) \/ SlotFree(t) \/ LockPfn(t)
  BY <1>3 DEF Begin, LockData, TakeBuffer, SlotFree, LockPfn, ProducerPc, Ended
<1>4. CASE ScanPfn(t) \/ MarkFilling(t) \/ Post(t) \/ EndOfCycle(t)
  BY <1>4 DEF ScanPfn, MarkFilling, Post, EndOfCycle, ProducerPc, Ended
<1>5. CASE ReadFails(t) \/ ReadZeroPage(t) \/ ReadPage(t) \/ MarkReady(t)
  BY <1>5 DEF ReadFails, ReadZeroPage, ReadPage, MarkReady, ProducerPc, Ended
<1> QED BY <1>1, <1>2, <1>3, <1>4, <1>5 DEF Producer

\* The pfn a producer takes.
LEMMA ScanTakes ==
    ASSUME TypeOK, NEW t \in Threads, ScanPfn(t)
    PROVE  \E p \in Nat :
              /\ ScanStop(p)
              /\ pfn' = [pfn EXCEPT ![t] = p]
              /\ current_pfn' = p + 1
              /\ slotPfn' = [slotPfn EXCEPT ![t][page_flag_buf[t]] = p]
              /\ taken' = Append(taken, p)
<1>1. PICK p \in Pfns \cup {PastEnd} :
          /\ ScanStop(p)
          /\ pfn' = [pfn EXCEPT ![t] = p]
          /\ current_pfn' = p + 1
          /\ slotPfn' = [slotPfn EXCEPT ![t][page_flag_buf[t]] = p]
          /\ taken' = Append(taken, p)
  BY DEF ScanPfn
<1>2. p \in Nat
  BY PagesAssumption, SMTT(20) DEF Pfns, PastEnd, TypeOK, SharedType, ConsumerType
<1> QED BY <1>1, <1>2

LEMMA ProducerTypes ==
    ASSUME TypeInv, NEW t \in Threads, Producer(t)
    PROVE  TypeOK'
<1> USE DEF consumerVars, pfnVars, bufferVars, flagVars, localVars
<1>0. TypeOK /\ Control
  BY DEF TypeInv
<1>1. ConsumerType'
  BY <1>0, ProducerFrame DEF TypeOK, ConsumerType
<1>2. SharedType'
  <2> USE <1>0 DEF TypeOK, SharedType
  <2>1. CASE LockData(t) \/ TakeBuffer(t) \/ LockPfn(t) \/ Cancelled(t)
    BY <2>1 DEF LockData, TakeBuffer, LockPfn, Cancelled
  <2>2. CASE ScanPfn(t)
    <3>1. PICK p \in Nat : current_pfn' = p + 1 /\ taken' = Append(taken, p)
      BY <2>2, ScanTakes
    <3> QED BY <2>2, <3>1, SMTT(20) DEF ScanPfn
  <2>3. CASE MarkFilling(t) \/ Post(t)
    BY <2>3, SMTT(20) DEF MarkFilling, Post
  <2>4. CASE EndOfCycle(t)
    <3>1. end_pfn \in Nat /\ index[t] \in Buffers
      BY SMTT(20) DEF ConsumerType, ProducerType
    <3> QED BY <2>4, <3>1 DEF EndOfCycle
  <2>5. CASE ReadPage(t)
    <3>1. pfn[t] \in Pfns
      BY <2>5, PagesAssumption, SMTT(20) DEF ProducerType, ConsumerType, ReadPage,
         Goto, Pfns, Control, ProducerSlot
    <3> QED BY <2>5, <3>1 DEF ReadPage
  <2>6. CASE \/ Begin(t) \/ SkipBuffer(t) \/ SlotFree(t) \/ ReadFails(t)
             \/ ReadZeroPage(t) \/ MarkReady(t)
    BY <2>6 DEF Begin, SkipBuffer, SlotFree, ReadFails, ReadZeroPage, MarkReady
  <2> QED BY <2>1, <2>2, <2>3, <2>4, <2>5, <2>6 DEF Producer
<1>3. SlotType'
  <2> USE <1>0, SlotFacts DEF TypeOK, SlotType
  <2>1. CASE Quiet(t)
    BY <2>1 DEF Quiet, Begin, LockData, SkipBuffer, TakeBuffer, SlotFree,
       LockPfn, Post, EndOfCycle, ReadFails, Cancelled
  <2>2. CASE ScanPfn(t)
    <3>1. PICK p \in Nat :
              slotPfn' = [slotPfn EXCEPT ![t][page_flag_buf[t]] = p]
      BY <2>2, ScanTakes
    <3> QED BY <2>2, <3>1 DEF ScanPfn, ProducerType
  <2>3. CASE MarkFilling(t)
    BY <2>3 DEF MarkFilling, ProducerType
  <2>4. CASE MarkReady(t)
    BY <2>4 DEF MarkReady, ProducerType
  <2>5. CASE ReadZeroPage(t)
    BY <2>5 DEF ReadZeroPage, ProducerType
  <2>6. CASE ReadPage(t)
    BY <2>6 DEF ReadPage, ProducerType
  <2> QED BY <2>1, <2>2, <2>3, <2>4, <2>5, <2>6 DEF Producer, Quiet
<1>4. ProducerType'
  <2> USE <1>0, ProducerMoves, ProducerFrame DEF TypeOK, ProducerType
  <2>1. CASE \/ Begin(t) \/ TakeBuffer(t) \/ SlotFree(t) \/ LockPfn(t)
             \/ MarkFilling(t) \/ Post(t) \/ EndOfCycle(t) \/ ReadFails(t)
             \/ ReadZeroPage(t) \/ Cancelled(t)
    BY <2>1 DEF Begin, TakeBuffer, SlotFree, LockPfn, MarkFilling, Post,
       EndOfCycle, ReadFails, ReadZeroPage, Cancelled
  <2>2. CASE LockData(t) \/ ReadPage(t)
    BY <2>2 DEF LockData, ReadPage
  <2>3. CASE SkipBuffer(t)
    BY <2>3, BufferFacts DEF SkipBuffer
  <2>4. CASE ScanPfn(t)
    BY <2>4, ScanTakes DEF ScanPfn
  <2>5. CASE MarkReady(t)
    BY <2>5, SlotFacts DEF MarkReady
  <2> QED BY <2>1, <2>2, <2>3, <2>4, <2>5 DEF Producer
<1> QED BY <1>1, <1>2, <1>3, <1>4 DEF TypeOK

\* A producer touches no other producer's variables, and of its own list
\* only its own slot.
LEMMA ProducerPrivate ==
    ASSUME TypeOK, NEW t \in Threads, Producer(t)
    PROVE  /\ \A u \in Threads : u # t =>
                 /\ pfn'[u] = pfn[u] /\ index'[u] = index[u]
                 /\ page_flag_buf'[u] = page_flag_buf[u]
                 /\ buf_ready'[u] = buf_ready[u]
                 /\ ready'[u] = ready[u] /\ slotPfn'[u] = slotPfn[u]
                 /\ slotZero'[u] = slotZero[u]
                 /\ slotIndex'[u] = slotIndex[u]
           /\ \A s \in Slots : s # page_flag_buf[t] =>
                 /\ ready'[t][s] = ready[t][s]
                 /\ slotPfn'[t][s] = slotPfn[t][s]
                 /\ slotZero'[t][s] = slotZero[t][s]
                 /\ slotIndex'[t][s] = slotIndex[t][s]
<1> USE DEF TypeOK, ProducerType, SlotType, flagVars, localVars
<1>1. CASE Quiet(t)
  BY <1>1 DEF Quiet, Begin, LockData, SkipBuffer, TakeBuffer, SlotFree,
     LockPfn, Post, EndOfCycle, ReadFails, Cancelled
<1>2. CASE ScanPfn(t)
  BY <1>2, SMTT(20) DEF ScanPfn
<1>3. CASE MarkFilling(t)
  BY <1>3 DEF MarkFilling
<1>4. CASE MarkReady(t)
  BY <1>4 DEF MarkReady
<1>5. CASE ReadZeroPage(t)
  BY <1>5 DEF ReadZeroPage
<1>6. CASE ReadPage(t)
  BY <1>6 DEF ReadPage
<1> QED BY <1>1, <1>2, <1>3, <1>4, <1>5, <1>6 DEF Producer, Quiet

LEMMA ProducerControl ==
    ASSUME TypeInv, NEW t \in Threads, Producer(t)
    PROVE  Control'
<1> USE DEF consumerVars, pfnVars, bufferVars, flagVars, localVars, Goto
<1>0. TypeOK /\ Control
  BY DEF TypeInv
<1>1. ThreadsWait'
  BY <1>0, ProducerMoves, ProducerFrame DEF TypeOK, ConsumerType, ProducerType,
     Control, ThreadsWait, AllEnded
<1>2. ASSUME NEW u \in Threads PROVE ProducerSlot(u)'
  <2> USE <1>0 DEF TypeOK, SlotType, ProducerType, Control, ProducerSlot
  <2>1. CASE u # t
    BY <2>1, ProducerMoves, ProducerPrivate, ProducerFrame, SMTT(20)
  <2>2. CASE u = t /\ Post(t)
    <3>1. pc'[t] = IF pfn[t] >= end_pfn THEN "end" ELSE "read"
      BY <2>2 DEF Post
    <3>2. pfn[t] \in Nat /\ end_pfn \in Nat
      BY SMTT(20) DEF ConsumerType
    <3> QED BY <2>2, <3>1, <3>2, SMTT(20) DEF Post, SlotTaken, Filling
  <2> USE DEF SlotTaken, Filling, Ended
  <2>3. CASE u = t /\ (Begin(t) \/ Cancelled(t) \/ ReadFails(t))
    <3>1. pc'[t] \in {"lock_data", "cancelled", "failed"}
      BY <2>3 DEF Begin, Cancelled, ReadFails
    <3> QED BY <2>3, <3>1
  <2>4. CASE u = t /\ ScanPfn(t)
    BY <2>4, ScanTakes, SMTT(20) DEF ScanPfn
  <2>5. CASE u = t /\ MarkFilling(t)
    BY <2>5, SMTT(20) DEF MarkFilling
  <2>6. CASE u = t /\ MarkReady(t)
    <3>1. pc'[t] \in {"lock_data", "wait_slot"}
      BY <2>6 DEF MarkReady
    <3> QED BY <2>6, <3>1
  <2>7. CASE u = t /\ (ReadZeroPage(t) \/ ReadPage(t))
    BY <2>7 DEF ReadZeroPage, ReadPage
  <2>8. CASE u = t /\ \/ LockData(t) \/ SkipBuffer(t) \/ TakeBuffer(t)
                      \/ SlotFree(t) \/ LockPfn(t) \/ EndOfCycle(t)
    BY <2>8 DEF LockData, SkipBuffer, TakeBuffer, SlotFree, LockPfn, EndOfCycle
  <2> QED BY <2>1, <2>2, <2>3, <2>4, <2>5, <2>6, <2>7, <2>8 DEF Producer
<1>3. ReadySlots'
  <2> USE <1>0, ProducerFrame
      DEF TypeOK, ConsumerType, SlotType, ProducerType, Control, ReadySlots,
          Candidate, ProducerSlot, SlotTaken, Filling
  <2>1. CASE Quiet(t) \/ ReadZeroPage(t) \/ ReadPage(t)
    <3>1. UNCHANGED <<ready, slotPfn>>
      BY <2>1 DEF Quiet, Begin, LockData, SkipBuffer, TakeBuffer, SlotFree,
         LockPfn, Post, EndOfCycle, ReadFails, Cancelled, ReadZeroPage,
         ReadPage
    <3> QED BY <3>1
  <2>2. CASE ScanPfn(t)
    BY <2>2, ScanTakes, SMTT(20) DEF ScanPfn
  <2>3. CASE MarkFilling(t)
    BY <2>3 DEF MarkFilling
  <2>4. CASE MarkReady(t)
    BY <2>4 DEF MarkReady
  <2> QED BY <2>1, <2>2, <2>3, <2>4 DEF Producer, Quiet
<1> QED BY <1>1, <1>2, <1>3 DEF Control

\* The steps of the consumer that change nothing but where it is.
ConsumerMoves ==
    \/ Finish \/ Found \/ Rescan \/ Timeout \/ WriteFails \/ CancelThread
    \/ JoinThread

LEMMA ConsumerTypes ==
    ASSUME TypeInv, Consumer
    PROVE  TypeOK'
<1> USE DEF consumerVars, pfnVars, bufferVars, flagVars, localVars
<1>0. TypeOK /\ Control
  BY DEF TypeInv
<1>1. ConsumerType'
  <2> USE <1>0, ThreadFacts DEF TypeOK, ConsumerType, ConsumerPc
  <2>1. CASE Prepare
    BY <2>1 DEF Prepare
  <2>2. CASE CreateThread \/ CancelThread \/ JoinThread
    BY <2>2 DEF CreateThread, CancelThread, JoinThread
  <2>3. CASE SemWait \/ Rescan
    BY <2>3, SMTT(20) DEF SemWait, Rescan
  <2>4. CASE ScanThread
    <3>1. slotPfn[i][head[i]] \in Nat
      BY SMTT(20) DEF SlotType
    <3>2. smallest' \in 0 .. MaxMapnr
      <4>1. smallest' = smallest \/ (/\ smallest' = slotPfn[i][head[i]]
                                     /\ slotPfn[i][head[i]] < end_pfn)
        BY <2>4 DEF ScanThread
      <4> QED BY <3>1, <4>1, PagesAssumption, SMTT(20)
    <3>4. end_count' \in Nat /\ consuming' \in Threads
      <4>1. /\ end_count' = end_count \/ end_count' = end_count + 1
            /\ consuming' = consuming \/ consuming' = i
        BY <2>4 DEF ScanThread
      <4> QED BY <4>1, SMTT(20)
    <3>3. cpc' \in ConsumerPc /\ i' \in Threads
      BY <2>4 DEF ScanThread
    <3> QED BY <2>4, <3>2, <3>3, <3>4 DEF ScanThread
  <2>5. CASE Finish \/ Found \/ Timeout \/ WriteFails
    BY <2>5 DEF Finish, Found, Timeout, WriteFails
  <2>6. CASE WritePage
    <3>1. Descriptor \in DescriptorType
      <4>1. consuming \in Threads /\ head[consuming] \in Slots
        BY DEF SlotType
      <4>2. slotPfn[consuming][head[consuming]] \in Pfns
        <5>1. slotPfn[consuming][head[consuming]] < end_pfn
          BY <2>6, <4>1 DEF WritePage, Control, ReadySlots, Candidate
        <5> QED BY <4>1, <5>1, PagesAssumption, SMTT(20) DEF SlotType, Pfns
      <4>3. slotZero[consuming][head[consuming]] \in BOOLEAN
        BY <4>1 DEF SlotType
      <4>4. data[slotIndex[consuming][head[consuming]]] \in Pfns \cup {NoPage}
        <5>1. slotIndex[consuming][head[consuming]] \in Buffers
          BY <4>1 DEF SlotType
        <5> QED BY <5>1 DEF SharedType
      <4> QED BY <4>2, <4>3, <4>4 DEF Descriptor, DescriptorType
    <3>2. written' \in Seq(DescriptorType)
      BY <2>6, <3>1, SMTT(20) DEF WritePage
    <3>3. /\ cpc' \in {"release", "free_buffer"}
          /\ UNCHANGED <<ret, start_pfn, end_pfn, i, consuming, smallest, end_count>>
      BY <2>6 DEF WritePage
    <3> QED BY <3>2, <3>3
  <2>7. CASE FreeBuffer \/ ReleaseSlot
    BY <2>7 DEF FreeBuffer, ReleaseSlot
  <2>8. CASE NextCycle
    BY <2>8, PagesAssumption, SMTT(20) DEF NextCycle, CycleEnd
  <2> QED BY <2>1, <2>2, <2>3, <2>4, <2>5, <2>6, <2>7, <2>8 DEF Consumer
<1>2. SharedType'
  <2> USE <1>0 DEF TypeOK, SharedType
  <2>1. CASE Prepare
    BY <2>1, SMTT(20) DEF Prepare, ConsumerType
  <2>2. CASE SemWait
    BY <2>2, SMTT(20) DEF SemWait
  <2>3. CASE FreeBuffer
    BY <2>3 DEF FreeBuffer, ConsumerType, SlotType
  <2>4. CASE \/ CreateThread \/ ScanThread \/ ConsumerMoves \/ WritePage
             \/ ReleaseSlot \/ NextCycle
    BY <2>4 DEF CreateThread, ScanThread, ConsumerMoves, Finish, Found, Rescan,
       Timeout, WriteFails, CancelThread, JoinThread, WritePage, ReleaseSlot,
       NextCycle
  <2> QED BY <2>1, <2>2, <2>3, <2>4 DEF Consumer, ConsumerMoves
<1>3. SlotType'
  <2> USE <1>0 DEF TypeOK, SlotType
  <2>1. CASE ScanThread
    BY <2>1 DEF ScanThread, ConsumerType
  <2>2. CASE ReleaseSlot
    BY <2>2, SlotFacts DEF ReleaseSlot, ConsumerType
  <2>3. CASE \/ Prepare \/ CreateThread \/ SemWait \/ ConsumerMoves
             \/ WritePage \/ FreeBuffer \/ NextCycle
    BY <2>3 DEF Prepare, CreateThread, SemWait, ConsumerMoves, Finish, Found,
       Rescan, Timeout, WriteFails, CancelThread, JoinThread, WritePage,
       FreeBuffer, NextCycle
  <2> QED BY <2>1, <2>2, <2>3 DEF Consumer, ConsumerMoves
<1>4. ProducerType'
  <2> USE <1>0 DEF TypeOK, ProducerType
  <2>1. CASE CreateThread
    BY <2>1, BufferFacts, SMTT(30) DEF CreateThread, ConsumerType, SlotType, ProducerPc
  <2>2. CASE CancelThread
    BY <2>2 DEF CancelThread
  <2>3. CASE \/ Prepare \/ SemWait \/ ScanThread \/ Finish \/ Found \/ Rescan
             \/ Timeout \/ WritePage \/ WriteFails \/ FreeBuffer
             \/ ReleaseSlot \/ JoinThread \/ NextCycle
    BY <2>3 DEF Prepare, SemWait, ScanThread, Finish, Found, Rescan, Timeout,
       WritePage, WriteFails, FreeBuffer, ReleaseSlot, JoinThread, NextCycle
  <2> QED BY <2>1, <2>2, <2>3 DEF Consumer
<1> QED BY <1>1, <1>2, <1>3, <1>4 DEF TypeOK

LEMMA ConsumerControl ==
    ASSUME TypeInv, Consumer
    PROVE  Control'
<1> USE DEF consumerVars, pfnVars, bufferVars, flagVars, localVars
<1>0. TypeOK /\ Control
  BY DEF TypeInv
<1>1. ThreadsWait'
  <2> USE <1>0, ThreadFacts
      DEF TypeOK, ConsumerType, ProducerType, Control, ThreadsWait, AllEnded
  <2>1. CASE \/ Prepare \/ SemWait \/ ScanThread \/ Finish \/ Found \/ Rescan
             \/ Timeout \/ WritePage \/ WriteFails \/ FreeBuffer \/ ReleaseSlot
    BY <2>1 DEF Prepare, SemWait, ScanThread, Finish, Found, Rescan, Timeout,
       WritePage, WriteFails, FreeBuffer, ReleaseSlot
  <2>2. CASE CreateThread
    BY <2>2, SMTT(30) DEF CreateThread
  <2>3. CASE CancelThread
    BY <2>3, SMTT(30) DEF CancelThread
  <2>4. CASE JoinThread
    BY <2>4, SMTT(30) DEF JoinThread
  <2>5. CASE NextCycle
    <3>1. start_pfn' < end_pfn'
      BY <2>5, PagesAssumption, SMTT(20) DEF NextCycle, CycleEnd
    <3> QED BY <2>5, <3>1 DEF NextCycle
  <2> QED BY <2>1, <2>2, <2>3, <2>4, <2>5 DEF Consumer
<1>2. ASSUME NEW u \in Threads PROVE ProducerSlot(u)'
  <2> USE <1>0 DEF TypeOK, ConsumerType, SlotType, ProducerType, Control,
                   ProducerSlot
  <2>1. CASE \/ Prepare \/ SemWait \/ WritePage \/ FreeBuffer \/ ConsumerMoves
    BY <2>1 DEF Prepare, SemWait, WritePage, FreeBuffer, ConsumerMoves, Finish,
       Found, Rescan, Timeout, WriteFails, CancelThread, JoinThread
  <2>2. CASE CreateThread
    BY <2>2 DEF CreateThread, SlotTaken, Filling
  <2>3. CASE ScanThread
    BY <2>3, SMTT(20) DEF ScanThread
  <2>4. CASE ReleaseSlot
    BY <2>4, SMTT(20) DEF ReleaseSlot
  <2>5. CASE NextCycle
    BY <2>5 DEF NextCycle, ThreadsWait, AllEnded, Ended, SlotTaken, Filling
  <2> QED BY <2>1, <2>2, <2>3, <2>4, <2>5 DEF Consumer, ConsumerMoves
<1>3. ReadySlots'
  <2> USE <1>0 DEF TypeOK, ConsumerType, SlotType, Control, ReadySlots, Candidate
  <2>1. CASE \/ Prepare \/ CreateThread \/ SemWait \/ ConsumerMoves
             \/ WritePage \/ FreeBuffer
    <3>1. UNCHANGED <<ready, slotPfn, end_pfn, head>>
      BY <2>1 DEF Prepare, CreateThread, SemWait, WritePage, FreeBuffer,
         ConsumerMoves, Finish, Found, Rescan, Timeout, WriteFails,
         CancelThread, JoinThread
    <3>2. CASE Found \/ WritePage \/ FreeBuffer
      <4>1. Candidate = "READY" /\ consuming' = consuming
        BY <3>2 DEF Found, WritePage, FreeBuffer
      <4> QED BY <3>1, <4>1
    <3>3. CASE ~ (Found \/ WritePage \/ FreeBuffer)
      <4>1. cpc' \notin {"write", "free_buffer", "release"}
        BY <2>1, <3>3 DEF Prepare, CreateThread, SemWait, ConsumerMoves,
           Finish, Rescan, Timeout, WriteFails, CancelThread, JoinThread
      <4> QED BY <3>1, <4>1
    <3> QED BY <3>2, <3>3
  <2>2. CASE ScanThread
    BY <2>2 DEF ScanThread
  <2>3. CASE ReleaseSlot
    BY <2>3 DEF ReleaseSlot
  <2>4. CASE NextCycle
    <3>1. end_pfn <= end_pfn' /\ end_pfn' \in Nat
      BY <2>4, PagesAssumption, SMTT(20) DEF NextCycle, CycleEnd
    <3> QED BY <2>4, <3>1, SMTT(30) DEF NextCycle
  <2> QED BY <2>1, <2>2, <2>3, <2>4 DEF Consumer, ConsumerMoves
<1> QED BY <1>1, <1>2, <1>3 DEF Control

LEMMA TypeStep == TypeInv /\ [Next]_vars => TypeInv'
<1> SUFFICES ASSUME TypeInv, [Next]_vars PROVE TypeInv'
  OBVIOUS
<1>1. CASE Consumer
  BY <1>1, ConsumerTypes, ConsumerControl DEF TypeInv
<1>2. CASE \E t \in Threads : Producer(t)
  BY <1>2, ProducerTypes, ProducerControl DEF TypeInv
<1>3. CASE UNCHANGED vars
  BY <1>3 DEF TypeInv, TypeOK, ConsumerType, SharedType, SlotType,
     ProducerType, Control, ThreadsWait, AllEnded, ProducerSlot, ReadySlots,
     Candidate, vars, consumerVars, pfnVars, bufferVars, flagVars, localVars
<1> QED BY <1>1, <1>2, <1>3 DEF Next, Stopped

(***************************************************************************)
(* The variables keep their types: no list, buffer or thread index of      *)
(* either loop leaves its array.                                           *)
(***************************************************************************)
THEOREM TypeCorrect == Spec => []TypeOK
<1>1. TypeInv => TypeOK
  BY DEF TypeInv
<1> QED BY <1>1, TypeInit, TypeStep, PTL DEF Spec

-----------------------------------------------------------------------------
(***************************************************************************)
(* The slots of a producer's list that are in use are an interval, from    *)
(* the consumer's slot to the producer's, whose pfns ascend: the steps of  *)
(* ParallelDump keep Lists, the part of the invariant that says so.        *)
(***************************************************************************)
(***************************************************************************)
(* The rank of a slot: its distance from the consumer's slot.              *)
(***************************************************************************)
LEMMA RankFacts ==
    ASSUME TypeOK, NEW t \in Threads, NEW s \in Slots
    PROVE  /\ Rank(t, s) \in Nat
           /\ Rank(t, s) < PageFlagNum
           /\ Rank(t, s) = 0 <=> s = head[t]
           /\ \A r \in Slots : Rank(t, r) = Rank(t, s) => r = s
<1>1. head[t] \in 0 .. PageFlagNum - 1 /\ s \in 0 .. PageFlagNum - 1
  BY DEF TypeOK, SlotType, Slots
<1>2. /\ Rank(t, s) \in Nat /\ Rank(t, s) < PageFlagNum
      /\ Rank(t, s) = 0 <=> s = head[t]
  BY <1>1, SlotsAssumption, SMTT(20) DEF Rank
<1>3. \A r \in Slots : Rank(t, r) = Rank(t, s) => r = s
  BY <1>1, SlotsAssumption, SMTT(20) DEF Rank, Slots
<1> QED BY <1>2, <1>3

LEMMA RankNext ==
    ASSUME TypeOK, NEW t \in Threads, NEW s \in Slots
    PROVE  IF Rank(t, s) = PageFlagNum - 1
           THEN NextSlot(s) = head[t]
           ELSE Rank(t, NextSlot(s)) = Rank(t, s) + 1
<1>1. head[t] \in 0 .. PageFlagNum - 1 /\ s \in 0 .. PageFlagNum - 1
  BY DEF TypeOK, SlotType, Slots
<1>2. CASE s = PageFlagNum - 1
  BY <1>1, <1>2, SlotsAssumption, SMTT(20) DEF Rank, NextSlot
<1>3. CASE s # PageFlagNum - 1
  BY <1>1, <1>3, SlotsAssumption, SMTT(20) DEF Rank, NextSlot
<1> QED BY <1>2, <1>3

LEMMA RankReleased ==
    ASSUME TypeOK, NEW c \in Threads,
           head' = [head EXCEPT ![c] = NextSlot(@)],
           NEW s \in Slots
    PROVE  /\ Rank(c, s)' = IF s = head[c] THEN PageFlagNum - 1
                                           ELSE Rank(c, s) - 1
           /\ \A t \in Threads : t # c => Rank(t, s)' = Rank(t, s)
<1>1. /\ head[c] \in 0 .. PageFlagNum - 1 /\ s \in 0 .. PageFlagNum - 1
      /\ head'[c] = NextSlot(head[c])
      /\ \A t \in Threads : t # c => head'[t] = head[t]
  BY DEF TypeOK, SlotType, Slots
<1>2. Rank(c, s)' = IF s = head[c] THEN PageFlagNum - 1 ELSE Rank(c, s) - 1
  <2>1. CASE head[c] = PageFlagNum - 1
    BY <1>1, <2>1, SlotsAssumption, SMTT(20) DEF Rank, NextSlot
  <2>2. CASE head[c] # PageFlagNum - 1
    BY <1>1, <2>2, SlotsAssumption, SMTT(20) DEF Rank, NextSlot
  <2> QED BY <2>1, <2>2
<1>3. ASSUME NEW t \in Threads, t # c PROVE Rank(t, s)' = Rank(t, s)
  <2>1. head'[t] = head[t]
    BY <1>1, <1>3
  <2> QED BY <2>1, SMTT(20) DEF Rank
<1> QED BY <1>2, <1>3

-----------------------------------------------------------------------------
(***************************************************************************)
(* How the slots in use change.                                            *)
(***************************************************************************)

\* A thread that runs was created in this cycle.
LEMMA RunningCreated ==
    ASSUME TypeInv, cpc \in Active, NEW t \in Threads, pc[t] \notin Ended
    PROVE  t \in Created
BY ThreadFacts, SMTT(20) DEF TypeInv, TypeOK, ConsumerType, Control, ThreadsWait,
   Created

\* Only the pfn's taking puts a slot of a producer into use.
LEMMA ProducerInUse ==
    ASSUME TypeInv, Lists, Pages, cpc \in Active,
           NEW t \in Threads, Producer(t), ~ ScanPfn(t)
    PROVE  /\ UNCHANGED <<slotPfn, taken>>
           /\ \A u \in Threads : \A s \in Slots : InUse(u, s)' <=> InUse(u, s)
<1> USE DEF TypeInv, TypeOK, SlotType, ProducerType, flagVars, localVars, pfnVars,
            Goto
<1>1. CASE MarkFilling(t)
  BY <1>1 DEF MarkFilling, InUse
<1>2. CASE MarkReady(t)
  <2>1. ready[t][page_flag_buf[t]] # "UNUSED"
    BY <1>2 DEF MarkReady, Lists, ListInv, FillingList, Filling, Control,
       ProducerSlot, InUse
  <2> QED BY <1>2, <2>1 DEF MarkReady, InUse
<1>3. CASE \/ Begin(t) \/ LockData(t) \/ SkipBuffer(t) \/ TakeBuffer(t)
           \/ SlotFree(t) \/ LockPfn(t) \/ Post(t)
  BY <1>3 DEF Begin, LockData, SkipBuffer, TakeBuffer, SlotFree, LockPfn, Post,
     InUse
<1>4. CASE \/ EndOfCycle(t) \/ ReadFails(t) \/ ReadZeroPage(t) \/ ReadPage(t)
           \/ Cancelled(t)
  BY <1>4 DEF EndOfCycle, ReadFails, ReadZeroPage, ReadPage, Cancelled, InUse
<1> QED BY <1>1, <1>2, <1>3, <1>4 DEF Producer

\* A producer takes a pfn for a slot that is not in use.
LEMMA ScanInUse ==
    ASSUME TypeInv, Lists, cpc \in Active, NEW t \in Threads, ScanPfn(t)
    PROVE  /\ ~ InUse(t, page_flag_buf[t])
           /\ \A s \in Slots :
                 InUse(t, s) <=> Rank(t, s) < Rank(t, page_flag_buf[t])
           /\ \A u \in Threads : \A s \in Slots :
                 InUse(u, s)' <=> \/ InUse(u, s)
                                  \/ u = t /\ s = page_flag_buf[t]
<1> USE DEF TypeInv, TypeOK, SlotType, ProducerType
<1>1. pc[t] = "scan" /\ page_flag_buf[t] \in Slots
  BY DEF ScanPfn, Goto
<1>2. ~ InUse(t, page_flag_buf[t])
  BY <1>1 DEF Lists, ListInv, SeekingList, Seeking, Control, ProducerSlot,
     SlotTaken
<1>3. \A s \in Slots : InUse(t, s) <=> Rank(t, s) < Rank(t, page_flag_buf[t])
  BY <1>1, <1>2 DEF Lists, ListInv, SeekingList, Seeking
<1>4. \A u \in Threads : \A s \in Slots :
          InUse(u, s)' <=> InUse(u, s) \/ (u = t /\ s = page_flag_buf[t])
  BY <1>1 DEF ScanPfn, Goto, InUse
<1> QED BY <1>2, <1>3, <1>4

\* The slot the consumer releases leaves its list; an end marker it counts is
\* the only slot of its list.
LEMMA ReleaseInUse ==
    ASSUME TypeInv, cpc \in Active, ReleaseSlot
    PROVE  \A u \in Threads : \A s \in Slots :
              InUse(u, s)' <=> InUse(u, s) /\ ~ (u = consuming /\ s = head[u])
BY DEF TypeInv, TypeOK, SlotType, ProducerType, ConsumerType, ReleaseSlot,
   Control, ReadySlots, Candidate, ProducerSlot, SlotTaken, Filling, InUse,
   localVars

AtMarker == ready[i][head[i]] # "UNUSED" /\ slotPfn[i][head[i]] >= end_pfn

LEMMA MarkerInUse ==
    ASSUME TypeInv, Lists, Pages, ScanThread, AtMarker
    PROVE  /\ pc[i] \in {"post", "end", "done"}
           /\ pfn[i] >= end_pfn
           /\ page_flag_buf[i] = head[i]
           /\ \A s \in Slots : InUse(i, s) => s = head[i]
           /\ \A u \in Threads : \A s \in Slots :
                 InUse(u, s)' <=> InUse(u, s) /\ ~ (u = i /\ s = head[u])
<1>1. /\ i \in Threads /\ head[i] \in Slots /\ cpc \in Active
      /\ InUse(i, head[i]) /\ slotPfn[i][head[i]] \in Nat /\ end_pfn \in Nat
  BY SMTT(20) DEF TypeInv, TypeOK, ConsumerType, SlotType, ScanThread, Active,
     AtMarker, InUse
<1>2. Markers(i) /\ Locked
  BY <1>1 DEF Lists, ListInv, Pages
<1>3. /\ pc[i] \in {"fill", "post", "end", "done"} /\ pfn[i] >= end_pfn
      /\ page_flag_buf[i] = head[i]
      /\ \A r \in Slots : InUse(i, r) => Rank(i, r) <= Rank(i, head[i])
  BY <1>1, <1>2 DEF Markers, AtMarker
<1>4. pc[i] # "fill"
  BY <1>1, <1>2, <1>3 DEF Locked, AtMarker
<1>5. \A s \in Slots : InUse(i, s) => s = head[i]
  BY <1>1, <1>3, RankFacts, SMTT(20) DEF TypeInv
<1>6. ready' = [ready EXCEPT ![i][head[i]] = "UNUSED"] /\ UNCHANGED <<pc, page_flag_buf>>
  BY <1>1 DEF ScanThread, AtMarker, localVars
<1>7. \A u \in Threads : \A s \in Slots :
          InUse(u, s)' <=> InUse(u, s) /\ ~ (u = i /\ s = head[u])
  BY <1>1, <1>4, <1>6 DEF InUse, TypeInv, TypeOK, SlotType
<1> QED BY <1>3, <1>4, <1>5, <1>7

LEMMA NoMarkerInUse ==
    ASSUME TypeInv, ScanThread, ~ AtMarker
    PROVE  UNCHANGED <<ready, end_count>>
BY DEF TypeInv, TypeOK, ConsumerType, SlotType, ScanThread, AtMarker

\* The pfn taken is the first dumpable one that was not taken before.
LEMMA ScanStopFacts ==
    ASSUME TypeOK, NEW p \in Nat, ScanStop(p)
    PROVE  /\ current_pfn <= p
           /\ p < end_pfn =>
                 /\ p \in Dumpable
                 /\ \A q \in Dumpable : current_pfn <= q /\ q < end_pfn => p <= q
           /\ p >= end_pfn => \A q \in Dumpable : q < end_pfn => q < current_pfn
<1>1. current_pfn \in Nat /\ end_pfn \in Nat /\ Dumpable \subseteq Nat
  BY PagesAssumption, SMTT(20) DEF TypeOK, SharedType, ConsumerType
<1> QED BY <1>1, SMTT(20) DEF ScanStop, Remaining, PastEnd

\* What the steps that neither take a pfn nor mark a slot ready may do.
LEMMA ProducerQuiet ==
    ASSUME TypeInv, Pages, cpc \in Active, NEW t \in Threads, Producer(t),
           ~ ScanPfn(t), ~ MarkReady(t)
    PROVE  /\ UNCHANGED <<slotPfn, page_flag_buf, pfn, taken>>
           /\ \A s \in Slots : s # page_flag_buf[t] => ready'[t][s] = ready[t][s]
           /\ ready'[t][page_flag_buf[t]] = "READY"
                 <=> ready[t][page_flag_buf[t]] = "READY"
           /\ pc'[t] \in Seeking => pc[t] \in Seeking
           /\ pc'[t] \in Filling \cup {"done"} => pc[t] \in Filling
           /\ pc[t] \in {"fill", "post", "end"} /\ pfn[t] >= end_pfn =>
                 pc'[t] \in {"fill", "post", "end", "done"}
<1> USE DEF TypeInv, TypeOK, ProducerType, SlotType, Goto, flagVars, localVars,
            pfnVars, Seeking, Filling
<1>1. CASE MarkFilling(t)
  <2>1. ready[t][page_flag_buf[t]] = "UNUSED"
    BY <1>1 DEF MarkFilling, Pages, Locked
  <2> QED BY <1>1, <2>1 DEF MarkFilling
<1>2. CASE Post(t)
  BY <1>2 DEF Post
<1>3. CASE Cancelled(t)
  <2>1. /\ UNCHANGED <<slotPfn, page_flag_buf, pfn, taken, ready>>
        /\ pc'[t] = "cancelled" /\ pc[t] \notin {"fill", "post", "end"}
    BY <1>3 DEF Cancelled
  <2> QED BY <2>1
<1>4. CASE Begin(t) \/ LockData(t) \/ SkipBuffer(t) \/ TakeBuffer(t)
  BY <1>4 DEF Begin, LockData, SkipBuffer, TakeBuffer
<1>5. CASE SlotFree(t) \/ LockPfn(t) \/ EndOfCycle(t)
  BY <1>5 DEF SlotFree, LockPfn, EndOfCycle
<1>6. CASE ReadFails(t) \/ ReadZeroPage(t) \/ ReadPage(t)
  BY <1>6 DEF ReadFails, ReadZeroPage, ReadPage
<1> QED BY <1>1, <1>2, <1>3, <1>4, <1>5, <1>6 DEF Producer

-----------------------------------------------------------------------------
(***************************************************************************)
(* Lists.                                                                  *)
(***************************************************************************)
LEMMA ListsProducer ==
    ASSUME TypeInv, TypeInv', Lists, Pages, cpc \in Active,
           NEW t \in Threads, Producer(t)
    PROVE  Lists'
<1>0. /\ \A u \in Threads : ListInv(u)
      /\ UNCHANGED <<cpc, end_pfn, i, head>>
      /\ t \in Created /\ Created' = Created
      /\ TypeOK /\ pc[t] \notin Ended
  BY ProducerFrame, ProducerMoves, RunningCreated DEF Lists, TypeInv, Created
<1>1. ASSUME NEW u \in Threads, u # t PROVE ListInv(u)'
  <2>1. /\ pc'[u] = pc[u] /\ pfn'[u] = pfn[u] /\ ready'[u] = ready[u]
        /\ slotPfn'[u] = slotPfn[u] /\ page_flag_buf'[u] = page_flag_buf[u]
    BY <1>0, <1>1, ProducerPrivate, ProducerMoves
  <2>2. \A s : (InUse(u, s)' <=> InUse(u, s)) /\ Rank(u, s)' = Rank(u, s)
    BY <1>0, <2>1 DEF InUse, Rank
  <2>3. /\ ListInv(u) /\ Interval(u) /\ SeekingList(u) /\ FillingList(u) /\ Markers(u)
        /\ end_pfn' = end_pfn /\ head' = head
    BY <1>0 DEF ListInv
  <2>4. Interval(u)'
    BY <2>1, <2>2, <2>3, SMTT(20) DEF Interval
  <2>5. Markers(u)'
    BY <2>1, <2>2, <2>3 DEF Markers
  <2>6. SeekingList(u)'
    BY <2>1, <2>2, <2>3 DEF SeekingList
  <2>7. FillingList(u)'
    BY <1>0, <2>1, <2>2, <2>3 DEF FillingList
  <2> QED BY <1>0, <2>1, <2>3, <2>4, <2>5, <2>6, <2>7 DEF ListInv
<1>2. ListInv(t)'
  <2> DEFINE b == page_flag_buf[t]
  <2>0. /\ ListInv(t) /\ b \in Slots /\ pc[t] \in ProducerPc
        /\ \A s \in Slots : Rank(t, s)' = Rank(t, s)
    BY <1>0 DEF TypeOK, ProducerType, Rank
  <2>1. CASE ScanPfn(t)
    <3>1. PICK p \in Nat : /\ ScanStop(p)
                           /\ pfn' = [pfn EXCEPT ![t] = p]
                           /\ slotPfn' = [slotPfn EXCEPT ![t][b] = p]
      BY <1>0, <2>1, ScanTakes
    <3>2. UNCHANGED <<ready, page_flag_buf>> /\ pc' = [pc EXCEPT ![t] = "fill"]
      BY <2>1 DEF ScanPfn, Goto
    <3>3. \A s \in Slots : InUse(t, s) =>
              /\ s # b /\ ready[t][s] = "READY"
              /\ slotPfn[t][s] < end_pfn /\ slotPfn[t][s] < p
      <4> SUFFICES ASSUME NEW s \in Slots, InUse(t, s)
                   PROVE  /\ s # b /\ ready[t][s] = "READY"
                          /\ slotPfn[t][s] < end_pfn /\ slotPfn[t][s] < p
        OBVIOUS
      <4>1. s # b /\ ready[t][s] = "READY"
        BY <2>0, <2>1, ScanInUse DEF ScanPfn, Goto, ListInv, SeekingList,
           Seeking
      <4>2. slotPfn[t][s] < end_pfn
        BY <4>1 DEF TypeInv, Control, ReadySlots
      <4>3. PICK j \in 1 .. Len(taken) : taken[j] = slotPfn[t][s]
        BY <4>2 DEF Pages, InUseTaken
      <4>4. slotPfn[t][s] < current_pfn
        BY <4>2, <4>3 DEF Pages, TakenPages
      <4>5. current_pfn <= p /\ current_pfn \in Nat /\ slotPfn[t][s] \in Nat
        BY <1>0, <3>1, ScanStopFacts DEF TypeOK, SharedType, SlotType
      <4> QED BY <4>1, <4>2, <4>4, <4>5, SMTT(20)
    <3>4. /\ \A s \in Slots : InUse(t, s)' <=> InUse(t, s) \/ s = b
          /\ \A s \in Slots : InUse(t, s) <=> Rank(t, s) < Rank(t, b)
          /\ \A s \in Slots : s # b => slotPfn'[t][s] = slotPfn[t][s]
          /\ slotPfn'[t][b] = p /\ pfn'[t] = p /\ pc'[t] = "fill"
      BY <1>0, <2>0, <2>1, <3>1, <3>2, ScanInUse DEF TypeOK, SlotType,
         ProducerType
    <3>5. \A s \in Slots : Rank(t, s) \in Nat /\ (Rank(t, s) = Rank(t, b) => s = b)
      BY <1>0, <2>0, RankFacts
    <3>6. Interval(t)'
      <4>1. \A s \in Slots : ~ (Rank(t, b) < Rank(t, s) /\ Rank(t, s) < Rank(t, b))
        BY <2>0, <3>5, SMTT(20)
      <4>2. ~ (Rank(t, b) < Rank(t, b))
        BY <2>0, <4>1
      <4> QED BY <2>0, <3>3, <3>4, <4>1, <4>2 DEF ListInv, Interval
    <3>7. SeekingList(t)' /\ FillingList(t)'
      <4>1. ready[t][b] # "READY" /\ page_flag_buf'[t] = b /\ ready' = ready
        BY <2>1, <3>2, ScanInUse DEF InUse
      <4>2. InUse(t, b)'
        BY <3>4 DEF InUse
      <4> QED BY <2>0, <3>3, <3>4, <4>1, <4>2 DEF SeekingList, FillingList,
                 Seeking
    <3>8. Markers(t)'
      <4>1. \A s \in Slots : slotPfn[t][s] \in Nat /\ end_pfn \in Nat
        BY <1>0, SMTT(20) DEF TypeOK, SlotType, ConsumerType
      <4>2. \A s \in Slots : InUse(t, s) => ~ (slotPfn[t][s] >= end_pfn)
        BY <3>3, <4>1, SMTT(20)
      <4>3. /\ \A s \in Slots : Rank(t, s) < Rank(t, b) => Rank(t, s) <= Rank(t, b)
            /\ Rank(t, b) <= Rank(t, b)
        BY <2>0, <3>5, SMTT(20)
      <4>4. page_flag_buf'[t] = b /\ end_pfn' = end_pfn
        BY <1>0, <3>2
      <4> QED BY <2>0, <3>4, <4>2, <4>3, <4>4 DEF Markers
    <3> QED BY <1>0, <3>6, <3>7, <3>8 DEF ListInv
  <2>2. CASE MarkReady(t)
    <3>1. /\ \A s \in Slots : InUse(t, s)' <=> InUse(t, s)
          /\ UNCHANGED <<slotPfn, pfn>>
          /\ page_flag_buf'[t] = NextSlot(b)
          /\ pc[t] = "mark_ready" /\ pc'[t] \in Seeking
          /\ ready'[t][b] = "READY"
          /\ \A s \in Slots : s # b => ready'[t][s] = ready[t][s]
      BY <1>0, <2>0, <2>2, ProducerInUse DEF MarkReady, ScanPfn, Goto, Seeking,
         TypeOK, ProducerType, SlotType
    <3>2. /\ \A s \in Slots : InUse(t, s) /\ s # b =>
                ready[t][s] = "READY" /\ Rank(t, s) < Rank(t, b)
          /\ InUse(t, b)
      BY <2>0, <3>1 DEF ListInv, FillingList, Filling, TypeInv, Control,
         ProducerSlot
    <3>3. /\ \A s \in Slots : /\ Rank(t, s) \in Nat /\ Rank(t, s) < PageFlagNum
                              /\ Rank(t, s) = Rank(t, b) => s = b
          /\ Rank(t, b) \in Nat /\ PageFlagNum \in Nat
      BY <1>0, <2>0, RankFacts, SlotsAssumption
    <3>4. \A s \in Slots : InUse(t, s) <=> Rank(t, s) <= Rank(t, b)
      <4> TAKE s \in Slots
      <4>1. InUse(t, s) => Rank(t, s) <= Rank(t, b)
        BY <3>2, <3>3, SMTT(20)
      <4>2. Rank(t, s) < Rank(t, b) => InUse(t, s)
        BY <2>0, <3>2 DEF ListInv, Interval
      <4> QED BY <3>2, <3>3, <4>1, <4>2, SMTT(20)
    <3>5. \A s \in Slots : InUse(t, s)' => ready'[t][s] = "READY"
      BY <3>1, <3>2
    <3>6. SeekingList(t)'
      <4>1. CASE Rank(t, b) = PageFlagNum - 1
        <5>1. NextSlot(b) = head[t]
          BY <1>0, <2>0, <4>1, RankNext
        <5>2. \A s \in Slots : InUse(t, s)
          BY <2>0, <3>3, <3>4, <4>1, SlotsAssumption, SMTT(20)
        <5> QED BY <1>0, <3>1, <3>5, <5>1, <5>2 DEF SeekingList
      <4>2. CASE Rank(t, b) # PageFlagNum - 1
        <5>1. PICK n \in Slots : n = NextSlot(b) /\ Rank(t, n) = Rank(t, b) + 1
          BY <1>0, <2>0, <4>2, RankNext, SlotFacts
        <5>2. \A s \in Slots : InUse(t, s)' <=> Rank(t, s)' < Rank(t, n)'
          BY <2>0, <3>1, <3>3, <3>4, <5>1, SMTT(20)
        <5>3. page_flag_buf'[t] = n
          BY <3>1, <5>1
        <5> QED BY <3>1, <3>5, <5>2, <5>3 DEF SeekingList
      <4> QED BY <4>1, <4>2
    <3>7. Interval(t)'
      BY <2>0, <3>1 DEF ListInv, Interval
    <3>8. Markers(t)'
      <4>1. \A s \in Slots : InUse(t, s)' => slotPfn'[t][s] < end_pfn'
        BY <3>5 DEF TypeInv, Control, ReadySlots
      <4>2. \A s \in Slots : slotPfn'[t][s] \in Nat /\ end_pfn' \in Nat
        BY SMTT(20) DEF TypeInv, TypeOK, SlotType, ConsumerType
      <4> QED BY <4>1, <4>2, SMTT(20) DEF Markers
    <3> QED BY <1>0, <3>1, <3>6, <3>7, <3>8 DEF ListInv, FillingList, Seeking,
               Filling
  <2>3. CASE ~ ScanPfn(t) /\ ~ MarkReady(t)
    <3>1. /\ \A s \in Slots : InUse(t, s)' <=> InUse(t, s)
          /\ UNCHANGED <<slotPfn, page_flag_buf, pfn>>
          /\ \A s \in Slots : s # b => ready'[t][s] = ready[t][s]
          /\ ready'[t][b] = "READY" <=> ready[t][b] = "READY"
      BY <1>0, <2>0, <2>3, ProducerInUse, ProducerQuiet, SMTT(20)
    <3>2. /\ pc'[t] \in Seeking => pc[t] \in Seeking
          /\ pc'[t] \in Filling \cup {"done"} => pc[t] \in Filling
          /\ pc[t] \in {"fill", "post", "end"} /\ pfn[t] >= end_pfn =>
                pc'[t] \in {"fill", "post", "end", "done"}
      BY <1>0, <2>3, ProducerQuiet
    <3>3. Interval(t)'
      BY <2>0, <3>1 DEF ListInv, Interval
    <3>4. SeekingList(t)'
      BY <1>0, <2>0, <3>1, <3>2, SMTT(20) DEF ListInv, SeekingList
    <3>5. FillingList(t)'
      BY <1>0, <2>0, <3>1, <3>2, SMTT(20) DEF ListInv, FillingList
    <3>6. Markers(t)'
      BY <1>0, <2>0, <3>1, <3>2, SMTT(20) DEF ListInv, Markers, Ended
    <3> QED BY <1>0, <3>3, <3>4, <3>5, <3>6 DEF ListInv
  <2> QED BY <2>1, <2>2, <2>3
<1> QED BY <1>1, <1>2 DEF Lists

\* What a list says does not depend on more than this.
LEMMA ListFrame ==
    ASSUME NEW t \in Threads, ListInv(t),
           pc'[t] = pc[t], pfn'[t] = pfn[t], ready'[t] = ready[t],
           slotPfn'[t] = slotPfn[t], page_flag_buf'[t] = page_flag_buf[t],
           head'[t] = head[t], end_pfn' = end_pfn,
           t \in Created <=> t \in Created'
    PROVE  ListInv(t)'
<1>1. \A s \in Slots : (InUse(t, s)' <=> InUse(t, s)) /\ Rank(t, s)' = Rank(t, s)
  BY DEF InUse, Rank
<1>2. Rank(t, page_flag_buf[t])' = Rank(t, page_flag_buf[t])
      /\ InUse(t, page_flag_buf[t])' <=> InUse(t, page_flag_buf[t])
  BY DEF InUse, Rank
<1>3. Interval(t)'
  BY <1>1 DEF ListInv, Interval
<1>4. SeekingList(t)'
  BY DEF ListInv, SeekingList, InUse, Rank
<1>5. FillingList(t)'
  BY <1>1, <1>2 DEF ListInv, FillingList
<1>6. Markers(t)'
  BY <1>1 DEF ListInv, Markers
<1> QED BY <1>3, <1>4, <1>5, <1>6 DEF ListInv

\* The consumer's steps that leave the lists and the threads alone.
LEMMA ConsumerQuiet ==
    ASSUME Consumer, ~ Prepare, ~ CreateThread, ~ ScanThread, ~ ReleaseSlot,
           cpc' \in Active
    PROVE  /\ UNCHANGED <<end_pfn, start_pfn, head, ready, slotPfn, pc, pfn,
                          page_flag_buf, taken, base, current_pfn, end_count,
                          current_pfn_mutex>>
           /\ cpc \in Active \ {"create", "release"}
           /\ cpc' # "create"
           /\ Created' = Created
BY DEF Consumer, SemWait, Finish, Found, Rescan, Timeout, WritePage,
   WriteFails, FreeBuffer, CancelThread, JoinThread, NextCycle, Active,
   Created, flagVars, localVars, pfnVars

LEMMA ListsConsumer ==
    ASSUME TypeInv, Lists, Pages, Consumer
    PROVE  Lists'
<1> SUFFICES ASSUME cpc' \in Active, NEW t \in Threads PROVE ListInv(t)'
  BY DEF Lists
<1> USE ThreadFacts
<1>0. TypeOK /\ Control
  BY DEF TypeInv
<1>1. CASE Prepare
  <2>1. AllUnused /\ AllEnded /\ UNCHANGED <<ready, pc>> /\ Created' = {}
    <3>1. /\ cpc = "prepare" /\ cpc' = "create" /\ i' = 0
          /\ UNCHANGED <<ready, pc>>
      BY <1>1 DEF Prepare, flagVars
    <3>2. AllUnused /\ AllEnded
      BY <1>0, <3>1 DEF Pages, Control, ThreadsWait
    <3>3. Created' = {}
      BY <3>1, SMTT(20) DEF Created
    <3> QED BY <3>1, <3>2, <3>3
  <2>2. /\ \A s \in Slots : ~ InUse(t, s)' /\ ready'[t][s] = "UNUSED"
        /\ pc'[t] \in Ended
    BY <2>1 DEF AllUnused, AllEnded, InUse, Ended
  <2> QED BY <2>1, <2>2 DEF ListInv, Interval, SeekingList, FillingList,
             Markers, Ended, Seeking, Filling
<1>2. CASE CreateThread
  <2>0. cpc = "create" /\ i \in Threads /\ ListInv(t)
    BY <1>0, <1>2 DEF CreateThread, Lists, Active, TypeOK, ConsumerType
  <2>1. CASE t # i
    <3>1. t \in Created <=> t \in Created'
      BY <1>2, <2>0, <2>1, ThreadsAssumption, SMTT(20) DEF CreateThread, Created,
         Threads
    <3>2. /\ pc'[t] = pc[t] /\ pfn'[t] = pfn[t]
          /\ page_flag_buf'[t] = page_flag_buf[t]
          /\ UNCHANGED <<ready, slotPfn, head, end_pfn>>
      BY <1>0, <1>2, <2>0, <2>1 DEF CreateThread, flagVars, TypeOK,
         ProducerType
    <3> QED BY <2>0, <3>1, <3>2, ListFrame
  <2>2. CASE t = i
    <3>1. t \notin Created /\ t \in Created'
      BY <1>2, <2>0, <2>2, ThreadsAssumption, SMTT(20) DEF CreateThread, Created,
         Threads
    <3>2. pc'[t] = "begin" /\ page_flag_buf'[t] = head[t] /\ head'[t] = head[t]
          /\ ready' = ready
      BY <1>0, <1>2, <2>2 DEF CreateThread, flagVars, TypeOK, ProducerType
    <3>3. \A s \in Slots : ~ InUse(t, s)'
      BY <2>0, <3>1, <3>2 DEF ListInv, InUse
    <3>4. \A s \in Slots : ~ (Rank(t, s) < Rank(t, head[t]))
      <4>1. head[t] \in Slots /\ Rank(t, head[t]) = 0
        BY <1>0, RankFacts DEF TypeOK, SlotType
      <4> QED BY <1>0, <4>1, RankFacts, SMTT(20)
    <3>5. SeekingList(t)'
      BY <3>2, <3>3, <3>4 DEF SeekingList, Rank
    <3> QED BY <3>1, <3>2, <3>3, <3>5 DEF ListInv, Interval, FillingList,
               Markers, Filling
  <2> QED BY <2>1, <2>2
<1>3. CASE ScanThread
  <2>0. /\ cpc = "scan" /\ i \in Threads /\ ListInv(t)
        /\ UNCHANGED <<pc, pfn, page_flag_buf, slotPfn, head, end_pfn>>
        /\ Created' = Created
    BY <1>0, <1>3 DEF ScanThread, Lists, Active, TypeOK, ConsumerType,
       localVars, Created
  <2>1. CASE AtMarker /\ t = i
    <3>1. /\ pc'[t] \in {"post", "end", "done"} /\ pfn'[t] >= end_pfn'
          /\ \A s \in Slots : ~ InUse(t, s)' /\ ready'[t][s] = "UNUSED"
      BY <1>3, <2>0, <2>1, MarkerInUse DEF InUse
    <3>2. pfn'[t] \in Nat /\ end_pfn' \in Nat /\ page_flag_buf'[t] \in Slots
      BY <1>0, <2>0, SMTT(20) DEF TypeOK, ProducerType, ConsumerType
    <3> QED BY <3>1, <3>2, SMTT(20) DEF ListInv, Interval, SeekingList, FillingList,
               Markers, Seeking
  <2>2. CASE ~ (AtMarker /\ t = i)
    <3>1. ready'[t] = ready[t]
      <4>1. CASE ~ AtMarker
        BY <1>3, <4>1, NoMarkerInUse
      <4>2. CASE t # i
        BY <1>0, <1>3, <2>0, <4>2 DEF ScanThread, TypeOK, SlotType
      <4> QED BY <2>2, <4>1, <4>2
    <3> QED BY <2>0, <3>1, ListFrame
  <2> QED BY <2>1, <2>2
<1>4. CASE ReleaseSlot
  <2>0. /\ cpc = "release" /\ consuming \in Threads /\ ListInv(t)
        /\ UNCHANGED <<pc, pfn, page_flag_buf, slotPfn, end_pfn>>
        /\ Created' = Created
        /\ head' = [head EXCEPT ![consuming] = NextSlot(@)]
        /\ ready' = [ready EXCEPT ![consuming][head[consuming]] = "UNUSED"]
    BY <1>0, <1>4 DEF ReleaseSlot, Lists, Active, TypeOK, ConsumerType,
       localVars, Created
  <2>1. CASE t # consuming
    <3>1. ready'[t] = ready[t] /\ head'[t] = head[t]
      BY <1>0, <2>0, <2>1 DEF TypeOK, SlotType
    <3> QED BY <2>0, <3>1, ListFrame
  <2>2. CASE t = consuming
    <3>0. PICK h \in Slots, b \in Slots : h = head[t] /\ b = page_flag_buf[t]
      BY <1>0 DEF TypeOK, SlotType, ProducerType
    <3>1. /\ page_flag_buf'[t] = b /\ ready[t][h] = "READY" /\ InUse(t, h)
          /\ \A s \in Slots : InUse(t, s)' <=> InUse(t, s) /\ s # h
          /\ \A s \in Slots : s # h => ready'[t][s] = ready[t][s]
      BY <1>0, <1>4, <2>0, <2>2, <3>0, ReleaseInUse, SMTT(20) DEF Control,
         ReadySlots, Candidate, InUse, Active, TypeOK, SlotType
    <3>2. \A s \in Slots :
             /\ Rank(t, s) \in Nat /\ Rank(t, s) < PageFlagNum
             /\ Rank(t, s) = 0 <=> s = h
             /\ Rank(t, s)' = IF s = h THEN PageFlagNum - 1 ELSE Rank(t, s) - 1
      BY <1>0, <2>0, <2>2, <3>0, RankFacts, RankReleased
    <3>3. PageFlagNum \in Nat
      BY SlotsAssumption
    <3>4. Interval(t)'
      BY <2>0, <3>1, <3>2, <3>3, SMTT(20) DEF ListInv, Interval
    <3>5. SeekingList(t)'
      <4> SUFFICES ASSUME pc'[t] \in Seeking
                   PROVE  /\ \A s \in Slots : InUse(t, s)' => ready'[t][s] = "READY"
                          /\ \A s \in Slots : InUse(t, s)' <=> Rank(t, s)' < Rank(t, b)'
        BY <3>1 DEF SeekingList
      <4>1. /\ \A s \in Slots : InUse(t, s) => ready[t][s] = "READY"
            /\ \/ \A s \in Slots : InUse(t, s) <=> Rank(t, s) < Rank(t, b)
               \/ b = h /\ \A s \in Slots : InUse(t, s)
        BY <2>0, <3>0 DEF ListInv, SeekingList
      <4>2. \A s \in Slots : InUse(t, s)' <=> Rank(t, s)' < Rank(t, b)'
        BY <3>1, <3>2, <3>3, <4>1, SMTT(20)
      <4> QED BY <3>1, <4>1, <4>2
    <3>6. FillingList(t)'
      <4>1. FillingList(t) /\ (pc[t] \in Filling \/ (pc[t] = "done" /\ t \in Created))
              => b # h /\ InUse(t, b)
        BY <3>0, <3>1 DEF FillingList
      <4> QED BY <2>0, <3>0, <3>1, <3>2, <4>1, SMTT(20) DEF ListInv, FillingList
    <3>7. Markers(t)'
      BY <2>0, <3>0, <3>1, <3>2, SMTT(20) DEF ListInv, Markers
    <3>8. t \in Created'
      BY <2>0 DEF Created
    <3> QED BY <3>4, <3>5, <3>6, <3>7, <3>8 DEF ListInv
  <2> QED BY <2>1, <2>2
<1>5. CASE ~ Prepare /\ ~ CreateThread /\ ~ ScanThread /\ ~ ReleaseSlot
  BY <1>5, ConsumerQuiet, ListFrame DEF Lists
<1> QED BY <1>1, <1>2, <1>3, <1>4, <1>5
=============================================================================
