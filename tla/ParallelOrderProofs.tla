------------------------ MODULE ParallelOrderProofs -------------------------
(***************************************************************************)
(* The consumer of ParallelDump writes the dumpable pages in ascending     *)
(* order, each one once, and reports success only when all are written.    *)
(***************************************************************************)
EXTENDS ParallelDumpProofs, FiniteSetTheorems

\* Zenon proves every leaf that names no other prover; the limits, in seconds,
\* leave room for a slower machine.
USE ZenonT(30)

(***************************************************************************)
(* The parts of ParallelDump's invariant on which the order of the writes  *)
(* rests: what the producers' steps do to the pages taken, the count of    *)
(* the semaphore, the consumer's scan and the count of the end markers.    *)
(***************************************************************************)
LEMMA TakenAppended ==
    ASSUME TypeOK, NEW p \in Nat, taken' = Append(taken, p)
    PROVE  /\ Len(taken) \in Nat /\ Len(taken') = Len(taken) + 1
           /\ \A j \in 1 .. Len(taken) : taken'[j] = taken[j] /\ taken[j] \in Nat
           /\ taken'[Len(taken) + 1] = p
BY SMTT(20) DEF TypeOK, SharedType

\* The sizes of the two histories.
LEMMA Sizes ==
    ASSUME TypeOK
    PROVE  /\ Len(taken) \in Nat /\ Len(written) \in Nat /\ base \in Nat
           /\ NumWritten \in Int /\ NumReleased \in Int
           /\ \A j \in 1 .. Len(taken) : taken[j] \in Nat
           /\ \A n \in 1 .. Len(written) : written[n].pfn \in Nat
           /\ start_pfn \in Nat /\ end_pfn \in Nat /\ current_pfn \in Nat
<1>1. Len(taken) \in Nat /\ Len(written) \in Nat /\ base \in Nat
  BY SMTT(20) DEF TypeOK, SharedType, ConsumerType
<1>2. \A j \in 1 .. Len(taken) : taken[j] \in Nat
  BY SMTT(20) DEF TypeOK, SharedType
<1>3. \A n \in 1 .. Len(written) : written[n].pfn \in Nat
  <2>1. \A n \in 1 .. Len(written) : written[n] \in DescriptorType
    BY SMTT(20) DEF TypeOK, ConsumerType
  <2>2. \A d \in DescriptorType : d.pfn \in Nat
    BY PagesAssumption, SMTT(20) DEF DescriptorType, Pfns
  <2> QED BY <2>1, <2>2
<1>4. start_pfn \in Nat /\ end_pfn \in Nat /\ current_pfn \in Nat
  BY PagesAssumption, SMTT(20) DEF TypeOK, SharedType, ConsumerType
<1> QED BY <1>1, <1>2, <1>3, <1>4, SMTT(20) DEF NumWritten, NumReleased

-----------------------------------------------------------------------------
(***************************************************************************)
(* Pages.                                                                  *)
(***************************************************************************)
\* The part of Pages that holds inside a cycle.
CyclePages ==
    /\ ~ ret /\ start_pfn <= current_pfn
    /\ TakenOrder /\ TakenPages /\ TakenAll /\ WrittenTaken
    /\ TakenInUse /\ InUseTaken /\ OneSlot /\ Locked

\* A producer takes the next dumpable pfn, or learns that there is none.
LEMMA PagesScanPfn ==
    ASSUME TypeInv, Lists, CyclePages, Pages, cpc \in Active,
           NEW t \in Threads, ScanPfn(t)
    PROVE  CyclePages'
<1>0. TypeOK /\ Control /\ Producer(t)
  BY DEF TypeInv, Producer
<1> DEFINE b == page_flag_buf[t]
<1>1. PICK p \in Nat : /\ ScanStop(p)
                       /\ pfn' = [pfn EXCEPT ![t] = p]
                       /\ current_pfn' = p + 1
                       /\ slotPfn' = [slotPfn EXCEPT ![t][b] = p]
                       /\ taken' = Append(taken, p)
  BY <1>0, ScanTakes
<1>2. /\ current_pfn <= p
      /\ p < end_pfn =>
            /\ p \in Dumpable
            /\ \A q \in Dumpable : current_pfn <= q /\ q < end_pfn => p <= q
      /\ p >= end_pfn => \A q \in Dumpable : q < end_pfn => q < current_pfn
  BY <1>0, <1>1, ScanStopFacts
<1>3. /\ Len(taken) \in Nat /\ Len(taken') = Len(taken) + 1
      /\ \A j \in 1 .. Len(taken) : taken'[j] = taken[j] /\ taken[j] \in Nat
      /\ taken'[Len(taken) + 1] = p
      /\ start_pfn \in Nat /\ end_pfn \in Nat /\ current_pfn \in Nat
      /\ Dumpable \subseteq Nat
  BY <1>0, <1>1, TakenAppended, Sizes, PagesAssumption, SMTT(20)
<1>4. /\ UNCHANGED <<cpc, ret, start_pfn, end_pfn, i, written, base, ready,
                     page_flag_buf, current_pfn_mutex>>
      /\ pc[t] = "scan" /\ pc' = [pc EXCEPT ![t] = "fill"]
      /\ Created' = Created
  BY DEF ScanPfn, Goto, consumerVars, Created
<1>5. /\ ~ InUse(t, b) /\ b \in Slots
      /\ \A u \in Threads : \A s \in Slots :
            InUse(u, s)' <=> InUse(u, s) \/ (u = t /\ s = b)
      /\ slotPfn'[t][b] = p
      /\ \A u \in Threads : \A s \in Slots :
            ~ (u = t /\ s = b) => slotPfn'[u][s] = slotPfn[u][s]
      /\ \A u \in Threads : \A s \in Slots : slotPfn[u][s] \in Nat
  BY <1>0, <1>1, ScanInUse, SMTT(20) DEF TypeOK, SlotType, ProducerType
<1>6. NumReleased' = NumReleased /\ NumReleased <= Len(taken) /\ NumReleased \in Int
      /\ NumWritten' = NumWritten
  BY <1>0, <1>3, <1>4, Sizes, SMTT(20) DEF NumReleased, NumWritten, CyclePages,
     WrittenTaken
<1>7. \A j \in 1 .. Len(taken) : taken[j] < end_pfn => taken[j] < p
  BY <1>2, <1>3, SMTT(20) DEF CyclePages, TakenPages
<1>8. \A j \in 1 .. Len(taken) : taken[j] >= end_pfn => p >= end_pfn
  BY <1>2, <1>3, SMTT(20) DEF CyclePages, TakenPages
<1>a. TakenOrder'
  <2> SUFFICES ASSUME NEW j \in 1 .. Len(taken'), NEW k \in 1 .. Len(taken'),
                      j < k, taken'[k] < end_pfn
               PROVE  taken'[j] < taken'[k]
    BY <1>4 DEF TakenOrder
  <2>1. CASE k = Len(taken) + 1
    BY <1>3, <1>7, <1>8, <2>1, SMTT(20)
  <2>2. CASE k # Len(taken) + 1
    <3>1. j \in 1 .. Len(taken) /\ k \in 1 .. Len(taken)
      BY <1>3, <2>2, SMTT(20)
    <3> QED BY <1>3, <3>1 DEF CyclePages, TakenOrder
  <2> QED BY <2>1, <2>2
<1>b. TakenPages' /\ start_pfn' <= current_pfn'
  BY <1>1, <1>2, <1>3, <1>4, SMTT(20) DEF CyclePages, TakenPages
<1>c. TakenAll'
  <2> SUFFICES ASSUME NEW q \in Dumpable, start_pfn <= q, q < end_pfn, q < p + 1
               PROVE  \E j \in 1 .. Len(taken') : taken'[j] = q
    BY <1>1, <1>4 DEF TakenAll
  <2>1. CASE q < current_pfn
    BY <1>3, <2>1, SMTT(20) DEF CyclePages, TakenAll
  <2>2. CASE q >= current_pfn
    <3>1. q = p
      BY <1>2, <1>3, <2>2, SMTT(20)
    <3> QED BY <1>3, <3>1, SMTT(20)
  <2> QED BY <1>3, <2>1, <2>2, SMTT(20)
<1>d. WrittenTaken'
  <2>1. \A j \in 1 .. NumWritten : j \in 1 .. Len(taken)
    BY <1>0, <1>3, Sizes, SMTT(20) DEF CyclePages, WrittenTaken
  <2>2. \A j \in 1 .. NumWritten :
            taken'[j] < end_pfn /\ written[base + j].pfn = taken'[j]
    BY <1>3, <2>1 DEF CyclePages, WrittenTaken
  <2>3. NumWritten <= Len(taken')
    BY <1>0, <1>3, Sizes, SMTT(20) DEF CyclePages, WrittenTaken
  <2> QED BY <1>4, <1>6, <2>2, <2>3 DEF CyclePages, WrittenTaken
<1>e. TakenInUse'
  <2> SUFFICES ASSUME NEW j \in 1 .. Len(taken'), j > NumReleased,
                      taken'[j] < end_pfn
               PROVE  \E u \in Threads : \E s \in Slots :
                         InUse(u, s)' /\ slotPfn'[u][s] = taken'[j]
    BY <1>4, <1>6 DEF TakenInUse
  <2>1. CASE j = Len(taken) + 1
    BY <1>3, <1>5, <2>1, SMTT(20)
  <2>2. CASE j # Len(taken) + 1
    <3>1. j \in 1 .. Len(taken) /\ taken'[j] = taken[j]
      BY <1>3, <2>2, SMTT(20)
    <3>2. PICK u \in Threads, s \in Slots : InUse(u, s) /\ slotPfn[u][s] = taken[j]
      BY <3>1 DEF CyclePages, TakenInUse
    <3> QED BY <1>5, <3>1, <3>2, SMTT(20)
  <2> QED BY <2>1, <2>2
<1>f. InUseTaken'
  <2> SUFFICES ASSUME NEW u \in Threads, NEW s \in Slots, InUse(u, s)',
                      slotPfn'[u][s] < end_pfn
               PROVE  \E j \in 1 .. Len(taken') :
                         j > NumReleased /\ taken'[j] = slotPfn'[u][s]
    BY <1>4, <1>6 DEF InUseTaken
  <2>1. CASE u = t /\ s = b
    BY <1>3, <1>5, <1>6, <2>1, SMTT(20)
  <2>2. CASE ~ (u = t /\ s = b)
    <3>1. PICK j \in 1 .. Len(taken) : j > NumReleased /\ taken[j] = slotPfn[u][s]
      BY <1>5, <2>2 DEF CyclePages, InUseTaken
    <3> QED BY <1>3, <1>5, <2>2, <3>1, SMTT(20)
  <2> QED BY <2>1, <2>2
<1>g. OneSlot'
  <2>1. \A u \in Threads : \A s \in Slots :
            InUse(u, s) /\ slotPfn[u][s] < end_pfn => slotPfn[u][s] # p
    BY <1>3, <1>7, SMTT(20) DEF CyclePages, InUseTaken
  <2> QED BY <1>4, <1>5, <2>1, SMTT(20) DEF CyclePages, OneSlot
<1>h. Locked'
  <2> SUFFICES ASSUME NEW u \in Threads
               PROVE  /\ pc'[u] \in {"scan", "fill"} => current_pfn_mutex = u
                      /\ pc'[u] = "fill" => /\ Len(taken') > 0
                                            /\ pfn'[u] = taken'[Len(taken')]
                                            /\ ready[u][page_flag_buf[u]] = "UNUSED"
                      /\ u \in Created /\ pc'[u] = "done" => pfn'[u] >= end_pfn
                      /\ pc'[u] \in {"post", "end", "done"} /\ u \in Created
                            /\ pfn'[u] >= end_pfn => p + 1 >= end_pfn
    BY <1>1, <1>4 DEF Locked
  <2>1. CASE u = t
    BY <1>0, <1>1, <1>3, <1>4, <1>5, <2>1, SMTT(20)
       DEF CyclePages, Locked, InUse, TypeOK, ProducerType
  <2>2. CASE u # t
    <3>1. pc'[u] = pc[u] /\ pfn'[u] = pfn[u]
      BY <1>0, <1>1, <1>4, <2>2 DEF TypeOK, ProducerType
    <3>2. pc[u] \notin {"scan", "fill"}
      BY <1>4, <2>2 DEF CyclePages, Locked
    <3> QED BY <1>2, <1>3, <3>1, <3>2, SMTT(20) DEF CyclePages, Locked
  <2> QED BY <2>1, <2>2
<1> QED BY <1>4, <1>a, <1>b, <1>c, <1>d, <1>e, <1>f, <1>g, <1>h DEF CyclePages

\* The other steps of a producer inside a cycle.
LEMMA PagesProducer ==
    ASSUME TypeInv, Lists, CyclePages, Pages, cpc \in Active,
           NEW t \in Threads, Producer(t), ~ ScanPfn(t)
    PROVE  CyclePages'
<1>0. TypeOK /\ Control /\ t \in Created /\ pc[t] \notin Ended
  BY ProducerMoves, RunningCreated DEF TypeInv
<1>1. /\ UNCHANGED <<cpc, ret, start_pfn, end_pfn, i, written, base, taken, slotPfn>>
      /\ Created' = Created
      /\ \A u \in Threads : \A s \in Slots : InUse(u, s)' <=> InUse(u, s)
  BY ProducerFrame, ProducerInUse DEF Created
<1>2. /\ current_pfn' = IF EndOfCycle(t) THEN end_pfn ELSE current_pfn
      /\ EndOfCycle(t) => current_pfn >= end_pfn
  <2>1. EndOfCycle(t) => current_pfn >= end_pfn /\ current_pfn' = end_pfn
    BY <1>0 DEF EndOfCycle, Goto, Control, ProducerSlot, CyclePages, Locked
  <2>2. ~ EndOfCycle(t) => current_pfn' = current_pfn
    BY DEF Producer, Begin, LockData, SkipBuffer, TakeBuffer, SlotFree,
       LockPfn, MarkFilling, Post, ReadFails, ReadZeroPage, ReadPage,
       MarkReady, Cancelled, pfnVars
  <2> QED BY <2>1, <2>2
<1>3. NumWritten' = NumWritten /\ NumReleased' = NumReleased
  BY <1>1 DEF NumWritten, NumReleased
<1>4. start_pfn < end_pfn
  BY <1>0 DEF Control, ThreadsWait
<1>a. TakenOrder' /\ WrittenTaken'
  BY <1>1, <1>3 DEF CyclePages, TakenOrder, WrittenTaken
<1>b. TakenPages' /\ start_pfn' <= current_pfn'
  BY <1>0, <1>1, <1>2, <1>4, Sizes, SMTT(20) DEF CyclePages, TakenPages
<1>c. TakenAll'
  BY <1>0, <1>1, <1>2, Sizes, PagesAssumption, SMTT(20) DEF CyclePages, TakenAll
<1>d. TakenInUse' /\ InUseTaken' /\ OneSlot'
  BY <1>1, <1>3, SMTT(20) DEF CyclePages, TakenInUse, InUseTaken, OneSlot
<1>h. Locked'
  <2> SUFFICES ASSUME NEW u \in Threads
               PROVE  /\ pc'[u] \in {"scan", "fill"} => current_pfn_mutex' = u
                      /\ pc'[u] = "fill" => /\ Len(taken) > 0
                                            /\ pfn'[u] = taken[Len(taken)]
                                            /\ ready'[u][page_flag_buf'[u]] = "UNUSED"
                      /\ u \in Created /\ pc'[u] = "done" => pfn'[u] >= end_pfn
                      /\ pc'[u] \in {"post", "end", "done"} /\ u \in Created
                            /\ pfn'[u] >= end_pfn => current_pfn' >= end_pfn
    BY <1>1 DEF Locked
  <2>0. current_pfn >= end_pfn => current_pfn' >= end_pfn
    BY <1>0, <1>2, Sizes, SMTT(20)
  <2>1. CASE u # t
    <3>1. /\ pc'[u] = pc[u] /\ pfn'[u] = pfn[u] /\ ready'[u] = ready[u]
          /\ page_flag_buf'[u] = page_flag_buf[u]
      BY <1>0, <2>1, ProducerMoves, ProducerPrivate
    <3>2. current_pfn_mutex = u => current_pfn_mutex' = u
      <4>1. CASE LockPfn(t)
        BY <4>1, ThreadFacts, SMTT(20) DEF LockPfn, NoThread
      <4>2. CASE MarkFilling(t)
        BY <2>1, <4>2 DEF MarkFilling, Goto, CyclePages, Locked
      <4>3. CASE ~ LockPfn(t) /\ ~ MarkFilling(t)
        BY <4>3 DEF Producer, Begin, LockData, SkipBuffer, TakeBuffer,
           SlotFree, Post, EndOfCycle, ReadFails, ReadZeroPage, ReadPage,
           MarkReady, Cancelled, pfnVars
      <4> QED BY <4>1, <4>2, <4>3
    <3> QED BY <2>0, <3>1, <3>2 DEF CyclePages, Locked
  <2>2. CASE u = t
    <3> USE DEF TypeOK, ProducerType, Goto
    <3>1. CASE MarkFilling(t)
      <4>1. pc[t] = "fill" /\ pc'[t] = "post" /\ pfn'[t] = pfn[t]
        BY <1>0, <3>1 DEF MarkFilling, localVars
      <4>2. Len(taken) \in 1 .. Len(taken) /\ pfn[t] = taken[Len(taken)]
        BY <1>0, <4>1, Sizes, SMTT(20) DEF CyclePages, Locked
      <4>3. pfn[t] >= end_pfn => current_pfn >= end_pfn
        BY <1>0, <4>2, Sizes, SMTT(20) DEF CyclePages, TakenPages
      <4> QED BY <2>0, <2>2, <4>1, <4>3
    <3>2. CASE LockPfn(t)
      BY <1>0, <2>2, <3>2 DEF LockPfn
    <3>3. CASE Post(t) \/ EndOfCycle(t)
      <4>1. /\ pc[t] \in {"post", "end"} /\ pc'[t] \in {"end", "read", "done"}
            /\ pc'[t] = "done" => pfn[t] >= end_pfn
            /\ pfn' = pfn
        BY <1>0, <3>3 DEF Post, EndOfCycle, localVars, Control, ProducerSlot
      <4> QED BY <1>0, <2>0, <2>2, <4>1 DEF CyclePages, Locked
    <3>4. CASE Cancelled(t)
      <4>1. pc'[t] = "cancelled"
        BY <1>0, <3>4 DEF Cancelled
      <4> QED BY <2>2, <4>1
    <3>5. CASE \/ Begin(t) \/ LockData(t) \/ SkipBuffer(t) \/ TakeBuffer(t)
               \/ SlotFree(t) \/ ReadFails(t) \/ ReadZeroPage(t) \/ ReadPage(t)
               \/ MarkReady(t)
      <4>1. pc'[t] \notin {"scan", "fill", "post", "end", "done"}
        BY <1>0, <3>5 DEF Begin, LockData, SkipBuffer, TakeBuffer, SlotFree,
           ReadFails, ReadZeroPage, ReadPage, MarkReady
      <4> QED BY <2>2, <4>1
    <3> QED BY <3>1, <3>2, <3>3, <3>4, <3>5 DEF Producer
  <2> QED BY <2>1, <2>2
<1> QED BY <1>1, <1>a, <1>b, <1>c, <1>d, <1>h DEF CyclePages

-----------------------------------------------------------------------------
(***************************************************************************)
(* Counting.                                                               *)
(***************************************************************************)
LEMMA ThreadsFinite ==
    ASSUME NEW S \in SUBSET Threads
    PROVE  /\ IsFiniteSet(S) /\ Cardinality(S) \in Nat
           /\ Cardinality(S) <= NumThreads
           /\ Cardinality(S) = NumThreads => S = Threads
<1>1. IsFiniteSet(Threads) /\ Cardinality(Threads) = NumThreads
  BY FS_Interval, ThreadsAssumption, SMTT(20) DEF Threads
<1> QED BY <1>1, FS_Subset, FS_CardinalityType

\* What has been waited for has been taken.
LEMMA WaitedTaken ==
    ASSUME TypeOK, Counting, cpc \in Active
    PROVE  Waited <= Len(taken)
<1>1. Cardinality(Posting) \in Nat
  BY ThreadsFinite DEF Posting
<1>2. sem \in Nat
  BY DEF TypeOK, SharedType
<1> QED BY <1>1, <1>2, Sizes, SMTT(20) DEF Counting, Waited

LEMMA CountingProducer ==
    ASSUME TypeInv, Lists, Pages, Counting, cpc \in Active,
           NEW t \in Threads, Producer(t)
    PROVE  Counting'
<1> USE DEF TypeInv, TypeOK, SharedType, ProducerType, Goto
<1>0. /\ UNCHANGED <<cpc, written, base>>
      /\ Waited' = Waited /\ Waited \in Int
      /\ Len(taken) \in Nat /\ sem \in Nat
      /\ IsFiniteSet(Posting) /\ Cardinality(Posting) \in Nat
      /\ sem + Waited + Cardinality(Posting) = Len(taken)
  <2>1. UNCHANGED <<cpc, written, base>>
    BY ProducerFrame
  <2>2. IsFiniteSet(Posting) /\ Cardinality(Posting) \in Nat
    BY ThreadsFinite DEF Posting
  <2> QED BY <2>1, <2>2, Sizes, SMTT(20) DEF Counting, Waited, NumWritten
<1>1. CASE ScanPfn(t)
  <2>1. Len(taken') = Len(taken) + 1 /\ sem' = sem
    BY <1>1, ScanTakes, TakenAppended DEF ScanPfn
  <2>2. Posting' = Posting \cup {t} /\ t \notin Posting
    BY <1>1, SMTT(20) DEF ScanPfn, Posting
  <2>3. Cardinality(Posting') = Cardinality(Posting) + 1
    BY <1>0, <2>2, FS_AddElement
  <2> QED BY <1>0, <2>1, <2>3, SMTT(20) DEF Counting
<1>2. CASE Post(t)
  <2>1. taken' = taken /\ sem' = sem + 1
    BY <1>2 DEF Post, pfnVars
  <2>2. Posting' = Posting \ {t} /\ t \in Posting
    BY <1>2 DEF Post, Posting
  <2>3. Cardinality(Posting') = Cardinality(Posting) - 1
    BY <1>0, <2>2, FS_RemoveElement
  <2> QED BY <1>0, <2>1, <2>3, SMTT(20) DEF Counting
<1>3. CASE ~ ScanPfn(t) /\ ~ Post(t)
  <2>1. UNCHANGED <<taken, sem>>
    BY <1>3 DEF Producer, Begin, LockData, SkipBuffer, TakeBuffer, SlotFree,
       LockPfn, MarkFilling, EndOfCycle, ReadFails, ReadZeroPage, ReadPage,
       MarkReady, Cancelled, pfnVars
  <2>2. /\ \A u \in Threads : u # t => pc'[u] = pc[u]
        /\ pc'[t] \in {"fill", "post"} <=> pc[t] \in {"fill", "post"}
    <3>1. CASE \/ Begin(t) \/ LockData(t) \/ SkipBuffer(t) \/ TakeBuffer(t)
               \/ SlotFree(t) \/ LockPfn(t) \/ MarkFilling(t) \/ EndOfCycle(t)
      BY <3>1 DEF Begin, LockData, SkipBuffer, TakeBuffer, SlotFree, LockPfn,
         MarkFilling, EndOfCycle
    <3>2. CASE ReadFails(t) \/ ReadZeroPage(t) \/ ReadPage(t) \/ MarkReady(t)
      BY <3>2 DEF ReadFails, ReadZeroPage, ReadPage, MarkReady
    <3>3. CASE Cancelled(t)
      BY <3>3 DEF Cancelled
    <3> QED BY <1>3, <3>1, <3>2, <3>3 DEF Producer
  <2>3. Posting' = Posting
    BY <2>2 DEF Posting
  <2> QED BY <1>0, <2>1, <2>3 DEF Counting
<1> QED BY <1>1, <1>2, <1>3

LEMMA CountingConsumer ==
    ASSUME TypeInv, TypeInv', Counting, Consumer
    PROVE  Counting'
<1> SUFFICES ASSUME cpc' \in Active
             PROVE  sem' + Waited' + Cardinality(Posting') = Len(taken')
  BY DEF Counting
<1>0. TypeOK /\ Control
  BY DEF TypeInv
<1>1. CASE Prepare
  <2>1. /\ sem' = 0 /\ taken' = << >> /\ base' = Len(written') /\ cpc' = "create"
        /\ AllEnded /\ pc' = pc
    BY <1>0, <1>1 DEF Prepare, Control, ThreadsWait
  <2>2. Posting' = {}
    BY <2>1 DEF Posting, AllEnded, Ended
  <2>3. Waited' = 0
    BY <1>0, <1>1, <2>1, Sizes, SMTT(20) DEF Prepare, Waited, NumWritten, PastWait
  <2> QED BY <2>1, <2>2, <2>3, FS_EmptySet, SMTT(20)
<1>2. CASE ~ Prepare
  <2>0. sem + Waited + Cardinality(Posting) = Len(taken) /\ UNCHANGED <<taken, base>>
    BY <1>2 DEF Consumer, CreateThread, SemWait, ScanThread, Finish, Found,
       Rescan, Timeout, WritePage, WriteFails, FreeBuffer, ReleaseSlot,
       CancelThread, JoinThread, NextCycle, Active, Counting, pfnVars
  <2>1. Posting' = Posting
    <3>1. CASE CreateThread
      <4>1. i \in Threads /\ pc[i] \in Ended /\ pc' = [pc EXCEPT ![i] = "begin"]
        BY <1>0, <3>1, ThreadFacts, SMTT(20) DEF CreateThread, Control, ThreadsWait,
           TypeOK, ConsumerType
      <4> QED BY <1>0, <4>1 DEF Posting, Ended, TypeOK, ProducerType
    <3>2. CASE ~ CreateThread
      BY <1>2, <3>2 DEF Consumer, SemWait, ScanThread, Finish, Found, Rescan,
         Timeout, WritePage, WriteFails, FreeBuffer, ReleaseSlot, CancelThread,
         JoinThread, NextCycle, Posting
    <3> QED BY <3>1, <3>2
  <2>2. sem \in Nat /\ Cardinality(Posting) \in Nat
    BY <1>0, ThreadsFinite DEF Posting, TypeOK, SharedType
  <2>3. sem' + Waited' = sem + Waited
    <3>1. CASE SemWait
      BY <1>0, <2>2, <3>1, Sizes, SMTT(20) DEF SemWait, Waited, PastWait,
         NumWritten, pfnVars
    <3>2. CASE WritePage
      <4>1. Len(written') = Len(written) + 1 /\ base' = base /\ sem' = sem
        BY <1>0, <3>2, SMTT(20) DEF WritePage, pfnVars, TypeOK, ConsumerType
      <4> QED BY <1>0, <3>2, <4>1, Sizes, SMTT(20) DEF WritePage, Waited, PastWait,
                 NumWritten
    <3>3. CASE ~ SemWait /\ ~ WritePage
      BY <1>2, <3>3 DEF Consumer, CreateThread, ScanThread, Finish, Found,
         Rescan, Timeout, WriteFails, FreeBuffer, ReleaseSlot, CancelThread,
         JoinThread, NextCycle, Waited, PastWait, NumWritten, pfnVars, Active
    <3> QED BY <3>1, <3>2, <3>3
  <2>4. Waited \in Int /\ Waited' \in Int /\ sem' \in Int
    <3>1. NumWritten \in Int /\ NumWritten' \in Int /\ sem' \in Int
      BY <1>0, SMTT(20) DEF TypeInv, TypeOK, SharedType, ConsumerType, NumWritten
    <3> QED BY <3>1, SMTT(20) DEF Waited
  <2> QED BY <2>0, <2>1, <2>2, <2>3, <2>4
<1> QED BY <1>1, <1>2

-----------------------------------------------------------------------------
(***************************************************************************)
(* Scanning.                                                               *)
(***************************************************************************)
\* The page the consumer looks for has been taken.
LEMMA SoughtIndex ==
    ASSUME TypeInv, Pages, Counting, cpc \in PastWait
    PROVE  NumWritten + 1 \in 1 .. Len(taken) /\ NumReleased = NumWritten
<1>1. TypeOK /\ cpc \in Active
  BY DEF TypeInv, PastWait, Active
<1>2. NumReleased = NumWritten
  BY DEF NumReleased, PastWait
<1>3. Waited = NumWritten + 1
  BY DEF Waited
<1>4. Len(written) \in Nat /\ base \in Nat /\ base <= Len(written)
  BY <1>1, Sizes DEF Pages, WrittenTaken
<1> QED BY <1>1, <1>2, <1>3, <1>4, WaitedTaken, Sizes, SMTT(20) DEF NumWritten

\* A page in a list was taken after the pages written, so not before Sought.
LEMMA SoughtFirst ==
    ASSUME TypeInv, Pages, Counting, cpc \in PastWait,
           NEW t \in Threads, NEW s \in Slots, InUse(t, s), slotPfn[t][s] < end_pfn
    PROVE  Sought < end_pfn /\ Sought <= slotPfn[t][s]
<1>0. TypeOK /\ cpc \in Active
  BY DEF TypeInv, PastWait, Active
<1>1. NumWritten + 1 \in 1 .. Len(taken) /\ NumReleased = NumWritten
  BY SoughtIndex
<1>2. PICK j \in 1 .. Len(taken) : j > NumReleased /\ taken[j] = slotPfn[t][s]
  BY <1>0 DEF Pages, InUseTaken
<1>3. Sought = taken[NumWritten + 1] /\ Sought \in Nat /\ taken[j] \in Nat
  BY <1>0, <1>1, Sizes DEF Sought
<1>4. CASE j = NumWritten + 1
  BY <1>2, <1>3, <1>4, SMTT(20)
<1>5. CASE j # NumWritten + 1
  <2>1. taken[NumWritten + 1] < taken[j]
    BY <1>0, <1>1, <1>2, <1>5, Sizes, SMTT(20) DEF Pages, TakenOrder
  <2> QED BY <1>0, <1>2, <1>3, <2>1, Sizes, SMTT(20)
<1> QED BY <1>4, <1>5

\* When the consumer looks for a page, the page is at the head of a list.
LEMMA Visible ==
    ASSUME TypeInv, Lists, Pages, Counting, cpc \in PastWait, Sought < end_pfn
    PROVE  \E t \in Threads : AtHead(t)
<1>0. TypeOK /\ cpc \in Active
  BY DEF TypeInv, PastWait, Active
<1>1. NumWritten + 1 \in 1 .. Len(taken) /\ NumReleased = NumWritten
  BY SoughtIndex
<1>2. PICK t \in Threads, s \in Slots : InUse(t, s) /\ slotPfn[t][s] = Sought
  BY <1>0, <1>1, Sizes, SMTT(20) DEF Pages, TakenInUse, Sought
<1>3. s = head[t]
  <2> SUFFICES ASSUME s # head[t] PROVE FALSE
    OBVIOUS
  <2>1. head[t] \in Slots /\ Rank(t, head[t]) < Rank(t, s)
    <3>1. head[t] \in Slots
      BY <1>0 DEF TypeOK, SlotType
    <3> QED BY <1>0, <3>1, RankFacts, SMTT(20)
  <2>2. InUse(t, head[t]) /\ slotPfn[t][head[t]] < slotPfn[t][s]
    BY <1>0, <1>2, <2>1 DEF Lists, ListInv, Interval
  <2>3. slotPfn[t][head[t]] \in Nat /\ slotPfn[t][s] \in Nat
    BY <1>0, <2>1 DEF TypeOK, SlotType
  <2> QED BY <1>0, <1>2, <2>1, <2>2, <2>3, SoughtFirst, Sizes, SMTT(20)
<1>4. ready[t][s] # "UNUSED"
  <2> SUFFICES ASSUME pc[t] = "fill", s = page_flag_buf[t] PROVE FALSE
    BY <1>2 DEF InUse
  <2>1. taken[Len(taken)] = Sought /\ Len(taken) \in 1 .. Len(taken)
    <3>1. slotPfn[t][s] = pfn[t]
      BY DEF TypeInv, Control, ProducerSlot, Filling
    <3>2. pfn[t] = taken[Len(taken)] /\ Len(taken) > 0
      BY <1>0 DEF Pages, Locked
    <3> QED BY <1>0, <1>2, <3>1, <3>2, Sizes, SMTT(20)
  <2>2. NumWritten + 1 = Len(taken)
    <3> SUFFICES ASSUME NumWritten + 1 # Len(taken) PROVE FALSE
      OBVIOUS
    <3>1. taken[NumWritten + 1] < taken[Len(taken)]
      BY <1>0, <1>1, <2>1, Sizes, SMTT(20) DEF Pages, TakenOrder
    <3> QED BY <1>0, <1>1, <2>1, <3>1, Sizes, SMTT(20) DEF Sought
  <2>3. Cardinality(Posting) = 0
    <3>1. Cardinality(Posting) \in Nat /\ sem \in Nat
      BY <1>0, ThreadsFinite DEF Posting, TypeOK, SharedType
    <3>2. sem + Waited + Cardinality(Posting) = Len(taken)
      BY <1>0 DEF Counting
    <3>3. Waited = NumWritten + 1
      BY <1>0 DEF Waited
    <3>4. NumWritten \in Int /\ Len(taken) \in Nat
      BY <1>0, Sizes
    <3> QED BY <2>2, <3>1, <3>2, <3>3, <3>4, SMTT(20)
  <2>4. t \in Posting /\ IsFiniteSet(Posting)
    BY ThreadsFinite DEF Posting
  <2> QED BY <2>3, <2>4, FS_EmptySet
<1> QED BY <1>2, <1>3, <1>4 DEF AtHead

\* A producer's step neither hides nor reveals the page the consumer seeks.
LEMMA AtHeadStable ==
    ASSUME TypeInv, Lists, Pages, Counting, cpc \in PastWait, Sought < end_pfn,
           NEW t \in Threads, Producer(t), NEW u \in Threads,
           Sought' = Sought
    PROVE  AtHead(u)' <=> AtHead(u)
<1>0. /\ TypeOK /\ cpc \in Active /\ head' = head
      /\ \A v \in Threads : head[v] \in Slots
  BY ProducerFrame DEF TypeInv, TypeOK, SlotType, PastWait, Active
<1>1. CASE ScanPfn(t)
  <2>1. ready' = ready /\ ~ InUse(t, page_flag_buf[t])
    BY <1>0, <1>1, ScanInUse DEF ScanPfn
  <2>2. \A s \in Slots : ready[u][s] # "UNUSED" => slotPfn'[u][s] = slotPfn[u][s]
    BY <1>0, <2>1, ProducerPrivate, SMTT(20) DEF InUse
  <2> QED BY <1>0, <2>1, <2>2 DEF AtHead
<1>2. CASE ~ ScanPfn(t)
  <2>1. slotPfn' = slotPfn /\ (InUse(u, head[u])' <=> InUse(u, head[u]))
    <3>1. /\ slotPfn' = slotPfn
          /\ \A v \in Threads : \A s \in Slots : InUse(v, s)' <=> InUse(v, s)
      BY <1>0, <1>2, ProducerInUse
    <3>2. PICK h \in Slots : h = head[u]
      BY <1>0
    <3>3. InUse(u, h)' <=> InUse(u, h)
      BY <3>1
    <3> QED BY <1>0, <3>1, <3>2, <3>3 DEF InUse
  <2>2. AtHead(u) => AtHead(u)'
    <3>1. ready[u][head[u]] # "UNUSED" => ready'[u][head[u]] # "UNUSED"
      <4>1. CASE MarkFilling(t) \/ MarkReady(t)
        <5>1. PICK r \in {"FILLING", "READY"} :
                  ready' = [ready EXCEPT ![t][page_flag_buf[t]] = r]
          BY <4>1 DEF MarkFilling, MarkReady
        <5>2. ready'[u][head[u]] \in {ready[u][head[u]], r}
          BY <1>0, <5>1 DEF TypeOK, SlotType, ProducerType
        <5> QED BY <5>2
      <4>2. CASE ~ MarkFilling(t) /\ ~ MarkReady(t)
        BY <4>2 DEF Producer, Begin, LockData, SkipBuffer, TakeBuffer,
           SlotFree, LockPfn, ScanPfn, Post, EndOfCycle, ReadFails,
           ReadZeroPage, ReadPage, Cancelled, flagVars
      <4> QED BY <4>1, <4>2
    <3> QED BY <1>0, <2>1, <3>1 DEF AtHead
  <2>3. AtHead(u)' => AtHead(u)
    <3> SUFFICES ASSUME AtHead(u)' PROVE AtHead(u)
      OBVIOUS
    <3>1. InUse(u, head[u]) /\ slotPfn[u][head[u]] = Sought
      BY <1>0, <2>1 DEF AtHead, InUse
    <3>2. PICK v \in Threads : AtHead(v)
      BY Visible
    <3>3. InUse(v, head[v]) /\ slotPfn[v][head[v]] = Sought
      BY <3>2 DEF AtHead, InUse
    <3>4. u = v
      BY <1>0, <3>1, <3>3 DEF Pages, OneSlot
    <3> QED BY <3>2, <3>4
  <2> QED BY <2>2, <2>3
<1> QED BY <1>1, <1>2

LEMMA ScanningProducer ==
    ASSUME TypeInv, Lists, Pages, Counting, Scanning, cpc \in Active,
           NEW t \in Threads, Producer(t)
    PROVE  Scanning'
<1>0. /\ TypeOK
      /\ UNCHANGED <<cpc, i, consuming, smallest, end_pfn, head>>
      /\ NumWritten' = NumWritten
      /\ consuming \in Threads /\ head[consuming] \in Slots
  BY ProducerFrame DEF TypeInv, TypeOK, ConsumerType, SlotType, NumWritten
<1>1. \A j \in 1 .. Len(taken) : taken'[j] = taken[j]
  <2>1. CASE ScanPfn(t)
    BY <1>0, <2>1, ScanTakes, TakenAppended
  <2>2. CASE ~ ScanPfn(t)
    BY <2>2, ProducerInUse
  <2> QED BY <2>1, <2>2
<1>2. cpc \in PastWait => Sought' = Sought
  <2>1. cpc \in PastWait => NumWritten + 1 \in 1 .. Len(taken)
    BY <1>0, WaitedTaken, Sizes, SMTT(20) DEF Waited, NumWritten, Pages,
       WrittenTaken
  <2> QED BY <1>0, <1>1, <2>1 DEF Sought
<1>3. cpc \in PastWait /\ Sought < end_pfn =>
          \A u \in Threads : AtHead(u)' <=> AtHead(u)
  BY <1>2, AtHeadStable
<1>4. cpc \in {"free_buffer", "release"} =>
          slotPfn'[consuming][head[consuming]] = taken'[NumWritten]
  <2> SUFFICES ASSUME cpc \in {"free_buffer", "release"}
               PROVE  slotPfn'[consuming][head[consuming]] = taken'[NumWritten]
    OBVIOUS
  <2>1. NumWritten \in 1 .. Len(taken)
    BY <1>0, Sizes, SMTT(20) DEF Pages, WrittenTaken
  <2>2. InUse(consuming, head[consuming])
    BY DEF TypeInv, Control, ReadySlots, Candidate, InUse
  <2>3. slotPfn'[consuming][head[consuming]] = slotPfn[consuming][head[consuming]]
    <3>1. CASE ScanPfn(t)
      BY <1>0, <2>2, <3>1, ScanInUse, ProducerPrivate, SMTT(20)
    <3>2. CASE ~ ScanPfn(t)
      BY <3>2, ProducerInUse
    <3> QED BY <3>1, <3>2
  <2> QED BY <1>1, <2>1, <2>3 DEF Scanning
<1>5. (cpc = "scan" =>
          /\ smallest <= end_pfn
          /\ smallest < end_pfn => Sought < end_pfn /\ Sought <= smallest
          /\ \A u \in Threads :
                u < i /\ Sought < end_pfn /\ AtHead(u) =>
                    smallest = Sought /\ consuming = u)'
  BY <1>0, <1>2, <1>3 DEF Scanning, PastWait
<1>6. (cpc \in {"check", "write"} /\ Sought < end_pfn =>
          smallest = Sought /\ AtHead(consuming))'
  <2> SUFFICES ASSUME cpc \in {"check", "write"}, Sought < end_pfn
               PROVE  smallest = Sought /\ AtHead(consuming)'
    BY <1>0, <1>2 DEF PastWait
  <2>1. smallest = Sought /\ AtHead(consuming)
    BY DEF Scanning
  <2>2. PICK c \in Threads : c = consuming
    BY <1>0
  <2>3. AtHead(c)'
    BY <1>3, <2>1, <2>2 DEF PastWait
  <2> QED BY <1>0, <2>1, <2>2, <2>3 DEF AtHead
<1> QED BY <1>0, <1>2, <1>4, <1>5, <1>6 DEF Scanning, PastWait

LEMMA ScanningConsumer ==
    ASSUME TypeInv, TypeInv', Lists, Pages, Counting, Scanning, Consumer
    PROVE  Scanning'
<1> USE ThreadFacts
<1>0. TypeOK /\ i \in Threads /\ consuming \in Threads
      /\ \A t \in Threads : head[t] \in Slots
  BY DEF TypeInv, TypeOK, ConsumerType, SlotType
<1>1. CASE SemWait
  <2>1. cpc' = "scan" /\ i' = 0 /\ smallest' = end_pfn /\ end_pfn' = end_pfn
        /\ end_pfn \in Nat
    BY <1>0, <1>1, Sizes DEF SemWait
  <2> QED BY <2>1, SMTT(20) DEF Scanning
<1>2. CASE ScanThread
  <2>0. /\ cpc = "scan" /\ cpc \in PastWait
        /\ UNCHANGED <<end_pfn, taken, base, written, slotPfn, head>>
        /\ NumWritten' = NumWritten /\ Sought' = Sought
    BY <1>2 DEF ScanThread, pfnVars, PastWait, NumWritten, Sought
  <2> DEFINE p == slotPfn[i][head[i]]
             inUse == ready[i][head[i]] # "UNUSED"
             smaller == inUse /\ p < end_pfn /\ ~ (smallest < p)
  <2>1. /\ consuming' = IF smaller THEN i ELSE consuming
        /\ smallest' = IF smaller THEN p ELSE smallest
    BY <1>2 DEF ScanThread
  <2>2. /\ p \in Nat /\ end_pfn \in Nat /\ smallest \in Nat /\ i \in Nat
        /\ Sought < end_pfn => Sought \in Nat
    <3>1. NumWritten + 1 \in 1 .. Len(taken)
      BY <1>0, <2>0, WaitedTaken, Sizes, SMTT(20) DEF Waited, PastWait, Active,
         NumWritten, Pages, WrittenTaken
    <3>2. Sought \in Nat /\ end_pfn \in Nat
      BY <1>0, <3>1, Sizes DEF Sought
    <3>3. p \in Nat
      BY <1>0, SMTT(20) DEF TypeOK, SlotType
    <3>4. smallest \in Nat
      BY <1>0, SMTT(20) DEF TypeOK, ConsumerType
    <3> QED BY <1>0, <3>2, <3>3, <3>4
  <2>3. inUse /\ p < end_pfn => Sought < end_pfn /\ Sought <= p
    BY <1>0, <2>0, SoughtFirst DEF InUse
  <2>4. \A t \in Threads : Sought < end_pfn /\ AtHead(t)' => AtHead(t)
    BY <1>0, <1>2, <2>0 DEF ScanThread, AtHead, TypeInv, TypeOK, SlotType
  <2>5. \A t \in Threads : Sought < end_pfn /\ AtHead(t) => AtHead(t)'
    <3>1. CASE AtMarker
      BY <1>0, <1>2, <2>0, <2>2, <3>1, SMTT(20) DEF ScanThread, AtMarker, AtHead,
         TypeOK, SlotType
    <3>2. CASE ~ AtMarker
      BY <1>2, <2>0, <3>2, NoMarkerInUse DEF AtHead
    <3> QED BY <3>1, <3>2
  <2>6. /\ smallest' <= end_pfn
        /\ smallest' < end_pfn => Sought < end_pfn /\ Sought <= smallest'
    BY <2>0, <2>1, <2>2, <2>3, SMTT(20) DEF Scanning
  <2>7. ASSUME NEW t \in Threads, t <= i, Sought < end_pfn, AtHead(t)
        PROVE  smallest' = Sought /\ consuming' = t
    <3>1. CASE t = i
      BY <2>0, <2>1, <2>2, <2>7, <3>1, SMTT(20) DEF AtHead, Scanning
    <3>2. CASE t # i
      <4>1. smallest = Sought /\ consuming = t
        BY <2>0, <2>2, <2>7, <3>2, SMTT(20) DEF Scanning
      <4>2. ~ smaller
        <5> SUFFICES ASSUME smaller PROVE FALSE
          OBVIOUS
        <5>1. p = Sought /\ InUse(i, head[i]) /\ InUse(t, head[t])
          BY <2>2, <2>3, <2>7, <4>1, SMTT(20) DEF InUse, AtHead
        <5> QED BY <1>0, <2>0, <2>7, <3>2, <5>1 DEF AtHead, Pages, OneSlot,
                   Active
      <4> QED BY <2>1, <4>1, <4>2
    <3> QED BY <3>1, <3>2
  <2>8. CASE i = NumThreads - 1
    <3>1. cpc' = "check" /\ i' = 0
      BY <1>2, <2>8 DEF ScanThread
    <3>2. Sought < end_pfn => smallest' = Sought /\ AtHead(consuming)'
      <4> SUFFICES ASSUME Sought < end_pfn
                   PROVE  smallest' = Sought /\ AtHead(consuming)'
        OBVIOUS
      <4>1. PICK t \in Threads : AtHead(t)
        BY <2>0, Visible
      <4>2. smallest' = Sought /\ consuming' = t /\ AtHead(t)'
        BY <1>0, <2>5, <2>7, <2>8, <4>1
      <4> QED BY <4>2 DEF AtHead
    <3> QED BY <2>0, <3>1, <3>2 DEF Scanning
  <2>9. CASE i # NumThreads - 1
    <3>1. cpc' = "scan" /\ i' = i + 1
      BY <1>2, <2>0, <2>9 DEF ScanThread
    <3> QED BY <2>0, <2>2, <2>4, <2>6, <2>7, <3>1, SMTT(20) DEF Scanning
  <2> QED BY <2>8, <2>9
<1>3. CASE Rescan
  BY <1>0, <1>3, Sizes, SMTT(20) DEF Rescan, Scanning
<1>4. CASE Found
  <2>1. UNCHANGED <<end_pfn, taken, base, written, slotPfn, head, ready, smallest,
                    consuming>>
        /\ cpc = "check" /\ cpc' = "write"
    BY <1>4 DEF Found, pfnVars, flagVars
  <2>2. Sought < end_pfn
    <3>1. /\ InUse(consuming, head[consuming])
          /\ slotPfn[consuming][head[consuming]] < end_pfn
      BY <1>0, <1>4 DEF Found, Candidate, InUse, TypeInv, Control, ReadySlots
    <3> QED BY <1>0, <2>1, <3>1, SoughtFirst DEF PastWait
  <2> QED BY <2>1, <2>2 DEF Scanning, Sought, NumWritten, AtHead
<1>5. CASE WritePage
  <2>1. /\ UNCHANGED <<end_pfn, taken, base, slotPfn, head, consuming>>
        /\ cpc = "write" /\ cpc' \in {"free_buffer", "release"}
        /\ Len(written') = Len(written) + 1
    BY <1>0, <1>5, SMTT(20) DEF WritePage, pfnVars, flagVars, TypeOK, ConsumerType
  <2>2. slotPfn[consuming][head[consuming]] = Sought /\ NumWritten' = NumWritten + 1
    BY <1>0, <2>1, Sizes, SMTT(20) DEF Scanning, AtHead, NumWritten
  <2> QED BY <2>1, <2>2 DEF Scanning, Sought
<1>6. CASE FreeBuffer
  BY <1>6 DEF FreeBuffer, Scanning, pfnVars, flagVars, NumWritten
<1>7. CASE \/ Prepare \/ CreateThread \/ Finish \/ Timeout \/ WriteFails
           \/ ReleaseSlot \/ CancelThread \/ JoinThread \/ NextCycle
  <2>1. cpc' \notin {"scan", "check", "write", "free_buffer", "release"}
    BY <1>7 DEF Prepare, CreateThread, Finish, Timeout, WriteFails,
       ReleaseSlot, CancelThread, JoinThread, NextCycle
  <2> QED BY <2>1 DEF Scanning
<1> QED BY <1>1, <1>2, <1>3, <1>4, <1>5, <1>6, <1>7 DEF Consumer

-----------------------------------------------------------------------------
(***************************************************************************)
(* Ends.                                                                   *)
(***************************************************************************)
LEMMA CreatedThreads ==
    ASSUME TypeOK
    PROVE  Created \subseteq Threads /\ Counted \in SUBSET Threads
<1>1. \A n \in Threads : 0 .. n - 1 \subseteq Threads
  BY ThreadsAssumption, SMTT(20) DEF Threads
<1>2. Created \subseteq Threads
  BY <1>1 DEF Created, TypeOK, ConsumerType
<1> QED BY <1>2 DEF Counted

\* When every thread is counted, every list is empty and every producer ends.
LEMMA AllCounted ==
    ASSUME TypeOK, Ends, cpc \in Active, end_count >= NumThreads
    PROVE  Counted = Threads /\ end_count = NumThreads
<1>1. end_count = Cardinality(Counted)
  BY DEF Ends
<1>2. Cardinality(Counted) \in Nat /\ Cardinality(Counted) <= NumThreads
      /\ (Cardinality(Counted) = NumThreads => Counted = Threads)
  BY CreatedThreads, ThreadsFinite
<1> QED BY <1>1, <1>2, ThreadsAssumption, SMTT(20)

LEMMA EndsProducer ==
    ASSUME TypeInv, Lists, Pages, Ends, NEW t \in Threads, Producer(t)
    PROVE  Ends'
<1>0. /\ TypeOK /\ pc[t] \notin Ended
      /\ UNCHANGED <<cpc, i, end_pfn, end_count>>
      /\ Created' = Created
  BY ProducerFrame, ProducerMoves DEF TypeInv, Created
<1>1. CASE cpc \in Active
  <2>1. Counted' = Counted
    <3>1. ASSUME NEW u \in Threads, u # t
          PROVE  pc'[u] = pc[u] /\ pfn'[u] = pfn[u] /\ ready'[u] = ready[u]
      BY <1>0, <3>1, ProducerMoves, ProducerPrivate
    <3>2. (/\ pc[t] \in {"post", "end", "done"} /\ pfn[t] >= end_pfn
           /\ \A s \in Slots : ready[t][s] = "UNUSED")' <=>
           /\ pc[t] \in {"post", "end", "done"} /\ pfn[t] >= end_pfn
           /\ \A s \in Slots : ready[t][s] = "UNUSED"
      <4> USE DEF TypeOK, ProducerType, SlotType, Goto
      <4>1. CASE Post(t) \/ EndOfCycle(t)
        BY <1>0, <4>1 DEF Post, EndOfCycle, flagVars, localVars
      <4>2. CASE MarkFilling(t)
        BY <1>0, <4>2 DEF MarkFilling
      <4>3. CASE Cancelled(t)
        BY <1>0, <4>3 DEF Cancelled
      <4>4. CASE \/ Begin(t) \/ LockData(t) \/ SkipBuffer(t) \/ TakeBuffer(t)
                 \/ SlotFree(t) \/ LockPfn(t)
        BY <1>0, <4>4 DEF Begin, LockData, SkipBuffer, TakeBuffer, SlotFree,
           LockPfn
      <4>5. CASE \/ ScanPfn(t) \/ ReadFails(t) \/ ReadZeroPage(t) \/ ReadPage(t)
                 \/ MarkReady(t)
        BY <1>0, <4>5 DEF ScanPfn, ReadFails, ReadZeroPage, ReadPage, MarkReady
      <4> QED BY <4>1, <4>2, <4>3, <4>4, <4>5 DEF Producer
    <3>3. Created \subseteq Threads
      BY <1>0, CreatedThreads
    <3>4. ASSUME NEW u \in Threads
          PROVE  (/\ pc[u] \in {"post", "end", "done"} /\ pfn[u] >= end_pfn
                  /\ \A s \in Slots : ready[u][s] = "UNUSED")' <=>
                  /\ pc[u] \in {"post", "end", "done"} /\ pfn[u] >= end_pfn
                  /\ \A s \in Slots : ready[u][s] = "UNUSED"
      <4>1. CASE u = t
        BY <3>2, <4>1
      <4>2. CASE u # t
        BY <1>0, <3>1, <4>2
      <4> QED BY <4>1, <4>2
    <3> QED BY <1>0, <3>3, <3>4 DEF Counted
  <2> QED BY <1>0, <1>1, <2>1 DEF Ends, Active
<1>2. CASE cpc \in {"cancel", "join", "return"}
  <2>1. end_count >= NumThreads => UNCHANGED pfn /\ pc'[t] \in {"post", "end", "done"}
    <3> SUFFICES ASSUME end_count >= NumThreads
                 PROVE  UNCHANGED pfn /\ pc'[t] \in {"post", "end", "done"}
      OBVIOUS
    <3>1. pc[t] \in {"post", "end"} /\ pfn[t] >= end_pfn
      BY <1>0, <1>2 DEF Ends, Ended
    <3>2. Post(t) \/ EndOfCycle(t)
      BY <3>1 DEF Producer, Begin, LockData, SkipBuffer, TakeBuffer, SlotFree,
         LockPfn, ScanPfn, MarkFilling, ReadFails, ReadZeroPage, ReadPage,
         MarkReady, Cancelled, Goto
    <3> QED BY <1>0, <3>1, <3>2 DEF Post, EndOfCycle, Goto, localVars, TypeOK,
               ProducerType
  <2> QED BY <1>0, <1>2, <2>1, ProducerMoves DEF Ends, Active
<1>3. CASE cpc \in {"complete", "incomplete", "prepare"}
  BY <1>0, <1>3 DEF TypeInv, Control, ThreadsWait, AllEnded
<1> QED BY <1>0, <1>1, <1>2, <1>3 DEF TypeOK, ConsumerType, ConsumerPc, Active

LEMMA EndsConsumer ==
    ASSUME TypeInv, Lists, Pages, Ends, Consumer
    PROVE  Ends'
<1> USE ThreadFacts
<1>0. /\ TypeOK /\ i \in Threads /\ consuming \in Threads /\ end_count \in Nat
      /\ NumThreads \in Nat \ {0} /\ \A t \in Threads : head[t] \in Slots
  BY ThreadsAssumption DEF TypeInv, TypeOK, ConsumerType, SlotType
<1>1. CASE Prepare
  <2>1. cpc' = "create" /\ Counted' = {} /\ end_count' = 0
    <3>1. cpc' = "create" /\ i' = 0 /\ end_count' = 0
      BY <1>1 DEF Prepare
    <3>2. Created' = {}
      BY <3>1, SMTT(20) DEF Created
    <3> QED BY <3>1, <3>2 DEF Counted
  <2> QED BY <2>1, FS_EmptySet DEF Ends, Active
<1>2. CASE CreateThread
  <2>1. /\ cpc = "create" /\ cpc' \in {"create", "sem_wait"}
        /\ UNCHANGED <<end_count, ready, end_pfn>>
        /\ pc' = [pc EXCEPT ![i] = "begin"] /\ pfn' = [pfn EXCEPT ![i] = start_pfn]
    BY <1>2 DEF CreateThread, flagVars
  <2>2. i \notin Created /\ Created \subseteq Threads
        /\ Created' = Created \cup {i}
    BY <1>0, <1>2, CreatedThreads, SMTT(20) DEF CreateThread, Created, Threads
  <2>3. Counted' = Counted
    BY <1>0, <2>1, <2>2, SMTT(20) DEF Counted, TypeOK, ProducerType
  <2> QED BY <1>0, <2>1, <2>3 DEF Ends, Active
<1>3. CASE ScanThread
  <2>0. /\ cpc = "scan" /\ cpc' \in {"scan", "check"} /\ Created = Threads
        /\ Created' = Threads /\ UNCHANGED <<pc, pfn, end_pfn>>
    BY <1>3 DEF ScanThread, Created, localVars
  <2>1. end_count' = Cardinality(Counted')
    <3>1. CASE AtMarker
      <4>1. /\ end_count' = end_count + 1
            /\ ready' = [ready EXCEPT ![i][head[i]] = "UNUSED"]
        BY <1>0, <1>3, <3>1 DEF ScanThread, AtMarker, TypeOK, SlotType
      <4>2. i \notin Counted
        BY <1>0, <3>1 DEF AtMarker, Counted
      <4>3. /\ pc[i] \in {"post", "end", "done"} /\ pfn[i] >= end_pfn
            /\ \A s \in Slots : ready'[i][s] = "UNUSED"
        <5>1. /\ pc[i] \in {"post", "end", "done"} /\ pfn[i] >= end_pfn
              /\ \A s \in Slots : InUse(i, s) => s = head[i]
          BY <1>0, <1>3, <3>1, MarkerInUse
        <5>2. \A s \in Slots : ready'[i][s] = "UNUSED"
          BY <1>0, <4>1, <5>1 DEF InUse, TypeOK, SlotType, ConsumerType
        <5> QED BY <5>1, <5>2
      <4>4. Counted' = Counted \cup {i}
        BY <1>0, <2>0, <4>1, <4>3 DEF Counted, TypeOK, SlotType
      <4>5. IsFiniteSet(Counted) /\ end_count = Cardinality(Counted)
        BY <1>0, <2>0, CreatedThreads, ThreadsFinite DEF Ends, Active
      <4> QED BY <4>1, <4>2, <4>4, <4>5, FS_AddElement
    <3>2. CASE ~ AtMarker
      BY <1>3, <2>0, <3>2, NoMarkerInUse, SMTT(20) DEF Counted, Ends, Active
    <3> QED BY <3>1, <3>2
  <2> QED BY <2>0, <2>1 DEF Ends
<1>4. CASE ReleaseSlot
  <2>0. /\ cpc = "release" /\ cpc' = "sem_wait" /\ Created' = Created
        /\ UNCHANGED <<pc, pfn, page_flag_buf, end_pfn, end_count>>
        /\ ready' = [ready EXCEPT ![consuming][head[consuming]] = "UNUSED"]
        /\ Created = Threads
    BY <1>4 DEF ReleaseSlot, localVars, Created
  <2>1. ready[consuming][head[consuming]] = "READY"
    BY <2>0 DEF TypeInv, Control, ReadySlots, Candidate
  <2>2. pc[consuming] \in {"post", "end", "done"} =>
            \E s \in Slots : ready'[consuming][s] # "UNUSED"
    <3> SUFFICES ASSUME pc[consuming] \in {"post", "end", "done"}
                 PROVE  \E s \in Slots : ready'[consuming][s] # "UNUSED"
      OBVIOUS
    <3> DEFINE b == page_flag_buf[consuming]
    <3>1. b \in Slots /\ ready[consuming][b] # "READY" /\ InUse(consuming, b)
      BY <1>0, <2>0, <2>1 DEF Lists, ListInv, FillingList, Filling, Active,
         InUse, TypeOK, ProducerType
    <3>2. ready[consuming][b] # "UNUSED" /\ b # head[consuming]
      BY <2>1, <3>1 DEF InUse
    <3> QED BY <1>0, <2>0, <3>1, <3>2 DEF TypeOK, SlotType
  <2>3. consuming \notin Counted /\ consuming \notin Counted'
    BY <1>0, <2>0, <2>1, <2>2 DEF Counted
  <2>4. Counted' = Counted
    BY <1>0, <2>0, <2>3 DEF Counted, TypeOK, SlotType
  <2> QED BY <2>0, <2>4 DEF Ends, Active
<1>5. CASE SemWait \/ Found \/ Rescan \/ WritePage \/ FreeBuffer
  <2>1. /\ cpc \in Active \ {"create"} /\ cpc' \in Active \ {"create"}
        /\ UNCHANGED <<end_count, ready, pc, pfn, end_pfn>>
        /\ cpc' = "write" => cpc = "check" /\ end_count < NumThreads
        /\ cpc' \in {"free_buffer", "release"} => cpc \in {"write", "free_buffer"}
        /\ cpc' # "sem_wait"
    BY <1>5 DEF SemWait, Found, Rescan, WritePage, FreeBuffer, Active,
       flagVars, localVars
  <2>2. Counted' = Counted
    BY <2>1 DEF Counted, Created
  <2> QED BY <2>1, <2>2 DEF Ends, Active
<1>6. CASE Finish \/ Timeout \/ WriteFails
  <2>1. /\ cpc \in {"check", "write"} /\ cpc' = "cancel"
        /\ UNCHANGED <<end_count, pc, pfn, end_pfn>>
        /\ ~ Finish => end_count < NumThreads
    BY <1>6 DEF Finish, Timeout, WriteFails, localVars, Ends
  <2>2. end_count >= NumThreads =>
            /\ end_count = NumThreads
            /\ \A t \in Threads : pc[t] \in {"post", "end", "done"}
                                  /\ pfn[t] >= end_pfn
    BY <1>0, <2>1, AllCounted DEF Counted, Active
  <2> QED BY <2>1, <2>2 DEF Ends, Active
<1>7. CASE CancelThread \/ JoinThread
  BY <1>7 DEF CancelThread, JoinThread, Ends, Active, localVars
<1>8. CASE NextCycle
  BY <1>8 DEF NextCycle, Ends, Active, EndsCountedOnce
<1> QED BY <1>1, <1>2, <1>3, <1>4, <1>5, <1>6, <1>7, <1>8 DEF Consumer

-----------------------------------------------------------------------------
(***************************************************************************)
(* Pages, the consumer's steps.                                            *)
(***************************************************************************)
(* OneSlot depends on the slots and on the bounds of the cycle only. *)
LEMMA OneSlotFrame ==
    ASSUME UNCHANGED <<ready, pc, page_flag_buf, slotPfn, end_pfn>>
    PROVE  OneSlot' = OneSlot
<1>1. \A t \in Threads : \A s \in Slots : InUse(t, s)' = InUse(t, s)
  BY DEF InUse
<1> QED BY <1>1, SMTT(20) DEF OneSlot

\* The page the consumer writes is the first dumpable one not yet written.
LEMMA WriteOrder ==
    ASSUME TypeInv, Lists, CyclePages, OrderedWrites, Pages, Counting, Scanning,
           WritePage
    PROVE  /\ Len(written') = Len(written) + 1
           /\ NumWritten + 1 \in 1 .. Len(taken)
           /\ written'[Len(written) + 1].pfn = taken[NumWritten + 1]
           /\ taken[NumWritten + 1] < end_pfn
           /\ \A n \in 1 .. Len(written) : written'[n] = written[n]
           /\ OrderedWrites'
<1>0. TypeOK /\ cpc = "write" /\ cpc \in Active
  BY DEF TypeInv, WritePage, Active
<1>1. /\ Len(written') = Len(written) + 1
      /\ written'[Len(written) + 1] = Descriptor
      /\ \A n \in 1 .. Len(written) : written'[n] = written[n]
      /\ Len(written) \in Nat
  BY <1>0, SMTT(20) DEF WritePage, TypeOK, ConsumerType
<1>2. NumWritten + 1 \in 1 .. Len(taken) /\ NumWritten \in Nat
  BY <1>0, WaitedTaken, Sizes, SMTT(20) DEF Waited, PastWait, NumWritten,
     CyclePages, WrittenTaken
<1> DEFINE d == taken[NumWritten + 1]
<1>3. Descriptor.pfn = d /\ d < end_pfn
  <2>1. Descriptor.pfn = slotPfn[consuming][head[consuming]]
    BY DEF Descriptor
  <2> QED BY <1>0, <2>1 DEF Scanning, AtHead, Sought
<1>4. d \in Dumpable /\ start_pfn <= d /\ d < current_pfn
  BY <1>2, <1>3 DEF CyclePages, TakenPages
<1>5. /\ d \in Nat /\ start_pfn \in Nat /\ end_pfn \in Nat /\ current_pfn \in Nat
      /\ Len(taken) \in Nat /\ base \in Nat /\ Len(written) = base + NumWritten
      /\ \A j \in 1 .. Len(taken) : taken[j] \in Nat
      /\ \A n \in 1 .. Len(written) : written[n].pfn \in Nat
      /\ Dumpable \subseteq Nat
  BY <1>0, <1>2, Sizes, PagesAssumption, SMTT(30) DEF NumWritten
<1>6. \A n \in 1 .. Len(written) : written[n].pfn < d
  <2> TAKE n \in 1 .. Len(written)
  <2>1. CASE n <= base
    BY <1>4, <1>5, <2>1, SMTT(20) DEF CyclePages, WrittenTaken
  <2>2. CASE n > base
    <3>1. PICK j \in 1 .. NumWritten : n = base + j
      BY <1>2, <1>5, <2>2, SMTT(20)
    <3>2. written[n].pfn = taken[j] /\ j \in 1 .. Len(taken)
      BY <1>2, <1>5, <3>1, SMTT(20) DEF CyclePages, WrittenTaken
    <3> QED BY <1>2, <1>3, <1>5, <3>1, <3>2, SMTT(20) DEF CyclePages, TakenOrder
  <2> QED BY <1>5, <2>1, <2>2, SMTT(20)
<1>7. \A q \in Dumpable : q < d => \E n \in 1 .. Len(written) : written[n].pfn = q
  <2> SUFFICES ASSUME NEW q \in Dumpable, q < d
               PROVE  \E n \in 1 .. Len(written) : written[n].pfn = q
    OBVIOUS
  <2>1. CASE q < start_pfn
    BY <1>2, <1>5, <2>1, SMTT(20) DEF CyclePages, WrittenTaken
  <2>2. CASE start_pfn <= q
    <3>1. PICK j \in 1 .. Len(taken) : taken[j] = q
      BY <1>3, <1>4, <1>5, <2>2, SMTT(20) DEF CyclePages, TakenAll
    <3>2. j \in 1 .. NumWritten
      <4>1. ~ (NumWritten + 1 < j)
        BY <1>2, <1>3, <1>5, <3>1, SMTT(20) DEF CyclePages, TakenOrder
      <4> QED BY <1>2, <1>5, <3>1, <4>1, SMTT(20)
    <3>3. base + j \in 1 .. Len(written) /\ written[base + j].pfn = q
      BY <1>2, <1>5, <3>1, <3>2, SMTT(20) DEF CyclePages, WrittenTaken
    <3> QED BY <3>3
  <2> QED BY <1>5, <2>1, <2>2, SMTT(20)
<1>8. \A n \in 1 .. Len(written') :
          \/ n \in 1 .. Len(written) /\ written'[n].pfn = written[n].pfn
          \/ n = Len(written) + 1 /\ written'[n].pfn = d
  BY <1>1, <1>3, SMTT(20)
<1>9. OrderedWrites'
  <2>1. \A m, n \in 1 .. Len(written') :
            m < n => written'[m].pfn < written'[n].pfn
    BY <1>1, <1>6, <1>8, SMTT(20) DEF OrderedWrites
  <2>2. ASSUME NEW n \in 1 .. Len(written'), NEW q \in Dumpable, q < written'[n].pfn
        PROVE  \E m \in 1 .. n : written'[m].pfn = q
    <3>1. CASE n \in 1 .. Len(written)
      <4>1. PICK m \in 1 .. n : written[m].pfn = q
        BY <1>1, <2>2, <3>1 DEF OrderedWrites
      <4> QED BY <1>1, <3>1, <4>1, SMTT(20)
    <3>2. CASE n = Len(written) + 1
      <4>1. PICK m \in 1 .. Len(written) : written[m].pfn = q
        BY <1>1, <1>3, <1>7, <2>2, <3>2
      <4> QED BY <1>1, <3>2, <4>1, SMTT(20)
    <3> QED BY <1>8, <3>1, <3>2
  <2>3. \A n \in 1 .. Len(written') : written'[n].pfn \in Dumpable
    BY <1>4, <1>8 DEF OrderedWrites
  <2> QED BY <2>1, <2>2, <2>3 DEF OrderedWrites
<1> QED BY <1>1, <1>2, <1>3, <1>9

\* The steps that leave the histories alone, and the page slots in use.
LEMMA PagesFrame ==
    ASSUME CyclePages, Locked',
           UNCHANGED <<ret, start_pfn, end_pfn, current_pfn, taken, written, base,
                       slotPfn>>,
           NumReleased' = NumReleased,
           cpc' \in {"free_buffer", "release"} => cpc \in {"free_buffer", "release"},
           \A t \in Threads : \A s \in Slots :
              /\ InUse(t, s)' => InUse(t, s)
              /\ InUse(t, s) /\ slotPfn[t][s] < end_pfn => InUse(t, s)'
    PROVE  CyclePages'
<1>1. NumWritten' = NumWritten
  BY DEF NumWritten
<1>2. TakenOrder' /\ TakenPages' /\ TakenAll' /\ WrittenTaken'
  BY <1>1 DEF CyclePages, TakenOrder, TakenPages, TakenAll, WrittenTaken
<1>3. TakenInUse' /\ InUseTaken' /\ OneSlot'
  BY SMTT(20) DEF CyclePages, TakenInUse, InUseTaken, OneSlot
<1> QED BY <1>2, <1>3 DEF CyclePages

LEMMA PagesConsumer ==
    ASSUME TypeInv, Lists, Pages, Counting, Scanning, Consumer, cpc' \in Active
    PROVE  CyclePages'
<1> USE ThreadFacts
<1>0. /\ TypeOK /\ i \in Threads /\ consuming \in Threads
      /\ \A t \in Threads : head[t] \in Slots
      /\ cpc \in Active => CyclePages
  BY DEF TypeInv, TypeOK, ConsumerType, SlotType, Pages, CyclePages
<1>1. CASE Prepare
  <2>1. /\ cpc' = "create" /\ ret' = FALSE /\ taken' = << >>
        /\ base' = Len(written') /\ current_pfn' = start_pfn'
        /\ UNCHANGED <<start_pfn, end_pfn, written, ready, pc>>
        /\ AllUnused /\ AllEnded /\ WrittenBelow(start_pfn)
        /\ \A n \in 1 .. Len(written) : written[n].pfn < start_pfn
        /\ Created' = {}
    BY <1>1, SMTT(20) DEF Prepare, flagVars, Pages, TypeInv, Control, ThreadsWait,
       Created
  <2>2. \A t \in Threads : \A s \in Slots : ~ InUse(t, s)'
    BY <2>1 DEF AllUnused, AllEnded, InUse, Ended
  <2>3. NumWritten' = 0
    BY <1>0, <2>1, Sizes, SMTT(20) DEF NumWritten
  <2>4. TakenOrder' /\ TakenPages' /\ TakenInUse' /\ InUseTaken' /\ OneSlot'
    BY <2>1, <2>2, SMTT(20) DEF TakenOrder, TakenPages, TakenInUse, InUseTaken,
       OneSlot
  <2>5. TakenAll' /\ start_pfn' <= current_pfn'
    BY <1>0, <2>1, Sizes, PagesAssumption, SMTT(20) DEF TakenAll
  <2>6. WrittenTaken'
    BY <1>0, <2>1, <2>3, Sizes, SMTT(20) DEF WrittenTaken, WrittenBelow
  <2>7. Locked'
    BY <2>1 DEF Locked, AllEnded, Ended
  <2> QED BY <2>1, <2>4, <2>5, <2>6, <2>7 DEF CyclePages
<1>2. CASE CreateThread
  <2>1. /\ cpc = "create" /\ cpc' \in {"create", "sem_wait"} /\ CyclePages
        /\ UNCHANGED <<ret, start_pfn, end_pfn, current_pfn, current_pfn_mutex,
                       taken, written, base, slotPfn, ready>>
        /\ pc' = [pc EXCEPT ![i] = "begin"] /\ pfn' = [pfn EXCEPT ![i] = start_pfn]
        /\ page_flag_buf' = [page_flag_buf EXCEPT ![i] = head[i]]
        /\ pc[i] \in Ended
    BY <1>0, <1>2, SMTT(20) DEF CreateThread, Active, pfnVars, flagVars, TypeInv,
       Control, ThreadsWait
  <2>2. NumReleased' = NumReleased
    BY <2>1 DEF NumReleased, NumWritten
  <2>3. \A t \in Threads : \A s \in Slots : InUse(t, s)' <=> InUse(t, s)
    BY <1>0, <2>1 DEF InUse, Ended, TypeOK, ProducerType
  <2>4. \A t \in Threads : t # i /\ t \in Created' => t \in Created
    BY <1>0, <1>2, SMTT(20) DEF CreateThread, Created, Threads
  <2>5. Locked'
    BY <1>0, <2>1, <2>4 DEF CyclePages, Locked, TypeOK, ProducerType
  <2> QED BY <2>1, <2>2, <2>3, <2>5, PagesFrame
<1>3. CASE ScanThread
  <2>1. /\ cpc = "scan" /\ cpc' \in {"scan", "check"} /\ CyclePages
        /\ UNCHANGED <<ret, start_pfn, end_pfn, current_pfn, current_pfn_mutex,
                       taken, written, base, slotPfn, pc, pfn, page_flag_buf>>
        /\ Created' = Created
        /\ \A t \in Threads : \A s \in Slots :
              ready[t][s] = "UNUSED" => ready'[t][s] = "UNUSED"
    BY <1>0, <1>3 DEF ScanThread, Active, pfnVars, localVars, Created, TypeOK,
       SlotType
  <2>2. NumReleased' = NumReleased
    BY <2>1 DEF NumReleased, NumWritten
  <2>3. \A t \in Threads : \A s \in Slots :
            /\ InUse(t, s)' => InUse(t, s)
            /\ InUse(t, s) /\ slotPfn[t][s] < end_pfn => InUse(t, s)'
    <3>1. CASE AtMarker
      <4>1. slotPfn[i][head[i]] \in Nat
        BY <1>0, SMTT(20) DEF TypeOK, SlotType
      <4>2. ~ (slotPfn[i][head[i]] < end_pfn)
        BY <1>0, <3>1, <4>1, Sizes, SMTT(20) DEF AtMarker
      <4> QED BY <1>3, <3>1, <4>2, MarkerInUse
    <3>2. CASE ~ AtMarker
      BY <1>3, <2>1, <3>2, NoMarkerInUse DEF InUse
    <3> QED BY <3>1, <3>2
  <2>4. Locked'
    BY <1>0, <2>1 DEF CyclePages, Locked, TypeOK, ProducerType
  <2> QED BY <2>1, <2>2, <2>3, <2>4, PagesFrame
<1>4. CASE ReleaseSlot
  <2> DEFINE c == consuming
             h == head[consuming]
  <2>1. /\ cpc = "release" /\ cpc' = "sem_wait" /\ CyclePages /\ cpc \in Active
        /\ UNCHANGED <<ret, start_pfn, end_pfn, current_pfn, current_pfn_mutex,
                       taken, written, base, slotPfn, pc, pfn, page_flag_buf>>
        /\ Created' = Created
        /\ \A t \in Threads : \A s \in Slots :
              ready[t][s] = "UNUSED" => ready'[t][s] = "UNUSED"
    BY <1>0, <1>4 DEF ReleaseSlot, Active, pfnVars, localVars, Created, TypeOK,
       SlotType
  <2>2. NumWritten' = NumWritten /\ NumReleased' = NumWritten
        /\ NumReleased = NumWritten - 1 /\ NumWritten \in 1 .. Len(taken)
    BY <1>0, <2>1, Sizes, SMTT(20) DEF NumReleased, NumWritten, CyclePages,
       WrittenTaken
  <2>3. \A u \in Threads : \A s \in Slots :
            InUse(u, s)' <=> InUse(u, s) /\ ~ (u = c /\ s = h)
    BY <1>4, <2>1, ReleaseInUse
  <2>4. InUse(c, h) /\ slotPfn[c][h] = taken[NumWritten] /\ taken[NumWritten] < end_pfn
    BY <1>0, <2>1, <2>2 DEF Scanning, TypeInv, Control, ReadySlots, Candidate,
       InUse
  <2>5. TakenOrder' /\ TakenPages' /\ TakenAll' /\ WrittenTaken'
    BY <2>1, <2>2 DEF CyclePages, TakenOrder, TakenPages, TakenAll,
       WrittenTaken
  <2>6. TakenInUse'
    <3> SUFFICES ASSUME NEW j \in 1 .. Len(taken), j > NumWritten, taken[j] < end_pfn
                 PROVE  \E u \in Threads : \E s \in Slots :
                            InUse(u, s)' /\ slotPfn[u][s] = taken[j]
      BY <2>1, <2>2 DEF TakenInUse
    <3>1. PICK u \in Threads, s \in Slots : InUse(u, s) /\ slotPfn[u][s] = taken[j]
      BY <1>0, <2>1, <2>2, Sizes, SMTT(20) DEF CyclePages, TakenInUse
    <3>2. taken[NumWritten] < taken[j] /\ taken[NumWritten] \in Nat /\ taken[j] \in Nat
      BY <1>0, <2>1, <2>2, Sizes DEF CyclePages, TakenOrder
    <3>3. taken[NumWritten] # taken[j]
      BY <3>2, SMTT(20)
    <3>4. ~ (u = c /\ s = h)
      BY <2>4, <3>1, <3>3
    <3> QED BY <2>3, <3>1, <3>4
  <2>7. InUseTaken'
    <3> SUFFICES ASSUME NEW u \in Threads, NEW s \in Slots,
                        InUse(u, s), ~ (u = c /\ s = h), slotPfn[u][s] < end_pfn
                 PROVE  \E j \in 1 .. Len(taken) :
                            j > NumWritten /\ taken[j] = slotPfn[u][s]
      BY <2>1, <2>2, <2>3 DEF InUseTaken
    <3>1. PICK j \in 1 .. Len(taken) : j > NumReleased /\ taken[j] = slotPfn[u][s]
      BY <2>1 DEF CyclePages, InUseTaken
    <3>2. j # NumWritten
      BY <1>0, <2>1, <2>4, <3>1, SMTT(20) DEF CyclePages, OneSlot
    <3>3. j > NumWritten
      BY <1>0, <2>2, <3>1, <3>2, Sizes, SMTT(20)
    <3> QED BY <3>1, <3>3
  <2>8. OneSlot'
    BY <2>1, <2>3, SMTT(20) DEF CyclePages, OneSlot
  <2>9. Locked'
    BY <1>0, <2>1 DEF CyclePages, Locked, TypeOK, ProducerType
  <2> QED BY <2>1, <2>5, <2>6, <2>7, <2>8, <2>9 DEF CyclePages
<1>5. CASE WritePage
  <2>1. /\ cpc = "write" /\ cpc' \in {"free_buffer", "release"} /\ CyclePages
        /\ UNCHANGED <<ret, start_pfn, end_pfn, current_pfn, current_pfn_mutex,
                       taken, base, slotPfn, ready, pc, pfn, page_flag_buf>>
        /\ Created' = Created
    BY <1>0, <1>5 DEF WritePage, Active, pfnVars, flagVars, localVars, Created
  <2>2. /\ Len(written') = Len(written) + 1
        /\ NumWritten + 1 \in 1 .. Len(taken)
        /\ written'[Len(written) + 1].pfn = taken[NumWritten + 1]
        /\ taken[NumWritten + 1] < end_pfn
        /\ \A n \in 1 .. Len(written) : written'[n] = written[n]
    BY <1>5, <2>1, WriteOrder DEF Pages
  <2>3. /\ NumWritten' = NumWritten + 1 /\ NumReleased' = NumReleased
        /\ NumWritten \in Nat /\ Len(written) = base + NumWritten
    <3>1. NumWritten' = NumWritten + 1 /\ Len(written) = base + NumWritten
      <4>1. Len(written) \in Nat /\ base \in Nat
        BY <1>0, Sizes
      <4>2. Len(written') = Len(written) + 1
        BY <2>2
      <4>3. NumWritten = Len(written) - base /\ NumWritten' = Len(written') - base
        BY <2>1 DEF NumWritten
      <4> QED BY <4>1, <4>2, <4>3, SMTT(20)
    <3>2. NumWritten \in Nat
      BY <1>0, <2>1, Sizes, SMTT(30) DEF NumWritten, CyclePages, WrittenTaken
    <3> QED BY <2>1, <3>1, <3>2, SMTT(20) DEF NumReleased
  <2>4. WrittenTaken'
    <3>1. \A j \in 1 .. NumWritten + 1 :
              taken[j] < end_pfn /\ written'[base + j].pfn = taken[j]
      <4> TAKE j \in 1 .. NumWritten + 1
      <4>1. CASE j = NumWritten + 1
        BY <1>0, <2>2, <2>3, <4>1, Sizes, SMTT(20)
      <4>2. CASE j # NumWritten + 1
        <5>1. j \in 1 .. NumWritten /\ base + j \in 1 .. Len(written)
          BY <1>0, <2>3, <4>2, Sizes, SMTT(20)
        <5> QED BY <2>1, <2>2, <5>1 DEF CyclePages, WrittenTaken
      <4> QED BY <4>1, <4>2
    <3>2. \A n \in 1 .. base : n \in 1 .. Len(written)
      BY <1>0, <2>3, Sizes, SMTT(20)
    <3>3. base <= Len(written') /\ NumWritten + 1 <= Len(taken) /\ NumWritten + 1 >= 1
      BY <1>0, <2>2, <2>3, Sizes, SMTT(20)
    <3> QED BY <2>1, <2>2, <2>3, <3>1, <3>2, <3>3 DEF CyclePages, WrittenTaken
  <2>5. \A t \in Threads : \A s \in Slots : InUse(t, s)' <=> InUse(t, s)
    BY <2>1 DEF InUse
  <2>6. TakenOrder' /\ TakenPages' /\ TakenAll' /\ Locked'
    BY <2>1 DEF CyclePages, TakenOrder, TakenPages, TakenAll, Locked
  <2>7. TakenInUse'
    BY <2>1, <2>3, <2>5 DEF CyclePages, TakenInUse
  <2>8. InUseTaken'
    BY <2>1, <2>3, <2>5 DEF CyclePages, InUseTaken
  <2>9. OneSlot'
    BY <2>1, <2>5 DEF CyclePages, OneSlot
  <2> QED BY <2>1, <2>4, <2>6, <2>7, <2>8, <2>9 DEF CyclePages
<1>6. CASE SemWait \/ Found \/ Rescan \/ FreeBuffer
  <2>1. /\ cpc \in Active /\ CyclePages
        /\ UNCHANGED <<ret, start_pfn, end_pfn, current_pfn, current_pfn_mutex,
                       taken, written, base, slotPfn, ready, pc, pfn,
                       page_flag_buf>>
        /\ cpc' \in {"free_buffer", "release"} <=> cpc \in {"free_buffer", "release"}
        /\ Created' = Created
    BY <1>0, <1>6 DEF SemWait, Found, Rescan, FreeBuffer, Active, pfnVars,
       flagVars, localVars, Created
  <2>2. NumReleased' = NumReleased
    BY <2>1 DEF NumReleased, NumWritten
  <2>3. \A t \in Threads : \A s \in Slots : InUse(t, s)' <=> InUse(t, s)
    BY <2>1 DEF InUse
  <2>4. Locked'
    BY <2>1 DEF CyclePages, Locked
  <2> QED BY <2>1, <2>2, <2>3, <2>4, PagesFrame
<1>7. CASE \/ Finish \/ Timeout \/ WriteFails \/ CancelThread \/ JoinThread
           \/ NextCycle
  BY <1>7 DEF Finish, Timeout, WriteFails, CancelThread, JoinThread, NextCycle,
     Active
<1> QED BY <1>1, <1>2, <1>3, <1>4, <1>5, <1>6, <1>7 DEF Consumer

\* The consumer stops with success when all pages of the cycle are written.
LEMMA PagesFinish ==
    ASSUME TypeInv, Lists, Pages, Ends, Finish
    PROVE  /\ AllUnused /\ WrittenBelow(end_pfn)
           /\ \A n \in 1 .. Len(written) : written[n].pfn < end_pfn
           /\ \A t \in Threads : pc[t] \in {"post", "end", "done"}
                                 /\ pfn[t] >= end_pfn
<1>0. /\ TypeOK /\ cpc = "check" /\ cpc \in Active /\ CyclePages
      /\ Created = Threads /\ start_pfn < end_pfn
  BY DEF TypeInv, Finish, Active, Pages, CyclePages, Created, Control,
     ThreadsWait
<1>1. /\ AllUnused
      /\ \A t \in Threads : pc[t] \in {"post", "end", "done"} /\ pfn[t] >= end_pfn
  BY <1>0, AllCounted DEF Finish, Counted, AllUnused
<1>2. current_pfn >= end_pfn
  BY <1>0, <1>1, ThreadFacts DEF CyclePages, Locked
<1>3. \A t \in Threads : \A s \in Slots : ~ InUse(t, s)
  BY <1>1 DEF AllUnused, InUse
<1>4. /\ NumReleased = NumWritten /\ NumWritten \in Nat
      /\ Len(written) = base + NumWritten /\ base \in Nat
      /\ NumWritten <= Len(taken) /\ Len(taken) \in Nat
  BY <1>0, Sizes, SMTT(20) DEF NumReleased, NumWritten, CyclePages, WrittenTaken
<1>5. WrittenBelow(end_pfn)
  <2> SUFFICES ASSUME NEW q \in Dumpable, q < end_pfn
               PROVE  \E n \in 1 .. Len(written) : written[n].pfn = q
    BY DEF WrittenBelow
  <2>0. q \in Nat /\ start_pfn \in Nat /\ end_pfn \in Nat /\ current_pfn \in Nat
    BY <1>0, Sizes, PagesAssumption, SMTT(20)
  <2>1. CASE q < start_pfn
    BY <1>0, <1>4, <2>1, SMTT(20) DEF CyclePages, WrittenTaken
  <2>2. CASE start_pfn <= q
    <3>1. PICK j \in 1 .. Len(taken) : taken[j] = q
      BY <1>0, <1>2, <2>0, <2>2, SMTT(20) DEF CyclePages, TakenAll
    <3>2. ~ (j > NumWritten)
      BY <1>0, <1>3, <1>4, <3>1 DEF CyclePages, TakenInUse
    <3>3. j \in 1 .. NumWritten /\ base + j \in 1 .. Len(written)
      BY <1>4, <3>2, SMTT(20)
    <3> QED BY <1>0, <3>1, <3>3 DEF CyclePages, WrittenTaken
  <2> QED BY <2>0, <2>1, <2>2, SMTT(20)
<1>6. \A n \in 1 .. Len(written) : written[n].pfn < end_pfn
  <2> TAKE n \in 1 .. Len(written)
  <2>0. start_pfn \in Nat /\ end_pfn \in Nat /\ written[n].pfn \in Nat
    BY <1>0, Sizes
  <2>1. CASE n <= base
    BY <1>0, <1>4, <2>0, <2>1, SMTT(20) DEF CyclePages, WrittenTaken
  <2>2. CASE n > base
    <3>1. PICK j \in 1 .. NumWritten : n = base + j
      BY <1>4, <2>2, SMTT(20)
    <3> QED BY <1>0, <3>1 DEF CyclePages, WrittenTaken
  <2> QED BY <1>4, <2>1, <2>2, SMTT(20)
<1> QED BY <1>1, <1>5, <1>6

LEMMA PagesStop ==
    ASSUME TypeInv, Lists, Pages, Ends, Consumer, cpc' \notin Active
    PROVE  Pages'
<1>1. CASE Finish
  <2>1. UNCHANGED <<written, ready, pc, pfn, end_pfn>> /\ cpc' = "cancel"
    BY <1>1 DEF Finish, flagVars, localVars
  <2>2. OrderedWrites'
    BY <2>1 DEF Pages, OrderedWrites
  <2>3. cpc' \notin Active \cup {"prepare", "complete"}
    BY <2>1 DEF Active
  <2>4. AllUnused' /\ WrittenBelow(end_pfn)'
    BY <1>1, <2>1, PagesFinish DEF AllUnused, WrittenBelow
  <2>5. /\ \A n \in 1 .. Len(written') : written'[n].pfn < end_pfn'
        /\ \A t \in Threads : pc'[t] \in {"post", "end", "done"}
                              /\ pfn'[t] >= end_pfn'
    BY <1>1, <2>1, PagesFinish
  <2> QED BY <2>2, <2>3, <2>4, <2>5 DEF Pages
<1>2. CASE Timeout \/ WriteFails
  <2>1. written' = written /\ cpc' = "cancel" /\ ~ ret'
    <3>1. /\ written' = written /\ cpc' = "cancel" /\ ret' = ret
          /\ cpc \in {"check", "write"}
      BY <1>2 DEF Timeout, WriteFails
    <3>2. cpc \in Active
      BY <3>1 DEF Active
    <3> QED BY <3>1, <3>2 DEF Pages
  <2> QED BY <2>1 DEF Pages, OrderedWrites, Active
<1>3. CASE CancelThread \/ JoinThread
  <2>1. /\ UNCHANGED <<written, ready, ret, start_pfn, end_pfn, pc, pfn>>
        /\ cpc \in {"cancel", "join"} /\ cpc' \in {"cancel", "join", "return"}
    BY <1>3 DEF CancelThread, JoinThread, flagVars, localVars
  <2>2. OrderedWrites'
    BY <2>1 DEF Pages, OrderedWrites
  <2>3. cpc' \notin Active \cup {"prepare", "complete"}
    BY <2>1 DEF Active
  <2>4. ret' /\ cpc' \in {"cancel", "join", "return"} =>
           ret /\ cpc \in {"cancel", "join", "return"}
    BY <2>1
  <2>5. /\ AllUnused => AllUnused'
        /\ WrittenBelow(end_pfn) => WrittenBelow(end_pfn)'
    BY <2>1 DEF AllUnused, WrittenBelow
  <2>6. ret' /\ cpc' \in {"cancel", "join", "return"} =>
           /\ AllUnused' /\ WrittenBelow(end_pfn)'
           /\ \A n \in 1 .. Len(written') : written'[n].pfn < end_pfn'
           /\ \A t \in Threads : pc'[t] \in {"post", "end", "done"} /\ pfn'[t] >= end_pfn'
    BY <2>1, <2>4, <2>5 DEF Pages
  <2> QED BY <2>2, <2>3, <2>6 DEF Pages
<1>4. CASE NextCycle
  <2>0. /\ cpc = "return" /\ UNCHANGED <<written, ready>>
        /\ cpc' = "prepare" => ret /\ start_pfn' = end_pfn
        /\ cpc' = "complete" => ret /\ ~ (end_pfn < MaxMapnr)
        /\ cpc' \in {"prepare", "complete", "incomplete"}
    BY <1>4 DEF NextCycle, flagVars
  <2>1. cpc' = "complete" => WrittenBelow(MaxMapnr)'
    <3>1. end_pfn \in Nat /\ MaxMapnr \in Nat /\ Dumpable \subseteq Nat
      BY Sizes, PagesAssumption, SMTT(20) DEF TypeInv
    <3> QED BY <2>0, <3>1, SMTT(20) DEF Pages, WrittenBelow
  <2>2. cpc' = "prepare" => (AllUnused /\ WrittenBelow(start_pfn)
                 /\ \A n \in 1 .. Len(written) : written[n].pfn < start_pfn)'
    BY <2>0 DEF Pages, WrittenBelow, AllUnused
  <2> QED BY <2>0, <2>1, <2>2, SMTT(20) DEF Pages, OrderedWrites, Active
<1>5. CASE \/ Prepare \/ CreateThread \/ SemWait \/ ScanThread \/ Found \/ Rescan
           \/ WritePage \/ FreeBuffer \/ ReleaseSlot
  BY <1>5 DEF Prepare, CreateThread, SemWait, ScanThread, Found, Rescan,
     WritePage, FreeBuffer, ReleaseSlot, Active
<1> QED BY <1>1, <1>2, <1>3, <1>4, <1>5 DEF Consumer

\* The producers while the consumer ends its cycle.
LEMMA PagesEnding ==
    ASSUME TypeInv, Pages, cpc \notin Active, NEW t \in Threads, Producer(t)
    PROVE  Pages'
<1>0. /\ TypeOK /\ pc[t] \notin Ended
      /\ UNCHANGED <<cpc, ret, written, end_pfn, start_pfn>>
      /\ cpc \in {"cancel", "join"}
  <2>1. TypeOK /\ pc[t] \notin Ended
    BY ProducerMoves DEF TypeInv
  <2> QED BY <2>1, ProducerFrame DEF TypeInv, Control, ThreadsWait, AllEnded,
             TypeOK, ConsumerType, ConsumerPc, Active
<1>1. ret => /\ UNCHANGED <<pfn, ready>>
             /\ pc'[t] \in {"post", "end", "done"}
  <2> SUFFICES ASSUME ret PROVE /\ UNCHANGED <<pfn, ready>>
                                /\ pc'[t] \in {"post", "end", "done"}
    OBVIOUS
  <2>1. pc[t] \in {"post", "end"} /\ pfn[t] >= end_pfn
    BY <1>0 DEF Pages, Ended
  <2>2. Post(t) \/ EndOfCycle(t)
    BY <2>1 DEF Producer, Begin, LockData, SkipBuffer, TakeBuffer, SlotFree,
       LockPfn, ScanPfn, MarkFilling, ReadFails, ReadZeroPage, ReadPage,
       MarkReady, Cancelled, Goto
  <2> QED BY <1>0, <2>1, <2>2 DEF Post, EndOfCycle, Goto, localVars, flagVars,
             TypeOK, ProducerType
<1>2. OrderedWrites'
  BY <1>0 DEF Pages, OrderedWrites
<1>3. ASSUME ret
      PROVE  /\ AllUnused' /\ WrittenBelow(end_pfn)'
             /\ \A n \in 1 .. Len(written') : written'[n].pfn < end_pfn'
             /\ \A u \in Threads : pc'[u] \in {"post", "end", "done"}
                                   /\ pfn'[u] >= end_pfn'
  <2>1. /\ AllUnused /\ WrittenBelow(end_pfn)
        /\ \A n \in 1 .. Len(written) : written[n].pfn < end_pfn
        /\ \A u \in Threads : pc[u] \in {"post", "end", "done"}
                              /\ pfn[u] >= end_pfn
    BY <1>0, <1>3 DEF Pages
  <2>2. AllUnused' /\ WrittenBelow(end_pfn)'
    BY <1>0, <1>1, <1>3, <2>1 DEF AllUnused, WrittenBelow
  <2>3. \A u \in Threads : pc'[u] \in {"post", "end", "done"}
    BY <1>0, <1>1, <1>3, <2>1, ProducerMoves
  <2> QED BY <1>0, <1>1, <1>3, <2>1, <2>2, <2>3
<1> QED BY <1>0, <1>2, <1>3 DEF Pages, Active

LEMMA PagesStep ==
    ASSUME OrderInv, Consumer \/ \E t \in Threads : Producer(t)
    PROVE  Pages'
<1>0. /\ TypeInv /\ Lists /\ Pages /\ Counting /\ Scanning /\ Ends
      /\ cpc \in Active => CyclePages
  BY DEF OrderInv, Pages, CyclePages
<1>1. CASE cpc' \in Active /\ Consumer
  <2>1. CyclePages'
    BY <1>0, <1>1, PagesConsumer
  <2>2. OrderedWrites'
    <3>1. CASE WritePage
      BY <1>0, <3>1, WriteOrder DEF Pages, WritePage, Active
    <3>2. CASE ~ WritePage
      BY <1>0, <1>1, <3>2 DEF Consumer, Prepare, CreateThread, SemWait,
         ScanThread, Finish, Found, Rescan, Timeout, WriteFails, FreeBuffer,
         ReleaseSlot, CancelThread, JoinThread, NextCycle, Pages, OrderedWrites
    <3> QED BY <3>1, <3>2
  <2> QED BY <1>1, <2>1, <2>2 DEF Pages, CyclePages, Active
<1>2. CASE cpc' \notin Active /\ Consumer
  BY <1>0, <1>2, PagesStop
<1>3. ASSUME NEW t \in Threads, Producer(t) PROVE Pages'
  <2>0. UNCHANGED <<cpc, written>>
    BY <1>3, ProducerFrame
  <2>1. CASE cpc \in Active
    <3>1. CyclePages'
      BY <1>0, <1>3, <2>1, PagesScanPfn, PagesProducer
    <3> QED BY <1>0, <2>0, <2>1, <3>1 DEF Pages, CyclePages, OrderedWrites,
               Active
  <2>2. CASE cpc \notin Active
    BY <1>0, <1>3, <2>2, PagesEnding
  <2> QED BY <2>1, <2>2
<1> QED BY <1>1, <1>2, <1>3

-----------------------------------------------------------------------------
(***************************************************************************)
(* The invariant, and what it says.                                        *)
(***************************************************************************)
LEMMA OrderInit == Init => OrderInv
<1> SUFFICES ASSUME Init PROVE OrderInv
  OBVIOUS
<1>1. TypeInv
  BY TypeInit
<1>2. Lists /\ Counting /\ Scanning
  BY DEF Init, Lists, Counting, Scanning, Active
<1>3. Pages
  BY PagesAssumption, SMTT(20)
     DEF Init, Pages, OrderedWrites, AllUnused, WrittenBelow, Active
<1>4. Ends
  BY ThreadsAssumption, SMTT(20) DEF Init, Ends, EndsCountedOnce, Active
<1> QED BY <1>1, <1>2, <1>3, <1>4 DEF OrderInv

LEMMA OrderStep == OrderInv /\ [Next]_vars => OrderInv'
<1> SUFFICES ASSUME OrderInv, [Next]_vars PROVE OrderInv'
  OBVIOUS
<1>0. TypeInv /\ TypeInv' /\ Lists /\ Pages /\ Counting /\ Scanning /\ Ends
  BY TypeStep DEF OrderInv
<1>1. CASE Consumer
  BY <1>0, <1>1, ListsConsumer, PagesStep, CountingConsumer, ScanningConsumer,
     EndsConsumer DEF OrderInv
<1>2. ASSUME NEW t \in Threads, Producer(t) PROVE OrderInv'
  <2>1. Pages' /\ Ends'
    BY <1>0, <1>2, PagesStep, EndsProducer
  <2>2. CASE cpc \in Active
    BY <1>0, <1>2, <2>1, <2>2, ListsProducer, CountingProducer,
       ScanningProducer DEF OrderInv
  <2>3. CASE cpc \notin Active
    <3>1. cpc' = cpc
      BY <1>2, ProducerFrame
    <3> QED BY <1>0, <2>1, <2>3, <3>1 DEF OrderInv, Lists, Counting, Scanning,
               Active
  <2> QED BY <2>2, <2>3
<1>3. CASE UNCHANGED vars
  <2> USE <1>0, <1>3 DEF vars, consumerVars, pfnVars, flagVars, localVars
  <2>1. Lists'
    BY ListFrame DEF Lists, Created
  <2>2. Pages'
    <3>1. UNCHANGED CyclePages
      <4>1. UNCHANGED <<TakenOrder, TakenPages, TakenAll, Locked>>
        BY DEF TakenOrder, TakenPages, TakenAll, Locked, Created
      <4>2. UNCHANGED <<WrittenTaken, NumReleased>>
        BY DEF WrittenTaken, NumWritten, NumReleased
      <4>3. UNCHANGED <<TakenInUse, InUseTaken, OneSlot>>
        <5>1. UNCHANGED TakenInUse
          BY <4>2 DEF TakenInUse, InUse
        <5>2. UNCHANGED InUseTaken
          BY <4>2 DEF InUseTaken, InUse
        <5>3. UNCHANGED OneSlot
          <6>1. UNCHANGED <<ready, pc, page_flag_buf, slotPfn, end_pfn>>
            OBVIOUS
          <6> QED BY ONLY <6>1, OneSlotFrame
        <5> QED BY <5>1, <5>2, <5>3
      <4> QED BY <4>1, <4>2, <4>3 DEF CyclePages
    <3>2. UNCHANGED <<OrderedWrites, AllUnused>>
      BY DEF OrderedWrites, AllUnused
    <3>3. UNCHANGED <<WrittenBelow(start_pfn), WrittenBelow(end_pfn),
                      WrittenBelow(MaxMapnr)>>
      BY DEF WrittenBelow
    <3> QED BY <3>1, <3>2, <3>3 DEF Pages, CyclePages
  <2>3. Counting' /\ Scanning' /\ Ends'
    BY DEF Counting, Waited, NumWritten, Posting, Scanning, Sought, AtHead,
       Ends, Counted, Created, EndsCountedOnce
  <2> QED BY <2>1, <2>2, <2>3 DEF OrderInv
<1> QED BY <1>1, <1>2, <1>3 DEF Next, Stopped

(***************************************************************************)
(* For any number of threads, slots, buffers, cycles and pages, and with   *)
(* any faults, write_kdump_pages_parallel_cyclic() appends the descriptors *)
(* in ascending pfn order, without a gap and without a duplicate.          *)
(***************************************************************************)
THEOREM WritesInOrder == Spec => []OrderedWrites
<1>1. OrderInv => OrderedWrites
  BY DEF OrderInv, Pages
<1> QED BY <1>1, OrderInit, OrderStep, PTL DEF Spec

(***************************************************************************)
(* A call that returns TRUE has written every dumpable page up to the end  *)
(* of its cycle, and leaves every slot unused for the next cycle.          *)
(***************************************************************************)
THEOREM SuccessIsComplete == Spec => []CompleteOnSuccess
<1>1. OrderInv => CompleteOnSuccess
  BY DEF OrderInv, Pages, CompleteOnSuccess, WrittenBelow, AllUnused
<1> QED BY <1>1, OrderInit, OrderStep, PTL DEF Spec

(***************************************************************************)
(* The consumer counts the end marker of each producer once.               *)
(***************************************************************************)
THEOREM CountsEachEnd == Spec => []EndsCountedOnce
<1>1. OrderInv => EndsCountedOnce
  <2> SUFFICES ASSUME OrderInv PROVE EndsCountedOnce
    OBVIOUS
  <2>1. TypeOK /\ Ends /\ cpc \in ConsumerPc
    BY DEF OrderInv, TypeInv, TypeOK, ConsumerType
  <2>2. CASE cpc \in Active
    BY <2>1, <2>2, AllCounted DEF EndsCountedOnce, Counted
  <2>3. CASE cpc \notin Active
    BY <2>1, <2>3 DEF Ends, EndsCountedOnce, ConsumerPc, Active
  <2> QED BY <2>2, <2>3
<1> QED BY <1>1, OrderInit, OrderStep, PTL DEF Spec

-----------------------------------------------------------------------------
(***************************************************************************)
(* Every descriptor that ParallelDump writes carries the data of its own   *)
(* page: a page_data buffer in use has one owner, the producer that took   *)
(* it or the slot that the producer filled with it.  With the order of the *)
(* writes, ParallelDump implements PageStream.                             *)
(***************************************************************************)
(***************************************************************************)
(* The producers' steps.                                                   *)
(***************************************************************************)
LEMMA OwnersProducer ==
    ASSUME OrderInv, Owners, NEW t \in Threads, Producer(t)
    PROVE  Owners'
<1> DEFINE b == page_flag_buf[t]
<1>0. /\ TypeOK /\ b \in Slots /\ index[t] \in Buffers
      /\ UNCHANGED <<cpc, consuming, head, written>>
      /\ consuming \in Threads /\ \A u \in Threads : head[u] \in Slots
  BY ProducerFrame DEF OrderInv, TypeInv, TypeOK, ConsumerType, ProducerType,
     SlotType
<1>1. OwnData'
  BY <1>0 DEF Owners, OwnData
<1>2. \A u \in Threads : u # t =>
          /\ pc'[u] = pc[u] /\ index'[u] = index[u] /\ buf_ready'[u] = buf_ready[u]
          /\ pfn'[u] = pfn[u] /\ page_flag_buf'[u] = page_flag_buf[u]
          /\ ready'[u] = ready[u] /\ slotPfn'[u] = slotPfn[u]
          /\ slotZero'[u] = slotZero[u] /\ slotIndex'[u] = slotIndex[u]
  <2>1. \A u \in Threads : u # t => pc'[u] = pc[u]
    BY <1>0, ProducerMoves
  <2>2. \A u \in Threads : u # t =>
            /\ pfn'[u] = pfn[u] /\ index'[u] = index[u]
            /\ page_flag_buf'[u] = page_flag_buf[u]
            /\ buf_ready'[u] = buf_ready[u]
            /\ ready'[u] = ready[u] /\ slotPfn'[u] = slotPfn[u]
            /\ slotZero'[u] = slotZero[u] /\ slotIndex'[u] = slotIndex[u]
    BY <1>0, ProducerPrivate
  <2> QED BY <2>1, <2>2
<1>3. \A s \in Slots : s # b =>
          /\ ready'[t][s] = ready[t][s] /\ slotPfn'[t][s] = slotPfn[t][s]
          /\ slotZero'[t][s] = slotZero[t][s]
          /\ slotIndex'[t][s] = slotIndex[t][s]
  BY <1>0, ProducerPrivate
<1>4. pc[t] \in SlotTaken => ready[t][b] # "READY" /\ (pc[t] \in Filling => slotPfn[t][b] = pfn[t])
  BY DEF OrderInv, TypeInv, Control, ProducerSlot
<1>5. ~ MarkReady(t) =>
          \A u \in Threads : \A s \in Slots :
             /\ ready'[u][s] = "READY" <=> ready[u][s] = "READY"
             /\ ready[u][s] = "READY" => /\ slotPfn'[u][s] = slotPfn[u][s]
                                         /\ slotZero'[u][s] = slotZero[u][s]
                                         /\ slotIndex'[u][s] = slotIndex[u][s]
             /\ Full(u, s)' <=> Full(u, s)
  <2> SUFFICES ASSUME ~ MarkReady(t)
               PROVE  /\ ready'[t][b] = "READY" <=> ready[t][b] = "READY"
                      /\ ready[t][b] = "READY" => /\ slotPfn'[t][b] = slotPfn[t][b]
                                                  /\ slotZero'[t][b] = slotZero[t][b]
                                                  /\ slotIndex'[t][b] = slotIndex[t][b]
    <3> SUFFICES ASSUME ~ MarkReady(t), NEW u \in Threads, NEW s \in Slots
                 PROVE  /\ ready'[u][s] = "READY" <=> ready[u][s] = "READY"
                        /\ ready[u][s] = "READY" => /\ slotPfn'[u][s] = slotPfn[u][s]
                                                    /\ slotZero'[u][s] = slotZero[u][s]
                                                    /\ slotIndex'[u][s] = slotIndex[u][s]
                        /\ Full(u, s)' <=> Full(u, s)
      OBVIOUS
    <3>1. /\ ready'[u][s] = "READY" <=> ready[u][s] = "READY"
          /\ ready[u][s] = "READY" => /\ slotPfn'[u][s] = slotPfn[u][s]
                                      /\ slotZero'[u][s] = slotZero[u][s]
                                      /\ slotIndex'[u][s] = slotIndex[u][s]
      <4>1. CASE u # t
        BY <1>2, <4>1
      <4>2. CASE u = t /\ s # b
        BY <1>3, <4>2
      <4>3. CASE u = t /\ s = b
        BY <4>3
      <4> QED BY <4>1, <4>2, <4>3
    <3>2. Full(u, s)' <=> Full(u, s)
      BY <1>0, <3>1 DEF Full
    <3> QED BY <3>1, <3>2
  <2>1. CASE Quiet(t)
    BY <2>1 DEF Quiet, Begin, LockData, SkipBuffer, TakeBuffer, SlotFree,
       LockPfn, Post, EndOfCycle, ReadFails, Cancelled, flagVars
  <2>2. CASE ScanPfn(t) \/ MarkFilling(t) \/ ReadZeroPage(t) \/ ReadPage(t)
    <3>1. pc[t] \in SlotTaken
      BY <2>2 DEF ScanPfn, MarkFilling, ReadZeroPage, ReadPage, Goto,
         SlotTaken, Filling
    <3>2. ready'[t][b] # "READY"
      BY <1>0, <1>4, <2>2, <3>1 DEF ScanPfn, MarkFilling, ReadZeroPage,
         ReadPage, TypeOK, SlotType
    <3> QED BY <1>4, <3>1, <3>2
  <2> QED BY <2>1, <2>2 DEF Producer, Quiet
<1>6. /\ pc'[t] \in Holding => \/ pc[t] \in Holding /\ index'[t] = index[t]
                               \/ TakeBuffer(t)
      /\ ~ EndOfCycle(t) => \A c \in Buffers : used[c] => used'[c]
      /\ \A c \in Buffers : c # index[t] => used'[c] = used[c] /\ data'[c] = data[c]
      /\ ~ ReadPage(t) => data' = data
  <2>0. pc \in [Threads -> ProducerPc] /\ used \in [Buffers -> BOOLEAN]
        /\ data \in [Buffers -> Pfns \cup {NoPage}] /\ index \in [Threads -> Buffers]
    BY <1>0 DEF TypeOK, ProducerType, SharedType
  <2>1. CASE Begin(t) \/ LockData(t) \/ SkipBuffer(t) \/ TakeBuffer(t)
    BY <1>0, <2>0, <2>1 DEF Begin, LockData, SkipBuffer, TakeBuffer, Goto,
       Holding, SlotTaken, Filling, bufferVars, EndOfCycle, ReadPage
  <2>2. CASE SlotFree(t) \/ LockPfn(t) \/ ScanPfn(t) \/ MarkFilling(t) \/ Post(t)
    BY <1>0, <2>0, <2>2 DEF SlotFree, LockPfn, ScanPfn, MarkFilling, Post,
       Goto, Holding, SlotTaken, Filling, bufferVars, localVars
  <2>3. CASE EndOfCycle(t) \/ ReadFails(t) \/ ReadZeroPage(t) \/ ReadPage(t)
    BY <1>0, <2>0, <2>3 DEF EndOfCycle, ReadFails, ReadZeroPage, ReadPage,
       Goto, Holding, SlotTaken, Filling, bufferVars, localVars
  <2>4. CASE MarkReady(t)
    BY <1>0, <2>0, <2>4 DEF MarkReady, Goto, Holding, SlotTaken, Filling,
       bufferVars
  <2>5. CASE Cancelled(t)
    <3>1. pc'[t] = "cancelled" /\ UNCHANGED <<used, data>>
      BY <2>0, <2>5 DEF Cancelled, Goto
    <3> QED BY <3>1 DEF Holding, SlotTaken, Filling
  <2> QED BY <2>1, <2>2, <2>3, <2>4, <2>5 DEF Producer
<1>7. ASSUME NEW u \in Threads, pc'[u] \in Holding
      PROVE  /\ used'[index'[u]]
             /\ \/ pc[u] \in Holding /\ index'[u] = index[u]
                \/ u = t /\ TakeBuffer(t) /\ ~ used[index[t]] /\ index'[t] = index[t]
  <2>0. index[u] \in Buffers
    BY <1>0 DEF TypeOK, ProducerType
  <2>1. CASE TakeBuffer(t) /\ u = t
    BY <1>0, <2>1 DEF TakeBuffer, localVars, TypeOK, SharedType
  <2>2. CASE ~ (TakeBuffer(t) /\ u = t)
    <3>1. pc[u] \in Holding /\ index'[u] = index[u] /\ used[index[u]]
      BY <1>2, <1>6, <1>7, <2>2 DEF Owners, ProducerOwns
    <3>2. EndOfCycle(t) => u # t /\ pc[t] \in Holding
      BY <1>0, <1>7 DEF EndOfCycle, Goto, Holding, SlotTaken, Filling, TypeOK,
         ProducerType
    <3>3. EndOfCycle(t) => index[u] # index[t]
      BY <3>1, <3>2 DEF Owners, ProducerOwns
    <3> QED BY <1>6, <2>0, <3>1, <3>3
  <2> QED BY <2>1, <2>2
<1>8. ProducerOwns'
  <2>1. \A u1, u2 \in Threads :
            pc'[u1] \in Holding /\ pc'[u2] \in Holding /\ index'[u1] = index'[u2]
                => u1 = u2
    BY <1>7 DEF Owners, ProducerOwns
  <2> QED BY <1>7, <2>1 DEF ProducerOwns
<1>9. CASE ~ MarkReady(t)
  <2>0. \A u \in Threads : \A s \in Slots : slotIndex[u][s] \in Buffers
    BY <1>0 DEF TypeOK, SlotType
  <2>1. EndOfCycle(t) \/ ReadPage(t) => pc[t] \in Holding
    BY DEF EndOfCycle, ReadPage, Goto, Holding, SlotTaken, Filling
  <2>2. ASSUME NEW u \in Threads, NEW s \in Slots, Full(u, s)'
        PROVE  /\ Full(u, s) /\ slotIndex'[u][s] = slotIndex[u][s]
               /\ used'[slotIndex[u][s]] /\ used[slotIndex[u][s]]
               /\ data'[slotIndex[u][s]] = slotPfn'[u][s]
    <3>1. /\ Full(u, s) /\ slotIndex'[u][s] = slotIndex[u][s]
          /\ slotPfn'[u][s] = slotPfn[u][s]
      BY <1>5, <1>9, <2>2 DEF Full
    <3>2. used[slotIndex[u][s]] /\ data[slotIndex[u][s]] = slotPfn[u][s]
      BY <3>1 DEF Owners, SlotOwns, SlotFilled
    <3>3. EndOfCycle(t) \/ ReadPage(t) => slotIndex[u][s] # index[t]
      BY <2>1, <3>1 DEF Owners, SlotOwns, SlotsNotHeld
    <3> QED BY <1>6, <2>0, <3>1, <3>2, <3>3
  <2>3. SlotOwns'
    <3>1. SlotFilled'
      <4> SUFFICES ASSUME NEW u \in Threads, NEW s \in Slots, Full(u, s)'
                   PROVE  used'[slotIndex'[u][s]] /\ data'[slotIndex'[u][s]] = slotPfn'[u][s]
        BY DEF SlotFilled
      <4>1. /\ slotIndex'[u][s] = slotIndex[u][s] /\ used'[slotIndex[u][s]]
            /\ data'[slotIndex[u][s]] = slotPfn'[u][s]
        BY <2>2
      <4> QED BY <4>1
    <3>2. SlotsApart'
      <4> SUFFICES ASSUME NEW u1 \in Threads, NEW u2 \in Threads, NEW s1 \in Slots,
                          NEW s2 \in Slots, Full(u1, s1)', Full(u2, s2)',
                          slotIndex'[u1][s1] = slotIndex'[u2][s2]
                   PROVE  u1 = u2 /\ s1 = s2
        BY DEF SlotsApart
      <4>1. /\ Full(u1, s1) /\ slotIndex'[u1][s1] = slotIndex[u1][s1]
            /\ Full(u2, s2) /\ slotIndex'[u2][s2] = slotIndex[u2][s2]
        BY <2>2
      <4>2. slotIndex[u1][s1] = slotIndex[u2][s2]
        BY <4>1
      <4> QED BY <4>1, <4>2 DEF Owners, SlotOwns, SlotsApart
    <3>3. SlotsNotHeld'
      <4> SUFFICES ASSUME NEW u1 \in Threads, NEW u2 \in Threads, NEW s \in Slots,
                          Full(u1, s)', pc'[u2] \in Holding
                   PROVE  slotIndex'[u1][s] # index'[u2]
        BY DEF SlotsNotHeld
      <4>1. Full(u1, s) /\ slotIndex'[u1][s] = slotIndex[u1][s] /\ used[slotIndex[u1][s]]
        BY <2>2
      <4>2. pc[u2] \in Holding => slotIndex[u1][s] # index[u2]
        BY <4>1 DEF Owners, SlotOwns, SlotsNotHeld
      <4> QED BY <1>7, <4>1, <4>2
    <3> QED BY <3>1, <3>2, <3>3 DEF SlotOwns
  <2>4. ZeroSlots'
    <3>1. \A u \in Threads : \A s \in Slots : ready'[u][s] = "READY" =>
              (slotZero'[u][s] <=> slotPfn'[u][s] \in ZeroPages)
      <4> SUFFICES ASSUME NEW u \in Threads, NEW s \in Slots, ready'[u][s] = "READY"
                   PROVE  slotZero'[u][s] <=> slotPfn'[u][s] \in ZeroPages
        OBVIOUS
      <4>1. /\ ready[u][s] = "READY" /\ slotPfn'[u][s] = slotPfn[u][s]
            /\ slotZero'[u][s] = slotZero[u][s]
        BY <1>5, <1>9
      <4> QED BY <4>1 DEF Owners, ZeroSlots
    <3>2. ASSUME NEW u \in Threads, pc'[u] = "mark_ready"
          PROVE  LET s == page_flag_buf'[u]
                 IN  /\ slotZero'[u][s] <=> pfn'[u] \in ZeroPages
                     /\ slotZero'[u][s] <=> ~ buf_ready'[u]
                     /\ ~ slotZero'[u][s] => /\ slotIndex'[u][s] = index'[u]
                                             /\ data'[index'[u]] = pfn'[u]
      <4>1. CASE u = t
        <5>1. ReadZeroPage(t) \/ ReadPage(t)
          BY <1>0, <1>9, <3>2, <4>1 DEF Producer, Begin, LockData, SkipBuffer,
             TakeBuffer, SlotFree, LockPfn, ScanPfn, MarkFilling, Post,
             EndOfCycle, ReadFails, Cancelled, Goto, TypeOK, ProducerType
        <5>2. pc[t] = "read" /\ ~ buf_ready[t] /\ UNCHANGED <<page_flag_buf, pfn, index>>
          BY <5>1 DEF ReadZeroPage, ReadPage, Goto, localVars, Owners,
             ZeroSlots, Holding, SlotTaken, Filling
        <5>3. CASE ReadZeroPage(t)
          BY <1>0, <4>1, <5>2, <5>3 DEF ReadZeroPage, localVars, TypeOK,
             SlotType
        <5>4. CASE ReadPage(t)
          BY <1>0, <4>1, <5>2, <5>4, SMTT(20)
             DEF ReadPage, TypeOK, SlotType, SharedType, ProducerType
        <5> QED BY <5>1, <5>3, <5>4
      <4>2. CASE u # t
        <5>1. pc[u] = "mark_ready" /\ index[u] \in Buffers
          BY <1>0, <1>2, <3>2, <4>2 DEF TypeOK, ProducerType
        <5>2. ReadPage(t) => index[u] # index[t]
          BY <2>1, <4>2, <5>1 DEF Owners, ProducerOwns, Holding, SlotTaken,
             Filling
        <5>3. data'[index[u]] = data[index[u]]
          BY <1>6, <5>1, <5>2
        <5> QED BY <1>2, <4>2, <5>1, <5>3, SMTT(20) DEF Owners, ZeroSlots
      <4> QED BY <4>1, <4>2
    <3>3. ASSUME NEW u \in Threads,
                 pc'[u] \in (Holding \ {"mark_ready"}) \cup {"find_buffer"}
          PROVE  ~ buf_ready'[u]
      <4>1. CASE u # t
        BY <1>2, <3>3, <4>1 DEF Owners, ZeroSlots
      <4>2. CASE u = t
        <5>1. \/ ~ buf_ready'[t]
              \/ /\ buf_ready'[t] = buf_ready[t]
                 /\ pc[t] \in (Holding \ {"mark_ready"}) \cup {"find_buffer"}
          <6> USE <1>0 DEF TypeOK, ProducerType, Goto, localVars, Holding, SlotTaken,
                           Filling
          <6>1. CASE Begin(t) \/ LockData(t) \/ SkipBuffer(t) \/ TakeBuffer(t)
            BY <3>3, <4>2, <6>1 DEF Begin, LockData, SkipBuffer, TakeBuffer
          <6>2. CASE SlotFree(t) \/ LockPfn(t) \/ ScanPfn(t) \/ MarkFilling(t) \/ Post(t)
            BY <6>2 DEF SlotFree, LockPfn, ScanPfn, MarkFilling, Post
          <6>3. CASE \/ EndOfCycle(t) \/ ReadFails(t) \/ ReadZeroPage(t) \/ ReadPage(t)
                     \/ Cancelled(t)
            BY <3>3, <4>2, <6>3 DEF EndOfCycle, ReadFails, ReadZeroPage,
               ReadPage, Cancelled
          <6> QED BY <1>9, <6>1, <6>2, <6>3 DEF Producer
        <5> QED BY <4>2, <5>1 DEF Owners, ZeroSlots
      <4> QED BY <4>1, <4>2
    <3>4. cpc' = "free_buffer" => ~ slotZero'[consuming'][head'[consuming']]
      <4>1. cpc = "free_buffer" => ready[consuming][head[consuming]] = "READY"
        BY DEF OrderInv, TypeInv, Control, ReadySlots, Candidate
      <4> QED BY <1>0, <1>5, <1>9, <4>1 DEF Owners, ZeroSlots
    <3> QED BY <3>1, <3>2, <3>3, <3>4 DEF ZeroSlots
  <2> QED BY <1>1, <1>8, <2>3, <2>4 DEF Owners
<1>10. CASE MarkReady(t)
  <2>1. /\ pc[t] = "mark_ready" /\ pc[t] \in Holding /\ ready[t][b] # "READY"
        /\ slotPfn[t][b] = pfn[t] /\ ready'[t][b] = "READY"
        /\ UNCHANGED <<slotPfn, slotZero, slotIndex, buf_ready, pfn, index, used,
                       data>>
        /\ pc'[t] = IF buf_ready[t] THEN "lock_data" ELSE "wait_slot"
    BY <1>0, <1>4, <1>10 DEF MarkReady, Goto, Holding, SlotTaken, Filling,
       bufferVars, TypeOK, SlotType, ProducerType
  <2>2. /\ slotZero[t][b] <=> pfn[t] \in ZeroPages
        /\ slotZero[t][b] <=> ~ buf_ready[t]
        /\ ~ slotZero[t][b] => slotIndex[t][b] = index[t] /\ data[index[t]] = pfn[t]
    BY <2>1 DEF Owners, ZeroSlots
  <2>3. \A u \in Threads : \A s \in Slots : ~ (u = t /\ s = b) =>
            /\ ready'[u][s] = ready[u][s]
            /\ Full(u, s)' <=> Full(u, s)
    <3> SUFFICES ASSUME NEW u \in Threads, NEW s \in Slots, ~ (u = t /\ s = b)
                 PROVE  /\ ready'[u][s] = ready[u][s]
                        /\ Full(u, s)' <=> Full(u, s)
      OBVIOUS
    <3>1. ready'[u][s] = ready[u][s] /\ slotZero'[u][s] = slotZero[u][s]
      BY <1>2, <1>3
    <3> QED BY <1>0, <3>1 DEF Full
  <2>4. PICK r \in Slots : r = b
    BY <1>0
  <2>5. Full(t, r)' => ~ slotZero[t][r]
    BY <2>1 DEF Full
  <2>6. ZeroSlots'
    <3>1. \A u \in Threads : \A s \in Slots : ready'[u][s] = "READY" =>
              (slotZero'[u][s] <=> slotPfn'[u][s] \in ZeroPages)
      <4> SUFFICES ASSUME NEW u \in Threads, NEW s \in Slots, ready'[u][s] = "READY"
                   PROVE  slotZero'[u][s] <=> slotPfn'[u][s] \in ZeroPages
        OBVIOUS
      <4>1. CASE u = t /\ s = b
        BY <2>1, <2>2, <4>1
      <4>2. CASE ~ (u = t /\ s = b)
        <5>1. ready[u][s] = "READY"
          BY <2>3, <4>2
        <5> QED BY <2>1, <5>1 DEF Owners, ZeroSlots
      <4> QED BY <4>1, <4>2
    <3>2. ASSUME NEW u \in Threads, pc'[u] = "mark_ready"
          PROVE  LET s == page_flag_buf'[u]
                 IN  /\ slotZero'[u][s] <=> pfn'[u] \in ZeroPages
                     /\ slotZero'[u][s] <=> ~ buf_ready'[u]
                     /\ ~ slotZero'[u][s] => /\ slotIndex'[u][s] = index'[u]
                                             /\ data'[index'[u]] = pfn'[u]
      <4>1. u # t
        BY <2>1, <3>2
      <4> QED BY <1>2, <2>1, <3>2, <4>1 DEF Owners, ZeroSlots
    <3>3. ASSUME NEW u \in Threads,
                 pc'[u] \in (Holding \ {"mark_ready"}) \cup {"find_buffer"}
          PROVE  ~ buf_ready'[u]
      <4>1. CASE u = t
        BY <2>1, <3>3, <4>1 DEF Holding, SlotTaken, Filling
      <4>2. CASE u # t
        BY <1>2, <3>3, <4>2 DEF Owners, ZeroSlots
      <4> QED BY <4>1, <4>2
    <3>4. cpc' = "free_buffer" => ~ slotZero'[consuming'][head'[consuming']]
      BY <1>0, <2>1 DEF Owners, ZeroSlots
    <3> QED BY <3>1, <3>2, <3>3, <3>4 DEF ZeroSlots
  <2>7. ASSUME NEW u \in Threads, NEW s \in Slots, Full(u, s)'
        PROVE  /\ used[slotIndex[u][s]] /\ data[slotIndex[u][s]] = slotPfn[u][s]
               /\ \/ Full(u, s)
                  \/ /\ u = t /\ s = r /\ slotIndex[u][s] = index[t]
                     /\ buf_ready[t]
    <3>1. CASE u = t /\ s = r
      BY <2>1, <2>2, <2>4, <2>5, <2>7, <3>1 DEF Owners, ProducerOwns
    <3>2. CASE ~ (u = t /\ s = r)
      BY <2>3, <2>4, <2>7, <3>2 DEF Owners, SlotOwns, SlotFilled
    <3> QED BY <3>1, <3>2
  <2>8. SlotOwns'
    <3>1. SlotFilled'
      <4> SUFFICES ASSUME NEW u \in Threads, NEW s \in Slots, Full(u, s)'
                   PROVE  used'[slotIndex'[u][s]] /\ data'[slotIndex'[u][s]] = slotPfn'[u][s]
        BY DEF SlotFilled
      <4> QED BY <2>1, <2>7
    <3>2. SlotsApart'
      <4> SUFFICES ASSUME NEW u1 \in Threads, NEW u2 \in Threads, NEW s1 \in Slots,
                          NEW s2 \in Slots, Full(u1, s1)', Full(u2, s2)',
                          slotIndex'[u1][s1] = slotIndex'[u2][s2]
                   PROVE  u1 = u2 /\ s1 = s2
        BY DEF SlotsApart
      <4>1. /\ slotIndex[u1][s1] = slotIndex[u2][s2] /\ pc[t] \in Holding
            /\ Full(u1, s1) \/ (u1 = t /\ s1 = r /\ slotIndex[u1][s1] = index[t])
            /\ Full(u2, s2) \/ (u2 = t /\ s2 = r /\ slotIndex[u2][s2] = index[t])
        BY <2>1, <2>7
      <4>2. CASE Full(u1, s1) /\ Full(u2, s2)
        BY <4>1, <4>2 DEF Owners, SlotOwns, SlotsApart
      <4>3. Full(u1, s1) => slotIndex[u1][s1] # index[t]
        BY <4>1 DEF Owners, SlotOwns, SlotsNotHeld
      <4>4. Full(u2, s2) => slotIndex[u2][s2] # index[t]
        BY <4>1 DEF Owners, SlotOwns, SlotsNotHeld
      <4> QED BY <4>1, <4>2, <4>3, <4>4
    <3>3. SlotsNotHeld'
      <4> SUFFICES ASSUME NEW u1 \in Threads, NEW u2 \in Threads, NEW s \in Slots,
                          Full(u1, s)', pc'[u2] \in Holding
                   PROVE  slotIndex'[u1][s] # index'[u2]
        BY DEF SlotsNotHeld
      <4>1. pc[u2] \in Holding /\ (u2 = t => ~ buf_ready[t])
        BY <1>2, <2>1 DEF Holding, SlotTaken, Filling
      <4>2. \/ Full(u1, s)
            \/ slotIndex[u1][s] = index[t] /\ buf_ready[t]
        BY <2>7
      <4>3. Full(u1, s) => slotIndex[u1][s] # index[u2]
        BY <4>1 DEF Owners, SlotOwns, SlotsNotHeld
      <4>4. index[t] = index[u2] => t = u2
        BY <2>1, <4>1 DEF Owners, ProducerOwns
      <4> QED BY <2>1, <4>1, <4>2, <4>3, <4>4
    <3> QED BY <3>1, <3>2, <3>3 DEF SlotOwns
  <2> QED BY <1>1, <1>8, <2>6, <2>8 DEF Owners
<1> QED BY <1>9, <1>10

(***************************************************************************)
(* The consumer's steps.                                                   *)
(***************************************************************************)
\* Steps that leave the buffers and the producers alone, and no slot fuller.
LEMMA OwnersFrame ==
    ASSUME Owners, OwnData',
           UNCHANGED <<used, data, index, buf_ready, pfn, page_flag_buf,
                       slotPfn, slotZero, slotIndex, pc>>,
           \A t \in Threads : \A s \in Slots :
              /\ ready'[t][s] = "READY" => ready[t][s] = "READY"
              /\ Full(t, s)' => Full(t, s),
           cpc' = "free_buffer" => ~ slotZero'[consuming'][head'[consuming']]
    PROVE  Owners'
<1>1. ProducerOwns'
  BY DEF Owners, ProducerOwns
<1>2. SlotFilled'
  <2> SUFFICES ASSUME NEW t \in Threads, NEW s \in Slots, Full(t, s)'
               PROVE  used'[slotIndex'[t][s]] /\ data'[slotIndex'[t][s]] = slotPfn'[t][s]
    BY DEF SlotFilled
  <2>1. Full(t, s)
    OBVIOUS
  <2>2. used[slotIndex[t][s]] /\ data[slotIndex[t][s]] = slotPfn[t][s]
    BY <2>1 DEF Owners, SlotOwns, SlotFilled
  <2> QED BY <2>2
<1>3. SlotsApart'
  <2> SUFFICES ASSUME NEW t1 \in Threads, NEW t2 \in Threads, NEW s1 \in Slots,
                      NEW s2 \in Slots, Full(t1, s1)', Full(t2, s2)',
                      slotIndex'[t1][s1] = slotIndex'[t2][s2]
               PROVE  t1 = t2 /\ s1 = s2
    BY DEF SlotsApart
  <2>1. Full(t1, s1) /\ Full(t2, s2) /\ slotIndex[t1][s1] = slotIndex[t2][s2]
    OBVIOUS
  <2> QED BY <2>1 DEF Owners, SlotOwns, SlotsApart
<1>4. SlotsNotHeld'
  <2> SUFFICES ASSUME NEW t1 \in Threads, NEW t2 \in Threads, NEW s \in Slots,
                      Full(t1, s)', pc'[t2] \in Holding
               PROVE  slotIndex'[t1][s] # index'[t2]
    BY DEF SlotsNotHeld
  <2>1. Full(t1, s) /\ pc[t2] \in Holding
    OBVIOUS
  <2>2. slotIndex[t1][s] # index[t2]
    BY <2>1 DEF Owners, SlotOwns, SlotsNotHeld
  <2> QED BY <2>2
<1>5. ZeroSlots'
  BY DEF Owners, ZeroSlots
<1> QED BY <1>1, <1>2, <1>3, <1>4, <1>5 DEF Owners, SlotOwns

LEMMA OwnersConsumer ==
    ASSUME OrderInv, Owners, Consumer
    PROVE  Owners'
<1> USE ThreadFacts
<1>0. /\ TypeOK /\ i \in Threads /\ consuming \in Threads
      /\ \A t \in Threads : head[t] \in Slots
      /\ cpc \in {"write", "free_buffer", "release"} => Candidate = "READY"
  BY DEF OrderInv, TypeInv, TypeOK, ConsumerType, SlotType, Control, ReadySlots
<1>1. CASE Prepare
  <2>1. /\ AllUnused /\ AllEnded /\ cpc' = "create" /\ written' = written
        /\ UNCHANGED <<ready, pc>>
    BY <1>1 DEF Prepare, flagVars, OrderInv, Pages, TypeInv, Control,
       ThreadsWait
  <2>2. OwnData'
    BY <2>1 DEF Owners, OwnData
  <2>3. \A t \in Threads : /\ pc'[t] \notin Holding \cup {"find_buffer"}
                           /\ \A s \in Slots : ready'[t][s] # "READY"
    BY <2>1 DEF AllUnused, AllEnded, Ended, Holding, SlotTaken, Filling
  <2>4. ProducerOwns' /\ SlotOwns'
    BY <2>3 DEF ProducerOwns, SlotOwns, SlotFilled, SlotsApart, SlotsNotHeld,
       Full
  <2>5. ZeroSlots'
    BY <2>1, <2>3 DEF ZeroSlots, Holding, SlotTaken, Filling
  <2> QED BY <2>2, <2>4, <2>5 DEF Owners
<1>2. CASE CreateThread
  <2>1. /\ UNCHANGED <<used, data, ready, slotPfn, slotZero, slotIndex, buf_ready,
                       head, consuming, written>>
        /\ cpc = "create" /\ cpc' \in {"create", "sem_wait"} /\ pc'[i] = "begin"
        /\ \A t \in Threads : t # i =>
              /\ pc'[t] = pc[t] /\ pfn'[t] = pfn[t] /\ index'[t] = index[t]
              /\ page_flag_buf'[t] = page_flag_buf[t]
    BY <1>0, <1>2 DEF CreateThread, bufferVars, flagVars, TypeOK, ProducerType
  <2>2. \A t \in Threads : pc'[t] \in Holding \cup {"find_buffer"} =>
            /\ pc'[t] = pc[t] /\ pfn'[t] = pfn[t] /\ index'[t] = index[t]
            /\ page_flag_buf'[t] = page_flag_buf[t]
    BY <2>1 DEF Holding, SlotTaken, Filling
  <2>3. \A t \in Threads : \A s \in Slots : Full(t, s)' <=> Full(t, s)
    BY <2>1 DEF Full
  <2>4. OwnData' /\ ProducerOwns'
    BY <2>1, <2>2 DEF Owners, OwnData, ProducerOwns
  <2>5. SlotOwns'
    <3>1. SlotFilled'
      BY <2>1, <2>3 DEF Owners, SlotOwns, SlotFilled
    <3>2. SlotsApart'
      <4> SUFFICES ASSUME NEW t1 \in Threads, NEW t2 \in Threads, NEW s1 \in Slots,
                          NEW s2 \in Slots, Full(t1, s1)', Full(t2, s2)',
                          slotIndex'[t1][s1] = slotIndex'[t2][s2]
                   PROVE  t1 = t2 /\ s1 = s2
        BY DEF SlotsApart
      <4>1. Full(t1, s1) /\ Full(t2, s2) /\ slotIndex[t1][s1] = slotIndex[t2][s2]
        BY <2>1, <2>3
      <4> QED BY <4>1 DEF Owners, SlotOwns, SlotsApart
    <3>3. SlotsNotHeld'
      <4> SUFFICES ASSUME NEW t1 \in Threads, NEW t2 \in Threads, NEW s \in Slots,
                          Full(t1, s)', pc'[t2] \in Holding
                   PROVE  slotIndex'[t1][s] # index'[t2]
        BY DEF SlotsNotHeld
      <4>1. Full(t1, s) /\ pc[t2] \in Holding /\ index'[t2] = index[t2]
        BY <2>2, <2>3
      <4>2. slotIndex[t1][s] # index[t2]
        BY <4>1 DEF Owners, SlotOwns, SlotsNotHeld
      <4> QED BY <2>1, <4>1, <4>2
    <3> QED BY <3>1, <3>2, <3>3 DEF SlotOwns
  <2>6. ZeroSlots'
    <3>1. \A t \in Threads : \A s \in Slots :
              ready'[t][s] = "READY" =>
                  (slotZero'[t][s] <=> slotPfn'[t][s] \in ZeroPages)
      BY <2>1 DEF Owners, ZeroSlots
    <3>2. ASSUME NEW t \in Threads, pc'[t] = "mark_ready"
          PROVE  LET s == page_flag_buf'[t]
                 IN  /\ slotZero'[t][s] <=> pfn'[t] \in ZeroPages
                     /\ slotZero'[t][s] <=> ~ buf_ready'[t]
                     /\ ~ slotZero'[t][s] => /\ slotIndex'[t][s] = index'[t]
                                             /\ data'[index'[t]] = pfn'[t]
      <4>1. pc[t] = "mark_ready" /\ pfn'[t] = pfn[t] /\ index'[t] = index[t]
            /\ page_flag_buf'[t] = page_flag_buf[t]
        BY <2>2, <3>2 DEF Holding, SlotTaken, Filling
      <4> QED BY <2>1, <4>1 DEF Owners, ZeroSlots
    <3>3. \A t \in Threads : /\ pc'[t] \in Holding \ {"mark_ready"} => ~ buf_ready'[t]
                             /\ pc'[t] = "find_buffer" => ~ buf_ready'[t]
      BY <2>1, <2>2 DEF Owners, ZeroSlots
    <3>4. cpc' # "free_buffer"
      BY <2>1
    <3> QED BY <3>1, <3>2, <3>3, <3>4 DEF ZeroSlots
  <2> QED BY <2>4, <2>5, <2>6 DEF Owners
<1>3. CASE WritePage
  <2> DEFINE c == consuming
             h == head[consuming]
  <2>1. /\ UNCHANGED <<used, data, index, buf_ready, pfn, page_flag_buf, slotPfn,
                       slotZero, slotIndex, pc, ready, head, consuming>>
        /\ cpc = "write"
        /\ cpc' = IF slotZero[c][h] THEN "release" ELSE "free_buffer"
        /\ ready[c][h] = "READY"
    BY <1>0, <1>3 DEF WritePage, bufferVars, flagVars, localVars, Candidate
  <2>2. /\ slotZero[c][h] <=> slotPfn[c][h] \in ZeroPages
        /\ ~ slotZero[c][h] => data[slotIndex[c][h]] = slotPfn[c][h]
    <3>1. slotZero[c][h] <=> slotPfn[c][h] \in ZeroPages
      BY <1>0, <2>1 DEF Owners, ZeroSlots
    <3>2. ~ slotZero[c][h] => Full(c, h)
      BY <2>1 DEF Full
    <3> QED BY <1>0, <3>1, <3>2 DEF Owners, SlotOwns, SlotFilled
  <2>3. OwnData'
    <3>1. /\ Len(written') = Len(written) + 1 /\ Len(written) \in Nat
          /\ written'[Len(written) + 1] = Descriptor
          /\ \A n \in 1 .. Len(written) : written'[n] = written[n]
      BY <1>0, <1>3, SMTT(20) DEF WritePage, TypeOK, ConsumerType
    <3>2. IF Descriptor.pfn \in ZeroPages
          THEN Descriptor.zero
          ELSE ~ Descriptor.zero /\ Descriptor.page = Descriptor.pfn
      BY <2>2 DEF Descriptor
    <3> QED BY <3>1, <3>2, SMTT(20) DEF Owners, OwnData
  <2>4. \A t \in Threads : \A s \in Slots : Full(t, s)' => Full(t, s)
    BY <2>1 DEF Full
  <2> QED BY <2>1, <2>3, <2>4, OwnersFrame
<1>4. CASE FreeBuffer
  <2> DEFINE c == consuming
             h == head[consuming]
             b == slotIndex[consuming][head[consuming]]
  <2>1. /\ UNCHANGED <<data, index, buf_ready, pfn, page_flag_buf, slotPfn,
                       slotZero, slotIndex, pc, ready, head, consuming, written>>
        /\ cpc = "free_buffer" /\ cpc' = "release" /\ ready[c][h] = "READY"
        /\ used' = [used EXCEPT ![b] = FALSE]
    BY <1>0, <1>4 DEF FreeBuffer, flagVars, localVars, Candidate
  <2>2. /\ Full(c, h)
        /\ \A t \in Threads : \A s \in Slots : Full(t, s)' => Full(t, s)
    BY <1>0, <2>1 DEF Full, Owners, ZeroSlots
  <2>3. \A t \in Threads : \A s \in Slots : Full(t, s)' => slotIndex[t][s] # b
    <3> SUFFICES ASSUME NEW t \in Threads, NEW s \in Slots, Full(t, s)'
                 PROVE  slotIndex[t][s] # slotIndex[c][h]
      OBVIOUS
    <3>1. ~ (t = c /\ s = h)
      BY <2>1 DEF Full
    <3>2. Full(t, s) /\ Full(c, h) /\ c \in Threads /\ h \in Slots
      BY <1>0, <2>2
    <3> QED BY <1>0, <3>1, <3>2 DEF Owners, SlotOwns, SlotsApart
  <2>4. \A t \in Threads : pc[t] \in Holding => index[t] # b
    BY <1>0, <2>2 DEF Owners, SlotOwns, SlotsNotHeld
  <2>5. \A a \in Buffers : a # b => used'[a] = used[a]
    BY <1>0, <2>1 DEF TypeOK, SharedType
  <2>6. \A t \in Threads : index[t] \in Buffers
                           /\ \A s \in Slots : slotIndex[t][s] \in Buffers
    BY <1>0 DEF TypeOK, SlotType, ProducerType
  <2>7. ProducerOwns'
    <3>1. \A t \in Threads : pc[t] \in Holding => used'[index[t]]
      BY <1>0, <2>4, <2>5, <2>6 DEF Owners, ProducerOwns
    <3> QED BY <1>0, <2>1, <3>1 DEF Owners, ProducerOwns
  <2>8. SlotOwns'
    <3>0. SlotOwns
      BY <1>0 DEF Owners
    <3>1. ASSUME NEW t \in Threads, NEW s \in Slots, Full(t, s)'
          PROVE  used'[slotIndex[t][s]] /\ data[slotIndex[t][s]] = slotPfn[t][s]
      <4>1. Full(t, s) /\ slotIndex[t][s] # b /\ slotIndex[t][s] \in Buffers
        BY <2>2, <2>3, <2>6, <3>1
      <4>2. used[slotIndex[t][s]] /\ data[slotIndex[t][s]] = slotPfn[t][s]
        BY <3>0, <4>1 DEF SlotOwns, SlotFilled
      <4> QED BY <2>5, <4>1, <4>2
    <3>2. ASSUME NEW t1 \in Threads, NEW t2 \in Threads, NEW s1 \in Slots,
                 NEW s2 \in Slots, Full(t1, s1)', Full(t2, s2)',
                 slotIndex[t1][s1] = slotIndex[t2][s2]
          PROVE  t1 = t2 /\ s1 = s2
      <4>1. Full(t1, s1) /\ Full(t2, s2)
        BY <2>2, <3>2
      <4> QED BY <3>0, <3>2, <4>1 DEF SlotOwns, SlotsApart
    <3>3. ASSUME NEW t1 \in Threads, NEW t2 \in Threads, NEW s \in Slots,
                 Full(t1, s)', pc[t2] \in Holding
          PROVE  slotIndex[t1][s] # index[t2]
      BY <2>2, <3>0, <3>3 DEF SlotOwns, SlotsNotHeld
    <3>4. SlotFilled'
      BY <2>1, <3>1 DEF SlotFilled
    <3>5. SlotsApart'
      BY <2>1, <3>2 DEF SlotsApart
    <3>6. SlotsNotHeld'
      BY <2>1, <3>3 DEF SlotsNotHeld
    <3> QED BY <3>4, <3>5, <3>6 DEF SlotOwns
  <2>9. OwnData' /\ ZeroSlots'
    BY <2>1 DEF Owners, OwnData, ZeroSlots
  <2> QED BY <2>7, <2>8, <2>9 DEF Owners
<1>5. CASE ScanThread \/ ReleaseSlot
  <2>1. /\ UNCHANGED <<used, data, index, buf_ready, pfn, page_flag_buf, slotPfn,
                       slotZero, slotIndex, pc, written>>
        /\ cpc' \in {"scan", "check", "sem_wait"}
    BY <1>5 DEF ScanThread, ReleaseSlot, bufferVars, localVars
  <2>2. \A t \in Threads : \A s \in Slots :
            /\ ready'[t][s] = "READY" => ready[t][s] = "READY"
            /\ ready'[t][s] = "READY" /\ cpc = "release" =>
                  ~ (t = consuming /\ s = head[t])
    BY <1>0, <1>5, SMTT(20) DEF ScanThread, ReleaseSlot, TypeOK, SlotType
  <2>3. \A t \in Threads : \A s \in Slots : Full(t, s)' => Full(t, s)
    BY <2>1, <2>2 DEF Full
  <2>4. OwnData'
    BY <2>1 DEF Owners, OwnData
  <2> QED BY <2>1, <2>2, <2>3, <2>4, OwnersFrame
<1>6. CASE \/ SemWait \/ Finish \/ Found \/ Rescan \/ Timeout \/ WriteFails
           \/ CancelThread \/ JoinThread \/ NextCycle
  <2>1. /\ UNCHANGED <<used, data, index, buf_ready, pfn, page_flag_buf, slotPfn,
                       slotZero, slotIndex, pc, written, ready, head>>
        /\ cpc # "release" /\ cpc' \notin {"free_buffer", "release"}
    BY <1>6 DEF SemWait, Finish, Found, Rescan, Timeout, WriteFails,
       CancelThread, JoinThread, NextCycle, bufferVars, localVars, flagVars
  <2>2. \A t \in Threads : \A s \in Slots : Full(t, s)' => Full(t, s)
    BY <2>1 DEF Full
  <2>3. OwnData'
    BY <2>1 DEF Owners, OwnData
  <2> QED BY <2>1, <2>2, <2>3, OwnersFrame
<1> QED BY <1>1, <1>2, <1>3, <1>4, <1>5, <1>6 DEF Consumer

LEMMA InvInit == Init => Inv
<1> SUFFICES ASSUME Init PROVE Inv
  OBVIOUS
<1>1. OwnData /\ ProducerOwns /\ SlotOwns /\ ZeroSlots
  <2>1. /\ written = << >> /\ cpc = "prepare"
        /\ \A t \in Threads : /\ pc[t] = "done" /\ ~ buf_ready[t]
                              /\ \A s \in Slots : ready[t][s] = "UNUSED"
    BY DEF Init
  <2>2. OwnData
    BY <2>1, SMTT(20) DEF OwnData
  <2>3. ProducerOwns
    BY <2>1 DEF ProducerOwns, Holding, SlotTaken, Filling
  <2>4. SlotOwns
    BY <2>1 DEF SlotOwns, SlotFilled, SlotsApart, SlotsNotHeld, Full
  <2>5. ZeroSlots
    BY <2>1 DEF ZeroSlots, Holding, SlotTaken, Filling
  <2> QED BY <2>2, <2>3, <2>4, <2>5
<1> QED BY <1>1, OrderInit DEF Inv, Owners

LEMMA InvStep == Inv /\ [Next]_vars => Inv'
<1> SUFFICES ASSUME Inv, [Next]_vars PROVE Inv'
  OBVIOUS
<1>1. OrderInv'
  BY OrderStep DEF Inv
<1>2. CASE Consumer
  BY <1>1, <1>2, OwnersConsumer DEF Inv
<1>3. CASE \E t \in Threads : Producer(t)
  BY <1>1, <1>3, OwnersProducer DEF Inv
<1>4. CASE UNCHANGED vars
  <2> USE <1>4 DEF vars, consumerVars, bufferVars, flagVars, localVars
  <2>1. /\ UNCHANGED <<used, data, index, buf_ready, pfn, page_flag_buf, slotPfn,
                       slotZero, slotIndex, pc, ready, cpc, consuming, head, written>>
    OBVIOUS
  <2>2. Owners /\ OwnData'
    BY <2>1 DEF Inv, Owners, OwnData
  <2>3. \A t \in Threads : \A s \in Slots : Full(t, s)' => Full(t, s)
    BY <2>1 DEF Full
  <2>4. cpc' = "free_buffer" => ~ slotZero'[consuming'][head'[consuming']]
    BY <2>1, <2>2 DEF Owners, ZeroSlots
  <2> QED BY <1>1, <2>1, <2>2, <2>3, <2>4, OwnersFrame DEF Inv
<1> QED BY <1>2, <1>3, <1>4 DEF Next, Stopped

-----------------------------------------------------------------------------
(***************************************************************************)
(* A descriptor that is not a zero page's points to the data its producer  *)
(* read for that pfn, whatever the producers that share the buffers do.    *)
(***************************************************************************)
THEOREM WritesOwnData == Spec => []OwnData
<1>1. Inv => OwnData
  BY DEF Inv, Owners
<1> QED BY <1>1, InvInit, InvStep, PTL DEF Spec

-----------------------------------------------------------------------------
(***************************************************************************)
(* The refinement of PageStream.                                           *)
(***************************************************************************)
LEMMA StreamInit == Init => Stream!Init
BY DEF Init, Stream!Init, Status, Finished

\* The consumer's write of a page is the stream's next page.
LEMMA StreamWrite ==
    ASSUME Inv, Inv', WritePage
    PROVE  Stream!Emit
<1>0. /\ TypeOK /\ OrderedWrites /\ OrderedWrites' /\ OwnData'
      /\ cpc = "write" /\ cpc' \in {"free_buffer", "release"}
      /\ written' = Append(written, Descriptor)
  BY DEF Inv, OrderInv, TypeInv, Pages, Owners, WritePage
<1>1. /\ Len(written') = Len(written) + 1 /\ Len(written) \in Nat
      /\ written'[Len(written) + 1] = Descriptor
      /\ \A n \in 1 .. Len(written) : written'[n] = written[n]
  BY <1>0, SMTT(20) DEF TypeOK, ConsumerType
<1> DEFINE p == Descriptor.pfn
<1>2. p \in Dumpable
  BY <1>0, <1>1, SMTT(20) DEF OrderedWrites
<1>3. Descriptor = Stream!DescriptorOf(p)
  <2>1. IF p \in ZeroPages
        THEN Descriptor.zero
        ELSE ~ Descriptor.zero /\ Descriptor.page = p
    BY <1>0, <1>1, SMTT(20) DEF OwnData
  <2>2. CASE slotZero[consuming][head[consuming]]
    BY <2>1, <2>2 DEF Descriptor, Stream!DescriptorOf, Stream!NoData, NoPage
  <2>3. CASE ~ slotZero[consuming][head[consuming]]
    <3>1. /\ Descriptor = [pfn |-> p, zero |-> FALSE, page |-> Descriptor.page]
          /\ ~ Descriptor.zero
      BY <2>3 DEF Descriptor
    <3>2. Descriptor.page = p /\ (p \in ZeroPages) = FALSE
      BY <2>1, <3>1, SMTT(20)
    <3> QED BY <3>1, <3>2 DEF Stream!DescriptorOf
  <2> QED BY <2>2, <2>3
<1>4. Dumpable \subseteq Nat /\ \A n \in 1 .. Len(written) : written[n].pfn \in Nat
  BY <1>0, Sizes, PagesAssumption, SMTT(20)
<1>5. p \in Stream!Unwritten
  <2>1. \A n \in 1 .. Len(written) : written[n].pfn < p
    BY <1>0, <1>1, SMTT(20) DEF OrderedWrites
  <2> QED BY <1>2, <1>4, <2>1, SMTT(20) DEF Stream!Unwritten
<1>6. \A q \in Stream!Unwritten : p <= q
  <2>0. p \in Nat /\ Stream!Unwritten \subseteq Nat
    BY <1>2, <1>4 DEF Stream!Unwritten
  <2> SUFFICES ASSUME NEW q \in Stream!Unwritten, q < p PROVE FALSE
    BY <2>0, SMTT(20)
  <2>1. q \in Dumpable /\ \A n \in 1 .. Len(written) : written[n].pfn # q
    BY DEF Stream!Unwritten
  <2>2. PICK m \in 1 .. Len(written) + 1 : written'[m].pfn = q
    BY <1>0, <1>1, <2>1, SMTT(20) DEF OrderedWrites
  <2>3. m # Len(written) + 1
    BY <1>1, <2>0, <2>2, SMTT(20)
  <2> QED BY <1>1, <2>1, <2>2, <2>3, SMTT(20)
<1>7. Status = "writing" /\ Status' = "writing"
  BY <1>0 DEF Status, Finished
<1> QED BY <1>0, <1>3, <1>5, <1>6, <1>7 DEF Stream!Emit

LEMMA StreamStep == Inv /\ Inv' /\ [Next]_vars => [Stream!Next]_(Stream!vars)
<1> SUFFICES ASSUME Inv, Inv', [Next]_vars PROVE [Stream!Next]_(Stream!vars)
  OBVIOUS
<1>1. CASE WritePage
  BY <1>1, StreamWrite DEF Stream!Next
<1>2. CASE NextCycle
  <2>1. /\ cpc = "return" /\ written' = written
        /\ cpc' \in {"prepare", "complete", "incomplete"}
    BY <1>2 DEF NextCycle
  <2>2. CASE cpc' = "prepare"
    BY <2>1, <2>2 DEF Stream!vars, Status, Finished
  <2>3. CASE cpc' = "incomplete"
    BY <2>1, <2>3 DEF Stream!Next, Stream!GiveUp, Status, Finished
  <2>4. CASE cpc' = "complete"
    <3>1. \A q \in Dumpable : q < MaxMapnr =>
              \E n \in 1 .. Len(written) : written[n].pfn = q
      BY <2>1, <2>4 DEF Inv, OrderInv, Pages, WrittenBelow
    <3>2. Stream!Unwritten = {}
      <4>1. \A q \in Dumpable : q < MaxMapnr
        BY PagesAssumption, SMTT(20)
      <4> QED BY <3>1, <4>1 DEF Stream!Unwritten
    <3> QED BY <2>1, <2>4, <3>2 DEF Stream!Next, Stream!Complete, Status,
               Finished
  <2> QED BY <2>1, <2>2, <2>3, <2>4
<1>3. CASE Consumer /\ ~ WritePage /\ ~ NextCycle
  <2>1. written' = written /\ ~ Finished /\ ~ Finished'
    BY <1>3 DEF Consumer, Prepare, CreateThread, SemWait, ScanThread, Finish,
       Found, Rescan, Timeout, WriteFails, FreeBuffer, ReleaseSlot,
       CancelThread, JoinThread, Finished
  <2> QED BY <2>1 DEF Stream!vars, Status
<1>4. CASE \E t \in Threads : Producer(t)
  <2>1. UNCHANGED <<cpc, written>>
    BY <1>4, ProducerFrame
  <2> QED BY <2>1 DEF Stream!vars, Status, Finished
<1>5. CASE UNCHANGED vars
  BY <1>5 DEF Stream!vars, Status, Finished, vars, consumerVars
<1> QED BY <1>1, <1>2, <1>3, <1>4, <1>5 DEF Next, Stopped

(***************************************************************************)
(* The threads of write_kdump_pages_parallel_cyclic() together write the   *)
(* stream of descriptors that PageStream promises.                         *)
(***************************************************************************)
THEOREM ImplementsPageStream == Spec => WritesPageStream
<1>1. Spec => []Inv
  BY InvInit, InvStep, PTL DEF Spec
<1> QED BY <1>1, StreamInit, StreamStep, PTL DEF Spec, WritesPageStream, Stream!Spec
=============================================================================
