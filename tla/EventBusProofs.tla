--------------------------- MODULE EventBusProofs ---------------------------
(***************************************************************************)
(* Proofs about EventBus, for any number of events, publishers, subscribers *)
(* and workers and any queue size, with unsubscription, timeouts of stop()  *)
(* and restarts allowed unless a theorem says otherwise.                    *)
(*                                                                         *)
(* Where events are: IInv is inductive, and the books, the bound and the    *)
(* order follow from it.  Who gets them: with IInv, OnceInv is inductive    *)
(* (nobody twice), with both StopInv is on a bus whose subscribers stay and *)
(* whose stop() waits (graceful), and with all three SkipInv is on such a   *)
(* bus that is started once (nobody skipped).  The last section shows that  *)
(* the bus implements Delivery.                                             *)
(***************************************************************************)
EXTENDS EventBus, FiniteSetTheorems, TLAPS

-----------------------------------------------------------------------------
(* Batches *)

\* The first n events of a batch are n events.
LEMMA FirstCount ==
  ASSUME NEW b \in Batches, NEW n \in 0..Len(b)
  PROVE  /\ First(b, n) \subseteq Events
         /\ First(b, n) \subseteq First(b, Len(b))
         /\ IsFiniteSet(First(b, n))
         /\ Cardinality(First(b, n)) = n
<1>1. b \in Seq(Events) /\ Len(b) \in Nat
  BY BatchAssumption
<1> DEFINE f == [i \in 1..n |-> b[i]]
<1>2. f \in Surjection(1..n, First(b, n))
  BY DEF First, Surjection
<1>3. f \in Injection(1..n, First(b, n))
  BY <1>1, BatchAssumption DEF First, Injection, IsInjective
<1>4. IsFiniteSet(1..n) /\ Cardinality(1..n) = n
  BY <1>1, FS_Interval
<1>5. IsFiniteSet(First(b, n)) /\ Cardinality(First(b, n)) = n
  <2> HIDE DEF f
  <2> QED BY <1>2, <1>3, <1>4, FS_Surjection
<1>6. QED
  BY <1>1, <1>5 DEF First

\* What fits of a batch is a prefix of it and leaves the queue within bounds.
LEMMA AcceptedBounds ==
  ASSUME NEW b \in Batches, Cardinality(queue) \in Nat, QueueBounded
  PROVE  /\ Len(b) \in Nat
         /\ Accepted(b) \in 0..Len(b)
         /\ Cardinality(queue) + Accepted(b) <= MaxQueueSize
<1>1. Len(b) \in Nat
  BY BatchAssumption
<1>2. QED
  BY <1>1, BusAssumption DEF Accepted, QueueBounded

\* The place of an event in a batch, as publish_many() numbers it.
LEMMA PlaceInBatch ==
  ASSUME NEW b \in Batches, NEW n \in 0..Len(b), NEW e \in First(b, n)
  PROVE  LET i == CHOOSE i \in 1..n : b[i] = e
         IN  i \in 1..n /\ b[i] = e
BY DEF First

-----------------------------------------------------------------------------
(* Types *)

\* Publishing keeps the types.
LEMMA PublishTypeOK == IInv /\ Publish => TypeOK'
<1> SUFFICES ASSUME IInv, Publish PROVE TypeOK'
  OBVIOUS
<1>a. TypeOK /\ QueueBounded /\ Cardinality(queue) \in Nat
  BY FS_CardinalityType DEF IInv
<1> USE <1>a, BusAssumption DEF TypeOK, dispatchVars, subVars, workVars, lifeVars
<1>1. ASSUME NEW e \in Events, PublishRefused(e) PROVE TypeOK'
  BY <1>1 DEF PublishRefused
<1>2. ASSUME NEW p \in Publishers, NEW e \in Events, PublishBegin(p, e) PROVE TypeOK'
  BY <1>2 DEF PublishBegin
<1>3. ASSUME NEW p \in Publishers, PublishFull(p) PROVE TypeOK'
  BY <1>3 DEF PublishFull
<1>4. ASSUME NEW p \in Publishers, PublishEnqueue(p) PROVE TypeOK'
  BY <1>4 DEF PublishEnqueue
<1>5. ASSUME NEW b \in Batches, PublishMany(b) PROVE TypeOK'
  <2> DEFINE n == Accepted(b)
  <2>1. Len(b) \in Nat /\ n \in 0..Len(b)
    BY AcceptedBounds
  <2>2. First(b, n) \subseteq Events
    BY <2>1, FirstCount
  <2> HIDE DEF n
  <2>3. seqOf' \in [Events -> Nat]
    <3>1. ASSUME NEW e \in First(b, n)
          PROVE  sequence + (CHOOSE i \in 1..n : b[i] = e) - 1 \in Nat
      <4>1. (CHOOSE i \in 1..n : b[i] = e) \in 1..n
        BY <2>1, PlaceInBatch
      <4>2. QED
        BY <2>1, <4>1
    <3>2. QED
      BY <1>5, <3>1 DEF PublishMany, n
  <2>4. sequence' \in Nat /\ totalPublished' \in Nat /\ totalDropped' \in Nat
    BY <1>5, <2>1 DEF PublishMany, n
  <2>5. queue' \subseteq Events /\ fresh' \subseteq Events
    BY <1>5, <2>2 DEF PublishMany, n
  <2>6. QED
    BY <1>5, <2>3, <2>4, <2>5 DEF PublishMany
<1>6. QED
  BY <1>1, <1>2, <1>3, <1>4, <1>5 DEF Publish

\* The dispatch thread keeps the types: what it submits is an event because it
\* has one in hand.
LEMMA DispatchTypeOK == IInv /\ Dispatch => TypeOK'
<1> SUFFICES ASSUME IInv, Dispatch PROVE TypeOK'
  OBVIOUS
<1>a. TypeOK /\ HandMatchesPc
  BY DEF IInv
<1> USE <1>a, BusAssumption DEF TypeOK, publishVars, subVars, workVars, lifeVars
<1>1. ASSUME NEW e \in Events, Dequeue(e) PROVE TypeOK'
  BY <1>1 DEF Dequeue, IsFirst
<1>2. CASE Expire
  BY <1>2 DEF Expire
<1>3. CASE Snapshot
  <2>1. hand \in Events
    BY <1>3 DEF Snapshot, HandMatchesPc
  <2>2. targets' \subseteq Subscribers /\ owed' \subseteq Subscribers \X Events
    BY <1>3, <2>1 DEF Snapshot
  <2>3. QED
    BY <1>3, <2>2 DEF Snapshot
<1>4. ASSUME NEW s \in Subscribers, SkipTarget(s) PROVE TypeOK'
  BY <1>4 DEF SkipTarget
<1>5. ASSUME NEW s \in Subscribers, TakeExecutor(s) PROVE TypeOK'
  BY <1>5 DEF TakeExecutor
<1>6. CASE Submit
  <2>1. hand \in Events
    BY <1>6 DEF Submit, HandMatchesPc
  <2>2. backlog' \in [Subscribers -> Seq(Events)]
    <3>1. \A s \in Subscribers : Append(backlog[s], hand) \in Seq(Events)
      BY <2>1
    <3>2. QED
      BY <1>6, <3>1 DEF Submit
  <2>3. QED
    BY <1>6, <2>2 DEF Submit
<1>7. CASE SubmitRaises
  BY <1>7 DEF SubmitRaises, HandMatchesPc
<1>8. CASE FinishDispatch
  BY <1>8 DEF FinishDispatch
<1>9. CASE ExitLoop
  BY <1>9 DEF ExitLoop
<1>10. QED
  BY <1>1, <1>2, <1>3, <1>4, <1>5, <1>6, <1>7, <1>8, <1>9 DEF Dispatch

\* Workers keep the types.
LEMMA WorkTypeOK ==
  ASSUME IInv, NEW s \in Subscribers, Work(s)
  PROVE  TypeOK'
<1>a. TypeOK
  BY DEF IInv
<1> USE <1>a, BusAssumption DEF TypeOK, publishVars, dispatchVars, subVars, lifeVars
<1>1. CASE StartCallback(s)
  <2>1. Head(backlog[s]) \in Events /\ Tail(backlog[s]) \in Seq(Events)
    BY <1>1 DEF StartCallback
  <2>2. QED
    BY <1>1, <2>1 DEF StartCallback
<1>2. ASSUME NEW e \in Events, CallbackReturns(s, e) PROVE TypeOK'
  BY <1>2 DEF CallbackReturns, EndCallback
<1>3. ASSUME NEW e \in Events, CallbackRaises(s, e) PROVE TypeOK'
  <2> DEFINE full == Append(dlq, <<e, s>>)
  <2>0. <<e, s>> \in Events \X Subscribers /\ dlq \in Seq(Events \X Subscribers)
    OBVIOUS
  <2>1. full \in Seq(Events \X Subscribers) /\ full # <<>>
    <3> HIDE DEF TypeOK
    <3> QED BY <2>0
  <2>2. dlq' \in Seq(Events \X Subscribers) /\ Len(dlq') <= DlqMaxSize
    <3>1. Len(dlq) \in Nat /\ Len(full) = Len(dlq) + 1
      BY <2>0
    <3>2. Tail(full) \in Seq(Events \X Subscribers) /\ Len(Tail(full)) = Len(full) - 1
      BY <2>1
    <3>3. dlq' = IF Len(full) > DlqMaxSize THEN Tail(full) ELSE full
      BY <1>3 DEF CallbackRaises, AddToDlq
    <3> HIDE DEF full
    <3>4. QED
      BY <2>1, <3>1, <3>2, <3>3
  <2>3. QED
    BY <1>3, <2>2 DEF CallbackRaises, EndCallback
<1>4. QED
  BY <1>1, <1>2, <1>3 DEF Work

\* The control thread keeps the types.
LEMMA ControlTypeOK == IInv /\ Control => TypeOK'
<1> SUFFICES ASSUME IInv, Control PROVE TypeOK'
  OBVIOUS
<1>a. TypeOK
  BY DEF IInv
<1> USE <1>a, BusAssumption DEF TypeOK, publishVars, dispatchVars, subVars, workVars, lifeVars
<1>1. ASSUME NEW s \in Subscribers, Subscribe(s) PROVE TypeOK'
  BY <1>1 DEF Subscribe
<1>2. ASSUME NEW s \in Subscribers, Unsubscribe(s) PROVE TypeOK'
  BY <1>2 DEF Unsubscribe
<1>3. CASE Start
  BY <1>3 DEF Start
<1>4. CASE StopBegin
  BY <1>4 DEF StopBegin
<1>5. CASE StopJoin
  BY <1>5 DEF StopJoin
<1>6. ASSUME NEW s \in Subscribers, StopPool(s) PROVE TypeOK'
  BY <1>6 DEF StopPool
<1>7. CASE StopReturn
  BY <1>7 DEF StopReturn
<1>8. CASE ClearDeadLetters
  BY <1>8 DEF ClearDeadLetters
<1>9. QED
  BY <1>1, <1>2, <1>3, <1>4, <1>5, <1>6, <1>7, <1>8 DEF Control

-----------------------------------------------------------------------------
(* The rest of IInv, by the kind of thread that takes the step *)

\* What IInv says beyond the types.
Rest ==
  /\ IsFiniteSet(queue) /\ IsFiniteSet(lost)
  /\ HandMatchesPc
  /\ OnePlace
  /\ Accounting
  /\ QueueBounded
  /\ SequenceSound
  /\ PriorityFIFO

\* Workers and the control thread touch neither the queue nor the books nor the
\* dispatch thread's hand; start() revives it empty-handed.
LEMMA FrameRest ==
  ASSUME IInv,
         UNCHANGED publishVars,
         UNCHANGED <<hand, totalProcessed, totalExpired, lost>>,
         dpc' = dpc \/ (~Alive /\ dpc' = "loop")
  PROVE  Rest'
<1> USE DEF IInv, Rest, publishVars
<1>1. HandMatchesPc'
  BY DEF HandMatchesPc, Alive
<1>2. OnePlace' /\ SequenceSound' /\ PriorityFIFO' /\ QueueBounded'
  BY DEF OnePlace, SequenceSound, PriorityFIFO, QueueBounded
<1>3. Accounting'
  BY DEF Accounting, InHand
<1>4. QED
  BY <1>1, <1>2, <1>3

\* One entry pushed: it takes the next sequence number and is counted once.
LEMMA EnqueueRest ==
  ASSUME IInv, NEW p \in Publishers, PublishEnqueue(p)
  PROVE  Rest'
<1> DEFINE e == publishing[p]
<1>a. /\ TypeOK /\ OnePlace /\ Accounting /\ SequenceSound /\ PriorityFIFO /\ HandMatchesPc
      /\ IsFiniteSet(queue) /\ IsFiniteSet(lost) /\ QueueBounded
  BY DEF IInv
<1>b. /\ e \in Events /\ e \notin queue \cup fresh \cup lost /\ e # hand
      /\ queue' = queue \cup {e} /\ seqOf' = [seqOf EXCEPT ![e] = sequence]
      /\ sequence' = sequence + 1 /\ totalPublished' = totalPublished + 1
      /\ publishing' = [publishing EXCEPT ![p] = NoEvent]
      /\ UNCHANGED <<fresh, lost, hand, dpc, totalProcessed, totalExpired>>
  BY <1>a DEF PublishEnqueue, TypeOK, OnePlace, dispatchVars
<1>c. seqOf'[e] = sequence /\ \A f \in Events \ {e} : seqOf'[f] = seqOf[f]
  BY <1>a, <1>b DEF TypeOK
<1>1. IsFiniteSet(queue') /\ Cardinality(queue') = Cardinality(queue) + 1
  BY <1>a, <1>b, FS_AddElement
<1>2. QueueBounded'
  BY <1>1, <1>a, FS_CardinalityType, BusAssumption DEF PublishEnqueue, QueueBounded
<1>3. Accounting'
  BY <1>1, <1>a, <1>b, FS_CardinalityType DEF Accounting, InHand, TypeOK
<1>4. OnePlace'
  <2> HIDE DEF e
  <2> QED BY <1>a, <1>b, BusAssumption DEF OnePlace, TypeOK, e
<1>5. SequenceSound'
  <2> HIDE DEF e
  <2> QED BY <1>a, <1>b, <1>c DEF SequenceSound, TypeOK
<1>6. PriorityFIFO'
  <2> HIDE DEF e
  <2> QED BY <1>a, <1>b, <1>c DEF PriorityFIFO, SequenceSound, TypeOK
<1>7. QED
  BY <1>a, <1>b, <1>1, <1>2, <1>3, <1>4, <1>5, <1>6 DEF Rest, HandMatchesPc

\* A batch pushed: its accepted prefix takes the next sequence numbers in order.
LEMMA BatchRest ==
  ASSUME IInv, NEW b \in Batches, PublishMany(b)
  PROVE  Rest'
<1> DEFINE n == Accepted(b)
           B == First(b, n)
           place(e) == CHOOSE i \in 1..n : b[i] = e
<1>a. /\ TypeOK /\ OnePlace /\ Accounting /\ SequenceSound /\ PriorityFIFO /\ HandMatchesPc
      /\ IsFiniteSet(queue) /\ IsFiniteSet(lost) /\ QueueBounded
  BY DEF IInv
<1>n. /\ Cardinality(queue) \in Nat /\ Len(b) \in Nat /\ n \in 0..Len(b)
      /\ Cardinality(queue) + n <= MaxQueueSize
  BY <1>a, FS_CardinalityType, AcceptedBounds
<1>B. /\ B \subseteq Events /\ B \subseteq First(b, Len(b))
      /\ IsFiniteSet(B) /\ Cardinality(B) = n
  BY <1>n, FirstCount
<1>b. /\ B \subseteq fresh /\ fresh' \subseteq fresh \ B
      /\ queue' = queue \cup B
      /\ sequence' = sequence + n /\ totalPublished' = totalPublished + n
      /\ UNCHANGED <<publishing, lost, hand, dpc, totalProcessed, totalExpired>>
  BY <1>B DEF PublishMany, dispatchVars
<1>c. /\ \A e \in B : place(e) \in 1..n /\ b[place(e)] = e
      /\ \A e \in B : seqOf'[e] = sequence + place(e) - 1
      /\ \A f \in Events \ B : seqOf'[f] = seqOf[f]
  BY <1>n, <1>B, PlaceInBatch DEF PublishMany
<1> HIDE DEF n, B, place
<1>d. B \cap queue = {} /\ B \cap lost = {}
  BY <1>a, <1>b DEF OnePlace
<1>1. IsFiniteSet(queue') /\ Cardinality(queue') = Cardinality(queue) + n
  <2>1. queue \cap B = {}
    BY <1>d
  <2>2. QED
    <3>1. /\ IsFiniteSet(queue \cup B)
          /\ Cardinality(queue \cup B) =
               Cardinality(queue) + Cardinality(B) - Cardinality(queue \cap B)
      BY <1>a, <1>B, FS_Union
    <3>2. Cardinality(queue \cap B) = 0
      BY <2>1, FS_EmptySet
    <3>3. QED
      BY <3>1, <3>2, <1>b, <1>B, <1>n
<1>2. QueueBounded'
  BY <1>1, <1>n DEF QueueBounded
<1>3. Accounting'
  BY <1>1, <1>a, <1>b, <1>n, FS_CardinalityType DEF Accounting, InHand, TypeOK
<1>4. OnePlace'
  BY <1>a, <1>b, <1>d DEF OnePlace
<1>e. \A e \in B : seqOf'[e] >= sequence /\ seqOf'[e] < sequence + n
  BY <1>a, <1>c, <1>n DEF TypeOK
<1>5. SequenceSound'
  <2>1. ASSUME NEW e \in Events PROVE seqOf'[e] <= sequence'
    <3>1. CASE e \in B
      BY <3>1, <1>a, <1>b, <1>c, <1>n DEF TypeOK
    <3>2. CASE e \notin B
      BY <3>2, <1>a, <1>b, <1>c, <1>n DEF SequenceSound, TypeOK
    <3>3. QED
      BY <3>1, <3>2
  <2>2. \A e \in queue' : seqOf'[e] < sequence'
    BY <1>a, <1>b, <1>c, <1>d, <1>e, <1>n, <1>B DEF SequenceSound, TypeOK
  <2>3. ASSUME NEW e \in queue', NEW f \in queue', seqOf'[e] = seqOf'[f]
        PROVE  e = f
    <3>1. CASE e \in B /\ f \in B
      <4>1. sequence \in Nat /\ place(e) \in Nat /\ place(f) \in Nat
        BY <3>1, <1>a, <1>c, <1>n DEF TypeOK
      <4>2. sequence + place(e) - 1 = sequence + place(f) - 1
        BY <3>1, <2>3, <1>c
      <4>3. place(e) = place(f)
        BY <4>1, <4>2
      <4>4. QED
        BY <3>1, <4>3, <1>c
    <3>2. CASE e \notin B /\ f \notin B
      BY <3>2, <2>3, <1>a, <1>b, <1>c DEF SequenceSound, TypeOK
    <3>3. CASE e \in B /\ f \notin B
      BY <3>3, <2>3, <1>a, <1>b, <1>c, <1>e DEF SequenceSound, TypeOK
    <3>4. CASE e \notin B /\ f \in B
      BY <3>4, <2>3, <1>a, <1>b, <1>c, <1>e DEF SequenceSound, TypeOK
    <3>5. QED
      BY <3>1, <3>2, <3>3, <3>4
  <2>4. QED
    BY <2>1, <2>2, <2>3 DEF SequenceSound
<1>6. PriorityFIFO'
  <2> SUFFICES ASSUME NEW e \in queue', NEW f \in Events,
                      Priority[e] = Priority[f], seqOf'[e] < seqOf'[f]
               PROVE  f \in queue'
    BY DEF PriorityFIFO
  <2>1. CASE f \in B
    BY <2>1, <1>b
  <2>2. CASE f \notin B /\ e \in B
    BY <2>2, <1>a, <1>b, <1>c, <1>e, <1>B, <1>n DEF SequenceSound, TypeOK
  <2>3. CASE f \notin B /\ e \notin B
    BY <2>3, <1>a, <1>b, <1>c DEF PriorityFIFO, TypeOK
  <2>4. QED
    BY <2>1, <2>2, <2>3
<1>7. QED
  BY <1>a, <1>b, <1>1, <1>2, <1>3, <1>4, <1>5, <1>6 DEF Rest, HandMatchesPc

\* One entry popped, the least one.
LEMMA DequeueRest ==
  ASSUME IInv, NEW e \in Events, Dequeue(e)
  PROVE  Rest'
<1>a. /\ TypeOK /\ OnePlace /\ Accounting /\ SequenceSound /\ PriorityFIFO /\ HandMatchesPc
      /\ IsFiniteSet(queue) /\ IsFiniteSet(lost) /\ QueueBounded
  BY DEF IInv
<1>b. /\ dpc = "loop" /\ dpc' = "popped" /\ hand = NoEvent /\ hand' = e
      /\ e \in queue /\ queue' = queue \ {e}
      /\ \A f \in queue \ {e} : Precedes(e, f)
      /\ UNCHANGED <<fresh, publishing, seqOf, sequence, totalPublished, lost,
                     totalProcessed, totalExpired>>
  BY <1>a DEF Dequeue, IsFirst, HandMatchesPc
<1>1. IsFiniteSet(queue') /\ Cardinality(queue') = Cardinality(queue) - 1
  BY <1>a, <1>b, FS_RemoveElement
<1>2. Cardinality(queue) \in Nat /\ Cardinality(lost) \in Nat
  BY <1>a, FS_CardinalityType
<1>3. QueueBounded' /\ HandMatchesPc'
  BY <1>1, <1>2, <1>a, <1>b, BusAssumption DEF QueueBounded, HandMatchesPc
<1>4. Accounting'
  BY <1>1, <1>2, <1>a, <1>b, BusAssumption DEF Accounting, InHand, TypeOK
<1>5. OnePlace'
  BY <1>a, <1>b DEF OnePlace
<1>6. SequenceSound'
  BY <1>a, <1>b DEF SequenceSound
<1>7. PriorityFIFO'
  <2> SUFFICES ASSUME NEW g \in queue', NEW f \in Events,
                      Priority[g] = Priority[f], seqOf[g] < seqOf[f]
               PROVE  f \in queue'
    BY <1>b DEF PriorityFIFO
  <2>1. f \in queue
    BY <1>a, <1>b DEF PriorityFIFO
  <2>2. Precedes(e, g)
    BY <1>b
  <2>3. /\ Priority[e] \in Nat /\ Priority[g] \in Nat
        /\ seqOf[e] \in Nat /\ seqOf[g] \in Nat
    <3>1. g \in Events
      BY <1>a, <1>b DEF TypeOK
    <3>2. Priority[e] \in 0..3 /\ Priority[g] \in 0..3
      BY <3>1, BusAssumption
    <3>3. QED
      BY <3>1, <3>2, <1>a DEF TypeOK
  <2>5. f # e
    BY <2>2, <2>3 DEF Precedes
  <2>4. QED
    BY <2>1, <2>5, <1>b
<1>8. QED
  BY <1>b, <1>1, <1>3, <1>4, <1>5, <1>6, <1>7, <1>a DEF Rest

\* The hand emptied into one counter, or into what the thread's death loses.
LEMMA ReleaseRest ==
  ASSUME IInv, Expire \/ FinishDispatch \/ SubmitRaises
  PROVE  Rest'
<1>a. /\ TypeOK /\ OnePlace /\ Accounting /\ SequenceSound /\ PriorityFIFO /\ HandMatchesPc
      /\ IsFiniteSet(queue) /\ IsFiniteSet(lost) /\ QueueBounded
  BY DEF IInv
<1>b. /\ hand \in Events /\ hand \notin lost /\ hand' = NoEvent
      /\ dpc' \in {"loop", "dead"} /\ UNCHANGED publishVars
  BY <1>a DEF Expire, FinishDispatch, SubmitRaises, HandMatchesPc, OnePlace, TypeOK
<1>c. Cardinality(queue) \in Nat /\ Cardinality(lost) \in Nat
  BY <1>a, FS_CardinalityType
<1>1. HandMatchesPc' /\ QueueBounded' /\ SequenceSound' /\ PriorityFIFO' /\ IsFiniteSet(queue')
  BY <1>a, <1>b DEF publishVars, HandMatchesPc, QueueBounded, SequenceSound, PriorityFIFO
<1>2. CASE Expire \/ FinishDispatch
  <2>1. UNCHANGED <<lost, totalPublished, queue>>
    BY <1>2 DEF Expire, FinishDispatch, publishVars
  <2>2. InHand = 1 /\ InHand' = 0
    BY <1>b, BusAssumption DEF InHand
  <2>3. totalPublished \in Nat /\ totalProcessed \in Nat /\ totalExpired \in Nat
    BY <1>a DEF TypeOK
  <2>4. Accounting'
    <3>1. CASE Expire
      <4>1. totalExpired' = totalExpired + 1 /\ totalProcessed' = totalProcessed
        BY <3>1 DEF Expire
      <4>2. QED
        BY <4>1, <2>1, <2>2, <2>3, <1>a, <1>c DEF Accounting
    <3>2. CASE FinishDispatch
      <4>1. totalProcessed' = totalProcessed + 1 /\ totalExpired' = totalExpired
        BY <3>2 DEF FinishDispatch
      <4>2. QED
        BY <4>1, <2>1, <2>2, <2>3, <1>a, <1>c DEF Accounting
    <3>3. QED
      BY <1>2, <3>1, <3>2
  <2>5. OnePlace'
    BY <2>1, <1>a, <1>b, BusAssumption DEF OnePlace, publishVars, TypeOK
  <2>6. QED
    BY <2>1, <2>4, <2>5, <1>1, <1>a DEF Rest
<1>3. CASE SubmitRaises
  <2>1. /\ lost' = lost \cup {hand}
        /\ UNCHANGED <<totalPublished, totalProcessed, totalExpired, queue>>
    BY <1>3 DEF SubmitRaises, publishVars
  <2>2. IsFiniteSet(lost') /\ Cardinality(lost') = Cardinality(lost) + 1
    BY <2>1, <1>a, <1>b, FS_AddElement
  <2>3. Accounting'
    BY <2>1, <2>2, <1>a, <1>b, <1>c, BusAssumption DEF Accounting, InHand, TypeOK
  <2>4. OnePlace'
    BY <2>1, <1>a, <1>b, BusAssumption DEF OnePlace, publishVars, TypeOK
  <2>5. QED
    BY <2>2, <2>3, <2>4, <1>1, <1>a DEF Rest
<1>4. QED
  BY <1>2, <1>3

\* The other steps of the dispatch thread keep their event and the books.
LEMMA CarryRest ==
  ASSUME IInv,
         \/ Snapshot
         \/ \E s \in Subscribers : SkipTarget(s) \/ TakeExecutor(s)
         \/ Submit
         \/ ExitLoop
  PROVE  Rest'
<1>a. /\ UNCHANGED publishVars
      /\ UNCHANGED <<hand, totalProcessed, totalExpired, lost>>
  BY DEF Snapshot, SkipTarget, TakeExecutor, Submit, ExitLoop
<1>1. HandMatchesPc'
  BY <1>a DEF IInv, HandMatchesPc, Snapshot, SkipTarget, TakeExecutor, Submit, ExitLoop
<1>2. QED
  BY <1>a, <1>1 DEF IInv, Rest, publishVars, OnePlace, SequenceSound, PriorityFIFO,
                    QueueBounded, Accounting, InHand

\* Every step of a publisher keeps the rest of IInv.
LEMMA PublishRest == IInv /\ Publish => Rest'
<1> SUFFICES ASSUME IInv, Publish PROVE Rest'
  OBVIOUS
<1>a. /\ TypeOK /\ OnePlace /\ Accounting /\ SequenceSound /\ PriorityFIFO /\ HandMatchesPc
      /\ IsFiniteSet(queue) /\ IsFiniteSet(lost) /\ QueueBounded
  BY DEF IInv
<1> USE DEF dispatchVars
<1>f. ASSUME UNCHANGED <<queue, seqOf, sequence, totalPublished>>,
             UNCHANGED dispatchVars,
             OnePlace'
      PROVE  Rest'
  BY <1>f, <1>a DEF Rest, Accounting, InHand, SequenceSound, PriorityFIFO, QueueBounded,
                    HandMatchesPc
<1>1. ASSUME NEW e \in Events, PublishRefused(e) PROVE Rest'
  <2>1. OnePlace'
    BY <1>1, <1>a DEF PublishRefused, OnePlace
  <2>2. QED
    BY <1>1, <2>1, <1>f DEF PublishRefused
<1>2. ASSUME NEW p \in Publishers, NEW e \in Events, PublishBegin(p, e) PROVE Rest'
  <2>1. OnePlace'
    BY <1>2, <1>a, BusAssumption DEF PublishBegin, OnePlace, TypeOK
  <2>2. QED
    BY <1>2, <2>1, <1>f DEF PublishBegin
<1>3. ASSUME NEW p \in Publishers, PublishFull(p) PROVE Rest'
  <2>1. OnePlace'
    BY <1>3, <1>a, BusAssumption DEF PublishFull, OnePlace, TypeOK
  <2>2. QED
    BY <1>3, <2>1, <1>f DEF PublishFull
<1>4. QED
  BY <1>1, <1>2, <1>3, EnqueueRest, BatchRest DEF Publish

\* Every step of the dispatch thread keeps the rest of IInv.
LEMMA DispatchRest == IInv /\ Dispatch => Rest'
BY DequeueRest, ReleaseRest, CarryRest DEF Dispatch

\* Every step of a worker keeps the rest of IInv.
LEMMA WorkRest ==
  ASSUME IInv, NEW s \in Subscribers, Work(s)
  PROVE  Rest'
<1>1. UNCHANGED publishVars /\ UNCHANGED dispatchVars
  BY DEF Work, StartCallback, CallbackReturns, CallbackRaises
<1>2. QED
  BY <1>1, FrameRest DEF dispatchVars

\* Every step of the control thread keeps the rest of IInv.
LEMMA ControlRest == IInv /\ Control => Rest'
<1> SUFFICES ASSUME IInv, Control PROVE Rest'
  OBVIOUS
<1>1. UNCHANGED publishVars /\ UNCHANGED <<hand, totalProcessed, totalExpired, lost>>
  BY DEF Control, Subscribe, Unsubscribe, Start, StopBegin, StopJoin, StopPool,
         StopReturn, ClearDeadLetters, dispatchVars
<1>2. dpc' = dpc \/ (~Alive /\ dpc' = "loop")
  BY DEF Control, Subscribe, Unsubscribe, Start, StopBegin, StopJoin, StopPool,
         StopReturn, ClearDeadLetters, dispatchVars
<1>3. QED
  BY <1>1, <1>2, FrameRest

-----------------------------------------------------------------------------
(* IInv is an invariant *)

\* The initial state satisfies IInv: nothing queued, nothing counted.
LEMMA InitIInv == Init => IInv
<1> SUFFICES ASSUME Init PROVE IInv
  OBVIOUS
<1>1. TypeOK
  BY BusAssumption DEF Init, TypeOK
<1>2. IsFiniteSet({}) /\ Cardinality({}) = 0
  BY FS_EmptySet
<1>3. Accounting /\ QueueBounded
  BY <1>2, BusAssumption DEF Init, Accounting, QueueBounded, InHand
<1>4. HandMatchesPc /\ OnePlace /\ SequenceSound /\ PriorityFIFO
  BY BusAssumption DEF Init, HandMatchesPc, OnePlace, SequenceSound, PriorityFIFO
<1>5. QED
  BY <1>1, <1>2, <1>3, <1>4 DEF IInv, Init

\* Every step keeps IInv.
LEMMA NextIInv == IInv /\ [Next]_vars => IInv'
<1> SUFFICES ASSUME IInv, [Next]_vars PROVE IInv'
  OBVIOUS
<1>1. CASE Next
  <2>1. TypeOK'
    BY <1>1, PublishTypeOK, DispatchTypeOK, WorkTypeOK, ControlTypeOK DEF Next
  <2>2. Rest'
    BY <1>1, PublishRest, DispatchRest, WorkRest, ControlRest DEF Next
  <2>3. QED
    BY <2>1, <2>2 DEF IInv, Rest
<1>2. CASE UNCHANGED vars
  <2>1. TypeOK'
    BY <1>2 DEF IInv, TypeOK, vars, publishVars, dispatchVars, subVars, workVars, lifeVars
  <2>2. Rest'
    BY <1>2, FrameRest DEF vars, dispatchVars
  <2>3. QED
    BY <2>1, <2>2 DEF IInv, Rest
<1>3. QED
  BY <1>1, <1>2

\* IInv holds in every reachable state.
THEOREM Inductive == Spec => []IInv
BY InitIInv, NextIInv, PTL DEF Spec

\* The bus never leaves its types (EventBus.TypeOK), however its threads
\* interleave.
THEOREM TypeCorrect == Spec => []TypeOK
<1>1. IInv => TypeOK
  BY DEF IInv
<1>2. QED
  BY <1>1, Inductive, PTL

\* The bus' counters account for every event it has accepted (EventBus.Accounting),
\* including the ones a dying dispatch thread loses.
THEOREM BooksBalance == Spec => []Accounting
<1>1. IInv => Accounting
  BY DEF IInv
<1>2. QED
  BY <1>1, Inductive, PTL

\* Back-pressure bounds the queue for any number of publishers and any batches
\* (EventBus.QueueBounded).
THEOREM QueueNeverOverflows == Spec => []QueueBounded
<1>1. IInv => QueueBounded
  BY DEF IInv
<1>2. QED
  BY <1>1, Inductive, PTL

\* Dispatch is FIFO within a priority (EventBus.PriorityFIFO).
THEOREM DispatchIsFIFO == Spec => []PriorityFIFO
<1>1. IInv => PriorityFIFO
  BY DEF IInv
<1>2. QED
  BY <1>1, Inductive, PTL

\* Only the dispatch thread takes from the queue, and it takes one entry with
\* nothing more urgent left behind.
LEMMA StepTakesFirst ==
  ASSUME IInv, [Next]_vars, NEW e \in queue \ queue', NEW f \in queue
  PROVE  Priority[e] <= Priority[f]
<1>1. \E d \in Events : Dequeue(d)
  <2>1. queue' # queue
    OBVIOUS
  <2>2. CASE Publish
    <3>1. queue \subseteq queue'
      BY <2>2 DEF Publish, PublishRefused, PublishBegin, PublishFull, PublishEnqueue, PublishMany
    <3>2. QED
      BY <3>1
  <2>3. CASE Dispatch
    BY <2>1, <2>3 DEF Dispatch, Expire, Snapshot, SkipTarget, TakeExecutor, Submit,
                      SubmitRaises, FinishDispatch, ExitLoop, publishVars
  <2>4. CASE \E s \in Subscribers : Work(s)
    BY <2>1, <2>4 DEF Work, StartCallback, CallbackReturns, CallbackRaises, publishVars
  <2>5. CASE Control
    BY <2>1, <2>5 DEF Control, Subscribe, Unsubscribe, Start, StopBegin, StopJoin, StopPool,
                      StopReturn, ClearDeadLetters, publishVars
  <2>6. CASE UNCHANGED vars
    BY <2>1, <2>6 DEF vars, publishVars
  <2>7. QED
    BY <2>2, <2>3, <2>4, <2>5, <2>6 DEF Next
<1>2. Dequeue(e)
  BY <1>1 DEF Dequeue
<1>3. e \in Events /\ f \in Events
  BY DEF IInv, TypeOK
<1>4. Priority[e] \in 0..3 /\ Priority[f] \in 0..3
  BY <1>3, BusAssumption
<1>5. f = e \/ Precedes(e, f)
  BY <1>2 DEF Dequeue, IsFirst
<1>6. QED
  BY <1>4, <1>5 DEF Precedes

\* What is dispatched is at least as urgent as everything that keeps waiting
\* (EventBus.HighestPriorityFirst).
THEOREM UrgentFirst == Spec => HighestPriorityFirst
<1>1. IInv /\ [Next]_vars =>
        [\A e \in queue \ queue', f \in queue : Priority[e] <= Priority[f]]_vars
  BY StepTakesFirst
<1>2. QED
  BY <1>1, Inductive, PTL DEF Spec, HighestPriorityFirst
-----------------------------------------------------------------------------
(* Nobody gets an event twice *)

\* Steps that leave what the subscribers were given alone: all they may do to an
\* event is move it towards its dispatch.
LEMMA FrameOnce ==
  ASSUME OnceInv, TargetsMatchPc',
         UNCHANGED <<backlog, active, finished>>,
         \A e \in Events : Undispatched(e)' => Undispatched(e),
         \A s \in Subscribers, e \in Events :
           StillToSubmit(s, e)' => StillToSubmit(s, e) \/ Undispatched(e)
  PROVE  OnceInv'
<1>1. \A s \in Subscribers, e \in Events : Given(s, e)' => Given(s, e)
  BY DEF Given
<1>2. NoneGivenEarly'
  BY <1>1 DEF OnceInv, NoneGivenEarly
<1>3. AtMostOnce'
  BY DEF OnceInv, AtMostOnce
<1>4. QED
  BY <1>2, <1>3 DEF OnceInv

\* A publisher moves events out of fresh, through its hands, onto the heap.
LEMMA PublishOnce == IInv /\ OnceInv /\ Publish => OnceInv'
<1> SUFFICES ASSUME IInv, OnceInv, Publish PROVE OnceInv'
  OBVIOUS
<1>a. UNCHANGED dispatchVars /\ UNCHANGED workVars
  BY DEF Publish, PublishRefused, PublishBegin, PublishFull, PublishEnqueue, PublishMany
<1>b. TargetsMatchPc'
  BY <1>a DEF OnceInv, TargetsMatchPc, dispatchVars
<1>c. TypeOK
  BY DEF IInv
<1>1. ASSUME NEW e \in Events, Undispatched(e)' PROVE Undispatched(e)
  <2>0. e # NoEvent
    BY BusAssumption
  <2>1. ASSUME NEW f \in Events, PublishRefused(f) PROVE Undispatched(e)
    BY <2>1, <1>1, <1>a DEF PublishRefused, Undispatched, dispatchVars
  <2>2. ASSUME NEW p \in Publishers, NEW f \in Events, PublishBegin(p, f)
        PROVE  Undispatched(e)
    <3>1. \A q \in Publishers : publishing'[q] = e => publishing[q] = e \/ e = f
      BY <2>2, <1>c DEF PublishBegin, TypeOK
    <3>2. QED
      BY <2>2, <3>1, <1>1, <1>a DEF PublishBegin, Undispatched, dispatchVars
  <2>3. ASSUME NEW p \in Publishers, PublishFull(p) PROVE Undispatched(e)
    <3>1. \A q \in Publishers : publishing'[q] = e => publishing[q] = e
      BY <2>0, <2>3, <1>c DEF PublishFull, TypeOK
    <3>2. QED
      BY <2>3, <3>1, <1>1, <1>a DEF PublishFull, Undispatched, dispatchVars
  <2>4. ASSUME NEW p \in Publishers, PublishEnqueue(p) PROVE Undispatched(e)
    <3>1. \A q \in Publishers : publishing'[q] = e => publishing[q] = e
      BY <2>0, <2>4, <1>c DEF PublishEnqueue, TypeOK
    <3>2. QED
      BY <2>4, <3>1, <1>1, <1>a DEF PublishEnqueue, Undispatched, dispatchVars
  <2>5. ASSUME NEW b \in Batches, PublishMany(b) PROVE Undispatched(e)
    <3>1. Accepted(b) \in 0..Len(b)
      BY FS_CardinalityType, AcceptedBounds DEF IInv
    <3>2. First(b, Accepted(b)) \subseteq fresh
      BY <2>5, <3>1, FirstCount DEF PublishMany
    <3>3. queue' = queue \cup First(b, Accepted(b)) /\ fresh' \subseteq fresh
          /\ publishing' = publishing
      BY <2>5 DEF PublishMany
    <3>4. QED
      BY <3>2, <3>3, <1>1, <1>a DEF Undispatched, dispatchVars
  <2>6. QED
    BY <2>1, <2>2, <2>3, <2>4, <2>5 DEF Publish
<1>2. \A s \in Subscribers, e \in Events : StillToSubmit(s, e)' => StillToSubmit(s, e)
  BY <1>a DEF StillToSubmit, dispatchVars
<1>3. QED
  BY <1>1, <1>2, <1>a, <1>b, FrameOnce DEF workVars

\* The submission of the event in hand to an executor: the subscriber had not
\* been given it, and it is nowhere on its way any more.
LEMMA SubmitOnce == IInv /\ OnceInv /\ Submit => OnceInv'
<1> SUFFICES ASSUME IInv, OnceInv, Submit PROVE OnceInv'
  OBVIOUS
<1>a. TypeOK /\ HandMatchesPc /\ OnePlace
  BY DEF IInv
<1>b. TargetsMatchPc /\ NoneGivenEarly /\ AtMostOnce
  BY DEF OnceInv
<1>c. /\ dpc = "submit" /\ dpc' = "targets" /\ target' = NoSubscriber
      /\ backlog' = [backlog EXCEPT ![target] = Append(@, hand)]
      /\ UNCHANGED <<fresh, queue, publishing, hand, targets, active, finished>>
  BY DEF Submit, publishVars
<1>d. target \in Subscribers /\ hand \in Events
  BY <1>a, <1>b, <1>c DEF TypeOK, TargetsMatchPc, HandMatchesPc
<1>e. ~Given(target, hand)
  BY <1>b, <1>d DEF NoneGivenEarly, StillToSubmit
<1>f. PICK old \in Seq(Events) : old = backlog[target]
  BY <1>a, <1>d DEF TypeOK
<1>g. /\ backlog'[target] = Append(old, hand)
      /\ \A s \in Subscribers \ {target} : backlog'[s] = backlog[s]
  BY <1>a, <1>c, <1>d, <1>f DEF TypeOK
<1>h. PICK n \in Nat : n = Len(old)
  BY <1>f
<1>i. /\ Len(Append(old, hand)) = n + 1
      /\ \A i \in 1..n : Append(old, hand)[i] = old[i]
      /\ Append(old, hand)[n + 1] = hand
  BY <1>d, <1>f, <1>h
<1>1. TargetsMatchPc'
  BY <1>a, <1>b, <1>c, BusAssumption DEF TargetsMatchPc, TypeOK
<1>2. ASSUME NEW s \in Subscribers, NEW e \in Events, Given(s, e)'
      PROVE  Given(s, e) \/ (s = target /\ e = hand)
  <2>1. CASE s # target
    BY <1>2, <2>1, <1>c, <1>g DEF Given
  <2>2. CASE s = target
    <3>1. \/ \E i \in 1..(n + 1) : Append(old, hand)[i] = e
          \/ e \in active[s] \cup finished[s]
      BY <1>2, <2>2, <1>c, <1>g, <1>i DEF Given
    <3>2. ASSUME NEW i \in 1..(n + 1), Append(old, hand)[i] = e, e # hand
          PROVE  i \in 1..n /\ old[i] = e
      BY <3>2, <1>h, <1>i
    <3>3. QED
      BY <2>2, <3>1, <3>2, <1>f, <1>h DEF Given
  <2>3. QED
    BY <2>1, <2>2
<1>3. NoneGivenEarly'
  <2> SUFFICES ASSUME NEW s \in Subscribers, NEW e \in Events, Given(s, e)'
               PROVE  ~Undispatched(e)' /\ ~StillToSubmit(s, e)'
    BY DEF NoneGivenEarly
  <2>1. ASSUME Undispatched(e)' PROVE FALSE
    <3>1. Undispatched(e) /\ e # hand
      BY <2>1, <1>a, <1>c, BusAssumption DEF Undispatched, OnePlace
    <3>2. QED
      BY <3>1, <1>2, <1>b DEF NoneGivenEarly
  <2>2. ASSUME StillToSubmit(s, e)' PROVE FALSE
    <3>1. hand = e /\ s \in targets
      BY <2>2, <1>c, BusAssumption DEF StillToSubmit
    <3>2. StillToSubmit(s, e) /\ s # target
      BY <3>1, <1>b DEF StillToSubmit, TargetsMatchPc
    <3>3. QED
      BY <3>2, <1>2, <1>b DEF NoneGivenEarly
  <2>3. QED
    BY <2>1, <2>2
<1>4. AtMostOnce'
  <2> SUFFICES ASSUME NEW s \in Subscribers
               PROVE  /\ \A i, j \in 1..Len(backlog'[s]) :
                           backlog'[s][i] = backlog'[s][j] => i = j
                      /\ \A i \in 1..Len(backlog'[s]) :
                           backlog'[s][i] \notin active[s] \cup finished[s]
                      /\ active[s] \cap finished[s] = {}
    BY <1>c DEF AtMostOnce
  <2>1. CASE s # target
    BY <2>1, <1>b, <1>g DEF AtMostOnce
  <2>2. CASE s = target
    <3>1. /\ \A i, j \in 1..n : old[i] = old[j] => i = j
          /\ \A i \in 1..n : old[i] \notin active[s] \cup finished[s] /\ old[i] # hand
          /\ hand \notin active[s] \cup finished[s]
          /\ active[s] \cap finished[s] = {}
      BY <2>2, <1>b, <1>e, <1>f, <1>h DEF AtMostOnce, Given
    <3>2. \A i \in 1..(n + 1) :
            \/ i \in 1..n /\ Append(old, hand)[i] = old[i]
            \/ i = n + 1 /\ Append(old, hand)[i] = hand
      BY <1>h, <1>i
    <3>3. QED
      BY <2>2, <3>1, <3>2, <1>g, <1>i
  <2>3. QED
    BY <2>1, <2>2
<1>5. QED
  BY <1>1, <1>3, <1>4 DEF OnceInv

\* The other steps of the dispatch thread give nobody anything.
LEMMA DispatchOnce == IInv /\ OnceInv /\ Dispatch => OnceInv'
<1> SUFFICES ASSUME IInv, OnceInv, Dispatch, ~Submit PROVE OnceInv'
  BY SubmitOnce
<1>a. TypeOK /\ HandMatchesPc /\ TargetsMatchPc
  BY DEF IInv, OnceInv
<1>b. UNCHANGED <<backlog, active, finished, fresh, publishing>>
  BY DEF Dispatch, Dequeue, Expire, Snapshot, SkipTarget, TakeExecutor, SubmitRaises,
         FinishDispatch, ExitLoop, publishVars, workVars
<1>1. TargetsMatchPc'
  BY <1>a, BusAssumption
  DEF Dispatch, Dequeue, Expire, Snapshot, SkipTarget, TakeExecutor, SubmitRaises,
      FinishDispatch, ExitLoop, TargetsMatchPc, TypeOK
<1>2. ASSUME NEW e \in Events, Undispatched(e)' PROVE Undispatched(e)
  BY <1>2, <1>b, BusAssumption
  DEF Dispatch, Dequeue, IsFirst, Expire, Snapshot, SkipTarget, TakeExecutor, SubmitRaises,
      FinishDispatch, ExitLoop, publishVars, Undispatched
<1>3. ASSUME NEW s \in Subscribers, NEW e \in Events, StillToSubmit(s, e)'
      PROVE  StillToSubmit(s, e) \/ Undispatched(e)
  BY <1>3, <1>a, BusAssumption
  DEF Dispatch, Dequeue, IsFirst, Expire, Snapshot, SkipTarget, TakeExecutor, SubmitRaises,
      FinishDispatch, ExitLoop, StillToSubmit, Undispatched, TargetsMatchPc
<1>4. QED
  BY <1>b, <1>1, <1>2, <1>3, FrameOnce

\* A worker moves an event from the backlog to the running callbacks and from
\* there to the finished ones.
LEMMA WorkOnce ==
  ASSUME IInv, OnceInv, NEW s \in Subscribers, Work(s)
  PROVE  OnceInv'
<1>a. TypeOK /\ TargetsMatchPc /\ NoneGivenEarly /\ AtMostOnce
  BY DEF IInv, OnceInv
<1>b. UNCHANGED publishVars /\ UNCHANGED dispatchVars
  BY DEF Work, StartCallback, CallbackReturns, CallbackRaises
<1>c. TargetsMatchPc'
  BY <1>a, <1>b DEF TargetsMatchPc, dispatchVars
<1>d. ASSUME \A r \in Subscribers, e \in Events : Given(r, e)' => Given(r, e)
      PROVE  NoneGivenEarly'
  BY <1>d, <1>a, <1>b DEF NoneGivenEarly, Undispatched, StillToSubmit, publishVars, dispatchVars
<1>1. CASE StartCallback(s)
  <2>1. PICK old \in Seq(Events) : old = backlog[s]
    BY <1>a DEF TypeOK
  <2>2. PICK n \in Nat : n = Len(old)
    BY <2>1
  <2>3. old # <<>> /\ n >= 1
    BY <1>1, <2>1, <2>2 DEF StartCallback
  <2>4. /\ Head(old) = old[1]
        /\ Len(Tail(old)) = n - 1
        /\ \A i \in 1..(n - 1) : Tail(old)[i] = old[i + 1]
    BY <2>1, <2>2, <2>3
  <2>5. /\ backlog'[s] = Tail(old) /\ active'[s] = active[s] \cup {old[1]}
        /\ \A r \in Subscribers \ {s} : backlog'[r] = backlog[r] /\ active'[r] = active[r]
        /\ finished' = finished
    BY <1>1, <1>a, <2>1, <2>4 DEF StartCallback, TypeOK
  <2>6. \A i \in 1..(n - 1) : i \in 1..n /\ i + 1 \in 1..n /\ i + 1 # 1
    BY <2>2, <2>3
  <2>7. 1 \in 1..n
    BY <2>2, <2>3
  <2>8. ASSUME NEW r \in Subscribers, NEW e \in Events, Given(r, e)' PROVE Given(r, e)
    <3>1. CASE r = s
      BY <2>8, <3>1, <2>1, <2>2, <2>4, <2>5, <2>6, <2>7 DEF Given
    <3>2. CASE r # s
      BY <2>8, <3>2, <2>5 DEF Given
    <3>3. QED
      BY <3>1, <3>2
  <2>9. AtMostOnce'
    <3> SUFFICES ASSUME NEW r \in Subscribers
                 PROVE  /\ \A i, j \in 1..Len(backlog'[r]) :
                             backlog'[r][i] = backlog'[r][j] => i = j
                        /\ \A i \in 1..Len(backlog'[r]) :
                             backlog'[r][i] \notin active'[r] \cup finished[r]
                        /\ active'[r] \cap finished[r] = {}
      BY <2>5 DEF AtMostOnce
    <3>1. CASE r # s
      BY <3>1, <1>a, <2>5 DEF AtMostOnce
    <3>2. CASE r = s
      <4>1. /\ \A i, j \in 1..n : old[i] = old[j] => i = j
            /\ \A i \in 1..n : old[i] \notin active[s] \cup finished[s]
            /\ active[s] \cap finished[s] = {}
        BY <1>a, <2>1, <2>2 DEF AtMostOnce
      <4>2. ASSUME NEW i \in 1..(n - 1), NEW j \in 1..(n - 1), Tail(old)[i] = Tail(old)[j]
            PROVE  i = j
        <5>1. i + 1 = j + 1
          BY <4>2, <4>1, <2>4, <2>6
        <5>2. QED
          BY <5>1, <2>2
      <4>3. \A i \in 1..(n - 1) : Tail(old)[i] \notin active[s] \cup {old[1]} \cup finished[s]
        BY <4>1, <2>4, <2>6, <2>7
      <4>4. QED
        BY <3>2, <4>1, <4>2, <4>3, <2>4, <2>5, <2>7
    <3>3. QED
      BY <3>1, <3>2
  <2>10. QED
    BY <1>c, <1>d, <2>8, <2>9 DEF OnceInv
<1>2. ASSUME NEW e \in Events, CallbackReturns(s, e) \/ CallbackRaises(s, e) PROVE OnceInv'
  <2>1. /\ e \in active[s] /\ backlog' = backlog
        /\ active'[s] = active[s] \ {e} /\ finished'[s] = finished[s] \cup {e}
        /\ \A r \in Subscribers \ {s} : active'[r] = active[r] /\ finished'[r] = finished[r]
    BY <1>2, <1>a DEF CallbackReturns, CallbackRaises, EndCallback, TypeOK
  <2>2. \A r \in Subscribers, f \in Events : Given(r, f)' => Given(r, f)
    BY <2>1 DEF Given
  <2>3. AtMostOnce'
    BY <2>1, <1>a DEF AtMostOnce
  <2>4. QED
    BY <1>c, <1>d, <2>2, <2>3 DEF OnceInv
<1>3. QED
  BY <1>1, <1>2 DEF Work

\* The control thread at most empties a backlog.
LEMMA ControlOnce == IInv /\ OnceInv /\ Control => OnceInv'
<1> SUFFICES ASSUME IInv, OnceInv, Control PROVE OnceInv'
  OBVIOUS
<1>a. TypeOK /\ HandMatchesPc /\ TargetsMatchPc /\ NoneGivenEarly /\ AtMostOnce
  BY DEF IInv, OnceInv
<1>b. /\ UNCHANGED publishVars
      /\ UNCHANGED <<hand, targets, target, active, finished>>
      /\ dpc' = dpc \/ (~Alive /\ dpc' = "loop")
  BY DEF Control, Subscribe, Unsubscribe, Start, StopBegin, StopJoin, StopPool,
         StopReturn, ClearDeadLetters, dispatchVars, workVars
<1>c. TargetsMatchPc'
  BY <1>a, <1>b DEF TargetsMatchPc, Alive
<1>d. /\ \A e \in Events : Undispatched(e)' => Undispatched(e)
      /\ \A s \in Subscribers, e \in Events : StillToSubmit(s, e)' => StillToSubmit(s, e)
  BY <1>b DEF Undispatched, StillToSubmit, publishVars
<1>1. ASSUME NEW s \in Subscribers, Unsubscribe(s) PROVE OnceInv'
  <2>1. \A r \in Subscribers : backlog'[r] = <<>> \/ backlog'[r] = backlog[r]
    BY <1>1, <1>a DEF Unsubscribe, TypeOK
  <2>2. \A r \in Subscribers, e \in Events : Given(r, e)' => Given(r, e)
    BY <2>1, <1>b DEF Given
  <2>3. NoneGivenEarly'
    BY <2>2, <1>a, <1>d DEF NoneGivenEarly
  <2>4. AtMostOnce'
    BY <2>1, <1>a, <1>b DEF AtMostOnce
  <2>5. QED
    BY <1>c, <2>3, <2>4 DEF OnceInv
<1>2. CASE \A s \in Subscribers : ~Unsubscribe(s)
  <2>1. UNCHANGED backlog
    BY <1>2 DEF Control, Subscribe, Start, StopBegin, StopJoin, StopPool,
                StopReturn, ClearDeadLetters, workVars
  <2>2. QED
    BY <2>1, <1>b, <1>c, <1>d, FrameOnce
<1>3. QED
  BY <1>1, <1>2

\* OnceInv holds in every reachable state.
LEMMA OnceInductive == Spec => []OnceInv
<1>1. Init => OnceInv
  <2> SUFFICES ASSUME Init PROVE OnceInv
    OBVIOUS
  <2>1. \A s \in Subscribers, e \in Events : ~Given(s, e)
    BY DEF Init, Given
  <2>2. QED
    BY <2>1 DEF Init, OnceInv, TargetsMatchPc, NoneGivenEarly, AtMostOnce
<1>2. IInv /\ OnceInv /\ [Next]_vars => OnceInv'
  <2> SUFFICES ASSUME IInv, OnceInv, [Next]_vars PROVE OnceInv'
    OBVIOUS
  <2>1. CASE UNCHANGED vars
    <3>1. /\ UNCHANGED publishVars /\ UNCHANGED dispatchVars /\ UNCHANGED workVars
      BY <2>1 DEF vars
    <3>2. TargetsMatchPc'
      BY <3>1 DEF dispatchVars, OnceInv, TargetsMatchPc
    <3>3. QED
      BY <3>1, <3>2, FrameOnce
      DEF publishVars, dispatchVars, workVars, Undispatched, StillToSubmit
  <2>2. QED
    BY <2>1, PublishOnce, DispatchOnce, WorkOnce, ControlOnce DEF Next
<1>3. QED
  BY <1>1, <1>2, Inductive, PTL DEF Spec

\* No subscriber gets an event twice (EventBus.AtMostOnce), also with
\* unsubscription, a stop() that times out, a dying dispatch thread and restarts.
THEOREM NobodyGetsItTwice == Spec => []AtMostOnce
<1>1. OnceInv => AtMostOnce
  BY DEF OnceInv
<1>2. QED
  BY <1>1, OnceInductive, PTL

-----------------------------------------------------------------------------
(* A stop() that waits for the dispatch thread is graceful *)

\* The publishers: what pending holds is neither fresh nor in their hands, so
\* they do not bring it back to the heap.
LEMMA PublishStop == IInv /\ StopInv /\ Publish => StopInv'
<1> SUFFICES ASSUME IInv, StopInv, Publish PROVE StopInv'
  OBVIOUS
<1>a. UNCHANGED <<dpc, hand, target, pools, shut, backlog, active, life, pending>>
  BY DEF Publish, PublishRefused, PublishBegin, PublishFull, PublishEnqueue, PublishMany,
         dispatchVars, subVars, workVars, lifeVars
<1>b. TypeOK /\ PendingDrained /\ GracefulStop
  BY DEF IInv, StopInv
<1>c. NoEvent \notin pending
  BY <1>b, BusAssumption DEF TypeOK
<1>1. LifeMatchesPc' /\ PoolsOpen' /\ OthersIdle'
  BY <1>a DEF StopInv, LifeMatchesPc, Alive, PoolsOpen, OthersIdle, Idle
<1> DEFINE Kept == /\ fresh' \subseteq fresh
                   /\ \A p \in Publishers : publishing'[p] \notin pending
                   /\ pending \cap queue' \subseteq pending \cap queue
<1>2. Kept
  <2>1. ASSUME NEW e \in Events, PublishRefused(e) \/ \E p \in Publishers : PublishBegin(p, e)
        PROVE  Kept
    BY <2>1, <1>b DEF PublishRefused, PublishBegin, PendingDrained, TypeOK
  <2>2. ASSUME NEW p \in Publishers, PublishFull(p) \/ PublishEnqueue(p)
        PROVE  Kept
    <3>1. /\ fresh' = fresh /\ publishing' = [publishing EXCEPT ![p] = NoEvent]
          /\ queue' = queue \/ queue' = queue \cup {publishing[p]}
      BY <2>2 DEF PublishFull, PublishEnqueue
    <3>2. publishing[p] \notin pending
      BY <1>b DEF PendingDrained
    <3>3. \A q \in Publishers : publishing'[q] \notin pending
      BY <3>1, <1>b, <1>c DEF PendingDrained, TypeOK
    <3>4. QED
      BY <3>1, <3>2, <3>3
  <2>3. ASSUME NEW b \in Batches, PublishMany(b)
        PROVE  Kept
    <3>1. Accepted(b) \in 0..Len(b)
      BY FS_CardinalityType, AcceptedBounds DEF IInv
    <3>2. First(b, Accepted(b)) \subseteq fresh
      BY <2>3, <3>1, FirstCount DEF PublishMany
    <3>3. queue' = queue \cup First(b, Accepted(b)) /\ fresh' \subseteq fresh
          /\ publishing' = publishing
      BY <2>3 DEF PublishMany
    <3>4. QED
      BY <3>2, <3>3, <1>b DEF PendingDrained
  <2>4. QED
    BY <2>1, <2>2, <2>3 DEF Publish
<1>3. PendingDrained'
  BY <1>2, <1>a, <1>b DEF PendingDrained
<1>4. GracefulStop'
  BY <1>2, <1>a, <1>b DEF GracefulStop, Idle
<1>5. QED
  BY <1>1, <1>3, <1>4 DEF StopInv

\* The dispatch thread: it submits only to executors that are there, never finds
\* one shut down, and leaves with an empty heap.
LEMMA DispatchStop == IInv /\ OnceInv /\ StopInv /\ Dispatch => StopInv' /\ ~SubmitRaises
<1> SUFFICES ASSUME IInv, OnceInv, StopInv, Dispatch PROVE StopInv' /\ ~SubmitRaises
  OBVIOUS
<1>a. /\ TypeOK /\ HandMatchesPc /\ TargetsMatchPc
      /\ LifeMatchesPc /\ PoolsOpen /\ PendingDrained /\ OthersIdle /\ GracefulStop
  BY DEF IInv, OnceInv, StopInv
<1>b. UNCHANGED <<fresh, publishing, pools, shut, active, life, pending>>
  BY DEF Dispatch, Dequeue, Expire, Snapshot, SkipTarget, TakeExecutor, Submit, SubmitRaises,
         FinishDispatch, ExitLoop, publishVars, subVars, workVars, lifeVars
<1>c. Alive
  BY DEF Dispatch, Dequeue, Expire, Snapshot, SkipTarget, TakeExecutor, Submit, SubmitRaises,
         FinishDispatch, ExitLoop, Alive
<1>d. life \in {"running", "joining"}
  BY <1>a, <1>c DEF LifeMatchesPc, Alive, TypeOK
<1>1. ~SubmitRaises
  BY <1>a, <1>d DEF SubmitRaises, TargetsMatchPc, PoolsOpen
<1>2. queue' \subseteq queue /\ (dpc' = "exited" => queue' = {} /\ life = "joining")
  BY <1>1, <1>a, <1>c, <1>d
  DEF Dispatch, Dequeue, Expire, Snapshot, SkipTarget, TakeExecutor, Submit, FinishDispatch,
      ExitLoop, publishVars, Alive, running
<1>3. LifeMatchesPc'
  <2>1. dpc' \in {"loop", "popped", "targets", "submit", "exited"}
    BY <1>1, <1>c DEF Dispatch, Dequeue, Expire, Snapshot, SkipTarget, TakeExecutor, Submit,
                      FinishDispatch, ExitLoop
  <2>2. QED
    BY <2>1, <1>2, <1>b, <1>d DEF LifeMatchesPc, Alive
<1>4. PoolsOpen'
  <2>1. target' = NoSubscriber \/ target' = target \/ target' \in pools
    BY <1>1 DEF Dispatch, Dequeue, Expire, Snapshot, SkipTarget, TakeExecutor, Submit,
                FinishDispatch, ExitLoop
  <2>2. QED
    BY <2>1, <1>a, <1>b DEF PoolsOpen
<1>5. PendingDrained'
  BY <1>2, <1>a, <1>b DEF PendingDrained
<1>6. OthersIdle'
  <2>1. CASE Submit
    <3>1. \A s \in Subscribers \ {target} : backlog'[s] = backlog[s]
      BY <2>1, <1>a DEF Submit, TypeOK
    <3>2. target \in pools
      BY <2>1, <1>a DEF Submit, TargetsMatchPc, PoolsOpen
    <3>3. QED
      BY <3>1, <3>2, <1>a, <1>b DEF OthersIdle, Idle
  <2>2. CASE ~Submit
    <3>1. UNCHANGED backlog
      BY <2>2 DEF Dispatch, Dequeue, Expire, Snapshot, SkipTarget, TakeExecutor, SubmitRaises,
                  FinishDispatch, ExitLoop, workVars
    <3>2. QED
      BY <3>1, <1>a, <1>b DEF OthersIdle, Idle
  <2>3. QED
    BY <2>1, <2>2
<1>7. GracefulStop'
  BY <1>b, <1>d DEF GracefulStop
<1>8. QED
  BY <1>1, <1>3, <1>4, <1>5, <1>6, <1>7 DEF StopInv

\* The workers: an idle subscriber stays idle.
LEMMA WorkStop ==
  ASSUME IInv, StopInv, NEW s \in Subscribers, Work(s)
  PROVE  StopInv'
<1>a. /\ TypeOK /\ LifeMatchesPc /\ PoolsOpen /\ PendingDrained /\ OthersIdle /\ GracefulStop
  BY DEF IInv, StopInv
<1>b. UNCHANGED publishVars /\ UNCHANGED dispatchVars /\ UNCHANGED subVars /\ UNCHANGED lifeVars
  BY DEF Work, StartCallback, CallbackReturns, CallbackRaises
<1>1. ASSUME NEW r \in Subscribers, Idle(r) PROVE Idle(r)'
  <2>1. r # s
    BY <1>1 DEF Idle, Work, StartCallback, CallbackReturns, CallbackRaises, EndCallback
  <2>2. backlog'[r] = backlog[r] /\ active'[r] = active[r]
    BY <2>1, <1>a DEF Work, StartCallback, CallbackReturns, CallbackRaises, EndCallback, TypeOK
  <2>3. QED
    BY <2>2, <1>1 DEF Idle
<1>2. LifeMatchesPc' /\ PoolsOpen' /\ PendingDrained'
  BY <1>a, <1>b DEF LifeMatchesPc, Alive, PoolsOpen, PendingDrained,
                    publishVars, dispatchVars, subVars, lifeVars
<1>3. OthersIdle'
  BY <1>1, <1>a, <1>b DEF OthersIdle, subVars
<1>4. GracefulStop'
  BY <1>1, <1>a, <1>b DEF GracefulStop, publishVars, dispatchVars, lifeVars
<1>5. QED
  BY <1>2, <1>3, <1>4 DEF StopInv

\* The control thread, when it neither unsubscribes anybody nor gives up the
\* join: stop() goes on when the dispatch thread has gone and returns when every
\* executor is idle.
LEMMA ControlStop ==
  ASSUME MayUnsubscribe = FALSE, MayTimeOut = FALSE,
         IInv, OnceInv, StopInv, Control
  PROVE  StopInv'
<1>a. /\ TypeOK /\ HandMatchesPc /\ OnePlace /\ TargetsMatchPc
      /\ LifeMatchesPc /\ PoolsOpen /\ PendingDrained /\ OthersIdle /\ GracefulStop
  BY DEF IInv, OnceInv, StopInv
<1>b. UNCHANGED publishVars /\ UNCHANGED <<hand, targets, target, backlog, active>>
  BY DEF Control, Subscribe, Unsubscribe, Start, StopBegin, StopJoin, StopPool,
         StopReturn, ClearDeadLetters, dispatchVars, workVars
<1>c. ASSUME NEW s \in Subscribers PROVE Idle(s)' <=> Idle(s)
  BY <1>b DEF Idle
<1>1. ASSUME NEW s \in Subscribers, Subscribe(s) PROVE StopInv'
  <2>1. UNCHANGED <<dpc, shut, life, pending>> /\ pools' = pools \cup {s}
        /\ life # "pools" /\ s \notin shut
    BY <1>1 DEF Subscribe, dispatchVars, lifeVars
  <2>2. QED
    BY <2>1, <1>a, <1>b, <1>c
    DEF StopInv, LifeMatchesPc, Alive, PoolsOpen, PendingDrained, OthersIdle, GracefulStop,
        publishVars
<1>2. CASE Start
  <2>1. /\ UNCHANGED <<pools, shut, pending>> /\ life' = "running" /\ dpc' = "loop"
        /\ life # "pools"
    BY <1>2 DEF Start, subVars
  <2>2. QED
    BY <2>1, <1>a, <1>b, <1>c
    DEF StopInv, LifeMatchesPc, Alive, PoolsOpen, PendingDrained, OthersIdle, GracefulStop,
        publishVars
<1>3. CASE StopBegin
  <2>1. /\ UNCHANGED <<dpc, pools, shut>> /\ life = "running" /\ life' = "joining"
        /\ pending' = queue \cup ({hand} \ {NoEvent})
    BY <1>3 DEF StopBegin, running, dispatchVars, subVars
  <2>2. dpc # "exited"
    BY <2>1, <1>a DEF LifeMatchesPc, Alive
  <2>3. pending' \cap fresh = {} /\ \A p \in Publishers : publishing[p] \notin pending'
    BY <2>1, <1>a, BusAssumption DEF OnePlace, TypeOK
  <2>4. PendingDrained'
    BY <2>1, <2>2, <2>3, <1>b DEF PendingDrained, publishVars
  <2>5. LifeMatchesPc' /\ PoolsOpen' /\ OthersIdle' /\ GracefulStop'
    BY <2>1, <1>a, <1>b, <1>c
    DEF LifeMatchesPc, Alive, PoolsOpen, OthersIdle, GracefulStop
  <2>6. QED
    BY <2>4, <2>5 DEF StopInv
<1>4. CASE StopJoin
  <2>1. /\ UNCHANGED <<dpc, pools, shut, pending>> /\ life = "joining" /\ life' = "pools"
        /\ ~Alive
    BY <1>4 DEF StopJoin, dispatchVars, subVars
  <2>2. dpc = "exited" /\ hand = NoEvent /\ NoEvent \notin pending
    BY <2>1, <1>a, BusAssumption DEF LifeMatchesPc, HandMatchesPc, TypeOK
  <2>3. GracefulStop'
    BY <2>1, <2>2, <1>a, <1>b DEF PendingDrained, GracefulStop, publishVars
  <2>4. LifeMatchesPc' /\ PoolsOpen' /\ PendingDrained' /\ OthersIdle'
    BY <2>1, <2>2, <1>a, <1>b, <1>c
    DEF LifeMatchesPc, PoolsOpen, PendingDrained, OthersIdle, publishVars
  <2>5. QED
    BY <2>3, <2>4 DEF StopInv
<1>5. ASSUME NEW s \in Subscribers, StopPool(s) PROVE StopInv'
  <2>1. UNCHANGED <<dpc, pools, life, pending>> /\ life = "pools"
    BY <1>5 DEF StopPool, dispatchVars, lifeVars
  <2>2. QED
    BY <2>1, <1>a, <1>b, <1>c
    DEF StopInv, LifeMatchesPc, Alive, PoolsOpen, PendingDrained, OthersIdle, GracefulStop,
        publishVars
<1>6. CASE StopReturn
  <2>1. /\ UNCHANGED <<dpc, shut, pending>> /\ life = "pools" /\ life' = "stopped"
        /\ pools' = {} /\ \A s \in pools : Idle(s)
    BY <1>6 DEF StopReturn, dispatchVars
  <2>2. \A s \in Subscribers : Idle(s)
    BY <2>1, <1>a DEF OthersIdle
  <2>3. target = NoSubscriber
    BY <2>1, <1>a DEF LifeMatchesPc, TargetsMatchPc
  <2>4. QED
    BY <2>1, <2>2, <2>3, <1>a, <1>b, <1>c
    DEF StopInv, LifeMatchesPc, PoolsOpen, PendingDrained, OthersIdle, GracefulStop,
        publishVars
<1>7. CASE ClearDeadLetters
  <2>1. UNCHANGED <<dpc, pools, shut, life, pending>>
    BY <1>7 DEF ClearDeadLetters, dispatchVars, subVars, lifeVars
  <2>2. QED
    BY <2>1, <1>a, <1>b, <1>c
    DEF StopInv, LifeMatchesPc, Alive, PoolsOpen, PendingDrained, OthersIdle, GracefulStop,
        publishVars
<1>8. QED
  BY <1>1, <1>2, <1>3, <1>4, <1>5, <1>6, <1>7 DEF Control, Unsubscribe

\* The initial state of the bus satisfies StopInv.
LEMMA InitStop == Init => StopInv
BY DEF Init, StopInv, LifeMatchesPc, PoolsOpen, PendingDrained, OthersIdle, Idle, GracefulStop

\* Every step keeps StopInv on a bus whose subscribers stay and whose stop()
\* waits for the dispatch thread.
LEMMA NextStop ==
  ASSUME MayUnsubscribe = FALSE, MayTimeOut = FALSE
  PROVE  IInv /\ OnceInv /\ StopInv /\ [Next]_vars => StopInv'
<1> SUFFICES ASSUME IInv, OnceInv, StopInv, [Next]_vars PROVE StopInv'
  OBVIOUS
<1>1. CASE UNCHANGED vars
  BY <1>1 DEF vars, publishVars, dispatchVars, subVars, workVars, lifeVars, StopInv, Alive,
              LifeMatchesPc, PoolsOpen, PendingDrained, OthersIdle, Idle, GracefulStop
<1>2. QED
  BY <1>1, PublishStop, DispatchStop, WorkStop, ControlStop DEF Next

\* stop() is graceful (EventBus.GracefulStop), for any number of restarts, on a
\* bus whose subscribers stay and whose stop() waits as long as the dispatch
\* thread needs.  Both hypotheses are needed: unsubscribe() may leave the
\* callbacks of its subscriber running and kill the dispatch thread with events
\* still queued, and after a timeout the thread goes on beside stop().
THEOREM StopIsGraceful ==
  ASSUME MayUnsubscribe = FALSE, MayTimeOut = FALSE
  PROVE  Spec => []GracefulStop
<1>1. StopInv => GracefulStop
  BY DEF StopInv
<1>2. QED
  BY <1>1, InitStop, NextStop, Inductive, OnceInductive, PTL DEF Spec

-----------------------------------------------------------------------------
(* Every subscriber of a snapshot gets the event *)

\* Steps that owe nobody anything new keep the promises, when nothing given or
\* still to be submitted is dropped.
LEMMA FrameSkip ==
  ASSUME SkipInv, PoolsComplete', owed' = owed,
         \A s \in Subscribers, e \in Events :
           /\ Given(s, e) => Given(s, e)'
           /\ StillToSubmit(s, e) => StillToSubmit(s, e)' \/ Given(s, e)'
  PROVE  SkipInv'
<1>1. ASSUME NEW s \in Subscribers, NEW e \in Events, <<s, e>> \in owed
      PROVE  StillToSubmit(s, e) \/ Given(s, e)
  <2>1. s \in registered
    BY <1>1 DEF SkipInv, PoolsComplete
  <2>2. QED
    BY <1>1, <2>1 DEF SkipInv, NothingSkipped, Given
<1>2. ASSUME NEW s \in Subscribers, NEW e \in Events, <<s, e>> \in owed'
      PROVE  StillToSubmit(s, e)' \/ Given(s, e)'
  BY <1>1, <1>2
<1>3. NothingSkipped'
  BY <1>2 DEF NothingSkipped, Given
<1>4. QED
  BY <1>3 DEF SkipInv

\* The dispatch thread: nobody is passed over, because everybody in the snapshot
\* has an executor and none of them is shut down.
LEMMA DispatchSkip == IInv /\ OnceInv /\ StopInv /\ SkipInv /\ Dispatch => SkipInv'
<1> SUFFICES ASSUME IInv, OnceInv, StopInv, SkipInv, Dispatch PROVE SkipInv'
  OBVIOUS
<1>a. /\ TypeOK /\ HandMatchesPc /\ TargetsMatchPc /\ LifeMatchesPc
      /\ PoolsComplete /\ NothingSkipped
  BY DEF IInv, OnceInv, StopInv, SkipInv
<1>b. UNCHANGED <<registered, pools, life, starts, active, finished>>
  BY DEF Dispatch, Dequeue, Expire, Snapshot, SkipTarget, TakeExecutor, Submit, SubmitRaises,
         FinishDispatch, ExitLoop, subVars, workVars, lifeVars
<1>c. registered \subseteq pools
  <2>1. Alive
    BY DEF Dispatch, Dequeue, Expire, Snapshot, SkipTarget, TakeExecutor, Submit, SubmitRaises,
           FinishDispatch, ExitLoop, Alive
  <2>2. QED
    BY <2>1, <1>a DEF LifeMatchesPc, Alive, PoolsComplete
<1>d. ~SubmitRaises
  BY DispatchStop
<1>1. CASE Snapshot
  <2>1. /\ hand \in Events /\ targets = {} /\ target = NoSubscriber
        /\ targets' \subseteq registered /\ UNCHANGED <<hand, target, backlog>>
        /\ owed' = owed \cup {<<s, hand>> : s \in targets'}
    BY <1>1, <1>a DEF Snapshot, HandMatchesPc, TargetsMatchPc, workVars, TypeOK
  <2>2. PoolsComplete'
    BY <2>1, <1>a, <1>b DEF PoolsComplete
  <2>3. ASSUME NEW s \in Subscribers, NEW e \in Events, <<s, e>> \in owed'
        PROVE  \/ s \notin registered \/ StillToSubmit(s, e)' \/ Given(s, e)
    <3>1. CASE <<s, e>> \in owed
      <4>1. ~StillToSubmit(s, e)
        BY <2>1, BusAssumption DEF StillToSubmit
      <4>2. QED
        BY <3>1, <4>1, <1>a DEF NothingSkipped, Given
    <3>2. CASE <<s, e>> \notin owed
      <4>1. e = hand /\ s \in targets'
        BY <2>1, <2>3, <3>2
      <4>2. QED
        BY <4>1, <2>1 DEF StillToSubmit
    <3>3. QED
      BY <3>1, <3>2
  <2>4. NothingSkipped'
    BY <2>1, <2>3, <1>b DEF NothingSkipped, Given
  <2>5. QED
    BY <2>2, <2>4 DEF SkipInv
<1>2. CASE Submit
  <2>1. /\ target \in Subscribers /\ hand \in Events
        /\ backlog' = [backlog EXCEPT ![target] = Append(@, hand)]
        /\ target' = NoSubscriber /\ UNCHANGED <<hand, targets, owed>>
    BY <1>2, <1>a DEF Submit, HandMatchesPc, TargetsMatchPc, TypeOK
  <2>2. PICK old \in Seq(Events) : old = backlog[target]
    BY <2>1, <1>a DEF TypeOK
  <2>3. PICK n \in Nat : n = Len(old)
    BY <2>2
  <2>4. /\ Len(Append(old, hand)) = n + 1
        /\ \A i \in 1..n : i \in 1..(n + 1) /\ Append(old, hand)[i] = old[i]
        /\ n + 1 \in 1..(n + 1) /\ Append(old, hand)[n + 1] = hand
    BY <2>1, <2>2, <2>3
  <2>5. /\ backlog'[target] = Append(old, hand)
        /\ \A s \in Subscribers \ {target} : backlog'[s] = backlog[s]
    BY <2>1, <2>2, <1>a DEF TypeOK
  <2>6. ASSUME NEW s \in Subscribers, NEW e \in Events, Given(s, e) PROVE Given(s, e)'
    <3>1. CASE s = target
      BY <2>6, <3>1, <2>2, <2>3, <2>4, <2>5, <1>b DEF Given
    <3>2. CASE s # target
      BY <2>6, <3>2, <2>5, <1>b DEF Given
    <3>3. QED
      BY <3>1, <3>2
  <2>7. ASSUME NEW s \in Subscribers, NEW e \in Events, StillToSubmit(s, e)
        PROVE  StillToSubmit(s, e)' \/ Given(s, e)'
    <3>1. CASE s = target
      BY <2>7, <3>1, <2>4, <2>5 DEF StillToSubmit, Given
    <3>2. CASE s # target
      BY <2>7, <3>2, <2>1 DEF StillToSubmit
    <3>3. QED
      BY <3>1, <3>2
  <2>8. PoolsComplete'
    BY <2>1, <1>a, <1>b DEF PoolsComplete
  <2>9. QED
    BY <2>1, <2>6, <2>7, <2>8, FrameSkip
<1>3. CASE ~Snapshot /\ ~Submit
  <2>1. /\ UNCHANGED <<owed, backlog>> /\ targets' \subseteq targets
    BY <1>3, <1>d DEF Dispatch, Dequeue, Expire, SkipTarget, TakeExecutor, FinishDispatch,
                      ExitLoop, workVars
  <2>2. PoolsComplete'
    BY <2>1, <1>a, <1>b DEF PoolsComplete
  <2>3. ASSUME NEW s \in Subscribers, SkipTarget(s) PROVE FALSE
    BY <2>3, <1>a, <1>c DEF SkipTarget, PoolsComplete
  <2>4. ASSUME NEW s \in Subscribers, NEW e \in Events, StillToSubmit(s, e)
        PROVE  StillToSubmit(s, e)'
    <3>1. dpc \in {"targets", "submit"} /\ (s \in targets \/ (target = s /\ dpc = "submit"))
      BY <2>4, <1>a, BusAssumption DEF StillToSubmit, TargetsMatchPc
    <3>2. \E r \in Subscribers : TakeExecutor(r)
      BY <3>1, <2>3, <1>3, <1>d
      DEF Dispatch, Dequeue, Expire, TakeExecutor, FinishDispatch, ExitLoop
    <3>3. QED
      BY <2>4, <3>1, <3>2 DEF TakeExecutor, StillToSubmit
  <2>5. \A s \in Subscribers, e \in Events : Given(s, e) => Given(s, e)'
    BY <2>1, <1>b DEF Given
  <2>6. QED
    BY <2>1, <2>2, <2>4, <2>5, FrameSkip
<1>4. QED
  BY <1>1, <1>2, <1>3

\* The workers pass on what they take.
LEMMA WorkSkip ==
  ASSUME IInv, SkipInv, NEW s \in Subscribers, Work(s)
  PROVE  SkipInv'
<1>a. TypeOK /\ PoolsComplete
  BY DEF IInv, SkipInv
<1>b. UNCHANGED dispatchVars /\ UNCHANGED subVars /\ UNCHANGED lifeVars
  BY DEF Work, StartCallback, CallbackReturns, CallbackRaises
<1>c. PoolsComplete'
  BY <1>a, <1>b DEF PoolsComplete, dispatchVars, subVars, lifeVars
<1>1. ASSUME NEW r \in Subscribers, NEW e \in Events, Given(r, e) PROVE Given(r, e)'
  <2>1. CASE r # s
    <3>1. backlog'[r] = backlog[r] /\ active'[r] = active[r] /\ finished'[r] = finished[r]
      BY <2>1, <1>a DEF Work, StartCallback, CallbackReturns, CallbackRaises, EndCallback, TypeOK
    <3>2. QED
      BY <3>1, <1>1 DEF Given
  <2>2. CASE r = s /\ StartCallback(s)
    <3>1. PICK old \in Seq(Events) : old = backlog[s]
      BY <1>a DEF TypeOK
    <3>2. PICK n \in Nat : n = Len(old)
      BY <3>1
    <3>3. old # <<>> /\ n >= 1
      BY <2>2, <3>1, <3>2 DEF StartCallback
    <3>4. /\ Head(old) = old[1]
          /\ Len(Tail(old)) = n - 1
          /\ \A i \in 1..(n - 1) : Tail(old)[i] = old[i + 1]
      BY <3>1, <3>2, <3>3
    <3>5. /\ backlog'[s] = Tail(old) /\ active'[s] = active[s] \cup {old[1]}
          /\ finished' = finished
      BY <2>2, <1>a, <3>1, <3>4 DEF StartCallback, TypeOK
    <3>6. ASSUME NEW i \in 1..n, old[i] = e PROVE Given(s, e)'
      <4>1. CASE i = 1
        BY <3>5, <3>6, <4>1 DEF Given
      <4>2. CASE i # 1
        <5>1. i - 1 \in 1..(n - 1) /\ (i - 1) + 1 = i
          BY <3>2, <4>2
        <5>2. Tail(old)[i - 1] = e
          BY <5>1, <3>4, <3>6
        <5>3. QED
          BY <5>1, <5>2, <3>4, <3>5 DEF Given
      <4>3. QED
        BY <4>1, <4>2
    <3>7. QED
      BY <2>2, <3>1, <3>2, <3>5, <3>6, <1>1 DEF Given
  <2>3. ASSUME r = s,
               NEW f \in Events, CallbackReturns(s, f) \/ CallbackRaises(s, f)
        PROVE  Given(r, e)'
    <3>1. /\ backlog' = backlog /\ active'[s] = active[s] \ {f}
          /\ finished'[s] = finished[s] \cup {f}
      BY <2>3, <1>a DEF CallbackReturns, CallbackRaises, EndCallback, TypeOK
    <3>2. QED
      BY <2>3, <3>1, <1>1 DEF Given
  <2>4. QED
    BY <2>1, <2>2, <2>3 DEF Work
<1>2. QED
  BY <1>b, <1>c, <1>1, FrameSkip DEF dispatchVars, StillToSubmit

\* The control thread and the publishers: nobody loses an executor before the
\* dispatch thread has gone for good.
LEMMA OthersSkip ==
  ASSUME MayUnsubscribe = FALSE, MaxStarts <= 1,
         IInv, SkipInv, Control \/ Publish
  PROVE  SkipInv'
<1>a. TypeOK /\ PoolsComplete
  BY DEF IInv, SkipInv
<1>b. UNCHANGED <<hand, targets, target, owed, backlog, active, finished>>
  BY DEF Publish, PublishRefused, PublishBegin, PublishFull, PublishEnqueue, PublishMany,
         Control, Subscribe, Unsubscribe, Start, StopBegin, StopJoin, StopPool,
         StopReturn, ClearDeadLetters, dispatchVars, workVars
<1>1. PoolsComplete'
  <2>1. CASE Publish
    <3>1. UNCHANGED subVars /\ UNCHANGED lifeVars
      BY <2>1 DEF Publish, PublishRefused, PublishBegin, PublishFull, PublishEnqueue, PublishMany
    <3>2. QED
      BY <3>1, <1>a, <1>b DEF PoolsComplete, subVars, lifeVars
  <2>2. ASSUME NEW s \in Subscribers, Subscribe(s) PROVE PoolsComplete'
    BY <2>2, <1>a, <1>b DEF Subscribe, PoolsComplete, lifeVars
  <2>3. CASE Start
    <3>1. /\ starts \in Nat /\ starts' = starts + 1 /\ starts < 1
          /\ life' = "running" /\ UNCHANGED subVars /\ life \in {"new", "stopped"}
      BY <2>3, <1>a, BusAssumption DEF Start, TypeOK
    <3>2. life = "new"
      BY <3>1, <1>a DEF PoolsComplete
    <3>3. QED
      BY <3>1, <3>2, <1>a, <1>b DEF PoolsComplete, subVars
  <2>4. CASE StopBegin \/ StopJoin \/ StopReturn \/ ClearDeadLetters
             \/ \E s \in Subscribers : StopPool(s)
    BY <2>4, <1>a, <1>b
    DEF StopBegin, running, StopJoin, StopReturn, ClearDeadLetters, StopPool, PoolsComplete,
        subVars, lifeVars
  <2>5. QED
    BY <2>1, <2>2, <2>3, <2>4 DEF Control, Unsubscribe
<1>2. QED
  BY <1>b, <1>1, FrameSkip DEF Given, StillToSubmit

\* Every subscriber of a snapshot gets the event (EventBus.NothingSkipped), on a
\* bus that is started once, whose subscribers stay and whose stop() waits as
\* long as the dispatch thread needs.  All three are needed: after a restart the
\* subscribers have lost their executors and are passed over, and the dispatch
\* thread dies of an executor shut down under its hands, by unsubscribe() or by a
\* stop() that gave up the join, with the rest of the snapshot unserved.
THEOREM NobodyIsSkipped ==
  ASSUME MayUnsubscribe = FALSE, MayTimeOut = FALSE, MaxStarts <= 1
  PROVE  Spec => []NothingSkipped
<1>1. Init => SkipInv
  BY DEF Init, SkipInv, PoolsComplete, NothingSkipped
<1>2. IInv /\ OnceInv /\ StopInv /\ SkipInv /\ [Next]_vars => SkipInv'
  <2> SUFFICES ASSUME IInv, OnceInv, StopInv, SkipInv, [Next]_vars PROVE SkipInv'
    OBVIOUS
  <2>1. CASE UNCHANGED vars
    BY <2>1 DEF vars, dispatchVars, subVars, workVars, lifeVars, SkipInv, PoolsComplete,
                NothingSkipped, StillToSubmit
  <2>2. QED
    BY <2>1, DispatchSkip, WorkSkip, OthersSkip DEF Next
<1>3. SkipInv => NothingSkipped
  BY DEF SkipInv
<1>4. QED
  BY <1>1, <1>2, <1>3, InitStop, NextStop, Inductive, OnceInductive, PTL DEF Spec

-----------------------------------------------------------------------------
(* The bus keeps the promise of Delivery *)

LEMMA PromiseCount == ASSUME NEW S PROVE Promise!Cardinality(S) = Cardinality(S)
BY DEF Promise!Cardinality, Cardinality

\* The dispatch thread hands an event only to who matched it.
LEMMA WantNext == IInv /\ OnceInv /\ TargetsWant /\ [Next]_vars => TargetsWant'
<1> SUFFICES ASSUME IInv, TargetsMatchPc, TargetsWant, [Next]_vars PROVE TargetsWant'
  BY DEF OnceInv
<1>a. HandMatchesPc
  BY DEF IInv
<1>1. ASSUME UNCHANGED <<hand, targets, target>> PROVE TargetsWant'
  BY <1>1 DEF TargetsWant
<1>2. CASE UNCHANGED vars
  BY <1>1, <1>2 DEF vars, dispatchVars
<1>3. CASE Publish
  BY <1>1, <1>3 DEF Publish, PublishRefused, PublishBegin, PublishFull, PublishEnqueue,
                    PublishMany, dispatchVars
<1>4. CASE \E s \in Subscribers : Work(s)
  BY <1>1, <1>4 DEF Work, StartCallback, CallbackReturns, CallbackRaises, dispatchVars
<1>5. CASE Control
  BY <1>1, <1>5 DEF Control, Subscribe, Unsubscribe, Start, StopBegin, StopJoin, StopPool,
                    StopReturn, ClearDeadLetters, dispatchVars
<1>6. CASE Dispatch
  <2>1. ASSUME NEW e \in Events, Dequeue(e) PROVE TargetsWant'
    BY <1>a, <2>1 DEF Dequeue, TargetsMatchPc, TargetsWant
  <2>2. ASSUME Expire \/ FinishDispatch \/ SubmitRaises PROVE TargetsWant'
    BY <1>a, <2>2 DEF Expire, FinishDispatch, SubmitRaises, TargetsMatchPc, TargetsWant
  <2>3. ASSUME Snapshot PROVE TargetsWant'
    BY <1>a, <2>3 DEF Snapshot, TargetsMatchPc, TargetsWant
  <2>4. ASSUME NEW s \in Subscribers, SkipTarget(s) \/ TakeExecutor(s) PROVE TargetsWant'
    BY <2>4, BusAssumption DEF SkipTarget, TakeExecutor, TargetsWant
  <2>5. ASSUME Submit \/ ExitLoop PROVE TargetsWant'
    BY <2>5 DEF Submit, ExitLoop, TargetsWant
  <2> QED BY <1>6, <2>1, <2>2, <2>3, <2>4, <2>5 DEF Dispatch
<1> QED BY <1>2, <1>3, <1>4, <1>5, <1>6 DEF Next

\* Events that come onto the heap with sequence numbers above those of the others
\* are accepted after them, in the order of their numbers.
LEMMA Accepting ==
  ASSUME IInv, IInv', NEW S \in SUBSET Events,
         queue' = queue \cup S, S \cap queue = {},
         \A e \in queue : seqOf'[e] = seqOf[e],
         \A e \in queue, f \in S : seqOf'[e] < seqOf'[f]
  PROVE  \E R \in Promise!Orders(S) : Earlier' = Earlier \cup (queue \X S) \cup R
<1> DEFINE R == {p \in S \X S : seqOf'[p[1]] < seqOf'[p[2]]}
<1>1. \A e \in queue' : seqOf'[e] \in Nat
  BY DEF IInv, TypeOK
<1>2. \A e, f \in queue' : seqOf'[e] = seqOf'[f] => e = f
  BY DEF IInv, SequenceSound
<1>3. R \in Promise!Orders(S)
  <2>1. \A e, f \in S : <<e, f>> \in R <=> seqOf'[e] < seqOf'[f]
    OBVIOUS
  <2>2. R \in SUBSET (S \X S)
    OBVIOUS
  <2> HIDE DEF R
  <2>3. \A e, f \in S : e # f => (<<e, f>> \in R <=> <<f, e>> \notin R)
    <3> TAKE e, f \in S
    <3>1. PICK x \in Nat, y \in Nat : x = seqOf'[e] /\ y = seqOf'[f]
      BY <1>1
    <3> QED BY <1>2, <2>1, <3>1
  <2>4. \A e \in S : <<e, e>> \notin R
    <3> TAKE e \in S
    <3>1. PICK x \in Nat : x = seqOf'[e]
      BY <1>1
    <3> QED BY <2>1, <3>1
  <2>5. \A e, f, g \in S : <<e, f>> \in R /\ <<f, g>> \in R => <<e, g>> \in R
    <3> TAKE e, f, g \in S
    <3>1. PICK x \in Nat, y \in Nat, z \in Nat :
            x = seqOf'[e] /\ y = seqOf'[f] /\ z = seqOf'[g]
      BY <1>1
    <3> QED BY <2>1, <3>1
  <2> QED BY <2>2, <2>3, <2>4, <2>5 DEF Promise!Orders
<1>4. \A e, f \in queue' :
        seqOf'[e] < seqOf'[f] <=> \/ e \in queue /\ f \in queue /\ seqOf[e] < seqOf[f]
                                  \/ e \in queue /\ f \in S
                                  \/ e \in S /\ f \in S /\ seqOf'[e] < seqOf'[f]
  <2> TAKE e, f \in queue'
  <2>1. PICK x \in Nat, y \in Nat : x = seqOf'[e] /\ y = seqOf'[f]
    BY <1>1
  <2>2. CASE e \in queue /\ f \in queue
    BY <2>2
  <2>3. CASE e \in queue /\ f \in S
    BY <2>3
  <2>4. CASE e \in S /\ f \in S
    BY <2>4
  <2>5. CASE e \in S /\ f \in queue
    <3>1. y < x
      BY <2>1, <2>5
    <3> QED BY <2>1, <2>5, <3>1
  <2> QED BY <2>2, <2>3, <2>4, <2>5
<1>5. Earlier' = Earlier \cup (queue \X S) \cup R
  <2>1. \A e, f : <<e, f>> \in Earlier' <=> <<e, f>> \in Earlier \cup (queue \X S) \cup R
    BY <1>4 DEF Earlier
  <2>2. Earlier' \subseteq queue' \X queue' /\ Earlier \subseteq queue \X queue
    BY DEF Earlier
  <2> QED BY <2>1, <2>2
<1> QED BY <1>3, <1>5

\* What the publishers do is to offer events.
LEMMA PublishKeeps ==
  ASSUME IInv, IInv', Publish
  PROVE  Promise!Next \/ UNCHANGED Promise!vars
<1>a. /\ TypeOK /\ OnePlace /\ SequenceSound /\ QueueBounded /\ IsFiniteSet(queue)
      /\ Cardinality(queue) \in Nat
  BY FS_CardinalityType DEF IInv
<1>b. Promise!Cardinality(queue') <= MaxQueueSize
  BY PromiseCount DEF IInv, QueueBounded
<1>c. \A e \in queue : seqOf[e] \in Nat /\ seqOf[e] < sequence
  BY <1>a DEF TypeOK, SequenceSound
<1>1. ASSUME NEW S \in SUBSET Unoffered, NEW D \in SUBSET (Unoffered \ S),
             Unoffered' = Unoffered \ (S \cup D), queue' = queue \cup S, S \cap queue = {},
             D # {} => ~running \/ Cardinality(queue') = MaxQueueSize,
             \A e \in queue : seqOf'[e] = seqOf[e],
             \A e \in S : sequence <= seqOf'[e],
             UNCHANGED <<life, hand, backlog, active, finished>>
      PROVE  Promise!Next
  <2>1. S \in SUBSET Events
    BY <1>a DEF Unoffered, TypeOK
  <2>2. \A e \in queue, f \in S : seqOf'[e] < seqOf'[f]
    <3> TAKE e \in queue, f \in S
    <3>1. PICK x \in Nat, y \in Nat : x = seqOf[e] /\ y = seqOf'[f]
      BY <1>c, <2>1 DEF IInv, TypeOK
    <3>2. sequence \in Nat /\ sequence <= y /\ x < sequence
      BY <1>1, <1>a, <1>c, <3>1 DEF TypeOK
    <3> QED BY <1>1, <3>1, <3>2
  <2>3. \E R \in Promise!Orders(S) : Earlier' = Earlier \cup (queue \X S) \cup R
    BY <1>1, <2>1, <2>2, Accepting
  <2>4. running' = running
    BY <1>1 DEF running
  <2>5. Promise!Offer(S, D)
    BY <1>1, <1>b, <2>3, <2>4, PromiseCount DEF Promise!Offer
  <2> QED BY <2>5 DEF Promise!Next
<1>2. ASSUME NEW e \in Events, PublishRefused(e) PROVE Promise!Next
  <2>1. Unoffered' = Unoffered \ {e} /\ e \in Unoffered
    BY <1>2, <1>a DEF PublishRefused, Unoffered, OnePlace
  <2>2. queue' = queue /\ seqOf' = seqOf /\ ~running
           /\ UNCHANGED <<life, hand, backlog, active, finished>>
    BY <1>2 DEF PublishRefused, dispatchVars, workVars, lifeVars
  <2>3. PICK S, D : S = {} /\ D = {e}
    OBVIOUS
  <2>4. /\ S \in SUBSET Unoffered /\ D \in SUBSET (Unoffered \ S) /\ S \cap queue = {}
        /\ Unoffered' = Unoffered \ (S \cup D) /\ queue' = queue \cup S
    BY <2>1, <2>2, <2>3
  <2>5. /\ \A f \in queue : seqOf'[f] = seqOf[f]
        /\ \A f \in S : sequence <= seqOf'[f]
    BY <2>2, <2>3
  <2> QED BY <1>1, <2>2, <2>4, <2>5
<1>3. ASSUME NEW p \in Publishers, NEW e \in Events, PublishBegin(p, e)
      PROVE  UNCHANGED Promise!vars
  <2>1. Unoffered' = Unoffered
    BY <1>3, <1>a, BusAssumption DEF PublishBegin, Unoffered, TypeOK
  <2> QED BY <1>3, <2>1 DEF PublishBegin, Promise!vars, running, Earlier, dispatchVars, workVars,
             lifeVars
<1>4. ASSUME NEW p \in Publishers, NEW e, e = publishing[p], e # NoEvent,
             publishing' = [publishing EXCEPT ![p] = NoEvent], fresh' = fresh
      PROVE  Unoffered' = Unoffered \ {e} /\ e \in Unoffered /\ e \notin queue /\ e \in Events
  BY <1>4, <1>a, BusAssumption DEF Unoffered, TypeOK, OnePlace
<1>5. ASSUME NEW p \in Publishers, PublishFull(p) PROVE Promise!Next
  <2>1. PICK e : e = publishing[p]
    OBVIOUS
  <2>2. Unoffered' = Unoffered \ {e} /\ e \in Unoffered
    BY <1>4, <1>5, <2>1 DEF PublishFull
  <2>3. queue' = queue /\ seqOf' = seqOf /\ UNCHANGED <<life, hand, backlog, active, finished>>
    BY <1>5 DEF PublishFull, dispatchVars, workVars, lifeVars
  <2>4. Cardinality(queue') = MaxQueueSize
    BY <1>5, <1>a, <2>3, BusAssumption DEF PublishFull, QueueBounded
  <2>5. PICK S, D : S = {} /\ D = {e}
    OBVIOUS
  <2>6. /\ S \in SUBSET Unoffered /\ D \in SUBSET (Unoffered \ S) /\ S \cap queue = {}
        /\ Unoffered' = Unoffered \ (S \cup D) /\ queue' = queue \cup S
    BY <2>2, <2>3, <2>5
  <2>7. /\ \A f \in queue : seqOf'[f] = seqOf[f]
        /\ \A f \in S : sequence <= seqOf'[f]
    BY <2>3, <2>5
  <2> QED BY <1>1, <2>3, <2>4, <2>6, <2>7
<1>6. ASSUME NEW p \in Publishers, PublishEnqueue(p) PROVE Promise!Next
  <2>1. PICK e : e = publishing[p]
    OBVIOUS
  <2>2. Unoffered' = Unoffered \ {e} /\ e \in Unoffered /\ e \notin queue /\ e \in Events
    BY <1>4, <1>6, <2>1 DEF PublishEnqueue
  <2>3. /\ queue' = queue \cup {e} /\ seqOf' = [seqOf EXCEPT ![e] = sequence]
        /\ UNCHANGED <<life, hand, backlog, active, finished>>
    BY <1>6, <2>1 DEF PublishEnqueue, dispatchVars, workVars, lifeVars
  <2>4. seqOf'[e] = sequence /\ sequence \in Nat /\ \A f \in queue : seqOf'[f] = seqOf[f]
    BY <1>a, <2>2, <2>3 DEF TypeOK
  <2>5. PICK S, D : S = {e} /\ D = {}
    OBVIOUS
  <2>6. /\ S \in SUBSET Unoffered /\ D \in SUBSET (Unoffered \ S) /\ S \cap queue = {}
        /\ Unoffered' = Unoffered \ (S \cup D) /\ queue' = queue \cup S /\ D = {}
    BY <2>2, <2>3, <2>5
  <2>7. /\ \A f \in queue : seqOf'[f] = seqOf[f]
        /\ \A f \in S : sequence <= seqOf'[f]
    BY <2>4, <2>5
  <2> QED BY <1>1, <2>3, <2>6, <2>7
<1>7. ASSUME NEW b \in Batches, PublishMany(b) PROVE Promise!Next
  <2> DEFINE n == Accepted(b)
             S == First(b, n)
             D == First(b, Len(b)) \ S
  <2>1. Len(b) \in Nat /\ n \in 0..Len(b) /\ Cardinality(queue) + n <= MaxQueueSize
    BY <1>a, AcceptedBounds
  <2>2. /\ S \subseteq First(b, Len(b)) /\ IsFiniteSet(S) /\ Cardinality(S) = n
        /\ First(b, Len(b)) \subseteq fresh
    BY <1>7, <2>1, FirstCount DEF PublishMany
  <2>3. /\ queue' = queue \cup S /\ fresh' = fresh \ First(b, Len(b)) /\ publishing' = publishing
        /\ UNCHANGED <<life, hand, backlog, active, finished>>
    BY <1>7 DEF PublishMany, dispatchVars, workVars, lifeVars
  <2>4. /\ \A f \in queue : seqOf'[f] = seqOf[f]
        /\ \A f \in S : sequence <= seqOf'[f]
    <3>1. S \cap queue = {}
      BY <1>a, <2>2 DEF OnePlace
    <3>2. \A f \in S : seqOf'[f] = sequence + (CHOOSE i \in 1..n : b[i] = f) - 1
      BY <1>a, <1>7, <2>2 DEF PublishMany, TypeOK
    <3>3. \A f \in S : (CHOOSE i \in 1..n : b[i] = f) \in 1..n
      BY <2>1, PlaceInBatch
    <3>4. \A f \in queue : seqOf'[f] = seqOf[f]
      BY <1>a, <1>7, <3>1 DEF PublishMany, TypeOK
    <3> HIDE DEF n, S
    <3>5. ASSUME NEW f \in S PROVE sequence <= seqOf'[f]
      <4>1. PICK k \in 1..n : k = CHOOSE i \in 1..n : b[i] = f
        BY <3>3
      <4>2. seqOf'[f] = sequence + k - 1 /\ sequence \in Nat
        BY <1>a, <3>2, <4>1 DEF TypeOK
      <4> QED BY <2>1, <4>2
    <3> QED BY <3>4, <3>5
  <2>5. n < Len(b) => Cardinality(queue) + n = MaxQueueSize
    BY <1>a, <2>1, BusAssumption DEF Accepted, QueueBounded
  <2>6. D # {} => n < Len(b)
    BY <2>1
  <2> HIDE DEF n, S
  <2>7. S \cap queue = {} /\ S \subseteq Unoffered /\ D \subseteq Unoffered \ S
    BY <1>a, <2>2 DEF OnePlace, Unoffered, TypeOK
  <2>8. Unoffered' = Unoffered \ (S \cup D)
    BY <1>a, <2>2, <2>3 DEF OnePlace, Unoffered, TypeOK
  <2>9. Cardinality(queue') = Cardinality(queue) + n
    <3>1. Cardinality(queue \cup S) = Cardinality(queue) + Cardinality(S) - Cardinality(queue \cap S)
      BY <1>a, <2>2, FS_Union
    <3>2. queue \cap S = {}
      BY <2>7
    <3>3. Cardinality(queue \cap S) = 0
      BY <3>2, FS_EmptySet
    <3> QED BY <1>a, <2>1, <2>2, <2>3, <3>1, <3>3
  <2>10. D # {} => Cardinality(queue') = MaxQueueSize
    BY <2>5, <2>6, <2>9
  <2> HIDE DEF D
  <2> QED BY <1>1, <2>3, <2>4, <2>7, <2>8, <2>10
<1> QED BY <1>2, <1>3, <1>5, <1>6, <1>7 DEF Publish

\* What the dispatch thread does is to take events and to give them.
LEMMA DispatchKeeps ==
  ASSUME IInv, OnceInv, TargetsWant, Dispatch
  PROVE  Promise!Next \/ UNCHANGED Promise!vars
<1>a. TypeOK /\ HandMatchesPc /\ TargetsMatchPc /\ NoneGivenEarly
  BY DEF IInv, OnceInv
<1>1. ASSUME NEW e \in Events, Dequeue(e) PROVE Promise!Next
  <2>1. /\ hand = NoEvent /\ hand' = e /\ queue' = queue \ {e} /\ e \in queue
        /\ seqOf' = seqOf /\ fresh' = fresh /\ publishing' = publishing
        /\ UNCHANGED <<life, backlog, active, finished>>
    BY <1>a, <1>1 DEF Dequeue, IsFirst, HandMatchesPc, workVars, lifeVars
  <2>2. Promise!Urgent(e)
    BY <1>1 DEF Dequeue, IsFirst, Precedes, Promise!Urgent, Earlier
  <2>3. Earlier' = {p \in Earlier : e \notin {p[1], p[2]}}
    <3>1. \A f, g : <<f, g>> \in Earlier' <=> <<f, g>> \in Earlier /\ e # f /\ e # g
      BY <2>1 DEF Earlier
    <3>2. Earlier' \subseteq queue' \X queue' /\ Earlier \subseteq queue \X queue
      BY DEF Earlier
    <3> QED BY <3>1, <3>2
  <2>4. Unoffered' = Unoffered /\ running' = running
    BY <2>1 DEF Unoffered, running
  <2>5. Promise!Take(e)
    BY <2>1, <2>2, <2>3, <2>4 DEF Promise!Take
  <2> QED BY <2>1, <2>5 DEF Promise!Next
<1>2. ASSUME UNCHANGED <<queue, seqOf, fresh, publishing, life, backlog, active, finished>>
      PROVE  /\ hand' = NoEvent => Promise!Next
             /\ hand' = hand => UNCHANGED Promise!vars
  <2>1. Unoffered' = Unoffered /\ Earlier' = Earlier /\ running' = running
    BY <1>2 DEF Unoffered, Earlier, running
  <2>2. hand' = NoEvent => Promise!LetGo
    BY <1>2, <2>1 DEF Promise!LetGo
  <2>3. hand' = hand => UNCHANGED Promise!vars
    BY <1>2, <2>1 DEF Promise!vars
  <2> QED BY <2>2, <2>3 DEF Promise!Next
<1>3. ASSUME Expire \/ SubmitRaises \/ FinishDispatch PROVE Promise!Next
  BY <1>2, <1>3 DEF Expire, SubmitRaises, FinishDispatch, publishVars, workVars, lifeVars
<1>4. ASSUME Snapshot \/ ExitLoop \/ (\E s \in Subscribers : SkipTarget(s) \/ TakeExecutor(s))
      PROVE  UNCHANGED Promise!vars
  BY <1>2, <1>4 DEF Snapshot, ExitLoop, SkipTarget, TakeExecutor, publishVars, workVars, lifeVars
<1>5. ASSUME Submit PROVE Promise!Next
  <2>1. /\ target \in Subscribers /\ target # NoSubscriber /\ hand # NoEvent /\ hand \in Events
        /\ backlog' = [backlog EXCEPT ![target] = Append(@, hand)]
    BY <1>a, <1>5, BusAssumption DEF Submit, TargetsMatchPc, HandMatchesPc, TypeOK
  <2>2. ~Given(target, hand)
    BY <1>a, <2>1 DEF NoneGivenEarly, StillToSubmit
  <2>3. /\ hand \notin active[target] \cup finished[target]
        /\ \A i \in 1..Len(backlog[target]) : backlog[target][i] # hand
    BY <2>2 DEF Given
  <2>4. hand \in Wants[target]
    BY <2>1 DEF TargetsWant
  <2>5. /\ Unoffered' = Unoffered /\ Earlier' = Earlier /\ running' = running
        /\ UNCHANGED <<queue, hand, active, finished>>
    BY <1>5 DEF Submit, publishVars, lifeVars, Unoffered, Earlier, running
  <2>6. Promise!Give(target)
    BY <2>1, <2>3, <2>4, <2>5 DEF Promise!Give
  <2> QED BY <2>1, <2>6 DEF Promise!Next
<1> QED BY <1>1, <1>3, <1>4, <1>5 DEF Dispatch

\* What a pool does is to begin with the oldest of what it was given.
LEMMA WorkKeeps ==
  ASSUME IInv, NEW s \in Subscribers, Work(s)
  PROVE  Promise!Next \/ UNCHANGED Promise!vars
<1>a. TypeOK
  BY DEF IInv
<1>1. Unoffered' = Unoffered /\ Earlier' = Earlier /\ running' = running /\ UNCHANGED <<queue, hand>>
  BY DEF Work, StartCallback, CallbackReturns, CallbackRaises, publishVars, dispatchVars, lifeVars,
         Unoffered, Earlier, running
<1>2. CASE StartCallback(s)
  <2> DEFINE begun == [r \in Subscribers |-> active[r] \cup finished[r]]
  <2>1. /\ backlog[s] # <<>> /\ backlog' = [backlog EXCEPT ![s] = Tail(@)]
        /\ active' = [active EXCEPT ![s] = @ \cup {Head(backlog[s])}] /\ finished' = finished
    BY <1>2 DEF StartCallback
  <2>2. [r \in Subscribers |-> active'[r] \cup finished'[r]]
          = [begun EXCEPT ![s] = @ \cup {Head(backlog[s])}]
    BY <1>a, <2>1 DEF TypeOK
  <2>3. Promise!Begin(s)
    BY <1>1, <2>1, <2>2 DEF Promise!Begin
  <2> QED BY <2>3 DEF Promise!Next
<1>3. ASSUME NEW e \in Events, EndCallback(s, e), backlog' = backlog
      PROVE  UNCHANGED Promise!vars
  <2>1. \A r \in Subscribers : active'[r] \cup finished'[r] = active[r] \cup finished[r]
    BY <1>a, <1>3 DEF EndCallback, TypeOK
  <2> QED BY <1>1, <1>3, <2>1 DEF Promise!vars
<1> QED BY <1>2, <1>3 DEF Work, CallbackReturns, CallbackRaises

\* What the control thread does is to open, to close and to empty an inbox.
LEMMA ControlKeeps ==
  ASSUME IInv, Control
  PROVE  Promise!Next \/ UNCHANGED Promise!vars
<1>a. TypeOK
  BY DEF IInv
<1>1. Unoffered' = Unoffered /\ Earlier' = Earlier /\ UNCHANGED <<queue, hand, active, finished>>
  BY DEF Control, Subscribe, Unsubscribe, Start, StopBegin, StopJoin, StopPool, StopReturn,
         ClearDeadLetters, publishVars, dispatchVars, workVars, Unoffered, Earlier
<1>2. ASSUME backlog' = backlog PROVE Promise!Next
  <2>1. running' \in BOOLEAN
    BY DEF running
  <2>2. Promise!OpenOrClose
    BY <1>1, <1>2, <2>1 DEF Promise!OpenOrClose
  <2> QED BY <2>2 DEF Promise!Next
<1>3. ASSUME NEW s \in Subscribers, Unsubscribe(s) PROVE Promise!Next
  <2>1. CASE s \in pools
    <3>1. backlog' = [backlog EXCEPT ![s] = <<>>] /\ running' = running
      BY <1>3, <2>1 DEF Unsubscribe, lifeVars, running
    <3>2. Promise!Cancel(s)
      BY <1>1, <3>1 DEF Promise!Cancel
    <3> QED BY <3>2 DEF Promise!Next
  <2>2. CASE s \notin pools
    <3>1. backlog' = backlog
      BY <1>a, <1>3, <2>2 DEF Unsubscribe, TypeOK
    <3> QED BY <1>2, <3>1
  <2> QED BY <2>1, <2>2
<1>4. CASE \/ \E s \in Subscribers : Subscribe(s) \/ StopPool(s)
           \/ Start \/ StopBegin \/ StopJoin \/ StopReturn \/ ClearDeadLetters
  <2>1. backlog' = backlog
    BY <1>4 DEF Subscribe, Start, StopBegin, StopJoin, StopPool, StopReturn, ClearDeadLetters,
                workVars
  <2> QED BY <1>2, <2>1
<1> QED BY <1>3, <1>4 DEF Control

\* The publishers, the dispatch thread, the pools and the control thread together, with
\* unsubscription, timeouts and restarts, keep what Delivery promises (EventBus.KeepsPromise):
\* order of priority and acceptance, no refusal without a reason, everybody once and in order.
THEOREM PromiseKept == Spec => KeepsPromise
<1>1. Init => Promise!Init /\ TargetsWant
  <2> SUFFICES ASSUME Init PROVE Promise!Init /\ TargetsWant
    OBVIOUS
  <2>1. TargetsWant
    BY DEF Init, TargetsWant
  <2>2. Unoffered = Events /\ Earlier = {} /\ running = FALSE
    BY BusAssumption DEF Init, Unoffered, Earlier, running
  <2>3. [s \in Subscribers |-> active[s] \cup finished[s]] = [s \in Subscribers |-> {}]
    BY DEF Init
  <2>4. Promise!Init
    BY <2>2, <2>3 DEF Init, Promise!Init
  <2> QED BY <2>1, <2>4
<1>2. IInv /\ IInv' /\ OnceInv /\ TargetsWant /\ [Next]_vars => [Promise!Next]_(Promise!vars)
  <2> SUFFICES ASSUME IInv, IInv', OnceInv, TargetsWant, [Next]_vars
               PROVE  Promise!Next \/ UNCHANGED Promise!vars
    OBVIOUS
  <2>1. CASE UNCHANGED vars
    BY <2>1 DEF vars, publishVars, dispatchVars, workVars, lifeVars, Promise!vars, Unoffered,
                Earlier, running
  <2> QED BY <2>1, PublishKeeps, DispatchKeeps, WorkKeeps, ControlKeeps DEF Next
<1>3. IInv /\ OnceInv /\ TargetsWant /\ [Next]_vars => TargetsWant'
  BY WantNext
<1> QED BY <1>1, <1>2, <1>3, Inductive, OnceInductive, PTL DEF Spec, KeepsPromise, Promise!Spec
=============================================================================
