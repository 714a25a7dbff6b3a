-------------------------- MODULE SecureOpsProofs --------------------------
(***************************************************************************)
(* Proofs about SecureOps, for any alerts, severities and keys, any batch   *)
(* size and any number of restarts, with crashes and timeouts of stop()     *)
(* allowed.  IInv is inductive, and under it every step is a step of Outbox *)
(* or changes nothing that Outbox sees.                                     *)
(***************************************************************************)
EXTENDS SecureOps, TLAPS

-----------------------------------------------------------------------------
(* The inductive invariant *)

\* The exporter starts with nothing queued and nothing lost.
LEMMA InitIInv == Init => IInv
<1> SUFFICES ASSUME Init PROVE IInv
  OBVIOUS
<1>1. TypeOK
  <2>1. starts \in 0..MaxStarts /\ clock \in Nat /\ late \in Nat /\ born \in [Alerts -> Nat]
    BY ExportAssumption DEF Init
  <2>2. badKey \in BOOLEAN /\ enabled \in BOOLEAN
    BY Zenon DEF Init
  <2>3. QED
    BY <2>1, <2>2 DEF Init, TypeOK
<1>2. NotYetQueued /\ RequestSound /\ recorded \subseteq received
  BY DEF Init, NotYetQueued, RequestSound
<1>3. NothingLost /\ NoResend /\ FlagSound /\ HaltsOnBadKey
  BY DEF Init, NothingLost, NoResend, FlagSound, HaltsOnBadKey
<1>4. QED
  BY <1>1, <1>2, <1>3 DEF IInv

\* Every step keeps the types.
LEMMA NextTypeOK == TypeOK /\ [Next]_vars => TypeOK'
<1> SUFFICES ASSUME TypeOK, [Next]_vars PROVE TypeOK'
  OBVIOUS
<1> USE ExportAssumption DEF TypeOK, lifeVars, queueVars, setVars,
                 uploadVars, busVars, socVars
<1>1. CASE Bus
  <2>1. ASSUME NEW a \in Alerts, HandleEvent(a) PROVE TypeOK'
    BY <2>1 DEF HandleEvent
  <2>2. ASSUME NEW a \in Alerts, Enqueue(a) PROVE TypeOK'
    BY <2>2 DEF Enqueue
  <2>3. ASSUME NEW a \in Alerts, EnqueueRaises(a) PROVE TypeOK'
    BY <2>3 DEF EnqueueRaises
  <2>4. QED
    BY <1>1, <2>1, <2>2, <2>3 DEF Bus
<1>2. CASE Round
  <2>1. ASSUME LoadSettings PROVE TypeOK'
    BY <2>1 DEF LoadSettings
  <2>2. ASSUME CheckBadKey PROVE TypeOK'
    BY <2>2 DEF CheckBadKey
  <2>3. ASSUME GetKey PROVE TypeOK'
    BY <2>3 DEF GetKey
  <2>4. ASSUME TakeDue PROVE TypeOK'
    BY <2>4 DEF TakeDue, DueBatch, Due
  <2>5. ASSUME GiveUp PROVE TypeOK'
    BY <2>5 DEF GiveUp
  <2>6. ASSUME ExitUploader PROVE TypeOK'
    BY <2>6 DEF ExitUploader
  <2>7. QED
    BY <1>2, <2>1, <2>2, <2>3, <2>4, <2>5, <2>6 DEF Round
<1>3. CASE Record
  <2>1. ASSUME RecordSuccess PROVE TypeOK'
    BY <2>1 DEF RecordSuccess, EndRound, Mark
  <2>2. ASSUME RecordUnauthorized PROVE TypeOK'
    BY <2>2 DEF RecordUnauthorized, EndRound
  <2>3. ASSUME RecordInvalid PROVE TypeOK'
    BY <2>3 DEF RecordInvalid, EndRound, Mark, Rows
  <2>4. ASSUME RecordFailure PROVE TypeOK'
    BY <2>4 DEF RecordFailure, EndRound, Mark, Rows, Due
  <2>5. ASSUME RecordRaises PROVE TypeOK'
    BY <2>5 DEF RecordRaises, EndRound
  <2>6. QED
    BY <1>3, <2>1, <2>2, <2>3, <2>4, <2>5 DEF Record
<1>4. CASE Respond
  <2>1. ASSUME AnswerSuccess PROVE TypeOK'
    BY <2>1 DEF AnswerSuccess, Answer
  <2>2. ASSUME AnswerUnauthorized PROVE TypeOK'
    BY <2>2 DEF AnswerUnauthorized, Answer
  <2>3. ASSUME AnswerInvalid PROVE TypeOK'
    BY <2>3 DEF AnswerInvalid, Answer
  <2>4. ASSUME AnswerFailure PROVE TypeOK'
    BY <2>4 DEF AnswerFailure, Answer
  <2>5. QED
    BY <1>4, <2>1, <2>2, <2>3, <2>4 DEF Respond
<1>5. CASE API
  <2>1. ASSUME NEW k \in Keys \cup {NoKey}, SaveKey(k) PROVE TypeOK'
    BY <2>1 DEF SaveKey
  <2>2. ASSUME NEW b \in BOOLEAN, SaveSettings(b) PROVE TypeOK'
    BY <2>2 DEF SaveSettings
  <2>3. ASSUME NEW b \in BOOLEAN, SetEnabled(b) PROVE TypeOK'
    BY <2>3 DEF SetEnabled
  <2>4. ASSUME ClearBadKey PROVE TypeOK'
    <3>1. badKey' \in BOOLEAN
      BY <2>4, Zenon DEF ClearBadKey
    <3>2. late' \in Nat
      BY <2>4 DEF ClearBadKey
    <3>3. QED
      BY <2>4, <3>1, <3>2 DEF ClearBadKey
  <2>5. ASSUME NEW k \in Keys, TestConnection(k) PROVE TypeOK'
    BY <2>5 DEF TestConnection
  <2>6. QED
    BY <1>5, <2>1, <2>2, <2>3, <2>4, <2>5 DEF API
<1>6. CASE Application
  <2>1. ASSUME Start PROVE TypeOK'
    BY <2>1 DEF Start
  <2>2. ASSUME StopBegin PROVE TypeOK'
    BY <2>2 DEF StopBegin
  <2>3. ASSUME CloseQueue PROVE TypeOK'
    BY <2>3 DEF CloseQueue
  <2>4. ASSUME EndProcess PROVE TypeOK'
    BY <2>4 DEF EndProcess
  <2>5. QED
    BY <1>6, <2>1, <2>2, <2>3, <2>4 DEF Application
<1>7. CASE \E a \in Alerts : BackoffElapses(a)
  BY <1>7 DEF BackoffElapses
<1>8. CASE UNCHANGED vars
  BY <1>8 DEF vars
<1>9. QED
  BY <1>1, <1>2, <1>3, <1>4, <1>5, <1>6, <1>7, <1>8 DEF Next, Upload

\* What is still to be enqueued stays without a trace.
LEMMA NextNotYetQueued == IInv /\ [Next]_vars => NotYetQueued'
<1> SUFFICES ASSUME IInv, [Next]_vars PROVE NotYetQueued'
  OBVIOUS
<1> USE DEF IInv, NotYetQueued, RequestSound, Queued, TypeOK, Open, lifeVars, queueVars, setVars,
                 uploadVars, busVars, socVars
<1>1. CASE Bus
  BY <1>1 DEF Bus, HandleEvent, Enqueue, EnqueueRaises
<1>2. CASE Round
  BY <1>2 DEF Round, LoadSettings, CheckBadKey, GetKey, TakeDue, DueBatch, Due, GiveUp,
              ExitUploader
<1>3. CASE Record
  BY <1>3 DEF Record, RecordSuccess, RecordUnauthorized, RecordInvalid, RecordFailure,
              RecordRaises, EndRound, Mark, Rows, Due
<1>4. CASE Respond
  BY <1>4 DEF Respond, AnswerSuccess, AnswerUnauthorized, AnswerInvalid, AnswerFailure,
              Answer
<1>5. CASE API
  BY <1>5 DEF API, SaveKey, SaveSettings, SetEnabled, ClearBadKey, TestConnection
<1>6. CASE Application
  BY <1>6 DEF Application, Start, StopBegin, CloseQueue, EndProcess
<1>7. CASE \E a \in Alerts : BackoffElapses(a)
  BY <1>7 DEF BackoffElapses
<1>8. CASE UNCHANGED vars
  BY <1>8 DEF vars
<1>9. QED
  BY <1>1, <1>2, <1>3, <1>4, <1>5, <1>6, <1>7, <1>8 DEF Next, Upload

\* A request stays made of queued alerts: nobody but the uploader takes an alert
\* out of the queue.
LEMMA NextRequestSound == IInv /\ [Next]_vars => RequestSound'
<1> SUFFICES ASSUME IInv, [Next]_vars PROVE RequestSound'
  OBVIOUS
<1> USE DEF IInv, RequestSound, Queued, TypeOK, Open, lifeVars, queueVars, setVars,
                 uploadVars, busVars, socVars
<1>1. CASE Bus
  BY <1>1 DEF Bus, HandleEvent, Enqueue, EnqueueRaises
<1>2. CASE Round
  BY <1>2 DEF Round, LoadSettings, CheckBadKey, GetKey, TakeDue, DueBatch, Due, GiveUp,
              ExitUploader
<1>3. CASE Record
  BY <1>3 DEF Record, RecordSuccess, RecordUnauthorized, RecordInvalid, RecordFailure,
              RecordRaises, EndRound, Mark, Rows, Due
<1>4. CASE Respond
  BY <1>4 DEF Respond, AnswerSuccess, AnswerUnauthorized, AnswerInvalid, AnswerFailure,
              Answer
<1>5. CASE API
  BY <1>5 DEF API, SaveKey, SaveSettings, SetEnabled, ClearBadKey, TestConnection
<1>6. CASE Application
  BY <1>6 DEF Application, Start, StopBegin, CloseQueue, EndProcess
<1>7. CASE \E a \in Alerts : BackoffElapses(a)
  BY <1>7 DEF BackoffElapses
<1>8. CASE UNCHANGED vars
  BY <1>8 DEF vars
<1>9. QED
  BY <1>1, <1>2, <1>3, <1>4, <1>5, <1>6, <1>7, <1>8 DEF Next, Upload

\* A confirmed alert stays out of the queue and out of every request.
LEMMA NextNoResend == IInv /\ [Next]_vars => (recorded \subseteq received /\ NoResend)'
<1> SUFFICES ASSUME IInv, [Next]_vars PROVE (recorded \subseteq received /\ NoResend)'
  OBVIOUS
<1> USE DEF IInv, NoResend, NotYetQueued, RequestSound,
                 Queued, TypeOK, Open, lifeVars, queueVars, setVars,
                 uploadVars, busVars, socVars
<1>1. CASE Bus
  BY <1>1 DEF Bus, HandleEvent, Enqueue, EnqueueRaises
<1>2. CASE Round
  BY <1>2 DEF Round, LoadSettings, CheckBadKey, GetKey, TakeDue, DueBatch, Due, GiveUp,
              ExitUploader
<1>3. CASE Record
  BY <1>3 DEF Record, RecordSuccess, RecordUnauthorized, RecordInvalid, RecordFailure,
              RecordRaises, EndRound, Mark, Rows, Due
<1>4. CASE Respond
  BY <1>4 DEF Respond, AnswerSuccess, AnswerUnauthorized, AnswerInvalid, AnswerFailure,
              Answer
<1>5. CASE API
  BY <1>5 DEF API, SaveKey, SaveSettings, SetEnabled, ClearBadKey, TestConnection
<1>6. CASE Application
  BY <1>6 DEF Application, Start, StopBegin, CloseQueue, EndProcess
<1>7. CASE \E a \in Alerts : BackoffElapses(a)
  BY <1>7 DEF BackoffElapses
<1>8. CASE UNCHANGED vars
  BY <1>8 DEF vars
<1>9. QED
  BY <1>1, <1>2, <1>3, <1>4, <1>5, <1>6, <1>7, <1>8 DEF Next, Upload

\* No step loses an accepted alert.
LEMMA NextNothingLost == IInv /\ [Next]_vars => NothingLost'
<1> SUFFICES ASSUME IInv, [Next]_vars PROVE NothingLost'
  OBVIOUS
<1> USE DEF IInv, NothingLost, RequestSound, Queued,
                 Parked, TypeOK, Open, lifeVars, queueVars, setVars,
                 uploadVars, busVars, socVars
<1>1. CASE Bus
  BY <1>1 DEF Bus, HandleEvent, Enqueue, EnqueueRaises
<1>2. CASE Round
  BY <1>2 DEF Round, LoadSettings, CheckBadKey, GetKey, TakeDue, DueBatch, Due, GiveUp,
              ExitUploader
<1>3. CASE Record
  BY <1>3 DEF Record, RecordSuccess, RecordUnauthorized, RecordInvalid, RecordFailure,
              RecordRaises, EndRound, Mark, Rows, Due
<1>4. CASE Respond
  BY <1>4 DEF Respond, AnswerSuccess, AnswerUnauthorized, AnswerInvalid, AnswerFailure,
              Answer
<1>5. CASE API
  BY <1>5 DEF API, SaveKey, SaveSettings, SetEnabled, ClearBadKey, TestConnection
<1>6. CASE Application
  BY <1>6 DEF Application, Start, StopBegin, CloseQueue, EndProcess
<1>7. CASE \E a \in Alerts : BackoffElapses(a)
  BY <1>7 DEF BackoffElapses
<1>8. CASE UNCHANGED vars
  BY <1>8 DEF vars
<1>9. QED
  BY <1>1, <1>2, <1>3, <1>4, <1>5, <1>6, <1>7, <1>8 DEF Next, Upload

\* At most one request begins under a raised flag.
LEMMA NextFlagSound == IInv /\ [Next]_vars => (FlagSound /\ HaltsOnBadKey)'
<1> SUFFICES ASSUME IInv, [Next]_vars PROVE (FlagSound /\ HaltsOnBadKey)'
  OBVIOUS
<1> USE DEF IInv, FlagSound, HaltsOnBadKey, TypeOK, Open, lifeVars, queueVars, setVars,
                 uploadVars, busVars, socVars
<1>1. CASE Bus
  BY <1>1 DEF Bus, HandleEvent, Enqueue, EnqueueRaises
<1>2. CASE Round
  BY <1>2 DEF Round, LoadSettings, CheckBadKey, GetKey, TakeDue, DueBatch, Due, GiveUp,
              ExitUploader
<1>3. CASE Record
  BY <1>3 DEF Record, RecordSuccess, RecordUnauthorized, RecordInvalid, RecordFailure,
              RecordRaises, EndRound, Mark, Rows, Due
<1>4. CASE Respond
  BY <1>4 DEF Respond, AnswerSuccess, AnswerUnauthorized, AnswerInvalid, AnswerFailure,
              Answer
<1>5. CASE API
  BY <1>5 DEF API, SaveKey, SaveSettings, SetEnabled, ClearBadKey, TestConnection
<1>6. CASE Application
  BY <1>6 DEF Application, Start, StopBegin, CloseQueue, EndProcess
<1>7. CASE \E a \in Alerts : BackoffElapses(a)
  BY <1>7 DEF BackoffElapses
<1>8. CASE UNCHANGED vars
  BY <1>8 DEF vars
<1>9. QED
  BY <1>1, <1>2, <1>3, <1>4, <1>5, <1>6, <1>7, <1>8 DEF Next, Upload

\* IInv is an invariant.
THEOREM Inductive == Spec => []IInv
<1>1. Init => IInv
  BY InitIInv
<1>2. IInv /\ [Next]_vars => IInv'
  <2> SUFFICES ASSUME IInv, [Next]_vars PROVE IInv'
    OBVIOUS
  <2>1. TypeOK'
    BY NextTypeOK DEF IInv
  <2>2. QED
    BY <2>1, NextNotYetQueued, NextRequestSound, NextNoResend, NextNothingLost, NextFlagSound
    DEF IInv
<1>3. QED
  BY <1>1, <1>2, PTL DEF Spec

-----------------------------------------------------------------------------
(* What follows *)

\* The types of the queue's rows, the settings and the threads' positions hold
\* in every run of the exporter.
THEOREM TypeCorrect == Spec => []TypeOK
<1>1. IInv => TypeOK
  BY DEF IInv
<1>2. QED
  BY <1>1, Inductive, PTL

\* Whatever enqueue() accepted is queued, is with the server, or was put aside
\* because the server rejected it, over any number of crashes and restarts.
THEOREM AcceptedAlertsKept == Spec => []NothingLost
<1>1. IInv => NothingLost
  BY DEF IInv
<1>2. QED
  BY <1>1, Inductive, PTL

\* Once mark_success() has recorded an alert, it is never sent again.
THEOREM ConfirmedOnce == Spec => []NoResend
<1>1. IInv => NoResend
  BY DEF IInv
<1>2. QED
  BY <1>1, Inductive, PTL

\* At most one upload begins while the bad-key flag is up.
THEOREM HaltHolds == Spec => []HaltsOnBadKey
<1>1. IInv => HaltsOnBadKey
  BY DEF IInv
<1>2. QED
  BY <1>1, Inductive, PTL

-----------------------------------------------------------------------------
(* Refinement *)

\* The exporter starts as an empty outbox.
LEMMA InitRefines == Init => Contract!Init
BY DEF Init, Contract!Init, Queued, Parked

\* Every step of the exporter is one of the outbox, or is invisible to it.
LEMMA NextRefines == IInv /\ [Next]_vars => [Contract!Next]_(Contract!vars)
<1> SUFFICES ASSUME IInv, [Next]_vars PROVE Contract!Next \/ UNCHANGED Contract!vars
  OBVIOUS
<1> USE DEF IInv, TypeOK, Queued, Parked, Contract!vars
<1>1. ASSUME NEW a \in Alerts, Enqueue(a) PROVE Contract!Accept(a)
  BY <1>1 DEF Enqueue, NotYetQueued, Contract!Accept, uploadVars, socVars
<1>2. ASSUME AnswerSuccess PROVE Contract!Take(batch)
  BY <1>2 DEF AnswerSuccess, Answer, RequestSound, Contract!Take, queueVars
<1>3. ASSUME AnswerFailure PROVE Contract!Take(batch) \/ UNCHANGED Contract!vars
  BY <1>3 DEF AnswerFailure, Answer, RequestSound, Contract!Take, queueVars
<1>4. ASSUME RecordSuccess PROVE Contract!Release(batch)
  BY <1>4 DEF RecordSuccess, EndRound, Mark, RequestSound, Contract!Release
<1>5. ASSUME RecordInvalid PROVE Contract!Refuse(batch)
  BY <1>5 DEF RecordInvalid, EndRound, Mark, Rows, RequestSound, Contract!Refuse, socVars
<1>6. ASSUME RecordFailure PROVE UNCHANGED Contract!vars
  BY <1>6 DEF RecordFailure, EndRound, Mark, Rows, Due, socVars
<1>7. ASSUME NEW a \in Alerts, BackoffElapses(a) PROVE UNCHANGED Contract!vars
  BY <1>7 DEF BackoffElapses, socVars
<1>8. ASSUME \/ \E a \in Alerts : HandleEvent(a) \/ EnqueueRaises(a)
             \/ Round \/ API \/ Application
             \/ AnswerUnauthorized \/ AnswerInvalid
             \/ RecordUnauthorized \/ RecordRaises \/ UNCHANGED vars
      PROVE  UNCHANGED <<status, received>>
  BY <1>8 DEF HandleEvent, EnqueueRaises, Round, LoadSettings, CheckBadKey, GetKey, TakeDue,
              GiveUp, ExitUploader, API, SaveKey, SaveSettings, SetEnabled, ClearBadKey,
              TestConnection, Application, Start, StopBegin, CloseQueue, EndProcess,
              AnswerUnauthorized, AnswerInvalid, Answer, RecordUnauthorized, RecordRaises,
              EndRound, queueVars, socVars, vars
<1>9. batch \in SUBSET Alerts
  OBVIOUS
<1>a. UNCHANGED <<status, received>> => UNCHANGED Contract!vars
  OBVIOUS
<1> HIDE DEF IInv, TypeOK, Queued, Parked, Contract!vars
<1>10. CASE Bus
  BY <1>1, <1>8, <1>a, <1>10 DEF Bus, Contract!Next
<1>11. CASE Record
  BY <1>4, <1>5, <1>6, <1>8, <1>9, <1>a, <1>11 DEF Record, Contract!Next
<1>12. CASE Respond
  BY <1>2, <1>3, <1>8, <1>9, <1>a, <1>12 DEF Respond, Contract!Next
<1>13. QED
  BY <1>7, <1>8, <1>a, <1>10, <1>11, <1>12 DEF Next, Upload

\* The durable queue, the uploader, the settings and the crashes together
\* implement an at-least-once outbox.
THEOREM Refinement == Spec => ImplementsOutbox
<1>1. Init => Contract!Init
  BY InitRefines
<1>2. IInv /\ [Next]_vars => [Contract!Next]_(Contract!vars)
  BY NextRefines
<1>3. QED
  BY <1>1, <1>2, Inductive, PTL DEF Spec, ImplementsOutbox, Contract!Spec
=============================================================================
