---------------------------- MODULE SystemProofs ----------------------------
(***************************************************************************)
(* Proofs about the monitors and the application.                          *)
(*                                                                         *)
(* Of Monitor, for any items, versions, misread snapshots, crashes and     *)
(* restarts: the running flag is true, what was reported is what the       *)
(* baseline says, and nothing is reported created that has not been absent;*)
(* IInv is inductive.                                                      *)
(*                                                                         *)
(* Of Application, the instance App, for any monitors, any size of the bus *)
(* and any number of items and crashes: the order in which app.py starts    *)
(* the parts lets every threat reach all that are to hear of it, and the   *)
(* order in which it stops them closes the store only when nobody hands it *)
(* anything; App!IInv is inductive, and a step of MCSystem is one of App   *)
(* or leaves it alone (ApplicationStep).                                   *)
(***************************************************************************)
EXTENDS MCSystem, SequenceTheorems, TLAPS

Values == Versions \cup {0}

-----------------------------------------------------------------------------
(* Snapshots *)

\* A snapshot has the values of versions.
LEMMA SnapshotType ==
  ASSUME TypeOK, NEW m
  PROVE  Snapshot(m) \in [Items -> Values]
BY MonitorAssumption DEF TypeOK, Snapshot, Visible, Values

\* A snapshot shows as absent what is absent, and what it misses.
LEMMA SnapshotAbsent ==
  ASSUME TypeOK, NEW m, NEW i \in Items
  PROVE  Snapshot(m)[i] = 0 <=> i \in m \/ world[i] = 0
BY MonitorAssumption DEF TypeOK, Snapshot, Visible

\* What a snapshot may miss are items.
LEMMA UnreadType ==
  ASSUME TypeOK, NEW m \in Unread
  PROVE  m \subseteq Items
BY DEF Unread

-----------------------------------------------------------------------------
(* Types *)

LEMMA TypeInit == Init => TypeOK
<1> SUFFICES ASSUME Init PROVE TypeOK
  OBVIOUS
<1>1. Nothing \in [Items -> Values]
  BY DEF Nothing, Values
<1>2. world \in [Items -> Values]
  BY MonitorAssumption DEF Init, Values
<1> QED BY <1>1, <1>2 DEF Init, TypeOK, Values

\* The steps of the application keep the types.
LEMMA LifeTypes == TypeOK /\ Life => TypeOK'
<1> SUFFICES ASSUME TypeOK, Life PROVE TypeOK'
  OBVIOUS
<1> USE DEF TypeOK, lifeVars, pollVars, ghosts
<1>1. Nothing \in [Items -> Versions \cup {0}]
  BY DEF Nothing
<1>2. CASE Initialize
  <2>1. PICK m \in Unread, known \in IF kind = "process" THEN SUBSET Items ELSE {{}} :
          /\ baseline' = FirstBaseline(m)
          /\ cache' = {i \in known : world[i] # 0}
          /\ misreads' = IF m = {} THEN misreads ELSE misreads + 1
          /\ doubted' = m
    BY <1>2 DEF Initialize
  <2>2. baseline' \in [Items -> Versions \cup {0}] /\ doubted' \subseteq Items
    BY <2>1, SnapshotType, UnreadType DEF FirstBaseline, Values
  <2>3. cache' \subseteq Items
    BY <2>1
  <2>4. /\ UNCHANGED <<kind, world, running, stopEvent, loop, seen, todo>>
        /\ told' = baseline' /\ absent' \subseteq Items /\ excused' = {}
        /\ initialized' = TRUE /\ control' = "ready"
    BY <1>2 DEF Initialize
  <2> QED BY <2>2, <2>3, <2>4
<1>3. CASE InitializeFails
  BY <1>3 DEF InitializeFails
<1>4. CASE StartThread
  BY <1>4 DEF StartThread
<1>5. CASE SetRunning
  BY <1>5 DEF SetRunning
<1>6. CASE HealthCheck
  BY <1>1, <1>6 DEF HealthCheck, Forget
<1>7. CASE StopBegin
  BY <1>7 DEF StopBegin
<1>8. CASE StopEnd
  BY <1>1, <1>8 DEF StopEnd, Forget
<1> QED BY <1>2, <1>3, <1>4, <1>5, <1>6, <1>7, <1>8 DEF Life

\* So do those of its thread and of the system.
LEMMA PollTypes == TypeOK /\ (Poll \/ LoopCrashes \/ \E i \in Items : Change(i)) => TypeOK'
<1> SUFFICES ASSUME TypeOK, Poll \/ LoopCrashes \/ \E i \in Items : Change(i) PROVE TypeOK'
  OBVIOUS
<1> USE DEF TypeOK, lifeVars, pollVars, ghosts
<1>1. ASSUME NEW i \in Items, Change(i) PROVE TypeOK'
  <2>1. world' \in [Items -> Versions \cup {0}] /\ absent' \subseteq Items
    BY <1>1 DEF Change
  <2> QED BY <1>1, <2>1 DEF Change
<1>2. CASE LoopCheck
  BY <1>2 DEF LoopCheck
<1>3. CASE Look
  <2>1. PICK m \in Unread : seen' = Snapshot(m) /\ doubted' = doubted \cup m
    BY <1>3 DEF Look
  <2>2. seen' \in [Items -> Versions \cup {0}] /\ doubted' \subseteq Items
    BY <2>1, SnapshotType, UnreadType DEF Values
  <2> QED BY <1>3, <2>2 DEF Look
<1>4. CASE LookFails
  BY <1>4 DEF LookFails
<1>5. CASE Compare
  <2>1. todo' \subseteq Items /\ cache' \subseteq Items /\ excused' \subseteq Items
    BY <1>5 DEF Compare, New, Gone, Modified
  <2> QED BY <1>5, <2>1 DEF Compare
<1>6. ASSUME NEW sent \in SUBSET Items, NEW lost \in SUBSET Items, Sent(sent, lost)
      PROVE  /\ todo' \subseteq Items /\ told' \in [Items -> Versions \cup {0}]
             /\ absent' \subseteq Items /\ excused' \subseteq Items
  BY <1>6 DEF Sent
<1>7. CASE PublishMany
  <2>1. PICK batch : batch \subseteq Items /\ \E sent \in SUBSET batch : Sent(sent, batch \ sent)
    BY <1>7 DEF PublishMany
  <2>2. PICK sent \in SUBSET batch : Sent(sent, batch \ sent)
    BY <2>1
  <2>3. sent \in SUBSET Items /\ batch \ sent \in SUBSET Items
    BY <2>1
  <2> QED BY <1>6, <1>7, <2>2, <2>3 DEF PublishMany
<1>8. ASSUME NEW i \in Items, PublishOne(i) PROVE TypeOK'
  <2>1. PICK sent \in SUBSET Items, lost \in SUBSET Items : Sent(sent, lost)
    BY <1>8 DEF PublishOne
  <2> QED BY <1>6, <1>8, <2>1 DEF PublishOne
<1>9. CASE Commit
  BY <1>9 DEF Commit, NewBaseline
<1>10. CASE Wake
  BY <1>10 DEF Wake
<1>11. CASE LoopCrashes
  BY <1>11 DEF LoopCrashes
<1>12. CASE ThreadEnds
  BY <1>12 DEF ThreadEnds, FlagOfDead
<1> QED
  BY <1>1, <1>2, <1>3, <1>4, <1>5, <1>7, <1>8, <1>9, <1>10, <1>11, <1>12 DEF Poll

LEMMA TypeNext == TypeOK /\ [Next]_vars => TypeOK'
<1>1. TypeOK /\ UNCHANGED vars => TypeOK'
  BY DEF TypeOK, vars, lifeVars, pollVars, ghosts
<1> QED BY <1>1, LifeTypes, PollTypes DEF Next

-----------------------------------------------------------------------------
(* The flag *)

LEMMA FlagInit == Init => FlagFollows
BY DEF Init, FlagFollows

LEMMA FlagNext == TypeOK /\ FlagFollows /\ [Next]_vars => FlagFollows'
<1> SUFFICES ASSUME TypeOK, FlagFollows, [Next]_vars PROVE FlagFollows'
  OBVIOUS
<1> USE DEF FlagFollows, lifeVars, pollVars, ghosts
<1>1. CASE Life
  BY <1>1 DEF Life, Initialize, InitializeFails, StartThread, SetRunning, HealthCheck, Failed,
              StopBegin, StopEnd
<1>2. CASE \E i \in Items : Change(i)
  BY <1>2 DEF Change
<1>3. CASE ThreadEnds
  BY <1>3 DEF ThreadEnds, FlagOfDead, TypeOK
<1>4. CASE Poll /\ ~ThreadEnds
  <2>1. /\ UNCHANGED <<control, running, early>> /\ loop # "gone" /\ loop' # "gone"
    BY <1>4 DEF Poll, LoopCheck, Look, LookFails, Compare, PublishMany, PublishOne, Commit, Wake
  <2> QED BY <2>1
<1>5. CASE LoopCrashes
  BY <1>5 DEF LoopCrashes
<1>6. CASE UNCHANGED vars
  BY <1>6 DEF vars
<1> QED BY <1>1, <1>2, <1>3, <1>4, <1>5, <1>6 DEF Next

-----------------------------------------------------------------------------
(* What was told *)

LEMMA ToldInit == Init => ToldSoFar
BY DEF Init, ToldSoFar

\* The items about which a poll has nothing to say are as the baseline says.
LEMMA NothingToTell ==
  ASSUME TypeOK, Compare, NEW i \in Items, i \notin todo', i \notin excused'
  PROVE  seen[i] = baseline[i]
BY DEF Compare, New, Gone, Modified

\* An item of which an event was published was told of as it was seen.
LEMMA SentTold ==
  ASSUME TypeOK, NEW sent, NEW lost, Sent(sent, lost), NEW i \in Items, i \notin excused'
  PROVE  /\ i \notin lost
         /\ i \in sent => told'[i] = seen[i]
         /\ i \notin sent =>
              told'[i] = told[i] /\ i \notin excused /\ (i \notin todo' => i \notin todo)
BY DEF Sent, TypeOK

LEMMA ToldNext == TypeOK /\ FlagFollows /\ ToldSoFar /\ [Next]_vars => ToldSoFar'
<1> SUFFICES ASSUME TypeOK, FlagFollows, ToldSoFar, [Next]_vars PROVE ToldSoFar'
  OBVIOUS
<1> USE DEF ToldSoFar, lifeVars, pollVars, ghosts
<1>1. CASE Initialize
  BY <1>1 DEF Initialize, FlagFollows
<1>2. CASE StartThread
  BY <1>2 DEF StartThread
<1>3. CASE InitializeFails \/ SetRunning \/ StopBegin
  BY <1>3 DEF InitializeFails, SetRunning, StopBegin
<1>4. CASE HealthCheck \/ StopEnd
  <2>1. doubted' = Items
    BY <1>4 DEF HealthCheck, StopEnd, Forget
  <2> QED BY <2>1
<1>5. CASE \E i \in Items : Change(i)
  BY <1>5 DEF Change
<1>6. CASE LoopCheck \/ LookFails \/ Wake \/ LoopCrashes
  BY <1>6 DEF LoopCheck, LookFails, Wake, LoopCrashes
<1>7. CASE Look
  BY <1>7 DEF Look
<1>8. CASE Compare
  <2>1. \A i \in Items : i \notin todo' /\ i \notin excused' => seen[i] = baseline[i]
    BY <1>8, NothingToTell
  <2>2. /\ loop = "compare" /\ loop' = "publish" /\ excused \subseteq excused'
        /\ UNCHANGED <<control, seen, baseline, told, doubted>>
    BY <1>8 DEF Compare
  <2>3. control # "ready"
    BY <2>2 DEF FlagFollows
  <2> QED BY <2>1, <2>2, <2>3
<1>9. ASSUME NEW sent, NEW lost, Sent(sent, lost), loop = "publish",
             UNCHANGED <<control, loop, seen, baseline, doubted>>
      PROVE  ToldSoFar'
  <2>1. control # "ready"
    BY <1>9 DEF FlagFollows
  <2>2. SUFFICES ASSUME NEW i \in Items, i \notin excused', i \notin doubted, i \notin todo'
        PROVE  told'[i] = seen[i]
    BY <1>9, <2>1
  <2> QED BY <1>9, <2>2, SentTold
<1>10. CASE PublishMany
  <2>1. PICK sent, lost : Sent(sent, lost)
    BY <1>10 DEF PublishMany
  <2> QED BY <1>9, <1>10, <2>1 DEF PublishMany
<1>11. ASSUME NEW i \in Items, PublishOne(i) PROVE ToldSoFar'
  <2>1. PICK sent, lost : Sent(sent, lost)
    BY <1>11 DEF PublishOne
  <2> QED BY <1>9, <1>11, <2>1 DEF PublishOne
<1>12. CASE Commit
  BY <1>12 DEF Commit, NewBaseline, FlagFollows
<1>13. CASE ThreadEnds
  BY <1>13 DEF ThreadEnds, FlagFollows
<1>14. CASE UNCHANGED vars
  BY <1>14 DEF vars
<1> QED
  BY <1>1, <1>2, <1>3, <1>4, <1>5, <1>6, <1>7, <1>8, <1>10, <1>11, <1>12, <1>13, <1>14
     DEF Next, Life, Poll

-----------------------------------------------------------------------------
(* What has been absent *)

LEMMA AbsenceInit == Init => AbsenceKnown
BY DEF Init, AbsenceKnown

\* A step that leaves the world, the reports and what is remembered of them.
LEMMA AbsenceRest ==
  ASSUME AbsenceKnown, initialized, UNCHANGED <<world, told, absent, seen>>,
         doubted \subseteq doubted',
         loop' \in {"compare", "publish"} => loop \in {"compare", "publish"}
  PROVE  AbsenceKnown'
BY DEF AbsenceKnown

\* What was published of an item that is seen and there ends its absence.
LEMMA SentAbsence ==
  ASSUME TypeOK, AbsenceKnown, initialized, loop = "publish", NEW sent, NEW lost, Sent(sent, lost),
         UNCHANGED <<world, loop, seen, doubted>>
  PROVE  AbsenceKnown'
<1> SUFFICES ASSUME NEW i \in Items
    PROVE  /\ world[i] = 0 => i \in absent'
           /\ told'[i] = 0 => i \in absent' \cup doubted
           /\ seen[i] = 0 => i \in absent' \cup doubted
  BY DEF AbsenceKnown
<1>1. i \in absent => i \in absent' \/ (i \in sent /\ seen[i] # 0 /\ world[i] # 0)
  BY DEF Sent
<1>2. told'[i] = IF i \in sent THEN seen[i] ELSE told[i]
  BY DEF Sent
<1> QED BY <1>1, <1>2 DEF AbsenceKnown

LEMMA AbsenceNext == TypeOK /\ FlagFollows /\ AbsenceKnown /\ [Next]_vars => AbsenceKnown'
<1> SUFFICES ASSUME TypeOK, FlagFollows, AbsenceKnown, [Next]_vars PROVE AbsenceKnown'
  OBVIOUS
<1> USE DEF lifeVars, pollVars, ghosts
<1>1. CASE Initialize
  <2>1. PICK m \in Unread : baseline' = Snapshot(m) /\ doubted' = m
    BY <1>1 DEF Initialize, FirstBaseline
  <2>2. /\ told' = baseline' /\ absent' = {i \in Items : world[i] = 0}
        /\ UNCHANGED <<world, loop>> /\ loop = "gone"
    BY <1>1 DEF Initialize, FlagFollows
  <2>3. \A i \in Items : told'[i] = 0 => i \in absent' \cup doubted'
    BY <2>1, <2>2, SnapshotAbsent
  <2> QED BY <2>2, <2>3 DEF AbsenceKnown
<1>2. CASE ~initialized /\ ~Initialize
  <2>1. initialized' = initialized
    BY <1>2 DEF Next, Life, Poll, vars, InitializeFails, StartThread, SetRunning, HealthCheck,
                StopBegin, StopEnd, Change, LoopCheck, Look, LookFails, Compare, PublishMany,
                PublishOne, Commit, Wake, LoopCrashes, ThreadEnds
  <2> QED BY <1>2, <2>1 DEF AbsenceKnown
<1>3. CASE initialized /\ (InitializeFails \/ StartThread \/ SetRunning \/ StopBegin)
  BY <1>3, AbsenceRest DEF InitializeFails, StartThread, SetRunning, StopBegin
<1>4. CASE initialized /\ (HealthCheck \/ StopEnd)
  <2>1. doubted' = Items /\ doubted \subseteq Items
    BY <1>4 DEF HealthCheck, StopEnd, Forget, TypeOK
  <2> QED BY <1>4, <2>1, AbsenceRest DEF HealthCheck, StopEnd
<1>5. ASSUME initialized, NEW j \in Items, Change(j) PROVE AbsenceKnown'
  <2>1. PICK v : /\ world' = [world EXCEPT ![j] = v]
                 /\ absent' = IF v = 0 THEN absent \cup {j} ELSE absent
    BY <1>5 DEF Change
  <2>2. UNCHANGED <<initialized, told, doubted, loop, seen>>
    BY <1>5 DEF Change
  <2>3. \A i \in Items : world'[i] = 0 => i \in absent'
    BY <1>5, <2>1 DEF AbsenceKnown, TypeOK
  <2> QED BY <1>5, <2>1, <2>2, <2>3 DEF AbsenceKnown
<1>6. CASE initialized /\ (LoopCheck \/ LookFails \/ Wake \/ LoopCrashes \/ ThreadEnds)
  BY <1>6, AbsenceRest DEF LoopCheck, LookFails, Wake, LoopCrashes, ThreadEnds
<1>7. CASE initialized /\ Look
  <2>1. PICK m \in Unread : seen' = Snapshot(m) /\ doubted' = doubted \cup m
    BY <1>7 DEF Look
  <2>2. UNCHANGED <<world, told, absent, initialized>>
    BY <1>7 DEF Look
  <2>3. \A i \in Items : seen'[i] = 0 => i \in absent \cup doubted'
    BY <1>7, <2>1, SnapshotAbsent DEF AbsenceKnown
  <2> QED BY <1>7, <2>1, <2>2, <2>3 DEF AbsenceKnown
<1>8. CASE initialized /\ (Compare \/ Commit)
  BY <1>8, AbsenceRest DEF Compare, Commit
<1>9. CASE initialized /\ PublishMany
  <2>1. PICK sent, lost : Sent(sent, lost)
    BY <1>9 DEF PublishMany
  <2> QED BY <1>9, <2>1, SentAbsence DEF PublishMany
<1>10. ASSUME initialized, NEW i \in Items, PublishOne(i) PROVE AbsenceKnown'
  <2>1. PICK sent, lost : Sent(sent, lost)
    BY <1>10 DEF PublishOne
  <2> QED BY <1>10, <2>1, SentAbsence DEF PublishOne
<1>11. CASE initialized /\ UNCHANGED vars
  BY <1>11, AbsenceRest DEF vars
<1>12. initialized \in BOOLEAN
  BY DEF TypeOK
<1> QED
  BY <1>1, <1>2, <1>3, <1>4, <1>5, <1>6, <1>7, <1>8, <1>9, <1>10, <1>11, <1>12 DEF Next, Life, Poll

\* What is reported created in one step had been told to be gone.
LEMMA CreationStep ==
  ASSUME IInv, [Next]_vars, NEW i \in todo \ todo', seen[i] # 0, told[i] = 0, told'[i] # 0
  PROVE  i \in absent \cup doubted
<1>1. i \in Items
  BY DEF IInv, TypeOK
<1>2. initialized
  <2>1. CASE ~initialized
    <3>1. /\ loop = "gone" /\ todo' = todo
      BY <2>1 DEF IInv, TypeOK, Next, Life, Poll, vars, lifeVars, pollVars, ghosts, Initialize,
                  InitializeFails, StartThread, SetRunning, HealthCheck, StopBegin, StopEnd, Change,
                  LoopCheck, Look, LookFails, Compare, PublishMany, PublishOne, Commit, Wake,
                  LoopCrashes, ThreadEnds
    <3> QED BY <3>1
  <2> QED BY <2>1
<1> QED BY <1>1, <1>2 DEF IInv, AbsenceKnown

-----------------------------------------------------------------------------
(* The theorems *)

\* Whatever polls, the application, crashes and the system do, the monitor's
\* invariant holds.
THEOREM Inductive == Spec => []IInv
<1>1. Init => IInv
  BY TypeInit, FlagInit, ToldInit, AbsenceInit DEF IInv
<1>2. IInv /\ [Next]_vars => IInv'
  BY TypeNext, FlagNext, ToldNext, AbsenceNext DEF IInv
<1> QED BY <1>1, <1>2, PTL DEF Spec

\* The monitor's variables keep their types, and no thread of its runs before it was
\* initialized.
THEOREM TypeCorrect == Spec => []TypeOK
<1>1. IInv => TypeOK
  BY DEF IInv
<1> QED BY <1>1, Inductive, PTL

\* is_running of a monitor under supervision is true, over crashes and restarts, but
\* for a loop that ended before start() had set the flag.
THEOREM FlagIsTrue == Spec => []RunningIsTrue
<1>1. IInv => RunningIsTrue
  BY DEF IInv, FlagFollows, RunningIsTrue
<1> QED BY <1>1, Inductive, PTL

\* After a poll the baseline says of each item what the subscribers were told, unless
\* the bus dropped the event, none could be made, or a snapshot missed the item.
THEOREM BaselineIsTold == Spec => []BaselineWasReported
<1>1. IInv => BaselineWasReported
  BY DEF IInv, ToldSoFar, BaselineWasReported
<1> QED BY <1>1, Inductive, PTL

\* An item is reported created only if it was absent since the last report about it,
\* or a snapshot had missed it.
THEOREM CreationsAreReal == Spec => CreatedOnlyWhatWasAbsent
<1>1. IInv /\ [Next]_vars =>
        [\A i \in todo \ todo' :
           seen[i] # 0 /\ told[i] = 0 /\ told'[i] # 0 => i \in absent \cup doubted]_vars
  BY CreationStep
<1> QED BY <1>1, Inductive, PTL DEF Spec, CreatedOnlyWhatWasAbsent

-----------------------------------------------------------------------------
(* The application: its steps by what they do *)

ItemKinds == {"event", "threat", "internal"}
QueueEntries == [nr : 1..MaxItems, kind : ItemKinds]

\* The bus and what went over it are left alone.
Still == UNCHANGED <<queue, handling, items, offered, threats, closedOn, refused>>

Starts ==
  \/ App!StartResources \/ App!StartBus \/ App!StartStore \/ App!StartEngine
  \/ App!StartNotifier \/ App!StartExporter
  \/ App!MonitorsStarted \/ App!StartScheduler \/ App!StartApi

Stops ==
  \/ App!StopApi \/ App!SchedulerRaises
  \/ App!MonitorsStopped \/ App!BusStops \/ App!BusStopped \/ App!ShutdownOver
  \/ (\E part \in App!Parts : App!StopPart(part)) \/ \E m \in Monitors : App!StopMonitor(m)

Supervises ==
  App!RequestStop \/ \E m \in Monitors : App!StartMonitor(m) \/ App!Restart(m) \/ App!Crash(m)

Speaks == App!StartupOver \/ App!BeginShutdown \/ \E m \in Monitors : App!Observe(m)

LEMMA StepKinds ==
  App!Next => Starts \/ Stops \/ Supervises \/ Speaks \/ App!Dispatch \/ App!Callbacks
BY DEF App!Next, App!Main, Starts, Stops, Supervises, Speaks

\* The parts by name.
LEMMA PartNames ==
  App!Parts = {"resources", "bus", "store", "engine", "notifier", "exporter", "monitors",
           "scheduler", "api"}
<1>1. DOMAIN App!InitOrder = 1..9
  BY DEF App!InitOrder
<1>2. 1..9 = {1, 2, 3, 4, 5, 6, 7, 8, 9}
  OBVIOUS
<1>3. App!Parts = {App!InitOrder[1], App!InitOrder[2], App!InitOrder[3],
               App!InitOrder[4], App!InitOrder[5], App!InitOrder[6],
               App!InitOrder[7], App!InitOrder[8], App!InitOrder[9]}
  BY <1>1, <1>2 DEF App!Parts
<1> QED BY <1>3 DEF App!InitOrder

\* A step of the start: a part starts or is left out, or the start fails.
LEMMA StartsEffect ==
  ASSUME Starts
  PROVE  /\ Still /\ phase = "starting" /\ UNCHANGED <<monitoring, requested>>
         /\ accepting' \in {accepting, TRUE}
         /\ \/ \E part \in App!Parts :
                 App!Next1(part) /\ phase' = phase /\ (App!Started(part) \/ App!LeftOut)
            \/ phase' = "failed" /\ UNCHANGED <<parts, up, subscribers>>
<1> USE PartNames DEF Still, App!busVars, App!ghosts, App!Next1
<1>1. CASE App!StartResources
  BY <1>1 DEF App!StartResources
<1>2. CASE App!StartBus
  BY <1>2 DEF App!StartBus
<1>3. CASE App!StartStore
  BY <1>3 DEF App!StartStore
<1>4. CASE App!StartEngine
  BY <1>4 DEF App!StartEngine
<1>5. CASE App!StartNotifier
  BY <1>5 DEF App!StartNotifier
<1>6. CASE App!StartExporter
  BY <1>6 DEF App!StartExporter
<1>7. CASE App!MonitorsStarted
  BY <1>7 DEF App!MonitorsStarted
<1>8. CASE App!StartScheduler
  BY <1>8 DEF App!StartScheduler
<1>9. CASE App!StartApi
  BY <1>9 DEF App!StartApi
<1> QED BY <1>1, <1>2, <1>3, <1>4, <1>5, <1>6, <1>7, <1>8, <1>9 DEF Starts

\* A step of the shutdown: a part had its turn, the bus only when no callback was left.
LEMMA StopsEffect ==
  ASSUME App!TypeOK, Stops
  PROVE  /\ Still /\ phase = "stopping" /\ UNCHANGED <<subscribers, requested>>
         /\ accepting' \in BOOLEAN
         /\ monitoring' \in [listed : SUBSET Monitors, alive : SUBSET Monitors, crashes : Nat]
         /\ \/ /\ parts # <<>> /\ parts' = Tail(parts) /\ phase' = phase
               /\ up' \in {up, up \ {Head(parts)}}
               /\ Head(parts) = "bus" => handling = {} /\ up' = up \ {"bus"}
            \/ parts' = parts /\ up' = up /\ phase' \in {phase, "failed", "over"}
<1> USE DEF Still, App!busVars, App!ghosts, App!appVars, App!Stopping
<1>0. /\ monitoring \in [listed : SUBSET Monitors, alive : SUBSET Monitors, crashes : Nat]
      /\ accepting \in BOOLEAN
  BY DEF App!TypeOK
<1>1. CASE App!StopApi
  BY <1>0, <1>1 DEF App!StopApi
<1>2. CASE App!SchedulerRaises
  BY <1>0, <1>2 DEF App!SchedulerRaises
<1>3. CASE App!MonitorsStopped
  BY <1>0, <1>3 DEF App!MonitorsStopped
<1>4. CASE App!BusStops
  BY <1>0, <1>4 DEF App!BusStops
<1>5. CASE App!BusStopped
  BY <1>0, <1>5 DEF App!BusStopped
<1>6. CASE App!ShutdownOver
  BY <1>0, <1>6 DEF App!ShutdownOver
<1>7. ASSUME NEW part \in App!Parts, App!StopPart(part)
      PROVE  /\ parts # <<>> /\ parts' = Tail(parts) /\ phase' = phase /\ phase = "stopping"
             /\ up' = up \ {Head(parts)} /\ Head(parts) # "bus"
             /\ Still /\ UNCHANGED <<subscribers, requested, accepting, monitoring>>
  BY <1>7 DEF App!StopPart
<1>8. ASSUME NEW m \in Monitors, App!StopMonitor(m)
      PROVE  /\ parts' = parts /\ up' = up /\ phase' = phase /\ phase = "stopping"
             /\ Still /\ UNCHANGED <<subscribers, requested, accepting>>
             /\ monitoring' \in [listed : SUBSET Monitors, alive : SUBSET Monitors, crashes : Nat]
  <2>1. PICK ended \in BOOLEAN :
          monitoring' = [monitoring EXCEPT !.listed = @ \ {m},
                                           !.alive = IF ended THEN @ \ {m} ELSE @]
    BY <1>8 DEF App!StopMonitor
  <2>2. monitoring' \in [listed : SUBSET Monitors, alive : SUBSET Monitors, crashes : Nat]
    BY <1>0, <2>1
  <2> QED BY <1>8, <2>2 DEF App!StopMonitor
<1> QED BY <1>0, <1>1, <1>2, <1>3, <1>4, <1>5, <1>6, <1>7, <1>8 DEF Stops

\* A step of the supervision touches nothing but the monitors and the request.
LEMMA SupervisesEffect ==
  ASSUME App!TypeOK, Supervises
  PROVE  /\ Still /\ UNCHANGED <<phase, parts, up, subscribers, accepting>>
         /\ requested' \in BOOLEAN
         /\ monitoring' \in [listed : SUBSET Monitors, alive : SUBSET Monitors, crashes : Nat]
         /\ monitoring' = monitoring \/ App!Next1("monitors") \/ phase = "running"
            \/ monitoring.alive # {}
<1> USE DEF Still, App!busVars, App!ghosts
<1>0. /\ monitoring \in [listed : SUBSET Monitors, alive : SUBSET Monitors, crashes : Nat]
      /\ requested \in BOOLEAN
  BY DEF App!TypeOK
<1>1. CASE App!RequestStop
  BY <1>0, <1>1 DEF App!RequestStop
<1>2. ASSUME NEW m \in Monitors, App!StartMonitor(m)
      PROVE  /\ Still /\ UNCHANGED <<phase, parts, up, subscribers, accepting, requested>>
             /\ monitoring' \in [listed : SUBSET Monitors, alive : SUBSET Monitors, crashes : Nat]
             /\ App!Next1("monitors")
  BY <1>0, <1>2 DEF App!StartMonitor
<1>3. ASSUME NEW m \in Monitors, App!Restart(m)
      PROVE  /\ Still /\ UNCHANGED <<phase, parts, up, subscribers, accepting, requested>>
             /\ monitoring' \in [listed : SUBSET Monitors, alive : SUBSET Monitors, crashes : Nat]
             /\ phase = "running"
  BY <1>0, <1>3 DEF App!Restart
<1>4. ASSUME NEW m \in Monitors, App!Crash(m)
      PROVE  /\ Still /\ UNCHANGED <<phase, parts, up, subscribers, accepting, requested>>
             /\ monitoring' \in [listed : SUBSET Monitors, alive : SUBSET Monitors, crashes : Nat]
             /\ monitoring.alive # {}
  <2>1. monitoring.crashes + 1 \in Nat
    BY <1>0
  <2>2. monitoring' = [monitoring EXCEPT !.alive = @ \ {m}, !.crashes = @ + 1]
    BY <1>4 DEF App!Crash
  <2>3. monitoring' \in [listed : SUBSET Monitors, alive : SUBSET Monitors, crashes : Nat]
    BY <1>0, <2>1, <2>2
  <2> QED BY <1>4, <2>3 DEF App!Crash
<1> QED BY <1>0, <1>1, <1>2, <1>3, <1>4 DEF Supervises

\* What publish() does to the queue.
LEMMA PublishEffect ==
  ASSUME MaxItems \in Nat, App!TypeOK, NEW sort \in ItemKinds, App!Publish(sort)
  PROVE  /\ items' = items + 1 /\ items' \in 1..MaxItems
         /\ threats' = IF sort = "threat" THEN threats \cup {items'} ELSE threats
         /\ refused' \in BOOLEAN
         /\ queue' \in Seq(QueueEntries)
         /\ \/ queue' = queue
            \/ /\ Len(queue') = Len(queue) + 1
               /\ \A i \in 1..Len(queue) : queue'[i] = queue[i]
               /\ queue'[Len(queue) + 1] = [nr |-> items', kind |-> sort]
<1>0. items \in 0..MaxItems /\ queue \in Seq(QueueEntries) /\ refused \in BOOLEAN
  BY DEF App!TypeOK, QueueEntries, ItemKinds
<1>1. items' = items + 1 /\ items' \in 1..MaxItems
  BY <1>0 DEF App!Publish
<1>2. threats' = IF sort = "threat" THEN threats \cup {items'} ELSE threats
  BY DEF App!Publish
<1>3. refused' \in BOOLEAN
  <2>1. refused' = (refused \/ (sort = "threat" /\ ~accepting))
    BY Zenon DEF App!Publish
  <2> QED BY Zenon, <1>0, <2>1
<1>4. PICK e : e = [nr |-> items', kind |-> sort]
  OBVIOUS
<1>5. e \in QueueEntries
  BY <1>1, <1>4 DEF QueueEntries
<1>6. queue' = Append(queue, e) \/ queue' = queue
  BY <1>4 DEF App!Publish
<1>7. /\ Append(queue, e) \in Seq(QueueEntries) /\ Len(Append(queue, e)) = Len(queue) + 1
      /\ \A i \in 1..Len(queue) : Append(queue, e)[i] = queue[i]
      /\ Append(queue, e)[Len(queue) + 1] = e
  BY <1>0, <1>5, AppendProperties
<1>8. CASE queue' = queue
  BY <1>0, <1>1, <1>2, <1>3, <1>8
<1>9. CASE queue' = Append(queue, e)
  BY <1>1, <1>2, <1>3, <1>4, <1>7, <1>9
<1> QED BY <1>6, <1>8, <1>9

\* What the dispatcher takes is the first entry.
LEMMA DispatchEffect ==
  ASSUME App!TypeOK, App!Dispatch
  PROVE  /\ Len(queue) >= 1 /\ queue[1] \in QueueEntries /\ Head(queue) = queue[1]
         /\ queue' \in Seq(QueueEntries) /\ Len(queue') = Len(queue) - 1
         /\ \A i \in 1..Len(queue') : queue'[i] = queue[i + 1]
<1>1. queue \in Seq(QueueEntries)
  BY DEF App!TypeOK, QueueEntries, ItemKinds
<1>2. queue # <<>> /\ queue' = Tail(queue)
  BY DEF App!Dispatch
<1>3. /\ Head(queue) \in QueueEntries /\ Tail(queue) \in Seq(QueueEntries)
      /\ Len(Tail(queue)) = Len(queue) - 1
      /\ \A i \in 1..Len(Tail(queue)) : Tail(queue)[i] = queue[i + 1]
  BY <1>1, <1>2, HeadTailProperties
<1>4. Len(queue) >= 1 /\ Head(queue) = queue[1]
  BY <1>1, <1>2
<1> QED BY <1>2, <1>3, <1>4

\* The item it took, and whom it was handed to.
LEMMA DispatchTakes ==
  ASSUME App!TypeOK, App!Dispatch
  PROVE  \E n \in 1..MaxItems, to \in SUBSET App!Sinks :
           /\ n = queue[1].nr /\ to = App!Takers(queue[1].kind) \cap subscribers
           /\ handling' = handling \cup {<<n, s>> : s \in to}
           /\ offered' = [offered EXCEPT ![n] = to]
           /\ UNCHANGED <<items, threats, closedOn, refused>>
<1>1. PICK n \in 1..MaxItems : n = queue[1].nr /\ n = Head(queue).nr
  BY DispatchEffect DEF QueueEntries
<1>2. PICK to : to = App!Takers(Head(queue).kind) \cap subscribers
  OBVIOUS
<1>3. to \in SUBSET App!Sinks
  BY <1>2 DEF App!TypeOK
<1>4. to = App!Takers(queue[1].kind) \cap subscribers
  BY <1>2, DispatchEffect
<1>5. handling' = handling \cup {<<n, s>> : s \in to}
  BY Zenon, <1>1, <1>2 DEF App!Dispatch
<1>6. offered' = [offered EXCEPT ![n] = to]
  BY Zenon, <1>1, <1>2 DEF App!Dispatch
<1>7. UNCHANGED <<items, threats, closedOn, refused>>
  BY DEF App!Dispatch
<1> QED BY <1>1, <1>3, <1>4, <1>5, <1>6, <1>7

-----------------------------------------------------------------------------
(* The order of the parts *)

\* How a step moves in the orders.
LEMMA CourseStep ==
  ASSUME App!TypeOK, [App!Next]_App!vars
  PROVE  \/ parts' = parts /\ (phase' = phase \/ phase' \in {"running", "over", "failed"})
         \/ parts # <<>> /\ parts' = Tail(parts) /\ phase' = phase
         \/ parts' = App!StopOrder /\ phase' = "stopping" /\ phase = "running"
<1>1. CASE Starts
  BY <1>1, StartsEffect DEF App!Started, App!LeftOut, App!Next1
<1>2. CASE Stops
  BY <1>2, StopsEffect
<1>3. CASE Supervises
  BY <1>3, SupervisesEffect
<1>4. CASE Speaks
  BY <1>4 DEF Speaks, App!StartupOver, App!BeginShutdown, App!Observe, App!appVars
<1>5. CASE App!Dispatch \/ App!Callbacks \/ UNCHANGED App!vars
  BY <1>5 DEF App!Dispatch, App!Callbacks, App!Handle, App!vars, App!appVars
<1> QED BY <1>1, <1>2, <1>3, <1>4, <1>5, StepKinds

\* The tail of a sequence of parts.
LEMMA TodoTail ==
  ASSUME App!TypeOK, parts # <<>>
  PROVE  /\ Len(parts) \in Nat \ {0} /\ Head(parts) = parts[1]
         /\ Tail(parts) \in Seq(App!Parts) /\ Len(Tail(parts)) = Len(parts) - 1
         /\ \A i \in 1..Len(parts) - 1 : Tail(parts)[i] = parts[i + 1]
<1>1. parts \in Seq(App!Parts)
  BY DEF App!TypeOK
<1>2. /\ Tail(parts) \in Seq(App!Parts) /\ Len(Tail(parts)) = Len(parts) - 1
      /\ \A i \in 1..Len(Tail(parts)) : Tail(parts)[i] = parts[i + 1]
  BY <1>1, HeadTailProperties
<1>3. Len(parts) \in Nat \ {0} /\ Head(parts) = parts[1]
  BY <1>1
<1> QED BY <1>2, <1>3

\* Lengths of the orders.
LEMMA OrderLengths ==
  /\ Len(App!InitOrder) = 9 /\ Len(App!StopOrder) = 8
  /\ App!StopOrder \in Seq(App!Parts) /\ App!InitOrder \in Seq(App!Parts)
<1>1. Len(App!InitOrder) = 9
  BY DEF App!InitOrder
<1>2. Len(App!StopOrder) = 8
  BY DEF App!StopOrder
<1>3. App!InitOrder \in Seq(App!Parts)
  BY PartNames DEF App!InitOrder
<1>4. App!StopOrder \in Seq(App!Parts)
  BY PartNames DEF App!StopOrder
<1> QED BY <1>1, <1>2, <1>3, <1>4

LEMMA CourseNext == App!TypeOK /\ App!OnCourse /\ [App!Next]_App!vars => App!OnCourse'
<1> SUFFICES ASSUME App!TypeOK, App!OnCourse, [App!Next]_App!vars PROVE App!OnCourse'
  OBVIOUS
<1>1. ASSUME NEW order, Len(order) \in Nat, App!EndOf(order), parts # <<>>, parts' = Tail(parts)
      PROVE  App!EndOf(order)'
  <2>1. Len(parts) \in Nat \ {0} /\ Len(parts') = Len(parts) - 1
    BY <1>1, TodoTail
  <2>2. \A i \in 1..Len(parts') : parts'[i] = parts[i + 1] /\ i + 1 \in 1..Len(parts)
    BY <1>1, <2>1, TodoTail
  <2>3. Len(parts) <= Len(order)
    BY <1>1 DEF App!EndOf
  <2>4. \A i \in 1..Len(parts') : parts'[i] = order[Len(order) - Len(parts') + i]
    <3> TAKE i \in 1..Len(parts')
    <3>1. parts'[i] = order[Len(order) - Len(parts) + (i + 1)]
      BY <1>1, <2>2 DEF App!EndOf
    <3>2. Len(order) - Len(parts) + (i + 1) = Len(order) - Len(parts') + i
      BY <1>1, <2>1
    <3> QED BY <3>1, <3>2
  <2> QED BY <1>1, <2>1, <2>3, <2>4 DEF App!EndOf
<1>2. CASE parts' = parts /\ (phase' = phase \/ phase' \in {"running", "over", "failed"})
  BY <1>2 DEF App!OnCourse, App!EndOf
<1>3. CASE parts # <<>> /\ parts' = Tail(parts) /\ phase' = phase
  BY <1>1, <1>3, OrderLengths DEF App!OnCourse
<1>4. CASE parts' = App!StopOrder /\ phase' = "stopping"
  <2>1. App!EndOf(App!StopOrder)'
    BY <1>4, OrderLengths DEF App!EndOf
  <2> QED BY <1>4, <2>1 DEF App!OnCourse
<1> QED BY <1>2, <1>3, <1>4, CourseStep

\* Which part is to start says how many are left.
LEMMA TurnOfStart ==
  ASSUME App!TypeOK, App!OnCourse, NEW part, App!Next1(part)
  PROVE  /\ Len(parts) \in 1..9
         /\ part = "monitors" => Len(parts) = 3
         /\ part \in App!Sinks => Len(parts) > 3
<1>1. /\ parts # <<>> /\ Head(parts) = part /\ phase = "starting"
  BY DEF App!Next1
<1>2. PICK n : n = Len(parts)
  OBVIOUS
<1>3. n \in 1..9 /\ part = parts[1]
  <2>1. n \in Nat \ {0} /\ part = parts[1]
    BY <1>1, <1>2, TodoTail
  <2>2. n <= 9
    BY <1>1, <1>2, OrderLengths DEF App!OnCourse, App!EndOf
  <2> QED BY <2>1, <2>2
<1>4. PICK k \in 1..9 : k = 9 - n + 1
  BY <1>3
<1>5. part = App!InitOrder[k]
  <2>1. parts[1] = App!InitOrder[9 - n + 1]
    BY <1>1, <1>2, <1>3, OrderLengths DEF App!OnCourse, App!EndOf
  <2> QED BY <1>3, <1>4, <2>1
<1>6. /\ part = "monitors" => k = 7
      /\ part \in App!Sinks => k < 7
  BY <1>4, <1>5 DEF App!InitOrder, App!Sinks
<1> QED BY <1>2, <1>3, <1>4, <1>6

\* So does the part that is to stop.
LEMMA TurnOfStop ==
  ASSUME App!TypeOK, App!OnCourse, phase = "stopping", parts # <<>>
  PROVE  /\ Len(parts) \in 1..8
         /\ Head(parts) = "bus" <=> Len(parts) = 3
         /\ Head(parts) = "store" <=> Len(parts) = 2
<1>1. PICK n : n = Len(parts)
  OBVIOUS
<1>2. n \in 1..8 /\ Head(parts) = parts[1]
  <2>1. n \in Nat \ {0} /\ Head(parts) = parts[1]
    BY <1>1, TodoTail
  <2>2. n <= 8
    BY <1>1, OrderLengths DEF App!OnCourse, App!EndOf
  <2> QED BY <2>1, <2>2
<1>3. PICK k \in 1..8 : k = 8 - n + 1
  BY <1>2
<1>4. Head(parts) = App!StopOrder[k]
  <2>1. parts[1] = App!StopOrder[8 - n + 1]
    BY <1>1, <1>2, OrderLengths DEF App!OnCourse, App!EndOf
  <2> QED BY <1>2, <1>3, <2>1
<1>5. (Head(parts) = "bus" <=> k = 6) /\ (Head(parts) = "store" <=> k = 7)
  BY <1>3, <1>4 DEF App!StopOrder
<1>6. (k = 6 <=> n = 3) /\ (k = 7 <=> n = 2)
  BY <1>2, <1>3
<1> QED BY <1>1, <1>2, <1>5, <1>6

-----------------------------------------------------------------------------
(* Types *)

\* The application and its monitors say something, or not; nothing else happens
\* to the bus, and what they say is no threat.
LEMMA SpeaksEffect ==
  ASSUME Speaks
  PROVE  /\ UNCHANGED <<up, subscribers, monitoring, requested, accepting>>
         /\ UNCHANGED <<handling, offered, closedOn>>
         /\ App!NoPublish \/ \E sort \in {"event", "internal"} : App!Publish(sort)
         /\ \/ phase' = "running"
            \/ phase = "running" /\ phase' = "stopping" /\ parts' = App!StopOrder
            \/ phase' = phase /\ parts' = parts /\ monitoring.alive # {}
<1>1. CASE App!StartupOver
  BY <1>1 DEF App!StartupOver
<1>2. CASE App!BeginShutdown
  BY <1>2 DEF App!BeginShutdown
<1>3. CASE \E m \in Monitors : App!Observe(m)
  BY <1>3 DEF App!Observe, App!appVars
<1> QED BY <1>1, <1>2, <1>3 DEF Speaks

LEMMA AppTypeInit == MaxItems \in Nat /\ App!Init => App!TypeOK
<1> SUFFICES ASSUME MaxItems \in Nat, App!Init PROVE App!TypeOK
  OBVIOUS
<1>1. parts \in Seq(App!Parts) /\ up \subseteq App!Parts /\ subscribers \subseteq App!Sinks
  BY OrderLengths DEF App!Init
<1>2. /\ phase \in {"starting", "running", "stopping", "over", "failed"}
      /\ monitoring \in [listed : SUBSET Monitors, alive : SUBSET Monitors, crashes : Nat]
      /\ requested \in BOOLEAN /\ accepting \in BOOLEAN /\ refused \in BOOLEAN
  BY DEF App!Init
<1>3. /\ items \in 0..MaxItems
      /\ handling \subseteq (1..MaxItems) \X App!Sinks
      /\ offered \in [1..MaxItems -> SUBSET App!Sinks]
      /\ threats \subseteq 1..items /\ closedOn \subseteq 1..MaxItems
  BY DEF App!Init
<1>4. queue = <<>>
  BY DEF App!Init
<1>5. queue \in Seq(QueueEntries) /\ \A i \in 1..Len(queue) : queue[i].nr <= items
  BY <1>4
<1> QED BY <1>1, <1>2, <1>3, <1>5 DEF App!TypeOK, QueueEntries, ItemKinds

\* The parts, the monitors and the request keep their types.
LEMMA AppTypes ==
  ASSUME App!TypeOK, [App!Next]_App!vars
  PROVE  /\ phase' \in {"starting", "running", "stopping", "over", "failed"}
         /\ parts' \in Seq(App!Parts)
         /\ up' \subseteq App!Parts /\ subscribers' \subseteq App!Sinks
         /\ monitoring' \in [listed : SUBSET Monitors, alive : SUBSET Monitors, crashes : Nat]
         /\ requested' \in BOOLEAN /\ accepting' \in BOOLEAN
<1>0. /\ phase \in {"starting", "running", "stopping", "over", "failed"}
      /\ parts \in Seq(App!Parts) /\ up \subseteq App!Parts /\ subscribers \subseteq App!Sinks
      /\ monitoring \in [listed : SUBSET Monitors, alive : SUBSET Monitors, crashes : Nat]
      /\ requested \in BOOLEAN /\ accepting \in BOOLEAN
  BY DEF App!TypeOK
<1>1. /\ phase' \in {"starting", "running", "stopping", "over", "failed"}
      /\ parts' \in Seq(App!Parts)
  BY <1>0, CourseStep, TodoTail, OrderLengths
<1>2. CASE Starts
  BY <1>0, <1>1, <1>2, StartsEffect DEF App!Started, App!LeftOut
<1>3. CASE Stops
  BY <1>0, <1>1, <1>3, StopsEffect
<1>4. CASE Supervises
  BY <1>0, <1>1, <1>4, SupervisesEffect
<1>5. CASE Speaks
  BY <1>0, <1>1, <1>5, SpeaksEffect
<1>6. CASE App!Dispatch \/ App!Callbacks \/ UNCHANGED App!vars
  BY <1>0, <1>1, <1>6
     DEF App!Dispatch, App!Callbacks, App!Handle, App!vars, App!appVars, App!busVars
<1> QED BY <1>2, <1>3, <1>4, <1>5, <1>6, StepKinds

\* So do the bus and what went over it.
Flow ==
  /\ refused \in BOOLEAN /\ items \in 0..MaxItems /\ queue \in Seq(QueueEntries)
  /\ \A i \in 1..Len(queue) : queue[i].nr <= items
  /\ handling \subseteq (1..MaxItems) \X App!Sinks
  /\ offered \in [1..MaxItems -> SUBSET App!Sinks]
  /\ threats \subseteq 1..items /\ closedOn \subseteq 1..MaxItems

\* publish() keeps what is queued within what was numbered.
LEMMA PublishTypes ==
  ASSUME MaxItems \in Nat, App!TypeOK, NEW sort \in ItemKinds, App!Publish(sort)
  PROVE  /\ refused' \in BOOLEAN /\ items' \in 0..MaxItems /\ queue' \in Seq(QueueEntries)
         /\ \A i \in 1..Len(queue') : queue'[i].nr <= items'
         /\ threats' \subseteq 1..items'
<1>0. /\ items \in 0..MaxItems /\ queue \in Seq(QueueEntries) /\ threats \subseteq 1..items
      /\ \A i \in 1..Len(queue) : queue[i].nr <= items /\ queue[i].nr \in Nat
  <2>1. /\ items \in 0..MaxItems /\ queue \in Seq(QueueEntries) /\ threats \subseteq 1..items
        /\ \A i \in 1..Len(queue) : queue[i].nr <= items
    BY DEF App!TypeOK, QueueEntries, ItemKinds
  <2>2. \A i \in 1..Len(queue) : queue[i] \in QueueEntries
    BY <2>1
  <2>3. \A i \in 1..Len(queue) : queue[i].nr \in Nat
    BY <2>2 DEF QueueEntries
  <2> QED BY <2>1, <2>3
<1>1. /\ items' = items + 1 /\ items' \in 1..MaxItems
      /\ refused' \in BOOLEAN /\ queue' \in Seq(QueueEntries)
  BY PublishEffect
<1>2. threats' \subseteq 1..items'
  <2>1. 1..items \subseteq 1..items' /\ items' \in 1..items'
    BY <1>0, <1>1
  <2>2. threats' \subseteq threats \cup {items'}
    BY PublishEffect
  <2> QED BY <1>0, <2>1, <2>2
<1>3. CASE queue' = queue
  BY <1>0, <1>1, <1>2, <1>3
<1>4. CASE /\ Len(queue') = Len(queue) + 1
           /\ \A i \in 1..Len(queue) : queue'[i] = queue[i]
           /\ queue'[Len(queue) + 1] = [nr |-> items', kind |-> sort]
  <2>1. PICK l \in Nat : l = Len(queue)
    BY <1>0, LenProperties
  <2>2. queue'[l + 1].nr = items'
    BY <1>4, <2>1
  <2>3. ASSUME NEW i \in 1..Len(queue') PROVE queue'[i].nr <= items'
    <3>1. i \in 1..l \/ i = l + 1
      BY <1>4, <2>1, <2>3
    <3>2. CASE i \in 1..l
      BY <1>0, <1>1, <1>4, <2>1, <3>2
    <3>3. CASE i = l + 1
      BY <1>1, <2>2, <3>3
    <3> QED BY <3>1, <3>2, <3>3
  <2> QED BY <1>1, <1>2, <2>3
<1> QED BY <1>3, <1>4, PublishEffect

LEMMA FlowNext == MaxItems \in Nat /\ App!TypeOK /\ [App!Next]_App!vars => Flow'
<1> SUFFICES ASSUME MaxItems \in Nat, App!TypeOK, [App!Next]_App!vars PROVE Flow'
  OBVIOUS
<1>0. Flow
  BY DEF App!TypeOK, Flow, QueueEntries, ItemKinds
<1>1. CASE Starts \/ Stops \/ Supervises \/ UNCHANGED App!vars
  <2>1. Still
    BY <1>1, StartsEffect, StopsEffect, SupervisesEffect
       DEF Still, App!vars, App!busVars, App!ghosts
  <2> QED BY <1>0, <2>1 DEF Flow, Still
<1>2. CASE App!NoPublish /\ handling' \subseteq handling /\ offered' = offered
           /\ closedOn' \subseteq 1..MaxItems
  BY <1>0, <1>2 DEF Flow, App!NoPublish
<1>3. ASSUME NEW sort \in ItemKinds, App!Publish(sort),
             handling' \subseteq handling, offered' = offered,
             closedOn' \subseteq 1..MaxItems
      PROVE  Flow'
  BY <1>0, <1>3, PublishTypes DEF Flow
<1>4. CASE Speaks
  BY <1>0, <1>2, <1>3, <1>4, SpeaksEffect DEF Flow, ItemKinds
<1>5. CASE App!Callbacks
  <2>1. PICK n \in 1..MaxItems, s \in App!Sinks : App!Handle(n, s)
    BY <1>5 DEF App!Callbacks
  <2>2. /\ handling' \subseteq handling /\ offered' = offered /\ closedOn' \subseteq 1..MaxItems
        /\ App!NoPublish \/ App!Publish("threat")
    BY <1>0, <2>1 DEF App!Handle, Flow
  <2> QED BY <1>2, <1>3, <2>2 DEF ItemKinds
<1>6. CASE App!Dispatch
  <2>1. /\ Len(queue) >= 1 /\ queue[1] \in QueueEntries /\ Head(queue) = queue[1]
        /\ queue' \in Seq(QueueEntries) /\ Len(queue') = Len(queue) - 1
        /\ \A i \in 1..Len(queue') : queue'[i] = queue[i + 1]
    BY <1>6, DispatchEffect
  <2>2. PICK l \in Nat : l = Len(queue)
    BY <1>0, LenProperties DEF Flow
  <2>3. \A i \in 1..Len(queue') : queue'[i].nr <= items
    BY <1>0, <2>1, <2>2 DEF Flow
  <2>4. PICK n \in 1..MaxItems, to \in SUBSET App!Sinks :
          /\ handling' = handling \cup {<<n, s>> : s \in to}
          /\ offered' = [offered EXCEPT ![n] = to]
          /\ UNCHANGED <<items, threats, closedOn, refused>>
    BY <1>6, DispatchTakes
  <2>6. /\ handling' \subseteq (1..MaxItems) \X App!Sinks
        /\ offered' \in [1..MaxItems -> SUBSET App!Sinks]
    BY <1>0, <2>4 DEF Flow
  <2> QED BY <1>0, <2>1, <2>3, <2>4, <2>6 DEF Flow
<1> QED BY <1>1, <1>4, <1>5, <1>6, StepKinds

LEMMA AppTypeNext == MaxItems \in Nat /\ App!TypeOK /\ [App!Next]_App!vars => App!TypeOK'
BY AppTypes, FlowNext DEF App!TypeOK, Flow, QueueEntries, ItemKinds

-----------------------------------------------------------------------------
(* The invariant *)

LEMMA AppInvInit == MaxItems \in Nat /\ App!Init => App!IInv
<1> SUFFICES ASSUME MaxItems \in Nat, App!Init PROVE App!IInv
  OBVIOUS
<1>1. App!TypeOK
  BY AppTypeInit
<1>2. App!OnCourse
  <2>1. phase = "starting" /\ parts = App!InitOrder
    BY DEF App!Init
  <2>2. App!EndOf(App!InitOrder)
    BY <2>1, OrderLengths DEF App!EndOf
  <2> QED BY <2>1, <2>2 DEF App!OnCourse
<1>3. App!QuietBefore
  BY DEF App!Init, App!QuietBefore
<1>4. App!ThreatsKnown
  BY DEF App!Init, App!ThreatsKnown
<1>5. App!StoreServes
  BY DEF App!Init, App!StoreServes
<1> QED BY <1>1, <1>2, <1>3, <1>4, <1>5 DEF App!IInv

\* Nothing is published before the monitors' turn.
LEMMA QuietNext ==
  App!TypeOK /\ App!OnCourse /\ App!QuietBefore /\ [App!Next]_App!vars => App!QuietBefore'
<1> SUFFICES ASSUME App!TypeOK, App!OnCourse, App!QuietBefore, [App!Next]_App!vars,
                    phase' = "starting", Len(parts') > 3
             PROVE  /\ monitoring'.listed = {} /\ monitoring'.alive = {}
                    /\ items' = 0 /\ queue' = <<>> /\ handling' = {} /\ threats' = {}
  BY DEF App!QuietBefore
<1>1. phase = "starting" /\ Len(parts) > 3
  <2>1. parts' # App!StopOrder \/ phase' # "stopping"
    OBVIOUS
  <2>2. CASE parts' = parts /\ phase' = phase
    BY <2>2
  <2>3. CASE parts # <<>> /\ parts' = Tail(parts) /\ phase' = phase
    BY <2>3, TodoTail
  <2> QED BY <2>2, <2>3, CourseStep
<1>2. /\ monitoring.listed = {} /\ monitoring.alive = {}
      /\ items = 0 /\ queue = <<>> /\ handling = {} /\ threats = {}
  BY <1>1 DEF App!QuietBefore
<1>3. CASE Starts
  BY <1>2, <1>3, StartsEffect DEF Still
<1>4. CASE Stops
  BY <1>1, <1>4, StopsEffect
<1>5. CASE Supervises
  <2>1. ASSUME App!Next1("monitors") PROVE FALSE
    <3>1. PICK part : part = "monitors"
      OBVIOUS
    <3>2. App!Next1(part)
      BY <2>1, <3>1
    <3>3. Len(parts) = 3
      BY <3>1, <3>2, TurnOfStart
    <3> QED BY <1>1, <3>3
  <2> QED BY <1>1, <1>2, <1>5, <2>1, SupervisesEffect DEF Still
<1>6. CASE Speaks
  BY <1>1, <1>2, <1>6, SpeaksEffect
<1>7. CASE App!Dispatch \/ App!Callbacks
  BY <1>2, <1>7 DEF App!Dispatch, App!Callbacks, App!Handle
<1>8. CASE UNCHANGED App!vars
  BY <1>2, <1>8 DEF App!vars, App!appVars, App!busVars, App!ghosts
<1> QED BY <1>3, <1>4, <1>5, <1>6, <1>7, <1>8, StepKinds

\* When a part subscribes that is to hear of threats, there has been none.
LEMMA SubscribersStep ==
  ASSUME App!TypeOK, App!OnCourse, App!QuietBefore, [App!Next]_App!vars
  PROVE  subscribers' = subscribers \/ (Still /\ threats = {})
<1>1. CASE Starts
  <2>1. CASE \E part \in App!Parts : App!Next1(part) /\ App!Started(part) /\ part \in App!Sinks
    <3>1. phase = "starting" /\ Len(parts) > 3
      BY <2>1, TurnOfStart DEF App!Next1
    <3> QED BY <1>1, <3>1, StartsEffect DEF App!QuietBefore
  <2>2. CASE ~\E part \in App!Parts : App!Next1(part) /\ App!Started(part) /\ part \in App!Sinks
    BY <1>1, <2>2, StartsEffect DEF App!Started, App!LeftOut
  <2> QED BY <2>1, <2>2
<1>2. CASE Stops
  BY <1>2, StopsEffect
<1>3. CASE Supervises
  BY <1>3, SupervisesEffect
<1>4. CASE Speaks
  BY <1>4, SpeaksEffect
<1>5. CASE App!Dispatch \/ App!Callbacks \/ UNCHANGED App!vars
  BY <1>5 DEF App!Dispatch, App!Callbacks, App!Handle, App!vars, App!appVars
<1> QED BY <1>1, <1>2, <1>3, <1>4, <1>5, StepKinds

\* What publish() takes keeps the threats known.
LEMMA PublishKnown ==
  ASSUME MaxItems \in Nat, App!TypeOK, App!ThreatsKnown, NEW sort \in ItemKinds,
         App!Publish(sort),
         offered' = offered, subscribers' = subscribers
  PROVE  App!ThreatsKnown'
<1>0. /\ items \in 0..MaxItems /\ queue \in Seq(QueueEntries) /\ threats \subseteq 1..items
      /\ \A i \in 1..Len(queue) : queue[i].nr <= items
  BY DEF App!TypeOK, QueueEntries, ItemKinds
<1>1. /\ items' = items + 1 /\ items' \in 1..MaxItems
      /\ threats' = IF sort = "threat" THEN threats \cup {items'} ELSE threats
  BY PublishEffect
<1>2. threats' \subseteq threats \cup {items'} /\ (items' \in threats' => sort = "threat")
  BY <1>0, <1>1
<1>3. ASSUME NEW i \in 1..Len(queue), queue[i].nr \in threats'
      PROVE  queue[i].kind = "threat"
  <2>1. queue[i].nr # items'
    BY <1>0, <1>1
  <2>2. queue[i].nr \in threats
    BY <1>2, <1>3, <2>1
  <2> QED BY <2>2 DEF App!ThreatsKnown
<1>4. \A i \in 1..Len(queue') : queue'[i].nr \in threats' => queue'[i].kind = "threat"
  <2>1. CASE queue' = queue
    BY <1>3, <2>1
  <2>2. CASE /\ Len(queue') = Len(queue) + 1
             /\ \A i \in 1..Len(queue) : queue'[i] = queue[i]
             /\ queue'[Len(queue) + 1] = [nr |-> items', kind |-> sort]
    <3>1. PICK l \in Nat : l = Len(queue)
      BY <1>0, LenProperties
    <3>2. queue'[l + 1].nr = items' /\ queue'[l + 1].kind = sort
      BY <2>2, <3>1
    <3>3. ASSUME NEW i \in 1..Len(queue'), queue'[i].nr \in threats'
          PROVE  queue'[i].kind = "threat"
      <4>1. i \in 1..l \/ i = l + 1
        BY <2>2, <3>1, <3>3
      <4>2. CASE i \in 1..l
        BY <1>3, <2>2, <3>1, <3>3, <4>2
      <4>3. CASE i = l + 1
        BY <1>2, <3>2, <3>3, <4>3
      <4> QED BY <4>1, <4>2, <4>3
    <3> QED BY <3>3
  <2> QED BY <2>1, <2>2, PublishEffect
<1>5. \A n \in 1..MaxItems : n > items' => offered'[n] = {}
  BY <1>0, <1>1 DEF App!ThreatsKnown
<1>6. \A n \in threats' : offered'[n] # {} => offered'[n] = App!Takers("threat") \cap subscribers'
  <2>1. offered[items'] = {}
    BY <1>0, <1>1 DEF App!ThreatsKnown
  <2> QED BY <1>2, <2>1 DEF App!ThreatsKnown
<1> QED BY <1>4, <1>5, <1>6 DEF App!ThreatsKnown

LEMMA ThreatsNext ==
  /\ MaxItems \in Nat /\ App!TypeOK /\ App!OnCourse
  /\ App!QuietBefore /\ App!ThreatsKnown /\ [App!Next]_App!vars
  => App!ThreatsKnown'
<1> SUFFICES ASSUME MaxItems \in Nat, App!TypeOK, App!OnCourse,
                    App!QuietBefore, App!ThreatsKnown, [App!Next]_App!vars
             PROVE  App!ThreatsKnown'
  OBVIOUS
<1>1. CASE Still /\ threats = {}
  BY <1>1 DEF Still, App!ThreatsKnown
<1>2. CASE UNCHANGED <<queue, items, offered, threats>> /\ subscribers' = subscribers
  BY <1>2 DEF App!ThreatsKnown
<1>3. CASE (Starts \/ Stops \/ Supervises \/ UNCHANGED App!vars) /\ subscribers' = subscribers
  <2>1. Still
    BY <1>3, StartsEffect, StopsEffect, SupervisesEffect
       DEF Still, App!vars, App!busVars, App!ghosts
  <2> QED BY <1>2, <1>3, <2>1 DEF Still
<1>4. CASE Speaks
  BY <1>2, <1>4, SpeaksEffect, PublishKnown DEF App!NoPublish, ItemKinds
<1>5. CASE App!Callbacks
  <2>1. PICK n \in 1..MaxItems, s \in App!Sinks : App!Handle(n, s)
    BY <1>5 DEF App!Callbacks
  <2>2. /\ offered' = offered /\ subscribers' = subscribers
        /\ App!NoPublish \/ App!Publish("threat")
    BY <2>1 DEF App!Handle, App!appVars
  <2> QED BY <1>2, <2>2, PublishKnown DEF App!NoPublish, ItemKinds
<1>6. CASE App!Dispatch
  <2>0. /\ queue \in Seq(QueueEntries) /\ offered \in [1..MaxItems -> SUBSET App!Sinks]
        /\ \A i \in 1..Len(queue) : queue[i].nr <= items
    BY DEF App!TypeOK, QueueEntries, ItemKinds
  <2>1. /\ Len(queue) >= 1
        /\ Len(queue') = Len(queue) - 1
        /\ \A i \in 1..Len(queue') : queue'[i] = queue[i + 1]
    BY <1>6, DispatchEffect
  <2>2. PICK n \in 1..MaxItems, to \in SUBSET App!Sinks :
          /\ n = queue[1].nr /\ to = App!Takers(queue[1].kind) \cap subscribers
          /\ offered' = [offered EXCEPT ![n] = to]
          /\ UNCHANGED <<items, threats, closedOn, refused>>
    BY <1>6, DispatchTakes
  <2>3. subscribers' = subscribers
    BY <1>6 DEF App!Dispatch, App!appVars
  <2>4. PICK l \in Nat : l = Len(queue)
    BY <2>0, LenProperties
  <2>5. \A i \in 1..Len(queue') : queue'[i].nr \in threats' => queue'[i].kind = "threat"
    BY <2>1, <2>2, <2>4 DEF App!ThreatsKnown
  <2>6. n <= items
    BY <2>0, <2>1, <2>2, <2>4
  <2>7. \A k \in 1..MaxItems : k > items' => offered'[k] = {}
    <3>1. items \in Nat
      BY DEF App!TypeOK
    <3> QED BY <2>0, <2>2, <2>6, <3>1 DEF App!ThreatsKnown
  <2>8. ASSUME NEW k \in threats', offered'[k] # {}
        PROVE  offered'[k] = App!Takers("threat") \cap subscribers'
    <3>1. k \in threats /\ k \in 1..MaxItems
      BY <2>2, <2>8 DEF App!TypeOK
    <3>2. CASE k = n
      <4>1. queue[1].kind = "threat"
        BY <2>1, <2>2, <2>4, <3>1, <3>2 DEF App!ThreatsKnown
      <4>2. offered'[k] = to
        BY <2>0, <2>2, <3>2
      <4> QED BY <2>2, <2>3, <4>1, <4>2
    <3>3. CASE k # n
      <4>1. offered'[k] = offered[k]
        BY <2>0, <2>2, <3>1, <3>3
      <4> QED BY <2>3, <2>8, <3>1, <4>1 DEF App!ThreatsKnown
    <3> QED BY <3>2, <3>3
  <2> QED BY <2>5, <2>7, <2>8 DEF App!ThreatsKnown
<1> QED BY <1>1, <1>3, <1>4, <1>5, <1>6, StepKinds, SubscribersStep

\* The bus is done before it is the store's turn.
LEMMA ServesNext ==
  App!TypeOK /\ App!OnCourse /\ App!StoreServes /\ [App!Next]_App!vars => App!StoreServes'
<1> SUFFICES ASSUME App!TypeOK, App!OnCourse, App!StoreServes, [App!Next]_App!vars
             PROVE  App!StoreServes'
  OBVIOUS
<1>0. /\ phase = "stopping" /\ Len(parts) <= 2 => "bus" \notin up /\ handling = {}
      /\ "store" \in subscribers /\ ("bus" \in up \/ phase = "starting") => "store" \in up
      /\ \A n \in 1..MaxItems : <<n, "store">> \in handling => "store" \in up
      /\ closedOn = {}
  BY DEF App!StoreServes
<1>1. CASE UNCHANGED <<phase, parts, up, subscribers, handling, closedOn>>
  BY <1>0, <1>1 DEF App!StoreServes
<1>2. CASE Starts
  <2>1. Still /\ phase = "starting"
    BY <1>2, StartsEffect
  <2>2. /\ phase' # "stopping" /\ up \subseteq up'
        /\ "store" \in subscribers' => "store" \in subscribers \/ "store" \in up'
    BY <1>2, StartsEffect DEF App!Started, App!LeftOut
  <2> QED BY <1>0, <2>1, <2>2 DEF App!StoreServes, Still
<1>3. CASE Stops
  <2>1. Still /\ phase = "stopping" /\ subscribers' = subscribers /\ phase' # "starting"
    BY <1>3, StopsEffect
  <2>2. CASE parts' = parts /\ up' = up
    BY <1>0, <2>1, <2>2 DEF App!StoreServes, Still
  <2>3. CASE /\ parts # <<>> /\ parts' = Tail(parts)
             /\ up' \in {up, up \ {Head(parts)}}
             /\ Head(parts) = "bus" => handling = {} /\ up' = up \ {"bus"}
    <3>1. PICK l \in 1..8 :
            /\ l = Len(parts) /\ Len(parts') = l - 1
            /\ Head(parts) = "bus" <=> l = 3
            /\ Head(parts) = "store" <=> l = 2
      BY <2>1, <2>3, TurnOfStop, TodoTail
    <3>2. Len(parts') <= 2 => "bus" \notin up' /\ handling = {}
      <4>1. CASE l = 3
        BY <2>3, <3>1, <4>1
      <4>2. CASE l <= 2
        BY <1>0, <2>1, <2>3, <3>1, <4>2
      <4> QED BY <3>1, <4>1, <4>2
    <3>3. CASE l = 2
      BY <1>0, <2>1, <3>1, <3>2, <3>3 DEF App!StoreServes, Still
    <3>4. CASE l # 2
      <4>1. "store" \in up => "store" \in up'
        BY <2>3, <3>1, <3>4
      <4>2. "bus" \in up' => "bus" \in up
        BY <2>3
      <4> QED BY <1>0, <2>1, <3>2, <4>1, <4>2 DEF App!StoreServes, Still
    <3> QED BY <3>3, <3>4
  <2> QED BY <1>3, <2>2, <2>3, StopsEffect
<1>4. CASE Supervises \/ UNCHANGED App!vars
  BY <1>1, <1>4, SupervisesEffect DEF Still, App!vars, App!appVars, App!busVars, App!ghosts
<1>5. CASE Speaks
  <2>1. UNCHANGED <<up, subscribers, handling, closedOn>>
    BY <1>5, SpeaksEffect
  <2>2. \/ phase' = "running"
        \/ phase' = "stopping" /\ Len(parts') = 8
        \/ phase' = phase /\ parts' = parts
    BY <1>5, SpeaksEffect, OrderLengths
  <2>3. CASE phase' = "running"
    BY <1>0, <2>1, <2>3 DEF App!StoreServes
  <2>4. CASE phase' = "stopping" /\ Len(parts') = 8
    BY <1>0, <2>1, <2>4 DEF App!StoreServes
  <2>5. CASE phase' = phase /\ parts' = parts
    BY <1>1, <2>1, <2>5
  <2> QED BY <2>2, <2>3, <2>4, <2>5
<1>6. CASE App!Dispatch
  <2>1. /\ UNCHANGED <<phase, parts, up, subscribers>>
        /\ closedOn' = closedOn /\ "bus" \in up
    BY <1>6 DEF App!Dispatch, App!appVars
  <2>2. PICK n \in 1..MaxItems, to \in SUBSET App!Sinks :
          /\ to = App!Takers(queue[1].kind) \cap subscribers
          /\ handling' = handling \cup {<<n, s>> : s \in to}
    BY <1>6, DispatchTakes
  <2>3. \A k \in 1..MaxItems : <<k, "store">> \in handling' => "store" \in up
    BY <1>0, <2>1, <2>2
  <2> QED BY <1>0, <2>1, <2>3 DEF App!StoreServes
<1>7. CASE App!Callbacks
  <2>1. PICK n \in 1..MaxItems, s \in App!Sinks : App!Handle(n, s)
    BY <1>7 DEF App!Callbacks
  <2>2. /\ UNCHANGED <<phase, parts, up, subscribers>>
        /\ <<n, s>> \in handling /\ handling' \subseteq handling
        /\ closedOn' = IF s = "store" /\ "store" \notin up THEN closedOn \cup {n} ELSE closedOn
    BY <2>1 DEF App!Handle, App!appVars
  <2>3. closedOn' = {}
    BY <1>0, <2>2
  <2> QED BY <1>0, <2>2, <2>3 DEF App!StoreServes
<1> QED BY <1>2, <1>3, <1>4, <1>5, <1>6, <1>7, StepKinds

LEMMA AppInvNext == MaxItems \in Nat /\ App!IInv /\ [App!Next]_App!vars => App!IInv'
BY AppTypeNext, CourseNext, QuietNext, ThreatsNext, ServesNext DEF App!IInv

-----------------------------------------------------------------------------
(* The application beside the monitors *)

\* In each step of the system the application takes a step, or rests.
LEMMA ApplicationStep == [SystemNext]_systemVars => [App!Next]_App!vars
BY DEF SystemNext, OfApplication, OfMonitor, systemVars, applicationVars, App!vars, App!appVars,
       App!busVars, App!ghosts

\* The invariant of the application holds beside the monitors, whatever their number, the
\* size of the bus and the bounds.
THEOREM ApplicationInductive == SystemSpec => []App!IInv
<1>1. SystemInit => App!IInv
  BY AppInvInit, SystemAssumption DEF SystemInit
<1>2. App!IInv /\ [SystemNext]_systemVars => App!IInv'
  BY ApplicationStep, AppInvNext, SystemAssumption
<1> QED BY <1>1, <1>2, PTL DEF SystemSpec

\* Items are numbered as they are published, and only the parts of app.py are ever up.
THEOREM ApplicationTypes == SystemSpec => []App!TypeOK
<1>1. App!IInv => App!TypeOK
  BY DEF App!IInv
<1> QED BY <1>1, ApplicationInductive, PTL

\* _initialize() subscribes all that are to hear of threats before the first monitor can
\* publish an event: whatever starts, crashes and is restarted, no threat is dispatched to
\* some of them only.
THEOREM ThreatsReachEverybody == SystemSpec => []ThreatsReachAll
<1>1. App!IInv => ThreatsReachAll
  BY DEF App!IInv, App!ThreatsKnown, ThreatsReachAll, App!ThreatsReachAll
<1> QED BY <1>1, ApplicationInductive, PTL

\* _shutdown() stops the bus, which waits for the callbacks, before it closes the
\* database: nothing is handed to a closed store, however long the drain of the bus takes
\* and whichever thread does not end.
THEOREM StoreIsClosedLast == SystemSpec => []StoreOutlivesEvents
<1>1. App!IInv => StoreOutlivesEvents
  BY DEF App!IInv, App!StoreServes, StoreOutlivesEvents, App!StoreOutlivesEvents
<1> QED BY <1>1, ApplicationInductive, PTL
=============================================================================
