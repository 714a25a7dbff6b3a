--------------------------- MODULE ComponentsProofs ---------------------------
(***************************************************************************)
(* Proofs about the components that MCComponents puts side by side, for any *)
(* values of their constants.  In the order of the module:                  *)
(*                                                                         *)
(* EventStore: what was written lasts unless another writer's rollback      *)
(*   swept it away, and an interrupted migration is completed (IInv);       *)
(* Notifier: a minute has no more messages than its limit and a few, and    *)
(*   only overlapping workers repeat one (Alerts!IInv);                     *)
(* AutoResponder: what is suspended can be resumed (Responses!IInv);        *)
(* FileMonitor: no rename is forgotten by the burst (Files!IInv);           *)
(* AuthMonitor: no entry of the log is passed over (Auth!IInv);             *)
(* ResourceManager: throttling does not outlive the spike (Resources!IInv); *)
(* TTLCache: what was used last is kept (Cache!IInv);                       *)
(* ApiServer: the time a refused client is told to wait is enough           *)
(*   (Api!IInv).                                                           *)
(*                                                                         *)
(* All but EventStore are instances, and a step of ComponentNext is a step  *)
(* of one instance while the others rest: for each, a lemma says so, and    *)
(* its invariant is thus one of ComponentSpec.                              *)
(***************************************************************************)
EXTENDS MCComponents, FiniteSetTheorems, SequenceTheorems, FilterProofs

\* The parts of the invariant about what is written.
Writing == ViewCovers /\ WritersPending /\ MarkPending /\ LostOnlyByRollback

-----------------------------------------------------------------------------
(* Databases *)

\* A mark is in a database that has its flag or its record.
LEMMA MarkIn ==
  ASSUME NEW d, NEW t
  PROVE  /\ t \in d.flagged => <<t, "flag">> \in Marks(d)
         /\ t \in d.recorded => <<t, "record">> \in Marks(d)
         /\ Marks(d) \subseteq Stored(d) /\ Rows(d) \subseteq Stored(d)
BY DEF Marks, Stored

\* A database with more of everything has more stored.
LEMMA StoredGrows ==
  ASSUME NEW d, NEW e,
         d.events \subseteq e.events, d.threats \subseteq e.threats,
         d.flagged \subseteq e.flagged, d.recorded \subseteq e.recorded
  PROVE  Stored(d) \subseteq Stored(e)
BY DEF Stored, Rows, Marks

\* No row is a mark.
LEMMA RowsAreNoMarks ==
  ASSUME NEW row \in EventIds \cup ThreatIds, NEW t \in ThreatIds, NEW m \in {"flag", "record"}
  PROVE  row # <<t, m>>
BY StoreAssumption

-----------------------------------------------------------------------------
(* Types *)

LEMMA TypeInit == Init => TypeOK
<1> SUFFICES ASSUME Init PROVE TypeOK
  OBVIOUS
<1>1. Empty \in Databases
  BY DEF Empty, Databases
<1>2. Idle \in Tasks
  BY DEF Idle, Tasks
<1>3. task \in [Workers \cup {Coroutine} -> Tasks]
  BY <1>2 DEF Init
<1>4. /\ phase = "down" /\ schema = [made |-> 0, version |-> 0] /\ step = 0
      /\ disk = Empty /\ view = Empty /\ failures = 0 /\ crashes = 0 /\ marks = 0
  BY DEF Init
<1> QED BY <1>1, <1>3, <1>4, StoreAssumption DEF TypeOK

LEMMA TypeNext == TypeOK /\ MarkPending /\ [Next]_vars => TypeOK'
<1> SUFFICES ASSUME TypeOK, MarkPending, [Next]_vars PROVE TypeOK'
  OBVIOUS
<1> USE StoreAssumption DEF TypeOK, tally, ghosts
<1>1. CASE Open
  BY <1>1 DEF Open
<1>2. CASE OpenFails
  BY <1>2 DEF OpenFails
<1>3. CASE ReadVersion
  BY <1>3 DEF ReadVersion
<1>4. CASE Migrate
  <2>1. /\ phase' \in {"migrating", "ready"} /\ step' \in 0..(Statements + 1)
        /\ schema' \in [made : 0..Statements, version : {0, 1}]
    BY <1>4 DEF Migrate, StatementRuns
  <2> QED BY <1>4, <2>1 DEF Migrate
<1>5. ASSUME NEW w \in Workers, NEW row \in EventIds \cup ThreatIds, Insert(w, row)
      PROVE  TypeOK'
  <2>1. view' \in Databases
    BY <1>5 DEF Insert, Databases
  <2>2. task' \in [Workers \cup {Coroutine} -> Tasks]
    BY <1>5 DEF Insert, Tasks
  <2> QED BY <1>5, <2>1, <2>2 DEF Insert
<1>6. ASSUME NEW w \in Workers, Commit(w) PROVE TypeOK'
  <2>1. task' \in [Workers \cup {Coroutine} -> Tasks]
    BY <1>6 DEF Commit, Idle, Tasks
  <2> QED BY <1>6, <2>1 DEF Commit, Committed
<1>7. ASSUME NEW w \in Workers, InsertFails(w) PROVE TypeOK'
  BY <1>7 DEF InsertFails, RollBack
<1>8. ASSUME NEW w \in Workers, CommitFails(w) PROVE TypeOK'
  <2>1. task' \in [Workers \cup {Coroutine} -> Tasks]
    BY <1>8 DEF CommitFails, Idle, Tasks
  <2> QED BY <1>8, <2>1 DEF CommitFails, RollBack
<1>9. ASSUME NEW t \in ThreatIds, MarkFlag(t) PROVE TypeOK'
  <2>1. view' \in Databases
    BY <1>9 DEF MarkFlag, Databases
  <2>2. task' \in [Workers \cup {Coroutine} -> Tasks]
    BY <1>9 DEF MarkFlag, Tasks
  <2> QED BY <1>9, <2>1, <2>2 DEF MarkFlag
<1>10. CASE MarkRecord
  <2>1. view' \in Databases
    BY <1>10 DEF MarkRecord, MarkPending, Databases
  <2>2. task' \in [Workers \cup {Coroutine} -> Tasks]
    BY <1>10 DEF MarkRecord, Tasks
  <2>3. phase = "ready"
    BY <1>10 DEF MarkRecord, MarkPending, Idle
  <2> QED BY <1>10, <2>1, <2>2, <2>3 DEF MarkRecord
<1>11. ASSUME task' = [task EXCEPT ![Coroutine] = Idle]
      PROVE  task' \in [Workers \cup {Coroutine} -> Tasks]
  BY <1>11 DEF Idle, Tasks
<1>12. CASE MarkCommit \/ PruneCommit
  BY <1>11, <1>12 DEF MarkCommit, PruneCommit, Committed
<1>13. CASE MarkFails
  BY <1>11, <1>13 DEF MarkFails, RollBack
<1>14. CASE Prune
  <2>1. view' \in Databases
    BY <1>14 DEF Prune, Databases
  <2>2. task' \in [Workers \cup {Coroutine} -> Tasks]
    BY <1>14 DEF Prune, Tasks
  <2> QED BY <1>14, <2>1, <2>2 DEF Prune
<1>15. CASE Close
  BY <1>15 DEF Close
<1>16. ASSUME task' = [p \in DOMAIN task |-> Idle]
      PROVE  task' \in [Workers \cup {Coroutine} -> Tasks]
  BY <1>16 DEF Idle, Tasks
<1>17. CASE Closed
  BY <1>16, <1>17 DEF Closed
<1>18. CASE Crash
  BY <1>16, <1>18 DEF Crash
<1>19. CASE UNCHANGED vars
  BY <1>19 DEF vars
<1> QED
  BY <1>1, <1>2, <1>3, <1>4, <1>5, <1>6, <1>7, <1>8, <1>9, <1>10, <1>12, <1>13, <1>14, <1>15,
     <1>17, <1>18, <1>19 DEF Next, Handle

-----------------------------------------------------------------------------
(* What is written. *)

LEMMA WritingInit == Init => Writing
<1> SUFFICES ASSUME Init PROVE Writing
  OBVIOUS
<1>1. task = [p \in Workers \cup {Coroutine} |-> Idle] /\ view = disk /\ kept = {}
  BY DEF Init
<1> QED
  BY <1>1 DEF Writing, ViewCovers, WritersPending, MarkPending, LostOnlyByRollback, Idle

\* A step that neither reads nor writes rows keeps what is said about them.
LEMMA QuietStep ==
  ASSUME Writing, view' = view, disk' = disk, task' = task, UNCHANGED ghosts,
         task[Coroutine] # Idle => phase' = "ready"
  PROVE  Writing'
BY DEF Writing, ViewCovers, WritersPending, MarkPending, LostOnlyByRollback, ghosts

\* A rollback sweeps away what is pending, but for the row of the one that failed.
LEMMA RollBackSweeps ==
  ASSUME NEW own, RollBack(own), disk' = disk, gone' = gone,
         NEW x, x \notin own, x \in Stored(view) \cup gone \cup swept
  PROVE  x \in Stored(view') \cup gone' \cup swept'
BY DEF RollBack

\* What a rollback leaves of the invariant, apart from the tasks.
LEMMA RollBackCovers ==
  ASSUME Writing, NEW own, RollBack(own), UNCHANGED <<disk, kept, gone>>
  PROVE  ViewCovers' /\ LostOnlyByRollback'
BY DEF RollBack, Writing, ViewCovers, LostOnlyByRollback

LEMMA InsertWrites ==
  ASSUME TypeOK, Writing, NEW w \in Workers, NEW row \in EventIds \cup ThreatIds, Insert(w, row)
  PROVE  Writing'
<1>1. Stored(view) \subseteq Stored(view')
  <2>1. /\ view.events \subseteq view'.events /\ view.threats \subseteq view'.threats
        /\ view.flagged \subseteq view'.flagged /\ view.recorded \subseteq view'.recorded
    BY DEF Insert, TypeOK, Databases
  <2> QED BY <2>1, StoredGrows
<1>2. row \in Stored(view')
  <2>1. row \in Rows(view')
    BY DEF Insert, TypeOK, Databases, Rows
  <2> QED BY <2>1 DEF Stored
<1>3. /\ task[w] = Idle /\ \A p \in Workers : task[p].row # row
      /\ task' = [task EXCEPT ![w] = [at |-> "commit", row |-> row]]
      /\ task'[Coroutine] = task[Coroutine]
      /\ UNCHANGED <<phase, disk, kept, gone, swept>>
  BY StoreAssumption DEF Insert, ghosts, TypeOK
<1>4. ViewCovers' /\ LostOnlyByRollback'
  BY <1>1, <1>3 DEF Writing, ViewCovers, LostOnlyByRollback
<1>5. MarkPending'
  BY <1>1, <1>3 DEF Writing, MarkPending
<1>6. WritersPending'
  BY <1>1, <1>2, <1>3 DEF Writing, WritersPending, TypeOK
<1> QED BY <1>4, <1>5, <1>6 DEF Writing

LEMMA CommitWrites ==
  ASSUME TypeOK, Writing, NEW w \in Workers, Commit(w)
  PROVE  Writing'
<1>1. /\ task[w].at = "commit" /\ disk' = view /\ kept' = kept \cup {task[w].row}
      /\ task' = [task EXCEPT ![w] = Idle] /\ task'[Coroutine] = task[Coroutine]
      /\ UNCHANGED <<phase, view, gone, swept>>
  BY StoreAssumption DEF Commit, Committed, TypeOK
<1>2. ViewCovers' /\ LostOnlyByRollback'
  BY <1>1 DEF Writing, ViewCovers, WritersPending, LostOnlyByRollback
<1>3. MarkPending'
  BY <1>1 DEF Writing, MarkPending
<1>4. WritersPending'
  BY <1>1 DEF Writing, WritersPending, TypeOK, Idle
<1> QED BY <1>2, <1>3, <1>4 DEF Writing

LEMMA InsertFailsWrites ==
  ASSUME TypeOK, Writing, NEW w \in Workers, InsertFails(w)
  PROVE  Writing'
<1>1. RollBack({}) /\ UNCHANGED <<phase, disk, task, kept, gone>>
  BY DEF InsertFails
<1>2. \A x \in Stored(view) \cup gone \cup swept : x \in Stored(view') \cup gone' \cup swept'
  BY <1>1, RollBackSweeps
<1>3. ViewCovers' /\ LostOnlyByRollback'
  BY <1>1, RollBackCovers
<1>4. MarkPending' /\ WritersPending'
  BY <1>1, <1>2 DEF Writing, MarkPending, WritersPending
<1> QED BY <1>3, <1>4 DEF Writing

LEMMA CommitFailsWrites ==
  ASSUME TypeOK, Writing, NEW w \in Workers, CommitFails(w)
  PROVE  Writing'
<1> DEFINE row == task[w].row
<1>1. /\ task[w].at = "commit" /\ RollBack({row}) /\ task' = [task EXCEPT ![w] = Idle]
      /\ task'[Coroutine] = task[Coroutine] /\ UNCHANGED <<phase, disk, kept, gone>>
  BY StoreAssumption DEF CommitFails, TypeOK
<1>2. PICK r : r = row
  OBVIOUS
<1>3. \A x \in Stored(view) \cup gone \cup swept :
        x # r => x \in Stored(view') \cup gone' \cup swept'
  BY <1>1, <1>2, RollBackSweeps
<1>4. r \in EventIds \cup ThreatIds /\ \A v \in Workers \ {w} : task[v].at = "commit" => task[v].row # r
  BY <1>1, <1>2 DEF Writing, WritersPending
<1>5. ViewCovers' /\ LostOnlyByRollback'
  BY <1>1, RollBackCovers
<1>6. MarkPending'
  <2>1. task[Coroutine].at = "end" => <<task[Coroutine].row, "record">> # r
    BY <1>4, RowsAreNoMarks DEF Writing, MarkPending
  <2> QED BY <1>1, <1>3, <2>1 DEF Writing, MarkPending
<1>7. WritersPending'
  <2>1. SUFFICES ASSUME NEW v \in Workers, task'[v].at = "commit"
        PROVE  /\ task'[v].row \in EventIds \cup ThreatIds
               /\ task'[v].row \in Stored(view') \cup gone' \cup swept'
               /\ \A u \in Workers \ {v} : task'[u].at = "commit" => task'[u].row # task'[v].row
    BY DEF WritersPending
  <2>2. v # w /\ task'[v] = task[v]
    BY <1>1, <2>1 DEF TypeOK, Idle
  <2>3. task[v].row # r /\ task[v].row \in Stored(view) \cup gone \cup swept
    BY <1>4, <2>1, <2>2 DEF Writing, WritersPending
  <2>4. \A u \in Workers : task'[u].at = "commit" => task'[u] = task[u]
    BY <1>1 DEF TypeOK, Idle
  <2> QED BY <1>3, <2>1, <2>2, <2>3, <2>4 DEF Writing, WritersPending
<1> QED BY <1>5, <1>6, <1>7 DEF Writing

-----------------------------------------------------------------------------
(* The coroutines. *)

\* What a step of the coroutine leaves of the workers' rows.
LEMMA WorkersStay ==
  ASSUME TypeOK, WritersPending, NEW new, task' = [task EXCEPT ![Coroutine] = new],
         \A w \in Workers : task[w].at = "commit" =>
           task[w].row \in Stored(view') \cup gone' \cup swept'
  PROVE  WritersPending'
<1>1. \A w \in Workers : task'[w] = task[w]
  BY StoreAssumption DEF TypeOK
<1> QED BY <1>1 DEF WritersPending

LEMMA MarkFlagWrites ==
  ASSUME TypeOK, Writing, NEW t \in ThreatIds, MarkFlag(t)
  PROVE  Writing'
<1>1. /\ phase = "ready" /\ UNCHANGED <<phase, disk, kept, gone, swept>>
      /\ task' = [task EXCEPT ![Coroutine] = [at |-> "record", row |-> t]]
      /\ task'[Coroutine] = [at |-> "record", row |-> t]
  BY DEF MarkFlag, ghosts, TypeOK
<1>2. Stored(view) \subseteq Stored(view')
  <2>1. /\ view.events \subseteq view'.events /\ view.threats \subseteq view'.threats
        /\ view.flagged \subseteq view'.flagged /\ view.recorded \subseteq view'.recorded
    BY DEF MarkFlag, TypeOK, Databases
  <2> QED BY <2>1, StoredGrows
<1>3. ViewCovers' /\ LostOnlyByRollback'
  BY <1>1, <1>2 DEF Writing, ViewCovers, LostOnlyByRollback
<1>4. WritersPending'
  BY <1>1, <1>2, WorkersStay DEF Writing, WritersPending
<1>5. MarkPending'
  BY <1>1 DEF MarkPending
<1> QED BY <1>3, <1>4, <1>5 DEF Writing

LEMMA MarkRecordWrites ==
  ASSUME TypeOK, Writing, MarkRecord
  PROVE  Writing'
<1>1. PICK t : t = task[Coroutine].row
  OBVIOUS
<1>2. /\ task[Coroutine].at = "record" /\ t \in ThreatIds /\ phase = "ready"
      /\ UNCHANGED <<phase, disk, kept, gone, swept>>
      /\ task' = [task EXCEPT ![Coroutine] = [task[Coroutine] EXCEPT !.at = "end"]]
      /\ task'[Coroutine].at = "end" /\ task'[Coroutine].row = t
  BY <1>1 DEF MarkRecord, ghosts, Writing, MarkPending, Idle, TypeOK, Tasks
<1>3. Stored(view) \subseteq Stored(view')
  <2>1. /\ view.events \subseteq view'.events /\ view.threats \subseteq view'.threats
        /\ view.flagged \subseteq view'.flagged /\ view.recorded \subseteq view'.recorded
    BY DEF MarkRecord, TypeOK, Databases
  <2> QED BY <2>1, StoredGrows
<1>4. t \in view'.recorded
  BY <1>1 DEF MarkRecord, TypeOK, Databases
<1>5. <<t, "record">> \in Stored(view')
  BY <1>4, MarkIn
<1>6. ViewCovers' /\ LostOnlyByRollback'
  BY <1>2, <1>3 DEF Writing, ViewCovers, LostOnlyByRollback
<1>7. WritersPending'
  BY <1>2, <1>3, WorkersStay DEF Writing, WritersPending
<1>8. MarkPending'
  BY <1>2, <1>5 DEF MarkPending
<1> QED BY <1>6, <1>7, <1>8 DEF Writing

LEMMA MarkCommitWrites ==
  ASSUME TypeOK, Writing, MarkCommit
  PROVE  Writing'
<1>1. PICK t : t = task[Coroutine].row
  OBVIOUS
<1>2. /\ task[Coroutine].at = "end" /\ disk' = view
      /\ kept' = kept \cup {<<t, "record">>} \cup ({<<t, "flag">>} \cap Marks(view))
      /\ task' = [task EXCEPT ![Coroutine] = Idle] /\ task'[Coroutine] = Idle
      /\ UNCHANGED <<phase, view, gone, swept>>
  BY <1>1 DEF MarkCommit, Committed, TypeOK
<1>3. <<t, "record">> \in Stored(view) \cup gone \cup swept
  BY <1>1, <1>2 DEF Writing, MarkPending
<1>4. ViewCovers' /\ LostOnlyByRollback'
  BY <1>2, <1>3 DEF Writing, ViewCovers, LostOnlyByRollback, Stored
<1>5. WritersPending'
  BY <1>2, WorkersStay DEF Writing, WritersPending
<1>6. MarkPending'
  BY <1>2 DEF MarkPending, Idle
<1> QED BY <1>4, <1>5, <1>6 DEF Writing

LEMMA MarkFailsWrites ==
  ASSUME TypeOK, Writing, MarkFails
  PROVE  Writing'
<1>1. PICK t : t = task[Coroutine].row
  OBVIOUS
<1>2. /\ task[Coroutine].at = "record" /\ RollBack({<<t, "flag">>})
      /\ task' = [task EXCEPT ![Coroutine] = Idle] /\ task'[Coroutine] = Idle
      /\ UNCHANGED <<phase, disk, kept, gone>>
  BY <1>1 DEF MarkFails, TypeOK
<1>3. t \in ThreatIds
  BY <1>1, <1>2 DEF Writing, MarkPending
<1>4. \A x \in Stored(view) \cup gone \cup swept :
        x # <<t, "flag">> => x \in Stored(view') \cup gone' \cup swept'
  BY <1>2, RollBackSweeps
<1>5. ViewCovers' /\ LostOnlyByRollback'
  BY <1>2, RollBackCovers
<1>6. \A w \in Workers : task[w].at = "commit" =>
        task[w].row \in Stored(view') \cup gone' \cup swept'
  BY <1>3, <1>4, RowsAreNoMarks DEF Writing, WritersPending
<1>7. WritersPending'
  BY <1>2, <1>6, WorkersStay DEF Writing
<1>8. MarkPending'
  BY <1>2 DEF MarkPending, Idle
<1> QED BY <1>5, <1>7, <1>8 DEF Writing

LEMMA PruneWrites ==
  ASSUME TypeOK, Writing, Prune
  PROVE  Writing'
<1>1. PICK doomed : doomed = Excess(view.events)
  OBVIOUS
<1>2. /\ view' = [view EXCEPT !.events = @ \ doomed] /\ gone' = gone \cup doomed
      /\ task' = [task EXCEPT ![Coroutine] = [at |-> "pruned", row |-> "none"]]
      /\ task'[Coroutine] = [at |-> "pruned", row |-> "none"]
      /\ phase = "ready" /\ UNCHANGED <<phase, disk, kept, swept>>
  BY <1>1 DEF Prune, TypeOK
<1>3. /\ view'.events = view.events \ doomed /\ view'.threats = view.threats
      /\ view'.flagged = view.flagged /\ view'.recorded = view.recorded
  BY <1>2 DEF TypeOK, Databases
<1>4. Stored(view) \subseteq Stored(view') \cup gone'
  BY <1>2, <1>3 DEF Stored, Rows, Marks
<1>5. ViewCovers' /\ LostOnlyByRollback'
  BY <1>2, <1>4 DEF Writing, ViewCovers, LostOnlyByRollback
<1>6. WritersPending'
  BY <1>2, <1>4, WorkersStay DEF Writing, WritersPending
<1>7. MarkPending'
  BY <1>2 DEF MarkPending
<1> QED BY <1>5, <1>6, <1>7 DEF Writing

LEMMA PruneCommitWrites ==
  ASSUME TypeOK, Writing, PruneCommit
  PROVE  Writing'
<1>1. /\ disk' = view /\ UNCHANGED <<phase, view, kept, gone, swept>>
      /\ task' = [task EXCEPT ![Coroutine] = Idle] /\ task'[Coroutine] = Idle
  BY DEF PruneCommit, Committed, ghosts, TypeOK
<1>2. ViewCovers' /\ LostOnlyByRollback'
  BY <1>1 DEF Writing, ViewCovers, LostOnlyByRollback
<1>3. WritersPending'
  BY <1>1, WorkersStay DEF Writing, WritersPending
<1>4. MarkPending'
  BY <1>1 DEF MarkPending, Idle
<1> QED BY <1>2, <1>3, <1>4 DEF Writing

\* Where nobody is at work any more, only the file counts.
LEMMA EndWrites ==
  ASSUME TypeOK, Writing, view' = disk, task' = [p \in DOMAIN task |-> Idle],
         UNCHANGED <<disk, kept, gone, swept>>
  PROVE  Writing'
<1>1. \A p \in Workers \cup {Coroutine} : task'[p] = Idle
  BY DEF TypeOK
<1>2. ViewCovers' /\ LostOnlyByRollback'
  BY DEF Writing, ViewCovers, LostOnlyByRollback
<1>3. WritersPending' /\ MarkPending'
  BY <1>1 DEF WritersPending, MarkPending, Idle
<1> QED BY <1>2, <1>3 DEF Writing

LEMMA WritingNext == TypeOK /\ Writing /\ [Next]_vars => Writing'
<1> SUFFICES ASSUME TypeOK, Writing, [Next]_vars PROVE Writing'
  OBVIOUS
<1>1. task[Coroutine] # Idle => phase = "ready"
  BY DEF Writing, MarkPending
<1>2. CASE Open
  <2>1. view' = view /\ phase = "down"
    BY <1>2 DEF Open, TypeOK
  <2> QED BY <1>1, <1>2, <2>1, QuietStep DEF Open
<1>3. CASE OpenFails \/ ReadVersion \/ Migrate
  BY <1>1, <1>3, QuietStep DEF OpenFails, ReadVersion, Migrate
<1>4. CASE Handle
  BY <1>4, InsertWrites, CommitWrites, InsertFailsWrites, CommitFailsWrites DEF Handle
<1>5. CASE \E t \in ThreatIds : MarkFlag(t)
  BY <1>5, MarkFlagWrites
<1>6. CASE MarkRecord
  BY <1>6, MarkRecordWrites
<1>7. CASE MarkCommit
  BY <1>7, MarkCommitWrites
<1>8. CASE MarkFails
  BY <1>8, MarkFailsWrites
<1>9. CASE Prune
  BY <1>9, PruneWrites
<1>10. CASE PruneCommit
  BY <1>10, PruneCommitWrites
<1>11. CASE Close
  BY <1>11, QuietStep DEF Close
<1>12. CASE Closed
  BY <1>12, EndWrites DEF Closed, ghosts
<1>13. CASE Crash
  BY <1>13, EndWrites DEF Crash, ghosts
<1>14. CASE UNCHANGED vars
  BY <1>1, <1>14, QuietStep DEF vars
<1> QED
  BY <1>2, <1>3, <1>4, <1>5, <1>6, <1>7, <1>8, <1>9, <1>10, <1>11, <1>12, <1>13, <1>14 DEF Next

-----------------------------------------------------------------------------
(* The migration. *)

LEMMA MigrationInit == Init => MigrationOnCourse
BY DEF Init, MigrationOnCourse

LEMMA MigrationNext == TypeOK /\ MigrationOnCourse /\ [Next]_vars => MigrationOnCourse'
<1> SUFFICES ASSUME TypeOK, MigrationOnCourse, [Next]_vars PROVE MigrationOnCourse'
  OBVIOUS
<1> USE StoreAssumption DEF TypeOK, MigrationOnCourse, tally
<1>1. CASE Open
  BY <1>1 DEF Open
<1>2. CASE OpenFails
  BY <1>2 DEF OpenFails
<1>3. CASE ReadVersion
  BY <1>3 DEF ReadVersion
<1>4. CASE Migrate
  <2>1. CASE step <= Statements
    BY <1>4, <2>1 DEF Migrate, StatementRuns
  <2>2. CASE ~(step <= Statements)
    <3>1. schema.made = Statements /\ schema' = [schema EXCEPT !.version = 1] /\ phase' = "ready"
      BY <1>4, <2>2 DEF Migrate
    <3> QED BY <3>1
  <2> QED BY <2>1, <2>2
<1>5. ASSUME UNCHANGED <<phase, schema, step>>, failures > 0 => failures' > 0 PROVE MigrationOnCourse'
  BY <1>5
<1>6. CASE Handle
  <2>1. UNCHANGED <<phase, schema, step>> /\ (failures > 0 => failures' > 0)
    BY <1>6 DEF Handle, Insert, Commit, InsertFails, CommitFails, RollBack
  <2> QED BY <1>5, <2>1
<1>7. CASE (\E t \in ThreatIds : MarkFlag(t)) \/ MarkRecord \/ MarkCommit \/ MarkFails
  <2>1. UNCHANGED <<phase, schema, step>> /\ (failures > 0 => failures' > 0)
    BY <1>7 DEF MarkFlag, MarkRecord, MarkCommit, MarkFails, RollBack
  <2> QED BY <1>5, <2>1
<1>8. CASE Prune \/ PruneCommit \/ UNCHANGED vars
  <2>1. UNCHANGED <<phase, schema, step>> /\ (failures > 0 => failures' > 0)
    BY <1>8 DEF Prune, PruneCommit, vars
  <2> QED BY <1>5, <2>1
<1>9. CASE Close
  BY <1>9 DEF Close
<1>10. CASE Closed \/ Crash
  BY <1>10 DEF Closed, Crash
<1> QED
  BY <1>1, <1>2, <1>3, <1>4, <1>6, <1>7, <1>8, <1>9, <1>10 DEF Next

-----------------------------------------------------------------------------
(* The theorems *)

\* Whatever the workers, the API, failures and crashes do, the store's invariant
\* holds: handlers, marks, prunes, migration, close and restart preserve it.
THEOREM Inductive == Spec => []IInv
<1>1. Init => IInv
  BY TypeInit, WritingInit, MigrationInit DEF IInv, Writing
<1>2. IInv /\ [Next]_vars => IInv'
  <2> SUFFICES ASSUME IInv, [Next]_vars PROVE IInv'
    OBVIOUS
  <2>1. TypeOK /\ Writing /\ MarkPending /\ MigrationOnCourse
    BY DEF IInv, Writing
  <2> QED BY <2>1, TypeNext, WritingNext, MigrationNext DEF IInv, Writing
<1> QED BY <1>1, <1>2, PTL DEF Spec

\* The store's variables keep their types, and a store that is down, failed or not
\* ready yet has no transaction pending.
THEOREM TypeCorrect == Spec => []TypeOK
<1>1. IInv => TypeOK
  BY DEF IInv
<1> QED BY <1>1, Inductive, PTL

\* Of what handle_bus_event(), handle_threat_event() and mark_false_positive() wrote
\* without an error nothing is lost, by no crash, close, restart or prune of others,
\* unless another writer of the shared connection rolled it back.
THEOREM WritesLast == Spec => []LostOnlyByRollback
<1>1. IInv => LostOnlyByRollback
  BY DEF IInv
<1> QED BY <1>1, Inductive, PTL

\* A start of the store after a migration that was cut short at any statement leaves
\* the full schema, and initialize() fails only where the file cannot be opened.
THEOREM MigrationEnds == Spec => []MigrationCompletes
<1>1. IInv => MigrationCompletes
  BY DEF IInv, MigrationOnCourse, MigrationCompletes
<1> QED BY <1>1, Inductive, PTL

-----------------------------------------------------------------------------
(* The notifier *)

\* Notifier counts as this module does.
LEMMA SameCount == ASSUME NEW S PROVE Alerts!Cardinality(S) = Cardinality(S)
BY DEF Alerts!Cardinality, Cardinality

AlertEntries == [class : Classes, time : Nat]
Stations == {"rate", "head", "pop", "count", "cooldown", "record"}
BusyHandlers == [at : Stations, class : Classes, now : Nat]

\* A worker moves on, or is done.
LEMMA Moves ==
  ASSUME Alerts!TypeOK, NEW w \in Workers, NEW to \in Stations,
         handler[w] # Alerts!Free,
         Alerts!Goto(w, to) \/ handler' = [handler EXCEPT ![w] = Alerts!Free]
  PROVE  /\ DOMAIN handler' = Workers
         /\ \A v \in Workers : handler'[v] = Alerts!Free \/ handler'[v] \in BusyHandlers
         /\ \A v \in Workers \ {w} : handler'[v] = handler[v]
         /\ \/ handler'[w] = Alerts!Free
            \/ handler'[w].at = to /\ handler'[w].class = handler[w].class
<1>1. handler[w] \in BusyHandlers /\ DOMAIN handler = Workers
  BY DEF Alerts!TypeOK, BusyHandlers, Stations
<1>2. \A v \in Workers : handler[v] = Alerts!Free \/ handler[v] \in BusyHandlers
  BY DEF Alerts!TypeOK, BusyHandlers, Stations
<1>3. CASE Alerts!Goto(w, to)
  <2>1. handler' = [handler EXCEPT ![w].at = to]
    BY <1>3 DEF Alerts!Goto
  <2>2. handler'[w] = [handler[w] EXCEPT !.at = to]
           /\ \A v \in Workers \ {w} : handler'[v] = handler[v]
    BY <1>1, <2>1
  <2>3. handler'[w] \in BusyHandlers /\ handler'[w].at = to
           /\ handler'[w].class = handler[w].class
    BY <1>1, <2>2 DEF BusyHandlers, Stations
  <2> QED BY <1>1, <1>2, <2>1, <2>2, <2>3
<1>4. CASE handler' = [handler EXCEPT ![w] = Alerts!Free]
  BY <1>1, <1>2, <1>4
<1> QED BY <1>3, <1>4

\* The steps of _passes_rate_limit() but for the popleft().
Tests(w) == Alerts!Rate(w) \/ Alerts!Look(w) \/ Alerts!CountTimes(w)

\* They move their worker and nothing else.
LEMMA TestsMove ==
  ASSUME NEW w \in Workers, Tests(w)
  PROVE  /\ UNCHANGED <<tick, alertTimes, lastAlert, history, beganAt, overpopped>>
         /\ handler[w] # Alerts!Free /\ handler[w].at \in {"rate", "head", "count"}
         /\ \/ \E to \in {"head", "pop", "count"} : Alerts!Goto(w, to)
            \/ handler' = [handler EXCEPT ![w] = Alerts!Free]
            \/ Alerts!Goto(w, "cooldown") /\ ~Alerts!Full
<1>1. CASE Alerts!Rate(w)
  BY <1>1 DEF Alerts!Rate, Alerts!Free
<1>2. CASE Alerts!Look(w)
  BY <1>2 DEF Alerts!Look, Alerts!Free
<1>3. CASE Alerts!CountTimes(w)
  BY <1>3 DEF Alerts!CountTimes, Alerts!Free
<1> QED BY <1>1, <1>2, <1>3 DEF Tests

\* The steps of a worker leave the types as they are.
LEMMA AlertTypesNext == Alerts!TypeOK /\ [Alerts!Next]_Alerts!vars => Alerts!TypeOK'
<1> SUFFICES ASSUME Alerts!TypeOK, [Alerts!Next]_Alerts!vars PROVE Alerts!TypeOK'
  OBVIOUS
<1> USE AlertsAssumption
<1>0. /\ tick \in Nat /\ alertTimes \in Seq(Nat) /\ lastAlert \in [Classes -> Nat]
      /\ history \in Seq(AlertEntries) /\ beganAt \in [Workers -> Nat] /\ overpopped \in BOOLEAN
      /\ \A i \in 1..Len(history) : history[i].time <= tick
      /\ \A w \in Workers : beganAt[w] <= Len(history)
      /\ DOMAIN handler = Workers
      /\ \A w \in Workers : handler[w] = Alerts!Free \/ handler[w] \in BusyHandlers
  BY DEF Alerts!TypeOK, AlertEntries, BusyHandlers, Stations
<1>b. Len(history) \in Nat /\ \A i \in 1..Len(history) : history[i].time \in Nat
  <2>1. Len(history) \in Nat
    BY <1>0, LenProperties
  <2>2. ASSUME NEW i \in 1..Len(history) PROVE history[i].time \in Nat
    <3>1. history[i] \in AlertEntries
      BY <1>0, <2>2
    <3> QED BY <3>1 DEF AlertEntries
  <2> QED BY <2>1, <2>2
<1>a. ASSUME /\ DOMAIN handler' = Workers
             /\ \A w \in Workers : handler'[w] = Alerts!Free \/ handler'[w] \in BusyHandlers,
             UNCHANGED <<tick, lastAlert, history, beganAt>>,
             alertTimes' \in Seq(Nat), overpopped' \in BOOLEAN
      PROVE  Alerts!TypeOK'
  BY <1>0, <1>a DEF Alerts!TypeOK, AlertEntries, BusyHandlers, Stations
<1>1. CASE Alerts!Tick
  <2>1. tick' = tick + 1
           /\ UNCHANGED <<alertTimes, lastAlert, handler, history, beganAt, overpopped>>
    BY <1>1 DEF Alerts!Tick
  <2>2. \A i \in 1..Len(history) : history[i].time <= tick'
    BY <1>0, <1>b, <2>1
  <2> QED BY <1>0, <2>1, <2>2 DEF Alerts!TypeOK, AlertEntries, BusyHandlers, Stations
<1>2. ASSUME NEW w \in Workers, NEW c \in Classes, Alerts!Receive(w, c) PROVE Alerts!TypeOK'
  <2>1. /\ handler' = [handler EXCEPT ![w] = [at |-> "rate", class |-> c, now |-> tick]]
        /\ beganAt' = [beganAt EXCEPT ![w] = Len(history)]
        /\ UNCHANGED <<tick, alertTimes, lastAlert, history, overpopped>>
    BY <1>2 DEF Alerts!Receive
  <2>2. [at |-> "rate", class |-> c, now |-> tick] \in BusyHandlers
    BY <1>0 DEF BusyHandlers, Stations
  <2>3. DOMAIN handler' = Workers /\ \A v \in Workers : handler'[v] = Alerts!Free
           \/ handler'[v] \in BusyHandlers
    BY <1>0, <2>1, <2>2
  <2>4. beganAt' \in [Workers -> Nat] /\ \A v \in Workers : beganAt'[v] <= Len(history)
    BY <1>0, <1>b, <2>1
  <2> QED BY <1>0, <2>1, <2>3, <2>4 DEF Alerts!TypeOK, AlertEntries, BusyHandlers, Stations
<1>3. ASSUME NEW w \in Workers, Tests(w) PROVE Alerts!TypeOK'
  <2>1. PICK to \in {"head", "pop", "count", "cooldown"} :
          Alerts!Goto(w, to) \/ handler' = [handler EXCEPT ![w] = Alerts!Free]
    BY <1>3, TestsMove
  <2>2. to \in Stations
    BY DEF Stations
  <2> QED BY <1>0, <1>a, <1>3, <2>1, <2>2, Moves, TestsMove
<1>4. ASSUME NEW w \in Workers, Alerts!Pop(w) PROVE Alerts!TypeOK'
  <2>1. UNCHANGED <<tick, lastAlert, history, beganAt>>
    BY <1>4 DEF Alerts!Pop
  <2>2. handler[w] # Alerts!Free
    BY <1>4 DEF Alerts!Pop, Alerts!Free
  <2>3. Alerts!Goto(w, "rate") \/ handler' = [handler EXCEPT ![w] = Alerts!Free]
    BY <1>4 DEF Alerts!Pop
  <2>6. "rate" \in Stations
    BY DEF Stations
  <2>4. alertTimes' \in Seq(Nat)
    BY <1>0, <1>4, HeadTailProperties DEF Alerts!Pop
  <2>5. overpopped' \in BOOLEAN
    <3>1. overpopped' = overpopped \/ overpopped' = (overpopped
             \/ Head(alertTimes) + Minute >= tick)
      BY <1>4 DEF Alerts!Pop
    <3> QED BY Zenon, <1>0, <3>1
  <2> QED BY <1>a, <2>1, <2>2, <2>3, <2>4, <2>5, <2>6, Moves
<1>5. ASSUME NEW w \in Workers, Alerts!Cool(w) PROVE Alerts!TypeOK'
  <2>1. UNCHANGED <<tick, alertTimes, lastAlert, history, beganAt, overpopped>>
    BY <1>5 DEF Alerts!Cool
  <2>2. handler[w] # Alerts!Free
    BY <1>5 DEF Alerts!Cool, Alerts!Free
  <2>3. Alerts!Goto(w, "record") \/ handler' = [handler EXCEPT ![w] = Alerts!Free]
    BY <1>5 DEF Alerts!Cool
  <2>4. "record" \in Stations
    BY DEF Stations
  <2> QED BY <1>0, <1>a, <2>1, <2>2, <2>3, <2>4, Moves
<1>6. ASSUME NEW w \in Workers, Alerts!Record(w) PROVE Alerts!TypeOK'
  <2>1. handler[w] \in BusyHandlers
    BY <1>0, <1>6 DEF Alerts!Record, Alerts!Free
  <2>2. PICK c \in Classes : c = handler[w].class
    BY <2>1 DEF BusyHandlers, Stations
  <2>3. PICK e \in AlertEntries : e = [class |-> c, time |-> tick]
    BY <1>0 DEF AlertEntries
  <2>4. /\ alertTimes' = Append(alertTimes, tick)
           /\ lastAlert' = [lastAlert EXCEPT ![c] = tick + 1]
        /\ history' = Append(history, e)
        /\ handler' = [handler EXCEPT ![w] = Alerts!Free]
        /\ UNCHANGED <<tick, beganAt, overpopped>>
    BY <1>6, <2>2, <2>3 DEF Alerts!Record
  <2>5. /\ history' \in Seq(AlertEntries) /\ Len(history') = Len(history) + 1
        /\ \A i \in 1..Len(history) : history'[i] = history[i]
        /\ history'[Len(history) + 1] = e
    BY <1>0, <2>3, <2>4, AppendProperties
  <2>6. \A i \in 1..Len(history') : history'[i].time <= tick
    <3> TAKE i \in 1..Len(history')
    <3>1. i \in 1..Len(history) \/ i = Len(history) + 1
      BY <1>b, <2>5
    <3>2. e.time <= tick
      BY <1>0, <2>3
    <3>3. CASE i \in 1..Len(history)
      BY <1>0, <2>5, <3>3
    <3>4. CASE i = Len(history) + 1
      BY <2>5, <3>2, <3>4
    <3> QED BY <3>1, <3>3, <3>4
  <2>7. alertTimes' \in Seq(Nat) /\ lastAlert' \in [Classes -> Nat]
    BY <1>0, <2>4, AppendProperties
  <2>8. DOMAIN handler' = Workers /\ \A v \in Workers : handler'[v] = Alerts!Free
           \/ handler'[v] \in BusyHandlers
    BY <1>0, <2>4
  <2>9. \A v \in Workers : beganAt'[v] <= Len(history')
    BY <1>0, <1>b, <2>4, <2>5
  <2> QED BY <1>0, <2>4, <2>5, <2>6, <2>7, <2>8, <2>9 DEF Alerts!TypeOK, AlertEntries,
             BusyHandlers, Stations
<1>7. CASE UNCHANGED Alerts!vars
  BY <1>7 DEF Alerts!TypeOK, Alerts!vars
<1> QED BY <1>1, <1>2, <1>3, <1>4, <1>5, <1>6, <1>7 DEF Alerts!Next, Tests

-----------------------------------------------------------------------------
(* The limit of a minute *)

\* How many workers passed the test is a number, no more than there are workers.
LEMMA PassedFinite ==
  /\ IsFiniteSet(Alerts!Passed) /\ Cardinality(Alerts!Passed) \in Nat
  /\ Cardinality(Workers) \in Nat \ {0} /\ Cardinality(Alerts!Passed) <= Cardinality(Workers)
<1>1. Alerts!Passed \subseteq Workers
  BY DEF Alerts!Passed
<1>2. IsFiniteSet(Workers) /\ Workers # {}
  BY AlertsAssumption
<1>3. IsFiniteSet(Alerts!Passed) /\ Cardinality(Alerts!Passed) <= Cardinality(Workers)
  BY <1>1, <1>2, FS_Subset
<1>4. Cardinality(Workers) \in Nat /\ Cardinality(Alerts!Passed) \in Nat
         /\ Cardinality(Workers) # 0
  BY <1>2, <1>3, FS_CardinalityType, FS_EmptySet
<1> QED BY <1>3, <1>4

\* Whoever has not passed before, has not passed after a step that lets nobody pass.
LEMMA FewerPass ==
  ASSUME Alerts!SlotsBounded, Alerts!Passed' \subseteq Alerts!Passed, Len(alertTimes) \in Nat,
         Len(alertTimes') \in Nat, Len(alertTimes') <= Len(alertTimes)
  PROVE  Alerts!SlotsBounded'
<1>1. Cardinality(Alerts!Passed') \in Nat
         /\ Cardinality(Alerts!Passed') <= Cardinality(Alerts!Passed)
  BY PassedFinite, FS_Subset, FS_CardinalityType
<1>2. PICK m \in Nat, n \in Nat, k \in Nat, j \in Nat :
        m = Cardinality(Workers) /\ n = Cardinality(Alerts!Passed) /\ k = Len(alertTimes)
           /\ j = MaxPerMinute
  BY PassedFinite, AlertsAssumption
<1>3. k + n <= j + m - 1
  BY <1>2, SameCount DEF Alerts!SlotsBounded
<1>4. PICK o \in Nat, l \in Nat : o = Cardinality(Alerts!Passed') /\ l = Len(alertTimes')
  BY <1>1
<1>5. l + o <= j + m - 1
  BY <1>1, <1>2, <1>3, <1>4
<1> QED BY <1>2, <1>4, <1>5, SameCount DEF Alerts!SlotsBounded

LEMMA SlotsNext == Alerts!TypeOK /\ Alerts!SlotsBounded /\ [Alerts!Next]_Alerts!vars
   => Alerts!SlotsBounded'
<1> SUFFICES ASSUME Alerts!TypeOK, Alerts!SlotsBounded, [Alerts!Next]_Alerts!vars
             PROVE  Alerts!SlotsBounded'
  OBVIOUS
<1>0. alertTimes \in Seq(Nat) /\ Len(alertTimes) \in Nat /\ DOMAIN handler = Workers
  BY LenProperties DEF Alerts!TypeOK
<1>1. CASE Alerts!Tick \/ UNCHANGED Alerts!vars
  <2>1. UNCHANGED <<handler, alertTimes>>
    BY <1>1 DEF Alerts!Tick, Alerts!vars
  <2>2. Alerts!Passed' = Alerts!Passed
    BY <2>1 DEF Alerts!Passed
  <2> QED BY <1>0, <2>1, <2>2, FewerPass
<1>2. ASSUME NEW w \in Workers, NEW c \in Classes, Alerts!Receive(w, c) PROVE Alerts!SlotsBounded'
  <2>1. handler' = [handler EXCEPT ![w] = [at |-> "rate", class |-> c, now |-> tick]]
           /\ alertTimes' = alertTimes
    BY <1>2 DEF Alerts!Receive
  <2>2. Alerts!Passed' \subseteq Alerts!Passed
    BY <1>0, <2>1 DEF Alerts!Passed
  <2> QED BY <1>0, <2>1, <2>2, FewerPass
<1>3. ASSUME NEW w \in Workers, Tests(w) PROVE Alerts!SlotsBounded'
  <2>0. handler[w] # Alerts!Free /\ alertTimes' = alertTimes
    BY <1>3, TestsMove
  <2>1. ASSUME NEW to \in {"head", "pop", "count"},
               Alerts!Goto(w, to) \/ handler' = [handler EXCEPT ![w] = Alerts!Free]
        PROVE  Alerts!SlotsBounded'
    <3>0. to \in Stations
      BY DEF Stations
    <3>1. \A v \in Workers \ {w} : handler'[v] = handler[v]
      BY <2>0, <2>1, <3>0, Moves
    <3>2. handler'[w] = Alerts!Free \/ handler'[w].at = to
      BY <2>0, <2>1, <3>0, Moves
    <3>3. Alerts!Passed' \subseteq Alerts!Passed
      BY <3>1, <3>2 DEF Alerts!Passed, Alerts!Free
    <3> QED BY <1>0, <2>0, <3>3, FewerPass
  <2>2. CASE Alerts!Goto(w, "cooldown") /\ ~Alerts!Full
    <3>1. Len(alertTimes) < MaxPerMinute /\ MaxPerMinute \in Nat
      BY <1>0, <2>2, AlertsAssumption DEF Alerts!Full
    <3>2. Alerts!Passed' \subseteq Workers
      BY DEF Alerts!Passed
    <3>3. Cardinality(Alerts!Passed') \in Nat
             /\ Cardinality(Alerts!Passed') <= Cardinality(Workers)
      BY <3>2, AlertsAssumption, FS_Subset, FS_CardinalityType
    <3>4. Cardinality(Workers) \in Nat
      BY PassedFinite
    <3>5. PICK k \in Nat, n \in Nat, m \in Nat, j \in Nat :
            k = Len(alertTimes) /\ n = Cardinality(Alerts!Passed')
               /\ m = Cardinality(Workers) /\ j = MaxPerMinute
      BY <1>0, <3>1, <3>3, <3>4
    <3>6. k + n <= j + m - 1
      BY <3>1, <3>3, <3>5
    <3> QED BY <2>0, <3>5, <3>6, SameCount DEF Alerts!SlotsBounded
  <2> QED BY <1>3, <2>1, <2>2, TestsMove
<1>4. ASSUME NEW w \in Workers, Alerts!Pop(w) PROVE Alerts!SlotsBounded'
  <2>1. handler[w].at = "pop" /\ handler[w] # Alerts!Free
    BY <1>4 DEF Alerts!Pop, Alerts!Free
  <2>2. Alerts!Goto(w, "rate") \/ handler' = [handler EXCEPT ![w] = Alerts!Free]
    BY <1>4 DEF Alerts!Pop
  <2>3. /\ \A v \in Workers \ {w} : handler'[v] = handler[v]
        /\ handler'[w] = Alerts!Free \/ handler'[w].at = "rate"
    BY <2>1, <2>2, Moves DEF Stations
  <2>5. Alerts!Passed' \subseteq Alerts!Passed
    BY <2>3 DEF Alerts!Passed, Alerts!Free
  <2>6. alertTimes' = alertTimes \/ (alertTimes # <<>> /\ alertTimes' = Tail(alertTimes))
    BY <1>4 DEF Alerts!Pop
  <2>7. Len(alertTimes') \in Nat /\ Len(alertTimes') <= Len(alertTimes)
    BY <1>0, <2>6, HeadTailProperties
  <2> QED BY <1>0, <2>5, <2>7, FewerPass
<1>5. ASSUME NEW w \in Workers, Alerts!Cool(w) PROVE Alerts!SlotsBounded'
  <2>1. handler[w].at = "cooldown" /\ handler[w] # Alerts!Free /\ alertTimes' = alertTimes
    BY <1>5 DEF Alerts!Cool, Alerts!Free
  <2>2. Alerts!Goto(w, "record") \/ handler' = [handler EXCEPT ![w] = Alerts!Free]
    BY <1>5 DEF Alerts!Cool
  <2>3. \A v \in Workers \ {w} : handler'[v] = handler[v]
    BY <2>1, <2>2, Moves DEF Stations
  <2>4. Alerts!Passed' \subseteq Alerts!Passed
    BY <2>1, <2>3 DEF Alerts!Passed
  <2> QED BY <1>0, <2>1, <2>4, FewerPass
<1>6. ASSUME NEW w \in Workers, Alerts!Record(w) PROVE Alerts!SlotsBounded'
  <2>1. /\ handler[w].at = "record" /\ handler' = [handler EXCEPT ![w] = Alerts!Free]
        /\ alertTimes' = Append(alertTimes, tick) /\ tick \in Nat
    BY <1>6 DEF Alerts!Record, Alerts!TypeOK
  <2>2. Alerts!Passed' = Alerts!Passed \ {w} /\ w \in Alerts!Passed
    BY <1>0, <2>1 DEF Alerts!Passed, Alerts!Free
  <2>3. Cardinality(Alerts!Passed') = Cardinality(Alerts!Passed) - 1
    BY <2>2, PassedFinite, FS_RemoveElement
  <2>4. Len(alertTimes') = Len(alertTimes) + 1
    BY <1>0, <2>1, AppendProperties
  <2>5. PICK k \in Nat, n \in Nat, m \in Nat, j \in Nat :
          k = Len(alertTimes) /\ n = Cardinality(Alerts!Passed) /\ m = Cardinality(Workers)
             /\ j = MaxPerMinute
    BY <1>0, PassedFinite, AlertsAssumption
  <2>6. k + n <= j + m - 1
    BY <2>5, SameCount DEF Alerts!SlotsBounded
  <2>7. (k + 1) + (n - 1) <= j + m - 1
    BY <2>6
  <2> QED BY <2>3, <2>4, <2>5, <2>7, SameCount DEF Alerts!SlotsBounded
<1> QED BY <1>1, <1>2, <1>3, <1>4, <1>5, <1>6 DEF Alerts!Next, Tests

LEMMA DroppedNext == Alerts!TypeOK /\ Alerts!OldDropped /\ [Alerts!Next]_Alerts!vars
   => Alerts!OldDropped'
<1> SUFFICES ASSUME Alerts!TypeOK, Alerts!OldDropped, [Alerts!Next]_Alerts!vars, ~overpopped'
             PROVE  Alerts!OldDropped'
  BY DEF Alerts!OldDropped
<1>0. /\ alertTimes \in Seq(Nat) /\ history \in Seq(AlertEntries) /\ tick \in Nat
         /\ Minute \in Nat
      /\ Len(alertTimes) \in Nat /\ Len(history) \in Nat
  BY LenProperties, AlertsAssumption DEF Alerts!TypeOK, AlertEntries
<1>a. PICK n \in Nat, l \in Nat : n = Len(history) /\ l = Len(alertTimes)
  BY <1>0
<1>b. \A i \in 1..n : history[i].time \in Nat
  <2> SUFFICES ASSUME NEW i \in 1..n PROVE history[i].time \in Nat
    OBVIOUS
  <2>1. history[i] \in AlertEntries
    BY <1>0, <1>a
  <2> QED BY <2>1 DEF AlertEntries
<1>c. ASSUME ~overpopped
      PROVE  /\ l <= n /\ \A i \in 1..l : history[n - l + i].time = alertTimes[i]
             /\ \A i \in 1..(n - l) : history[i].time + Minute < tick
  BY <1>a, <1>c DEF Alerts!OldDropped
<1>1. CASE ~overpopped /\ UNCHANGED <<alertTimes, history>> /\ tick' \in {tick, tick + 1}
  <2>1. \A i \in 1..(n - l) : history[i].time + Minute < tick'
    <3> TAKE i \in 1..(n - l)
    <3>1. i \in 1..n
      BY <1>1, <1>c
    <3>2. PICK h \in Nat : h = history[i].time
      BY <1>b, <3>1
    <3>3. h + Minute < tick
      BY <1>1, <1>c, <3>2
    <3>4. h + Minute < tick'
      BY <1>0, <1>1, <3>3
    <3> QED BY <3>2, <3>4
  <2> QED BY <1>1, <1>a, <1>c, <2>1 DEF Alerts!OldDropped
<1>2. CASE Alerts!Tick \/ UNCHANGED Alerts!vars
  BY <1>1, <1>2 DEF Alerts!Tick, Alerts!vars
<1>3. ASSUME NEW w \in Workers, Tests(w) \/ Alerts!Cool(w)
         \/ \E c \in Classes : Alerts!Receive(w, c)
      PROVE  Alerts!OldDropped'
  BY <1>0, <1>1, <1>3, TestsMove DEF Alerts!Cool, Alerts!Receive
<1>4. ASSUME NEW w \in Workers, Alerts!Pop(w) PROVE Alerts!OldDropped'
  <2>1. UNCHANGED <<tick, history>>
    BY <1>4 DEF Alerts!Pop
  <2>2. CASE alertTimes = <<>>
    BY <1>1, <1>4, <2>1, <2>2 DEF Alerts!Pop
  <2>3. CASE alertTimes # <<>>
    <3>1. alertTimes' = Tail(alertTimes) /\ (overpopped' = (overpopped
             \/ Head(alertTimes) + Minute >= tick))
      BY <1>4, <2>3 DEF Alerts!Pop
    <3>2. ~overpopped /\ ~(Head(alertTimes) + Minute >= tick)
      BY <3>1
    <3>3. /\ l >= 1 /\ Head(alertTimes) = alertTimes[1] /\ alertTimes[1] \in Nat
          /\ Len(alertTimes') = l - 1
          /\ \A i \in 1..(l - 1) : alertTimes'[i] = alertTimes[i + 1]
      BY <1>0, <1>a, <2>3, <3>1, HeadTailProperties
    <3>4. /\ l <= n /\ \A i \in 1..l : history[n - l + i].time = alertTimes[i]
          /\ \A i \in 1..(n - l) : history[i].time + Minute < tick
      BY <1>c, <3>2
    <3>5. \A i \in 1..(l - 1) : history[n - (l - 1) + i].time = alertTimes'[i]
      <4> TAKE i \in 1..(l - 1)
      <4>1. i + 1 \in 1..l /\ n - l + (i + 1) = n - (l - 1) + i
        BY <3>3
      <4> QED BY <3>3, <3>4, <4>1
    <3>6. \A i \in 1..(n - (l - 1)) : history[i].time + Minute < tick
      <4> TAKE i \in 1..(n - (l - 1))
      <4>1. CASE i \in 1..(n - l)
        BY <3>4, <4>1
      <4>2. CASE i = n - l + 1
        <5>1. history[i].time = alertTimes[1]
          BY <3>3, <3>4, <4>2
        <5>2. alertTimes[1] + Minute < tick
          BY <1>0, <3>2, <3>3
        <5> QED BY <5>1, <5>2
      <4> QED BY <3>3, <3>4, <4>1, <4>2
    <3>7. l - 1 <= n
      BY <3>4
    <3> QED BY <1>a, <2>1, <3>3, <3>5, <3>6, <3>7 DEF Alerts!OldDropped
  <2> QED BY <2>2, <2>3
<1>5. ASSUME NEW w \in Workers, Alerts!Record(w) PROVE Alerts!OldDropped'
  <2>1. PICK e : e = [class |-> handler[w].class, time |-> tick]
    OBVIOUS
  <2>2. /\ alertTimes' = Append(alertTimes, tick) /\ history' = Append(history, e)
        /\ UNCHANGED <<tick, overpopped>>
    BY <1>5, <2>1 DEF Alerts!Record
  <2>3. /\ Len(alertTimes') = l + 1 /\ alertTimes'[l + 1] = tick
        /\ \A i \in 1..l : alertTimes'[i] = alertTimes[i]
    BY <1>0, <1>a, <2>2, AppendProperties
  <2>4. e \in AlertEntries
    <3>1. handler[w] \in BusyHandlers
      BY <1>5 DEF Alerts!TypeOK, Alerts!Record, Alerts!Free, BusyHandlers,
         Stations
    <3> QED BY <1>0, <2>1, <3>1 DEF BusyHandlers, AlertEntries
  <2>5. /\ Len(history') = n + 1 /\ history'[n + 1] = e
        /\ \A i \in 1..n : history'[i] = history[i]
    BY <1>0, <1>a, <2>2, <2>4, AppendProperties
  <2>6. /\ l <= n /\ \A i \in 1..l : history[n - l + i].time = alertTimes[i]
        /\ \A i \in 1..(n - l) : history[i].time + Minute < tick
    BY <1>c, <2>2
  <2>7. \A i \in 1..(l + 1) : history'[(n + 1) - (l + 1) + i].time = alertTimes'[i]
    <3> TAKE i \in 1..(l + 1)
    <3>1. CASE i \in 1..l
      <4>1. n - l + i \in 1..n /\ (n + 1) - (l + 1) + i = n - l + i
        BY <2>6, <3>1
      <4> QED BY <2>3, <2>5, <2>6, <3>1, <4>1
    <3>2. CASE i = l + 1
      <4>1. (n + 1) - (l + 1) + i = n + 1
        BY <3>2
      <4>2. e.time = tick
        BY <2>1
      <4> QED BY <2>3, <2>5, <3>2, <4>1, <4>2
    <3> QED BY <3>1, <3>2
  <2>8. \A i \in 1..((n + 1) - (l + 1)) : history'[i].time + Minute < tick
    <3> TAKE i \in 1..((n + 1) - (l + 1))
    <3>1. i \in 1..(n - l) /\ i \in 1..n
      OBVIOUS
    <3> QED BY <2>5, <2>6, <3>1
  <2>9. l + 1 <= n + 1
    BY <2>6
  <2> QED BY <2>2, <2>3, <2>5, <2>7, <2>8, <2>9 DEF Alerts!OldDropped
<1> QED BY <1>2, <1>3, <1>4, <1>5 DEF Alerts!Next, Tests

\* The numbers after d.
LEMMA NewNumbers ==
  ASSUME NEW d \in Nat, NEW n \in Nat, d <= n
  PROVE  IsFiniteSet((d + 1)..n) /\ Cardinality((d + 1)..n) = n - d
<1>1. d + 1 \in Int /\ n \in Int
  OBVIOUS
<1>2. /\ IsFiniteSet((d + 1)..n)
      /\ Cardinality((d + 1)..n) = IF d + 1 > n THEN 0 ELSE n - (d + 1) + 1
  BY <1>1, FS_Interval
<1>3. (IF d + 1 > n THEN 0 ELSE n - (d + 1) + 1) = n - d
  OBVIOUS
<1> QED BY <1>2, <1>3

\* The alerts of the last minute are all in _alert_times.
LEMMA MinuteInTimes == Alerts!TypeOK /\ Alerts!OldDropped /\ Alerts!SlotsBounded
   => Alerts!MinuteBounded
<1> SUFFICES ASSUME Alerts!TypeOK, Alerts!OldDropped, Alerts!SlotsBounded, ~overpopped
             PROVE  Cardinality({i \in DOMAIN history : history[i].time + Minute >= tick})
                      <= MaxPerMinute + Cardinality(Workers) - 1
  BY SameCount DEF Alerts!MinuteBounded
<1>1. PICK R : R = {i \in DOMAIN history : history[i].time + Minute >= tick}
  OBVIOUS
<1>2. /\ alertTimes \in Seq(Nat) /\ history \in Seq(AlertEntries) /\ tick \in Nat
         /\ Minute \in Nat
  BY AlertsAssumption DEF Alerts!TypeOK, AlertEntries
<1>3. PICK n \in Nat, l \in Nat : n = Len(history) /\ l = Len(alertTimes) /\ DOMAIN history = 1..n
  BY <1>2, LenProperties
<1>4. l <= n /\ \A i \in 1..(n - l) : history[i].time + Minute < tick
  BY <1>3 DEF Alerts!OldDropped
<1>5. PICK d \in Nat : d = n - l
  BY <1>4
<1>6. R \subseteq (d + 1)..n
  <2> SUFFICES ASSUME NEW i \in R, i \notin (d + 1)..n PROVE FALSE
    OBVIOUS
  <2>1. i \in 1..n /\ history[i].time + Minute >= tick
    BY <1>1, <1>3
  <2>2. i \in 1..d
    BY <2>1
  <2>3. history[i] \in AlertEntries
    BY <1>2, <1>3, <2>1
  <2>4. history[i].time \in Nat /\ history[i].time + Minute < tick
    BY <1>4, <1>5, <2>2, <2>3 DEF AlertEntries
  <2> QED BY <1>2, <2>1, <2>4
<1>7. Cardinality((d + 1)..n) = l /\ IsFiniteSet((d + 1)..n)
  <2>1. d <= n /\ n - d = l
    BY <1>4, <1>5
  <2>2. Cardinality((d + 1)..n) = n - d /\ IsFiniteSet((d + 1)..n)
    BY <2>1, NewNumbers
  <2> QED BY <2>1, <2>2
<1>8. Cardinality(R) <= l /\ Cardinality(R) \in Nat
  BY <1>6, <1>7, FS_Subset, FS_CardinalityType
<1>9. PICK m \in Nat, k \in Nat, j \in Nat, r \in Nat :
        m = Cardinality(Workers) /\ k = Cardinality(Alerts!Passed) /\ j = MaxPerMinute
           /\ r = Cardinality(R)
  BY <1>8, PassedFinite, AlertsAssumption
<1>10. l + k <= j + m - 1
  BY <1>3, <1>9, SameCount DEF Alerts!SlotsBounded
<1>11. r <= j + m - 1
  BY <1>8, <1>9, <1>10
<1> QED BY <1>1, <1>9, <1>11

-----------------------------------------------------------------------------
(* The cooldown of a class *)

LEMMA LastNext == Alerts!TypeOK /\ Alerts!LastIsLast /\ [Alerts!Next]_Alerts!vars
   => Alerts!LastIsLast'
<1> SUFFICES ASSUME Alerts!TypeOK, Alerts!LastIsLast, [Alerts!Next]_Alerts!vars
             PROVE  Alerts!LastIsLast'
  OBVIOUS
<1>1. CASE UNCHANGED <<lastAlert, history>>
  BY <1>1 DEF Alerts!LastIsLast
<1>2. ASSUME NEW w \in Workers, Alerts!Record(w) PROVE Alerts!LastIsLast'
  <2>1. PICK c \in Classes : c = handler[w].class
    BY <1>2 DEF Alerts!TypeOK, Alerts!Record, Alerts!Free
  <2>2. PICK e : e = [class |-> c, time |-> tick]
    OBVIOUS
  <2>3. /\ lastAlert' = [lastAlert EXCEPT ![c] = tick + 1] /\ history' = Append(history, e)
    BY <1>2, <2>1, <2>2 DEF Alerts!Record
  <2>4. /\ history \in Seq(AlertEntries) /\ tick \in Nat /\ e \in AlertEntries
        /\ lastAlert \in [Classes -> Nat]
    BY <2>2 DEF Alerts!TypeOK, AlertEntries
  <2>5. PICK n \in Nat : n = Len(history)
    BY <2>4, LenProperties
  <2>6. /\ Len(history') = n + 1 /\ history'[n + 1] = e
        /\ \A i \in 1..n : history'[i] = history[i]
    BY <2>3, <2>4, <2>5, AppendProperties
  <2>7. ASSUME NEW i \in 1..(n + 1) PROVE history'[i].time < lastAlert'[history'[i].class]
    <3>1. CASE i = n + 1
      <4>1. e.time = tick /\ e.class = c /\ lastAlert'[c] = tick + 1
        BY <2>2, <2>3, <2>4
      <4> QED BY <2>4, <2>6, <3>1, <4>1
    <3>2. CASE i \in 1..n
      <4>1. PICK h \in AlertEntries : h = history[i]
        BY <2>4, <2>5, <3>2
      <4>2. h.class \in Classes /\ h.time \in Nat /\ h.time <= tick /\ h.time < lastAlert[h.class]
        BY <2>5, <3>2, <4>1 DEF AlertEntries, Alerts!TypeOK, Alerts!LastIsLast
      <4>3. lastAlert'[h.class] = tick + 1 \/ lastAlert'[h.class] = lastAlert[h.class]
        BY <2>3, <2>4, <4>2
      <4>4. h.time < lastAlert'[h.class]
        BY <2>4, <4>2, <4>3
      <4> QED BY <2>6, <3>2, <4>1, <4>4
    <3> QED BY <3>1, <3>2
  <2> QED BY <2>6, <2>7 DEF Alerts!LastIsLast
<1> QED BY <1>1, <1>2 DEF Alerts!Next, Alerts!Tick, Alerts!Receive, Alerts!Rate, Alerts!Look,
           Alerts!CountTimes, Alerts!Pop, Alerts!Cool, Alerts!vars

\* What was spaced stays spaced while the history grows and the clock goes on.
LEMMA StaysCooled ==
  ASSUME Alerts!TypeOK, Alerts!Cooled, [Alerts!Next]_Alerts!vars, NEW w \in Workers,
         handler[w].at = "record", handler'[w].at = "record", handler'[w].class = handler[w].class
  PROVE  \A i \in 1..beganAt'[w] :
           history'[i].class = handler'[w].class => tick' - history'[i].time >= Cooldown
<1>1. beganAt'[w] = beganAt[w]
  <2>1. CASE beganAt' = beganAt
    BY <2>1
  <2>2. ASSUME NEW v \in Workers, NEW c \in Classes, Alerts!Receive(v, c)
        PROVE  beganAt'[w] = beganAt[w]
    <3>1. v # w /\ beganAt' = [beganAt EXCEPT ![v] = Len(history)]
      BY <2>2 DEF Alerts!Receive, Alerts!Free
    <3> QED BY <3>1 DEF Alerts!TypeOK
  <2> QED BY <2>1, <2>2 DEF Alerts!Next, Alerts!Tick, Alerts!Rate, Alerts!Look,
             Alerts!CountTimes, Alerts!Pop, Alerts!Cool, Alerts!Record, Alerts!vars
<1>2. tick' \in {tick, tick + 1} /\ tick \in Nat /\ Cooldown \in Nat
  BY AlertsAssumption DEF Alerts!TypeOK, Alerts!Next, Alerts!Tick, Alerts!Receive,
     Alerts!Rate, Alerts!Look, Alerts!CountTimes, Alerts!Pop, Alerts!Cool, Alerts!Record, Alerts!vars
<1>3. history \in Seq(AlertEntries) /\ beganAt[w] \in Nat /\ beganAt[w] <= Len(history)
  BY DEF Alerts!TypeOK, AlertEntries
<1>4. \A i \in 1..Len(history) : history'[i] = history[i]
  <2>1. CASE history' = history
    BY <2>1
  <2>2. ASSUME NEW v \in Workers, Alerts!Record(v)
        PROVE  \A i \in 1..Len(history) : history'[i] = history[i]
    <3>1. PICK e : e = [class |-> handler[v].class, time |-> tick]
      OBVIOUS
    <3>2. e \in AlertEntries /\ history' = Append(history, e)
      BY <2>2, <3>1 DEF AlertEntries, Alerts!TypeOK, Alerts!Record, Alerts!Free
    <3> QED BY <1>3, <3>2, AppendProperties
  <2> QED BY <2>1, <2>2 DEF Alerts!Next, Alerts!Tick, Alerts!Receive, Alerts!Rate, Alerts!Look,
             Alerts!CountTimes, Alerts!Pop, Alerts!Cool, Alerts!vars
<1> TAKE i \in 1..beganAt'[w]
<1>5. i \in 1..Len(history) /\ i \in 1..beganAt[w]
  BY <1>1, <1>3, LenProperties
<1>6. PICK h \in AlertEntries : h = history[i]
  BY <1>3, <1>5
<1>7. h.time \in Nat /\ (h.class = handler[w].class => tick - h.time >= Cooldown)
  BY <1>5, <1>6 DEF Alerts!Cooled, AlertEntries
<1>8. h.class = handler[w].class => tick' - h.time >= Cooldown
  BY <1>2, <1>7
<1> QED BY <1>4, <1>5, <1>6, <1>8

LEMMA CooledNext == Alerts!TypeOK /\ Alerts!LastIsLast /\ Alerts!Cooled
   /\ [Alerts!Next]_Alerts!vars => Alerts!Cooled'
<1> SUFFICES ASSUME Alerts!TypeOK, Alerts!LastIsLast, Alerts!Cooled, [Alerts!Next]_Alerts!vars,
                    NEW w \in Workers, (handler[w].at = "record")'
             PROVE  \A i \in 1..beganAt'[w] :
                      history'[i].class = handler'[w].class
                         => tick' - history'[i].time >= Cooldown
  BY DEF Alerts!Cooled
<1>1. CASE handler'[w] = handler[w]
  BY <1>1, StaysCooled
<1>2. ASSUME NEW v \in Workers, Tests(v) \/ Alerts!Pop(v) \/ Alerts!Record(v)
      PROVE  handler'[w] = handler[w]
  <2>1. handler[v] # Alerts!Free
    BY <1>2, TestsMove DEF Alerts!Pop, Alerts!Record, Alerts!Free
  <2>2. PICK to \in Stations \ {"record"} :
          Alerts!Goto(v, to) \/ handler' = [handler EXCEPT ![v] = Alerts!Free]
    BY <1>2, TestsMove DEF Alerts!Pop, Alerts!Record, Stations
  <2>3. \A u \in Workers \ {v} : handler'[u] = handler[u]
    BY <2>1, <2>2, Moves
  <2>4. handler'[v] = Alerts!Free \/ handler'[v].at = to
    BY <2>1, <2>2, Moves
  <2> QED BY <2>3, <2>4 DEF Alerts!Free
<1>3. ASSUME NEW v \in Workers, NEW c \in Classes, Alerts!Receive(v, c)
      PROVE  handler'[w] = handler[w]
  <2>1. DOMAIN handler = Workers
    BY DEF Alerts!TypeOK
  <2>2. v # w => handler'[w] = handler[w]
    BY <1>3, <2>1 DEF Alerts!Receive
  <2>3. v = w => handler'[w].at # "record"
    BY <1>3, <2>1 DEF Alerts!Receive
  <2> QED BY <2>2, <2>3
<1>4. ASSUME NEW v \in Workers, Alerts!Cool(v), handler'[w] # handler[w]
      PROVE  \A i \in 1..beganAt'[w] :
               history'[i].class = handler'[w].class => tick' - history'[i].time >= Cooldown
  <2>1. handler[v].at = "cooldown" /\ handler[v] # Alerts!Free
        /\ UNCHANGED <<tick, lastAlert, history, beganAt>>
    BY <1>4 DEF Alerts!Cool, Alerts!Free
  <2>2. Alerts!Goto(v, "record") \/ handler' = [handler EXCEPT ![v] = Alerts!Free]
    BY <1>4 DEF Alerts!Cool
  <2>3. v = w
    BY <1>4, <2>1, <2>2, Moves DEF Stations
  <2>4. ~Alerts!OnCooldown(handler[w].class) /\ handler'[w].class = handler[w].class
    <3>1. handler' # [handler EXCEPT ![v] = Alerts!Free]
      BY <2>3 DEF Alerts!TypeOK, Alerts!Free
    <3>2. ~Alerts!OnCooldown(handler[w].class)
      BY <1>4, <2>3, <3>1 DEF Alerts!Cool
    <3>3. handler'[w].class = handler[w].class
      BY <2>1, <2>2, <2>3, <3>1, Moves DEF Alerts!Free, Stations
    <3> QED BY <3>2, <3>3
  <2>5. /\ history \in Seq(AlertEntries) /\ beganAt[w] \in Nat /\ beganAt[w] <= Len(history)
        /\ tick \in Nat /\ Cooldown \in Nat /\ lastAlert \in [Classes -> Nat]
    BY AlertsAssumption DEF Alerts!TypeOK, AlertEntries
  <2> TAKE i \in 1..beganAt'[w]
  <2>6. i \in 1..Len(history)
    BY <2>1, <2>5, LenProperties
  <2>7. PICK h \in AlertEntries : h = history[i]
    BY <2>5, <2>6
  <2>8. /\ h.time \in Nat /\ h.class \in Classes
        /\ h.time <= tick /\ h.time < lastAlert[h.class]
    BY <2>6, <2>7 DEF AlertEntries, Alerts!TypeOK, Alerts!LastIsLast
  <2>9. PICK l \in Nat, t \in Nat : l = lastAlert[h.class] /\ t = h.time
    BY <2>5, <2>8
  <2>10. h.class = handler[w].class => tick - t >= Cooldown
    <3> SUFFICES ASSUME h.class = handler[w].class PROVE tick - t >= Cooldown
      OBVIOUS
    <3>1. ~(Cooldown > 0 /\ l # 0 /\ tick - (l - 1) < Cooldown)
      BY <2>4, <2>9 DEF Alerts!OnCooldown
    <3> QED BY <2>5, <2>8, <2>9, <3>1
  <2> QED BY <2>1, <2>4, <2>7, <2>9, <2>10
<1>5. CASE Alerts!Tick \/ UNCHANGED Alerts!vars
  BY <1>1, <1>5 DEF Alerts!Tick, Alerts!vars
<1> QED BY <1>1, <1>2, <1>3, <1>4, <1>5 DEF Alerts!Next, Tests

-----------------------------------------------------------------------------
LEMMA AlertsInit == Alerts!Init => Alerts!IInv
<1> SUFFICES ASSUME Alerts!Init PROVE Alerts!IInv
  OBVIOUS
<1>1. Alerts!TypeOK
  <2>1. /\ tick = 0 /\ alertTimes = <<>> /\ lastAlert = [c \in Classes |-> 0]
        /\ handler = [w \in Workers |-> Alerts!Free] /\ history = <<>>
        /\ beganAt = [w \in Workers |-> 0] /\ overpopped = FALSE
    BY DEF Alerts!Init
  <2>2. /\ \A i \in 1..Len(history) : history[i].time <= tick
        /\ \A w \in Workers : beganAt[w] <= Len(history)
    BY <2>1
  <2>3. overpopped \in BOOLEAN
    BY Zenon, <2>1
  <2>4. lastAlert \in [Classes -> Nat] /\ beganAt \in [Workers -> Nat] /\ tick \in Nat
    BY <2>1
  <2>5. alertTimes \in Seq(Nat) /\ history \in Seq(AlertEntries)
    BY <2>1
  <2>6. DOMAIN handler = Workers /\ \A w \in Workers : handler[w] = Alerts!Free
    BY <2>1
  <2> QED BY <2>2, <2>3, <2>4, <2>5, <2>6 DEF Alerts!TypeOK, AlertEntries
<1>2. Alerts!OldDropped
  BY DEF Alerts!Init, Alerts!OldDropped
<1>3. Alerts!SlotsBounded
  <2>1. Alerts!Passed = {} /\ Len(alertTimes) = 0
    BY DEF Alerts!Init, Alerts!Passed, Alerts!Free
  <2>2. Cardinality(Alerts!Passed) = 0
    BY <2>1, FS_EmptySet
  <2> QED BY <2>1, <2>2, PassedFinite, AlertsAssumption, SameCount DEF Alerts!SlotsBounded
<1>4. Alerts!LastIsLast
  BY DEF Alerts!Init, Alerts!LastIsLast
<1>5. Alerts!Cooled
  BY DEF Alerts!Init, Alerts!Cooled, Alerts!Free
<1> QED BY <1>1, <1>2, <1>3, <1>4, <1>5 DEF Alerts!IInv

LEMMA AlertsNext == Alerts!IInv /\ [Alerts!Next]_Alerts!vars => Alerts!IInv'
BY AlertTypesNext, DroppedNext, SlotsNext, LastNext, CooledNext DEF Alerts!IInv

\* Only a worker that is about to record an alert records one.
LEMMA RecordsSpaced ==
  ASSUME Alerts!IInv, [Alerts!Next]_Alerts!vars, NEW w \in Workers,
         history' # history, handler[w].at = "record", handler'[w] = Alerts!Free
  PROVE  \A i \in 1..beganAt[w] :
           history[i].class = handler[w].class => tick - history[i].time >= Cooldown
BY DEF Alerts!IInv, Alerts!Cooled

\* While another component is at work, the notifier rests.
LEMMA AlertsStep == [ComponentNext]_componentVars => [Alerts!Next]_Alerts!vars
BY DEF ComponentNext, componentVars, alertVars, Alerts!vars

LEMMA AlertsInductive == ComponentSpec => []Alerts!IInv
<1>1. ComponentInit => Alerts!IInv
  BY AlertsInit DEF ComponentInit
<1>2. Alerts!IInv /\ [ComponentNext]_componentVars => Alerts!IInv'
  BY AlertsStep, AlertsNext
<1> QED BY <1>1, <1>2, PTL DEF ComponentSpec

\* However many workers handle_event() runs on at once, no minute has more alerts than
\* max_per_minute and one for each worker but one, unless a popleft() took a time that
\* another worker had looked at.
THEOREM MinutesBounded == ComponentSpec => []MinuteBounded
<1>1. Alerts!IInv => MinuteBounded
  BY MinuteInTimes DEF Alerts!IInv, MinuteBounded
<1> QED BY <1>1, AlertsInductive, PTL

\* An alert of a class follows another within the cooldown only if handle_event() had
\* begun with it when the other was recorded.
THEOREM RepeatsAreOverlaps == ComponentSpec => RepeatsOverlap
<1>1. Alerts!IInv /\ [ComponentNext]_componentVars =>
        [\A w \in Workers :
           history' # history /\ handler[w].at = "record" /\ handler'[w] = Alerts!Free =>
             \A i \in 1..beganAt[w] :
               history[i].class = handler[w].class => tick - history[i].time >= Cooldown]_Alerts!vars
  BY AlertsStep, RecordsSpaced
<1>2. RepeatsOverlap <=>
        [][\A w \in Workers :
             history' # history /\ handler[w].at = "record" /\ handler'[w] = Alerts!Free =>
               \A i \in 1..beganAt[w] :
                 history[i].class = handler[w].class => tick - history[i].time >= Cooldown]_Alerts!vars
  BY DEF RepeatsOverlap, Alerts!RepeatsOverlap
<1> QED BY <1>1, <1>2, AlertsInductive, PTL DEF ComponentSpec

-----------------------------------------------------------------------------
(* The auto responder *)

\* What a response can be told of one of its actions.
Undos == {"", "resume_process", "rule_name"}

ResponseOutcomes == [action : Response!Actions, success : BOOLEAN, undo : Undos]

\* A response was given a result.
Gives(t, r) ==
  /\ response[t] = "acting" /\ results' = [results EXCEPT ![t] = Append(results[t], r)]
  /\ UNCHANGED <<mode, onWindows, threat, response, status, recorded>>

LEMMA AnswersGive ==
  ASSUME NEW t \in Threats, NEW a \in Response!Actions, NEW undo \in Undos, Response!TypeOK
  PROVE  /\ Response!Answers(t, a, TRUE, undo) =>
              \E r \in ResponseOutcomes : Gives(t, r) /\ r.undo = undo
         /\ Response!Answers(t, a, FALSE, undo) =>
              \E r \in ResponseOutcomes : Gives(t, r) /\ r.undo = undo
<1>1. /\ Response!Result(a, TRUE, undo) \in ResponseOutcomes
      /\ Response!Result(a, TRUE, undo).undo = undo
      /\ Response!Result(a, FALSE, undo) \in ResponseOutcomes
      /\ Response!Result(a, FALSE, undo).undo = undo
  BY DEF Response!Result, ResponseOutcomes
<1>2. /\ Response!Answers(t, a, TRUE, undo) => Gives(t, Response!Result(a, TRUE, undo))
      /\ Response!Answers(t, a, FALSE, undo) => Gives(t, Response!Result(a, FALSE, undo))
  BY DEF Response!Answers, Gives, Response!TypeOK
<1> QED BY <1>1, <1>2

\* It was added to the others.
LEMMA GivesEffect ==
  ASSUME Response!TypeOK, NEW t \in Threats, NEW r \in ResponseOutcomes, Gives(t, r)
  PROVE  /\ results' \in [Threats -> Seq(ResponseOutcomes)] /\ response[t] = "acting"
         /\ \A u \in Threats : Response!Resumable(results[u]) => Response!Resumable(results'[u])
         /\ r.undo = "resume_process" => Response!Resumable(results'[t])
         /\ UNCHANGED <<mode, onWindows, threat, response, status, recorded>>
<1>1. PICK s \in Seq(ResponseOutcomes) : s = results[t]
  BY DEF Response!TypeOK, ResponseOutcomes, Undos
<1>2. PICK n \in Nat : n = Len(s) /\ DOMAIN s = 1..n
  BY LenProperties
<1>3. PICK q \in Seq(ResponseOutcomes) : q = Append(s, r)
  BY AppendProperties
<1>4. /\ DOMAIN q = 1..(n + 1) /\ q[n + 1] = r
      /\ \A i \in 1..n : q[i] = s[i]
  BY <1>2, <1>3, AppendProperties, LenProperties
<1>5. /\ results' = [results EXCEPT ![t] = q] /\ response[t] = "acting"
      /\ UNCHANGED <<mode, onWindows, threat, response, status, recorded>>
  BY <1>1, <1>3 DEF Gives
<1>6. results \in [Threats -> Seq(ResponseOutcomes)]
  BY DEF Response!TypeOK, ResponseOutcomes, Undos
<1>7. Response!Resumable(s) => Response!Resumable(q)
  <2> SUFFICES ASSUME NEW i \in 1..n, s[i].undo = "resume_process" PROVE Response!Resumable(q)
    BY <1>2 DEF Response!Resumable
  <2>1. i \in DOMAIN q /\ q[i] = s[i]
    BY <1>4
  <2> QED BY <2>1 DEF Response!Resumable
<1>8. r.undo = "resume_process" => Response!Resumable(q)
  <2>1. n + 1 \in DOMAIN q
    BY <1>4
  <2> QED BY <1>4, <2>1 DEF Response!Resumable
<1>9. results'[t] = q /\ \A u \in Threats \ {t} : results'[u] = results[u]
  BY <1>5, <1>6
<1>10. results' \in [Threats -> Seq(ResponseOutcomes)]
  BY <1>5, <1>6
<1>11. \A u \in Threats : Response!Resumable(results[u]) => Response!Resumable(results'[u])
  BY <1>1, <1>7, <1>9
<1> QED BY <1>5, <1>8, <1>9, <1>10, <1>11

\* Which action it was, and what it did to the processes.
LEMMA ActsEffect ==
  ASSUME Response!TypeOK, NEW t \in Threats,
         \/ Response!Suspend(t) \/ Response!Kill(t) \/ Response!BlockProcessNetwork(t)
         \/ Response!CollectForensics(t) \/ Response!AlertUser(t) \/ Response!ActionFails(t)
  PROVE  \E r \in ResponseOutcomes :
           /\ Gives(t, r)
           /\ rules' \subseteq Pids
           /\ proc' \in [Pids -> [nr : Nat, state : {"running", "suspended", "gone"}]]
           /\ \A p \in Pids : proc'[p].state = "suspended" =>
                proc[p].state = "suspended" \/ (p = threat[t].pid /\ r.undo = "resume_process")
<1>0. /\ proc \in [Pids -> [nr : Nat, state : {"running", "suspended", "gone"}]]
      /\ rules \subseteq Pids
  BY DEF Response!TypeOK
<1>a. ASSUME NEW a \in Response!Actions, NEW undo \in Undos,
             Response!Answers(t, a, TRUE, undo) \/ Response!Answers(t, a, FALSE, undo)
      PROVE  \E r \in ResponseOutcomes : Gives(t, r) /\ r.undo = undo
  BY <1>a, AnswersGive
<1>1. CASE Response!Suspend(t)
  <2>1. CASE /\ Response!There(t) /\ Response!Answers(t, "suspend", TRUE, "resume_process")
             /\ proc' = [proc EXCEPT ![threat[t].pid].state = "suspended"] /\ rules' = rules
    <3>1. /\ proc' \in [Pids -> [nr : Nat, state : {"running", "suspended", "gone"}]]
          /\ \A p \in Pids : proc'[p].state = "suspended" =>
               proc[p].state = "suspended" \/ p = threat[t].pid
      BY <1>0, <2>1 DEF Response!There, Response!Named
    <3>2. \E r \in ResponseOutcomes : Gives(t, r) /\ r.undo = "resume_process"
      BY <1>a, <2>1 DEF Response!Actions, Undos
    <3> QED BY <1>0, <2>1, <3>1, <3>2
  <2>2. CASE Response!Answers(t, "suspend", TRUE, "") /\ UNCHANGED <<proc, rules>>
    <3>1. \E r \in ResponseOutcomes : Gives(t, r)
      BY <1>a, <2>2 DEF Response!Actions, Undos
    <3> QED BY <1>0, <2>2, <3>1
  <2> QED BY <1>1, <2>1, <2>2 DEF Response!Suspend
<1>2. CASE Response!Kill(t)
  <2>1. /\ proc' \in [Pids -> [nr : Nat, state : {"running", "suspended", "gone"}]]
        /\ \A p \in Pids : proc'[p].state = "suspended" => proc[p].state = "suspended"
    BY <1>0, <1>2 DEF Response!Kill, Response!There, Response!Named
  <2>2. \E r \in ResponseOutcomes : Gives(t, r)
    BY <1>a, <1>2 DEF Response!Kill, Response!Actions, Undos
  <2> QED BY <1>0, <1>2, <2>1, <2>2 DEF Response!Kill
<1>3. CASE Response!BlockProcessNetwork(t)
  <2>1. \E r \in ResponseOutcomes : Gives(t, r)
    <3>1. PICK undo \in {"", "rule_name"} : Response!Answers(t, "block_network", TRUE, undo)
      BY <1>3 DEF Response!BlockProcessNetwork
    <3> QED BY <1>a, <3>1 DEF Response!Actions, Undos
  <2>2. proc' = proc /\ rules' \subseteq Pids
    BY <1>0, <1>3 DEF Response!BlockProcessNetwork, Response!There, Response!Named
  <2> QED BY <1>0, <2>1, <2>2
<1>4. CASE Response!CollectForensics(t) \/ Response!AlertUser(t)
  <2>1. \E r \in ResponseOutcomes : Gives(t, r)
    BY <1>a, <1>4 DEF Response!CollectForensics, Response!AlertUser, Response!Actions,
           Undos
  <2> QED BY <1>0, <1>4, <2>1 DEF Response!CollectForensics, Response!AlertUser
<1>5. CASE Response!ActionFails(t)
  <2>1. \E r \in ResponseOutcomes : Gives(t, r)
    <3>1. PICK a \in Response!Actions, undo \in {"", "rule_name"} :
                 Response!Answers(t, a, FALSE, undo)
      BY <1>5 DEF Response!ActionFails, Response!Actions
    <3> QED BY <1>a, <3>1 DEF Undos
  <2>2. UNCHANGED <<proc, rules>>
    BY <1>5 DEF Response!ActionFails
  <2> QED BY <1>0, <2>1, <2>2
<1> QED BY <1>1, <1>2, <1>3, <1>4, <1>5

\* A step in which no process is suspended and nothing that was said is taken back.
LEMMA KeepsKnown ==
  ASSUME Response!SuspensionKnown, threat' = threat,
         \A p \in Pids : proc'[p].state = "suspended" => proc[p].state = "suspended",
         \A t \in Threats : Response!Resumable(recorded[t]) => Response!Resumable(recorded'[t]),
         \A t \in Threats : response[t] = "acting" /\ Response!Resumable(results[t]) =>
           \/ Response!Resumable(recorded'[t])
           \/ response'[t] = "acting" /\ Response!Resumable(results'[t])
  PROVE  Response!SuspensionKnown'
BY DEF Response!SuspensionKnown

\* What rollback_action(), the system and the end of a process do to the processes.
LEMMA ResponseInvNext == Response!IInv /\ [Response!Next]_Response!vars => Response!IInv'
<1> SUFFICES ASSUME Response!IInv, [Response!Next]_Response!vars PROVE Response!IInv'
  OBVIOUS
<1>0. Response!TypeOK /\ Response!RecordedAtTheEnd /\ Response!SuspensionKnown
  BY DEF Response!IInv
<1>a. /\ proc \in [Pids -> [nr : Nat, state : {"running", "suspended", "gone"}]]
      /\ response \in [Threats -> {"new", "confirming", "acting", "over"}]
      /\ status \in [Threats -> {"none", "executing", "cancelled", "executed", "failed"}]
      /\ results \in [Threats -> Seq(ResponseOutcomes)]
         /\ recorded \in [Threats -> Seq(ResponseOutcomes)]
      /\ threat \in [Threats -> Response!ThreatRecords]
  BY <1>0 DEF Response!TypeOK, ResponseOutcomes, Undos
<1>1. ASSUME UNCHANGED <<mode, onWindows, threat, rules, response, status, results, recorded>>,
             proc' \in [Pids -> [nr : Nat, state : {"running", "suspended", "gone"}]],
             \A p \in Pids : proc'[p].state = "suspended" => proc[p].state = "suspended"
      PROVE  Response!IInv'
  <2>1. Response!TypeOK'
    BY <1>0, <1>1 DEF Response!TypeOK
  <2>2. Response!RecordedAtTheEnd' /\ Response!SuspensionKnown'
    BY <1>0, <1>1 DEF Response!RecordedAtTheEnd, Response!SuspensionKnown
  <2> QED BY <2>1, <2>2 DEF Response!IInv
<1>2. ASSUME NEW p \in Pids, Response!Exit(p) \/ Response!Reuse(p) PROVE Response!IInv'
  <2>1. /\ proc' \in [Pids -> [nr : Nat, state : {"running", "suspended", "gone"}]]
        /\ \A q \in Pids : proc'[q].state = "suspended" => proc[q].state = "suspended"
    <3>1. CASE Response!Exit(p)
      BY <1>a, <3>1 DEF Response!Exit
    <3>2. CASE Response!Reuse(p)
      <4>1. PICK n \in Nat : n = proc[p].nr
        BY <1>a
      <4>2. proc' = [proc EXCEPT ![p] = [nr |-> n + 1, state |-> "running"]]
        BY <3>2, <4>1 DEF Response!Reuse
      <4> QED BY <1>a, <4>2
    <3> QED BY <1>2, <3>1, <3>2
  <2> QED BY <1>1, <1>2, <2>1 DEF Response!Exit, Response!Reuse
<1>3. ASSUME NEW t \in Threats, NEW i \in 1..3, Response!RollBack(t, i) PROVE Response!IInv'
  <2>1. /\ proc' \in [Pids -> [nr : Nat, state : {"running", "suspended", "gone"}]]
        /\ \A q \in Pids : proc'[q].state = "suspended" => proc[q].state = "suspended"
    BY <1>a, <1>3 DEF Response!RollBack
  <2> QED BY <1>1, <1>3, <2>1 DEF Response!RollBack
<1>4. ASSUME NEW t \in Threats, Response!Begin(t) \/ Response!Approve(t) \/ Response!Cancel(t)
      PROVE  Response!IInv'
  <2>1. UNCHANGED <<mode, onWindows, threat, proc, rules, results, recorded>>
    BY <1>4 DEF Response!Begin, Response!Approve, Response!Cancel
  <2>2. /\ response' \in [Threats -> {"new", "confirming", "acting", "over"}]
        /\ status' \in [Threats -> {"none", "executing", "cancelled", "executed", "failed"}]
    BY <1>a, <1>4 DEF Response!Begin, Response!Approve, Response!Cancel
  <2>3. /\ response[t] \in {"new", "confirming"}
        /\ \A u \in Threats \ {t} : response'[u] = response[u]
    BY <1>a, <1>4 DEF Response!Begin, Response!Approve, Response!Cancel
  <2>4. Response!TypeOK'
    BY <1>0, <2>1, <2>2 DEF Response!TypeOK
  <2>5. Response!RecordedAtTheEnd'
    BY <1>0, <2>1, <2>3 DEF Response!RecordedAtTheEnd
  <2>6. Response!SuspensionKnown'
    BY <1>0, <2>1, <2>3, KeepsKnown
  <2> QED BY <2>4, <2>5, <2>6 DEF Response!IInv
<1>5. ASSUME NEW t \in Threats, Response!Finish(t) PROVE Response!IInv'
  <2>1. /\ response[t] = "acting" /\ response' = [response EXCEPT ![t] = "over"]
        /\ recorded' = [recorded EXCEPT ![t] = results[t]]
        /\ status' = [status EXCEPT ![t] = Response!Outcome(results[t])]
        /\ UNCHANGED <<mode, onWindows, threat, proc, rules, results>>
    BY <1>5 DEF Response!Finish, Response!Records
  <2>2. Response!Outcome(results[t]) \in {"executed", "failed"}
    BY DEF Response!Outcome
  <2>3. Response!TypeOK'
    BY <1>0, <2>1, <2>2 DEF Response!TypeOK
  <2>4. Response!RecordedAtTheEnd'
    BY <1>0, <1>a, <2>1 DEF Response!RecordedAtTheEnd
  <2>5. ~Response!Resumable(recorded[t])
    BY <1>0, <2>1 DEF Response!RecordedAtTheEnd, Response!Resumable
  <2>6. Response!SuspensionKnown'
    BY <1>0, <1>a, <2>1, <2>5, KeepsKnown
  <2> QED BY <2>3, <2>4, <2>6 DEF Response!IInv
<1>6. ASSUME NEW t \in Threats,
             \/ Response!Suspend(t) \/ Response!Kill(t) \/ Response!BlockProcessNetwork(t)
             \/ Response!CollectForensics(t) \/ Response!AlertUser(t) \/ Response!ActionFails(t)
      PROVE  Response!IInv'
  <2>1. PICK r \in ResponseOutcomes :
           /\ Gives(t, r)
           /\ rules' \subseteq Pids
           /\ proc' \in [Pids -> [nr : Nat, state : {"running", "suspended", "gone"}]]
           /\ \A p \in Pids : proc'[p].state = "suspended" =>
                proc[p].state = "suspended" \/ (p = threat[t].pid /\ r.undo = "resume_process")
    BY <1>0, <1>6, ActsEffect
  <2>2. /\ results' \in [Threats -> Seq(ResponseOutcomes)] /\ response[t] = "acting"
        /\ \A u \in Threats : Response!Resumable(results[u]) => Response!Resumable(results'[u])
        /\ r.undo = "resume_process" => Response!Resumable(results'[t])
        /\ UNCHANGED <<mode, onWindows, threat, response, status, recorded>>
    BY <1>0, <2>1, GivesEffect
  <2>3. Response!TypeOK'
    BY <1>0, <2>1, <2>2 DEF Response!TypeOK, ResponseOutcomes, Undos
  <2>4. Response!RecordedAtTheEnd'
    BY <1>0, <2>2 DEF Response!RecordedAtTheEnd
  <2>5. Response!SuspensionKnown'
    <3> SUFFICES ASSUME NEW p \in Pids, proc'[p].state = "suspended"
                 PROVE  \E u \in Threats :
                          /\ threat'[u].pid = p
                          /\ \/ Response!Resumable(recorded'[u])
                             \/ response'[u] = "acting" /\ Response!Resumable(results'[u])
      BY DEF Response!SuspensionKnown
    <3>1. CASE proc[p].state = "suspended"
      BY <1>0, <2>2, <3>1 DEF Response!SuspensionKnown
    <3>2. CASE p = threat[t].pid /\ r.undo = "resume_process"
      BY <2>2, <3>2
    <3> QED BY <2>1, <3>1, <3>2
  <2> QED BY <2>3, <2>4, <2>5 DEF Response!IInv
<1>7. CASE UNCHANGED Response!vars
  BY <1>1, <1>7, <1>a DEF Response!vars
<1> QED BY <1>2, <1>3, <1>4, <1>5, <1>6, <1>7 DEF Response!Next

LEMMA ResponseInit == Response!Init => Response!IInv
<1> SUFFICES ASSUME Response!Init PROVE Response!IInv
  OBVIOUS
<1>1. Response!TypeOK
  BY DEF Response!Init, Response!TypeOK
<1>2. Response!RecordedAtTheEnd /\ Response!SuspensionKnown
  BY DEF Response!Init, Response!RecordedAtTheEnd, Response!SuspensionKnown
<1> QED BY <1>1, <1>2 DEF Response!IInv

\* When no response acts, what is known is recorded.
LEMMA KnownIsRecorded == Response!IInv => Response!SuspensionsUndoable
BY DEF Response!IInv, Response!SuspensionKnown, Response!Resumable, Response!SuspensionsUndoable

\* While another component is at work, the responder rests.
LEMMA ResponseStep == [ComponentNext]_componentVars => [Response!Next]_Response!vars
BY DEF ComponentNext, componentVars, responseVars, Response!vars

LEMMA ResponseInductive == ComponentSpec => []Response!IInv
<1>1. ComponentInit => Response!IInv
  BY ResponseInit DEF ComponentInit
<1>2. Response!IInv /\ [ComponentNext]_componentVars => Response!IInv'
  BY ResponseStep, ResponseInvNext
<1> QED BY <1>1, <1>2, PTL DEF ComponentSpec

\* Of every process that is found suspended when no respond() is at its actions, the
\* automated_actions of a threat with its pid have the rollback data to resume it,
\* however many threats name the pid and whoever had it before.
THEOREM SuspensionsCanBeUndone == ComponentSpec => []SuspensionsUndoable
<1>1. Response!IInv => SuspensionsUndoable
  BY KnownIsRecorded DEF SuspensionsUndoable
<1> QED BY <1>1, ResponseInductive, PTL

-----------------------------------------------------------------------------
(* The file monitor *)

\* FileMonitor counts as this module does.
LEMMA FilesCount == ASSUME NEW S PROVE Files!Cardinality(S) = Cardinality(S)
BY DEF Files!Cardinality, Cardinality

\* Of the renames of a tracker.
LEMMA ToSetIs ==
  ASSUME NEW T, NEW s \in Seq(T), NEW n \in Nat, n = Len(s)
  PROVE  \A x : x \in Files!ToSet(s) <=> \E i \in 1..n : s[i] = x
BY LenProperties DEF Files!ToSet

LEMMA FilesInit == Files!Init => Files!IInv
<1> SUFFICES ASSUME Files!Init PROVE Files!IInv
  OBVIOUS
<1>1. <<>> \in Seq(Nat) /\ Len(<<>>) = 0 /\ <<>> \in Seq(1..Len(<<>>))
  OBVIOUS
<1>2. Files!TypeOK
  BY <1>1 DEF Files!Init, Files!TypeOK
<1>3. Files!CountedIsSummarised /\ Files!EachAccountedFor
  BY <1>1 DEF Files!Init, Files!CountedIsSummarised, Files!EachAccountedFor
<1> QED BY <1>2, <1>3 DEF Files!IInv

\* A rename is recorded, and the tracker may give up its oldest.
LEMMA RenamedKeeps == Files!IInv /\ Files!Renamed => Files!IInv'
<1> SUFFICES ASSUME Files!IInv, Files!Renamed PROVE Files!IInv'
  OBVIOUS
<1>0. /\ clock \in Nat /\ asOf \in Nat /\ asOf <= clock /\ born \in Seq(Nat)
      /\ stamp \in Nat
      /\ tracker \in Seq(1..Len(born))
  BY DEF Files!IInv, Files!TypeOK
<1>1. PICK l \in Nat : l = Len(born)
  BY <1>0, LenProperties
<1>2. /\ born' \in Seq(Nat) /\ Len(born') = l + 1
      /\ \A n \in 1..l : born'[n] = born[n]
  <2>1. stamp - 1 \in Nat /\ born' = Append(born, stamp - 1)
    BY <1>0 DEF Files!Renamed
  <2> QED BY <1>0, <1>1, <2>1, AppendProperties
<1>3. PICK k \in Nat : k = Len(tracker)
  BY <1>0, LenProperties
<1>4. tracker \in Seq(1..(l + 1)) /\ l + 1 \in 1..(l + 1)
  BY <1>0, <1>1
<1>5. PICK all \in Seq(1..(l + 1)) : all = Append(tracker, l + 1)
  BY <1>4, AppendProperties
<1>6. /\ Len(all) = k + 1 /\ all # <<>>
      /\ \A i \in 1..k : all[i] = tracker[i]
      /\ all[k + 1] = l + 1
  BY <1>3, <1>4, <1>5, AppendProperties
<1>7. \/ tracker' = Tail(all) /\ overrun' = overrun \cup {Head(all)}
      \/ tracker' = all /\ overrun' = overrun
  BY <1>2, <1>5 DEF Files!Renamed
<1>8. /\ \A x : x \in Files!ToSet(tracker) <=> \E i \in 1..k : tracker[i] = x
      /\ \A x : x \in Files!ToSet(all) <=> \E i \in 1..(k + 1) : all[i] = x
  <2>1. \A x : x \in Files!ToSet(tracker) <=> \E i \in 1..k : tracker[i] = x
    BY <1>0, <1>3, ToSetIs
  <2>2. k + 1 \in Nat /\ k + 1 = Len(all)
    BY <1>6
  <2>3. \A x : x \in Files!ToSet(all) <=> \E i \in 1..(k + 1) : all[i] = x
    BY <2>2, ToSetIs
  <2> QED BY <2>1, <2>3
<1>9. Files!ToSet(tracker) \cup {l + 1} \subseteq Files!ToSet(all)
  <2>1. l + 1 \in Files!ToSet(all)
    BY <1>6, <1>8
  <2>2. ASSUME NEW i \in 1..k PROVE tracker[i] \in Files!ToSet(all)
    BY <1>6, <1>8, <2>2
  <2> QED BY <1>8, <2>1, <2>2
<1>10. /\ tracker' \in Seq(1..(l + 1))
      /\ Files!ToSet(all) \subseteq Files!ToSet(tracker') \cup overrun'
      /\ overrun \subseteq overrun'
  <2>1. CASE tracker' = Tail(all) /\ overrun' = overrun \cup {Head(all)}
    <3>1. PICK rest \in Seq(1..(l + 1)) :
            rest = Tail(all) /\ Len(rest) = k /\ \A i \in 1..k : rest[i] = all[i + 1]
      <4>1. /\ Tail(all) \in Seq(1..(l + 1)) /\ Len(Tail(all)) = Len(all) - 1
            /\ \A i \in 1..Len(Tail(all)) : Tail(all)[i] = all[i + 1]
        BY <1>5, <1>6, HeadTailProperties
      <4>2. Len(all) - 1 = k
        BY <1>3, <1>6
      <4> QED BY <4>1, <4>2
    <3>2. \A x : x \in Files!ToSet(rest) <=> \E i \in 1..k : rest[i] = x
      <4>1. k = Len(rest)
        BY <3>1
      <4> QED BY <4>1, ToSetIs
    <3>3. Files!ToSet(all) \subseteq Files!ToSet(rest) \cup {all[1]}
      <4> SUFFICES ASSUME NEW i \in 1..(k + 1), i # 1 PROVE all[i] \in Files!ToSet(rest)
        BY <1>8
      <4>1. i - 1 \in 1..k /\ (i - 1) + 1 = i
        BY <1>3
      <4> QED BY <3>1, <3>2, <4>1
    <3>4. Head(all) = all[1]
      BY <1>5
    <3> QED BY <2>1, <3>1, <3>3, <3>4
  <2>2. CASE tracker' = all /\ overrun' = overrun
    BY <1>5, <2>2
  <2> QED BY <1>7, <2>1, <2>2
<1>11. UNCHANGED <<clock, check, asOf, counted, summarised, unheard, raced>> /\ stamp' = 0
  BY DEF Files!Renamed
<1>12. Files!TypeOK'
  BY <1>0, <1>2, <1>10, <1>11 DEF Files!IInv, Files!TypeOK
<1>13. Files!CountedIsSummarised'
  BY <1>11 DEF Files!IInv, Files!CountedIsSummarised
<1>14. Files!EachAccountedFor'
  <2> SUFFICES ASSUME NEW n \in 1..(l + 1), Files!InWindow(n)'
               PROVE  n \in Files!ToSet(tracker') \cup summarised \cup unheard \cup raced \cup overrun'
    BY <1>2, <1>11 DEF Files!EachAccountedFor
  <2>1. CASE n = l + 1
    BY <1>10, <1>9, <2>1
  <2>2. CASE n \in 1..l
    <3>1. Files!InWindow(n)
      BY <1>2, <1>11, <2>2 DEF Files!InWindow
    <3>2. n \in Files!ToSet(tracker) \cup summarised \cup unheard \cup raced \cup overrun
      BY <1>1, <2>2, <3>1 DEF Files!IInv, Files!EachAccountedFor
    <3> QED BY <1>10, <1>9, <3>2
  <2> QED BY <1>1, <2>1, <2>2
<1> QED BY <1>12, <1>13, <1>14 DEF Files!IInv

LEMMA FilesInvNext == Files!IInv /\ [Files!Next]_Files!vars => Files!IInv'
<1> SUFFICES ASSUME Files!IInv, [Files!Next]_Files!vars PROVE Files!IInv'
  OBVIOUS
<1>0. /\ clock \in Nat /\ asOf \in Nat /\ asOf <= clock /\ born \in Seq(Nat)
      /\ stamp \in Nat
      /\ tracker \in Seq(1..Len(born))
      /\ check \in {"gone", "begin", "count", "report", "clear", "sleep"}
  BY DEF Files!IInv, Files!TypeOK
<1>1. /\ \A n \in 1..Len(born) : born[n] \in Nat
      /\ Files!CountedIsSummarised /\ Files!EachAccountedFor
  BY <1>0, LenProperties DEF Files!IInv
<1>2. CASE Files!Tick
  <2>1. clock' = clock + 1
        /\ UNCHANGED <<check, stamp, born, tracker, asOf, counted, summarised, unheard, raced, overrun>>
    BY <1>2 DEF Files!Tick
  <2>2. Files!TypeOK'
    BY <1>0, <2>1 DEF Files!TypeOK
  <2>3. Files!CountedIsSummarised' /\ Files!EachAccountedFor'
    BY <1>1, <2>1 DEF Files!CountedIsSummarised, Files!EachAccountedFor, Files!InWindow
  <2> QED BY <2>2, <2>3 DEF Files!IInv
<1>3. CASE Files!Initialize \/ Files!StartObserver \/ Files!Stop \/ Files!StartLoop
         \/ Files!Wake \/ Files!CountFails \/ Files!Stamp
  <2>1. UNCHANGED <<clock, born, tracker, asOf, counted, summarised, unheard, raced, overrun>>
    BY <1>3 DEF Files!Initialize, Files!StartObserver, Files!Stop, Files!StartLoop, Files!Wake,
       Files!CountFails, Files!Stamp
  <2>2. (check' = check \/ check' \in {"begin", "sleep"}) /\ stamp' \in Nat
    BY <1>0, <1>3 DEF Files!Initialize, Files!StartObserver, Files!Stop, Files!StartLoop,
       Files!Wake, Files!CountFails, Files!Stamp
  <2>3. Files!TypeOK'
    BY <1>0, <2>1, <2>2 DEF Files!TypeOK
  <2>4. Files!CountedIsSummarised' /\ Files!EachAccountedFor'
    BY <1>1, <2>1, <2>2 DEF Files!CountedIsSummarised, Files!EachAccountedFor, Files!InWindow
  <2> QED BY <2>3, <2>4 DEF Files!IInv
<1>4. CASE Files!Renamed
  BY <1>4, RenamedKeeps
<1>5. CASE Files!Begin
  <2>1. /\ UNCHANGED <<clock, stamp, born, tracker, summarised, unheard, raced, overrun>>
        /\ counted' = {}
        /\ \/ check' = "gone" /\ asOf' = asOf
           \/ check' = "count" /\ asOf' = clock
    BY <1>5 DEF Files!Begin
  <2>2. Files!TypeOK'
    BY <1>0, <2>1 DEF Files!TypeOK
  <2>3. Files!CountedIsSummarised'
    BY <2>1 DEF Files!CountedIsSummarised
  <2>4. Files!EachAccountedFor'
    <3>1. \A n \in 1..Len(born) : Files!InWindow(n)' => Files!InWindow(n)
      <4> SUFFICES ASSUME NEW n \in 1..Len(born) PROVE Files!InWindow(n)' => Files!InWindow(n)
        OBVIOUS
      <4>1. born[n] \in Nat /\ asOf \in Nat /\ asOf' \in Nat /\ asOf <= asOf' /\ born' = born
        BY <1>0, <1>1, <2>1
      <4>2. born[n] + Window >= asOf' => born[n] + Window >= asOf
        BY <4>1, FilesAssumption
      <4> QED BY <4>1, <4>2 DEF Files!InWindow
    <3> QED BY <1>1, <2>1, <3>1 DEF Files!EachAccountedFor
  <2> QED BY <2>2, <2>3, <2>4 DEF Files!IInv
<1>6. CASE Files!Count
  <2>1. UNCHANGED <<clock, stamp, born, tracker, asOf, summarised, unheard, raced, overrun>>
        /\ check' \in {"report", "sleep"}
    BY <1>6 DEF Files!Count
  <2>2. Files!TypeOK'
    BY <1>0, <2>1 DEF Files!TypeOK
  <2>3. Files!CountedIsSummarised' /\ Files!EachAccountedFor'
    BY <1>1, <2>1 DEF Files!CountedIsSummarised, Files!EachAccountedFor, Files!InWindow
  <2> QED BY <2>2, <2>3 DEF Files!IInv
<1>7. CASE Files!Report
  <2>1. /\ UNCHANGED <<clock, stamp, born, tracker, asOf, counted, raced, overrun>>
        /\ check' = "clear"
        /\ summarised' \cup unheard' = summarised \cup unheard \cup counted
    BY <1>7 DEF Files!Report
  <2>2. Files!TypeOK'
    BY <1>0, <2>1 DEF Files!TypeOK
  <2>3. Files!CountedIsSummarised'
    BY <2>1 DEF Files!CountedIsSummarised
  <2>4. Files!EachAccountedFor'
    <3>1. \A n \in 1..Len(born) : Files!InWindow(n)' <=> Files!InWindow(n)
      BY <2>1 DEF Files!InWindow
    <3> QED BY <1>1, <2>1, <3>1 DEF Files!EachAccountedFor
  <2> QED BY <2>2, <2>3, <2>4 DEF Files!IInv
<1>8. CASE Files!Clear
  <2>1. /\ UNCHANGED <<clock, stamp, born, asOf, counted, summarised, unheard, overrun>>
        /\ check = "clear" /\ check' = "sleep" /\ tracker' = <<>>
        /\ raced' = raced \cup {n \in Files!ToSet(tracker) \ counted : Files!InWindow(n)}
    BY <1>8 DEF Files!Clear
  <2>2. <<>> \in Seq(1..Len(born))
    OBVIOUS
  <2>3. Files!TypeOK'
    BY <1>0, <2>1, <2>2 DEF Files!TypeOK
  <2>4. Files!CountedIsSummarised'
    BY <2>1 DEF Files!CountedIsSummarised
  <2>5. Files!EachAccountedFor'
    <3> SUFFICES ASSUME NEW n \in 1..Len(born), Files!InWindow(n)
                 PROVE  n \in summarised \cup unheard \cup raced' \cup overrun
      BY <2>1 DEF Files!EachAccountedFor, Files!InWindow
    <3>1. counted \subseteq summarised \cup unheard
      BY <1>1, <2>1 DEF Files!CountedIsSummarised
    <3>2. n \in Files!ToSet(tracker) \cup summarised \cup unheard \cup raced \cup overrun
      BY <1>1 DEF Files!EachAccountedFor
    <3> QED BY <2>1, <3>1, <3>2
  <2> QED BY <2>3, <2>4, <2>5 DEF Files!IInv
<1>9. CASE UNCHANGED Files!vars
  <2>1. Files!TypeOK'
    BY <1>0, <1>9 DEF Files!TypeOK, Files!vars
  <2>2. Files!CountedIsSummarised' /\ Files!EachAccountedFor'
    BY <1>1, <1>9 DEF Files!CountedIsSummarised, Files!EachAccountedFor, Files!InWindow,
       Files!vars
  <2> QED BY <2>1, <2>2 DEF Files!IInv
<1> QED BY <1>2, <1>3, <1>4, <1>5, <1>6, <1>7, <1>8, <1>9 DEF Files!Next

\* The renames of the window of the running check of which nothing was said.
Overlooked ==
  {n \in DOMAIN born : born[n] + Window >= asOf}
    \ (summarised \cup unheard \cup raced \cup overrun)

\* A check that counts counts them.
LEMMA CountFindsThem ==
  Files!IInv /\ [Files!Next]_Files!vars =>
    (check = "count" /\ check' = "sleep" /\ (~touched \/ counted' # {}) =>
       Files!Cardinality(Overlooked) < Threshold)
<1> SUFFICES ASSUME Files!IInv, [Files!Next]_Files!vars, check = "count", check' = "sleep",
                    ~touched \/ counted' # {}
             PROVE  Files!Cardinality(Overlooked) < Threshold
  OBVIOUS
<1>0. born \in Seq(Nat) /\ tracker \in Seq(1..Len(born)) /\ counted = {}
  BY DEF Files!IInv, Files!TypeOK, Files!CountedIsSummarised
<1>1. PICK l \in Nat : l = Len(born) /\ DOMAIN born = 1..l
  BY <1>0, LenProperties
<1>2. Files!Count
  BY <1>0 DEF Files!Next, Files!vars, Files!Tick, Files!Initialize, Files!StartObserver,
     Files!StartLoop, Files!Stop, Files!Stamp, Files!Renamed, Files!Begin,
              Files!CountFails, Files!Report, Files!Clear, Files!Wake
<1>3. /\ counted' = {n \in Files!ToSet(tracker) : Files!InWindow(n)}
      /\ ~(Files!Cardinality(counted') >= Threshold)
  BY <1>2 DEF Files!Count
<1>4. counted' \subseteq 1..l
  <2>1. Files!ToSet(tracker) \subseteq 1..Len(born)
    BY <1>0, LenProperties DEF Files!ToSet
  <2> QED BY <1>1, <1>3, <2>1
<1>5. Overlooked \subseteq counted'
  <2> SUFFICES ASSUME NEW n \in Overlooked PROVE n \in counted'
    OBVIOUS
  <2>1. n \in 1..l /\ Files!InWindow(n)
        /\ n \notin summarised \cup unheard \cup raced \cup overrun
    BY <1>1 DEF Overlooked, Files!InWindow
  <2>2. n \in Files!ToSet(tracker)
    BY <1>1, <2>1 DEF Files!IInv, Files!EachAccountedFor
  <2> QED BY <1>3, <2>1, <2>2
<1>6. IsFiniteSet(counted')
  <2>1. IsFiniteSet(1..l)
    BY <1>1, FS_Interval
  <2> QED BY <1>4, <2>1, FS_Subset
<1>7. /\ Cardinality(Overlooked) \in Nat /\ Cardinality(counted') \in Nat
      /\ Cardinality(Overlooked) <= Cardinality(counted')
  BY <1>5, <1>6, FS_Subset, FS_CardinalityType
<1> QED BY <1>3, <1>7, FilesCount, FilesAssumption

\* While another component is at work, the file monitor rests.
LEMMA FilesStep == [ComponentNext]_componentVars => [Files!Next]_Files!vars
BY DEF ComponentNext, componentVars, fileVars, Files!vars

LEMMA FilesInductive == ComponentSpec => []Files!IInv
<1>1. ComponentInit => Files!IInv
  BY FilesInit DEF ComponentInit
<1>2. Files!IInv /\ [ComponentNext]_componentVars => Files!IInv'
  BY FilesStep, FilesInvNext
<1> QED BY <1>1, <1>2, PTL DEF ComponentSpec

\* Whatever the callbacks of the watchdog, the checks and the restarts of the monitor do
\* between one another's steps, _check_ransomware_pattern() reports as soon as there are
\* as many renames within the window as the threshold asks for; those do not count that
\* an earlier summary counted, a full deque pushed out, or clear() dropped uncounted.
THEOREM RenamesAreCounted == ComponentSpec => BurstNotOverlooked
<1>1. Files!IInv /\ [ComponentNext]_componentVars =>
        [check = "count" /\ check' = "sleep" /\ (~touched \/ counted' # {}) =>
           Files!Cardinality(Overlooked) < Threshold]_Files!vars
  BY FilesStep, CountFindsThem
<1>2. BurstNotOverlooked <=>
        [][check = "count" /\ check' = "sleep" /\ (~touched \/ counted' # {}) =>
             Files!Cardinality(Overlooked) < Threshold]_Files!vars
  BY DEF BurstNotOverlooked, Files!BurstNotOverlooked, Overlooked
<1> QED BY <1>1, <1>2, FilesInductive, PTL DEF ComponentSpec

-----------------------------------------------------------------------------
(* The authentication monitor *)

LEMMA AuthInit == Auth!Init => Auth!IInv
<1> SUFFICES ASSUME Auth!Init PROVE Auth!IInv
  OBVIOUS
<1>1. <<>> \in Seq([kind : Auth!EntryKinds, at : Nat]) /\ Len(<<>>) = 0
  OBVIOUS
<1> QED BY <1>1 DEF Auth!Init, Auth!IInv, Auth!TypeOK, Auth!UnreadIsRecent

LEMMA AuthInvNext == Auth!IInv /\ [Auth!Next]_Auth!vars => Auth!IInv'
<1> SUFFICES ASSUME Auth!IInv, [Auth!Next]_Auth!vars PROVE Auth!IInv'
  OBVIOUS
<1>0. /\ now \in Nat /\ polledAt \in Nat /\ position \in Nat
      /\ log \in Seq([kind : Auth!EntryKinds, at : Nat])
  BY DEF Auth!IInv, Auth!TypeOK
<1>a. Auth!EntryKinds' = Auth!EntryKinds
  BY DEF Auth!Next, Auth!Pass, Auth!Write, Auth!Poll, Auth!PollFails, Auth!Publish, Auth!Wake,
     Auth!vars, Auth!EntryKinds
<1>1. PICK l \in Nat : l = Len(log)
  BY <1>0, LenProperties
<1>2. /\ position <= l /\ polledAt <= now
      /\ \A n \in 1..l :
           log[n].at \in Nat /\ log[n].at <= now /\ (n > position => log[n].at >= polledAt)
  <2>1. \A n \in 1..l : log[n] \in [kind : Auth!EntryKinds, at : Nat]
    BY <1>0, <1>1, LenProperties
  <2>2. \A n \in 1..l : log[n].at \in Nat
    BY <2>1
  <2> QED BY <1>a, <1>1, <2>2 DEF Auth!IInv, Auth!TypeOK, Auth!UnreadIsRecent
<1>3. CASE Auth!Pass
  <2>1. now' = now + 1 /\ UNCHANGED <<log, position, polledAt>>
    BY <1>3 DEF Auth!Pass
  <2>2. Auth!TypeOK'
    BY <1>a, <1>0, <2>1 DEF Auth!IInv, Auth!TypeOK
  <2>3. Auth!UnreadIsRecent'
    BY <1>0, <1>1, <1>2, <2>1 DEF Auth!UnreadIsRecent
  <2> QED BY <2>2, <2>3 DEF Auth!IInv
<1>4. CASE Auth!Write
  <2>1. PICK k \in Auth!EntryKinds : log' = Append(log, [kind |-> k, at |-> now])
    BY <1>4 DEF Auth!Write
  <2>2. UNCHANGED <<now, position, polledAt>>
    BY <1>4 DEF Auth!Write
  <2>3. PICK e \in [kind : Auth!EntryKinds, at : Nat] : e = [kind |-> k, at |-> now]
    BY <1>0, <2>1
  <2>4. /\ log' \in Seq([kind : Auth!EntryKinds, at : Nat]) /\ Len(log') = l + 1
        /\ \A i \in 1..l : log'[i] = log[i]
        /\ log'[l + 1] = e
    BY <1>0, <1>1, <2>1, <2>3, AppendProperties
  <2>5. Auth!TypeOK'
    BY <1>a, <1>0, <1>1, <1>2, <2>2, <2>4 DEF Auth!TypeOK
  <2>6. Auth!UnreadIsRecent'
    <3> SUFFICES ASSUME NEW n \in 1..(l + 1)
                 PROVE  log'[n].at <= now /\ (n > position => log'[n].at >= polledAt)
      BY <1>2, <2>2, <2>4 DEF Auth!UnreadIsRecent
    <3>1. CASE n \in 1..l
      BY <1>2, <2>4, <3>1
    <3>2. CASE n = l + 1
      <4>1. log'[n].at = now
        BY <2>3, <2>4, <3>2
      <4> QED BY <1>0, <1>2, <4>1
    <3> QED BY <1>1, <3>1, <3>2
  <2> QED BY <2>5, <2>6 DEF Auth!IInv
<1>5. CASE Auth!Poll
  <2>1. position' = Len(log) /\ polledAt' = now /\ UNCHANGED <<now, log>>
    BY <1>5 DEF Auth!Poll
  <2>2. Auth!TypeOK'
    BY <1>a, <1>0, <1>1, <2>1 DEF Auth!TypeOK
  <2>3. Auth!UnreadIsRecent'
    BY <1>0, <1>1, <1>2, <2>1 DEF Auth!UnreadIsRecent
  <2> QED BY <2>2, <2>3 DEF Auth!IInv
<1>6. CASE Auth!PollFails \/ Auth!Publish \/ Auth!Wake \/ UNCHANGED Auth!vars
  <2>1. UNCHANGED <<now, log, position, polledAt>>
    BY <1>6 DEF Auth!PollFails, Auth!Publish, Auth!Wake, Auth!vars
  <2> QED BY <1>a, <2>1 DEF Auth!IInv, Auth!TypeOK, Auth!UnreadIsRecent
<1> QED BY <1>3, <1>4, <1>5, <1>6 DEF Auth!Next

\* What was written since the last poll, and an event is made of.
Fresh == {n \in DOMAIN log : n > position /\ Auth!Eventful(n)}

\* A poll that reads finds all of it.
LEMMA PollFindsFresh ==
  Auth!IInv /\ [Auth!Next]_Auth!vars =>
    (poller = "poll" /\ position' = Len(log) /\ polledAt' = now =>
       IF platform = "linux"
       THEN Len(log) - position <= TailLines => Fresh \subseteq read'
       ELSE now - polledAt <= Back => Fresh \subseteq read')
<1> SUFFICES ASSUME Auth!IInv, [Auth!Next]_Auth!vars, poller = "poll", position' = Len(log),
                    polledAt' = now,
                    IF platform = "linux" THEN Len(log) - position <= TailLines
                                          ELSE now - polledAt <= Back,
                    NEW n \in Fresh
             PROVE  n \in read'
  OBVIOUS
<1>0. /\ now \in Nat /\ polledAt \in Nat /\ position \in Nat
      /\ log \in Seq([kind : Auth!EntryKinds, at : Nat])
  BY DEF Auth!IInv, Auth!TypeOK
<1>1. PICK l \in Nat : l = Len(log) /\ DOMAIN log = 1..l
  BY <1>0, LenProperties
<1>2. n \in 1..l /\ n > position /\ Auth!Eventful(n)
  BY <1>1 DEF Fresh
<1>3. log[n].at \in Nat /\ log[n].at >= polledAt
  <2>1. log[n] \in [kind : Auth!EntryKinds, at : Nat]
    BY <1>0, <1>1, <1>2, LenProperties
  <2>2. log[n].at \in Nat
    BY <2>1
  <2> QED BY <1>1, <1>2, <2>2 DEF Auth!IInv, Auth!UnreadIsRecent
<1>4. CASE Auth!Poll
  <2>1. Auth!Recent(n)
    <3>1. CASE platform = "linux"
      <4>1. l - position <= TailLines
        BY <1>1, <3>1
      <4>2. n + TailLines > l
        BY <1>0, <1>1, <1>2, <4>1, AuthAssumption
      <4> QED BY <1>1, <3>1, <4>2 DEF Auth!Recent
    <3>2. CASE platform # "linux"
      <4>1. now - polledAt <= Back
        BY <3>2
      <4>2. now - log[n].at <= Back
        BY <1>0, <1>3, <4>1, AuthAssumption
      <4> QED BY <3>2, <4>2 DEF Auth!Recent
    <3> QED BY <3>1, <3>2
  <2> QED BY <1>1, <1>2, <1>4, <2>1 DEF Auth!Poll
<1>5. CASE ~Auth!Poll
  <2>1. position' = position
    BY <1>5 DEF Auth!Next, Auth!Pass, Auth!Write, Auth!PollFails, Auth!Publish, Auth!Wake,
       Auth!vars
  <2> QED BY <1>0, <1>1, <1>2, <2>1
<1> QED BY <1>4, <1>5

\* While another component is at work, the authentication monitor rests.
LEMMA AuthStep == [ComponentNext]_componentVars => [Auth!Next]_Auth!vars
BY DEF ComponentNext, componentVars, authVars, Auth!vars

LEMMA AuthInductive == ComponentSpec => []Auth!IInv
<1>1. ComponentInit => Auth!IInv
  BY AuthInit DEF ComponentInit
<1>2. Auth!IInv /\ [ComponentNext]_componentVars => Auth!IInv'
  BY AuthStep, AuthInvNext
<1> QED BY <1>1, <1>2, PTL DEF ComponentSpec

\* However many polls failed since the last one that read the log, one that reads it finds
\* every entry written since, if they are no more than the lines it reads (Linux) or the
\* last one is no longer ago than it looks back (Windows).
THEOREM EntriesAreFound == ComponentSpec => NoEntryEscapes
<1>1. Auth!IInv /\ [ComponentNext]_componentVars =>
        [poller = "poll" /\ position' = Len(log) /\ polledAt' = now =>
           IF platform = "linux"
           THEN Len(log) - position <= TailLines => Fresh \subseteq read'
           ELSE now - polledAt <= Back => Fresh \subseteq read']_Auth!vars
  BY AuthStep, PollFindsFresh
<1>2. NoEntryEscapes <=>
        [][poller = "poll" /\ position' = Len(log) /\ polledAt' = now =>
             IF platform = "linux"
             THEN Len(log) - position <= TailLines => Fresh \subseteq read'
             ELSE now - polledAt <= Back => Fresh \subseteq read']_Auth!vars
  BY DEF NoEntryEscapes, Auth!NoEntryEscapes, Fresh
<1> QED BY <1>1, <1>2, AuthInductive, PTL DEF ComponentSpec

-----------------------------------------------------------------------------
(* The resource manager *)

\* Total() takes the sum over ever smaller sets of places: f is that function.
SumsOver(f, h, n) ==
  f = [s \in SUBSET (1..n) |->
         IF s = {} THEN 0 ELSE f[s \ {Resources!Max(s)}] + h[Resources!Max(s)]]

LEMMA MaxOfInterval ==
  ASSUME NEW n \in Nat, NEW s \in SUBSET (1..(n + 1)), n + 1 \in s
  PROVE  Resources!Max(s) = n + 1
<1>1. \A y \in s : n + 1 >= y
  OBVIOUS
<1>2. \A x \in s : (\A y \in s : x >= y) => x = n + 1
  OBVIOUS
<1> QED BY <1>1, <1>2 DEF Resources!Max

LEMMA SumsExist == ASSUME NEW h PROVE \A n \in Nat : \E f : SumsOver(f, h, n)
<1> DEFINE S == {n \in Nat : \E f : SumsOver(f, h, n)}
<1>1. 0 \in S
  <2>1. SUBSET (1..0) = {{}}
    OBVIOUS
  <2>2. PICK f : f = [s \in SUBSET (1..0) |-> 0]
    OBVIOUS
  <2>3. f = [s \in SUBSET (1..0) |->
               IF s = {} THEN 0 ELSE f[s \ {Resources!Max(s)}] + h[Resources!Max(s)]]
    BY <2>1, <2>2
  <2> QED BY <2>3 DEF SumsOver
<1>2. ASSUME NEW n \in Nat, n \in S PROVE n + 1 \in S
  <2>1. PICK f : SumsOver(f, h, n)
    BY <1>2
  <2>2. PICK g : g = [s \in SUBSET (1..(n + 1)) |->
                        IF n + 1 \in s THEN f[s \ {n + 1}] + h[n + 1] ELSE f[s]]
    OBVIOUS
  <2>3. ASSUME NEW s \in SUBSET (1..(n + 1))
        PROVE  g[s] = IF s = {} THEN 0 ELSE g[s \ {Resources!Max(s)}] + h[Resources!Max(s)]
    <3>1. CASE n + 1 \in s
      <4>1. Resources!Max(s) = n + 1
        BY <3>1, MaxOfInterval
      <4>2. s \ {n + 1} \in SUBSET (1..(n + 1)) /\ n + 1 \notin s \ {n + 1}
        OBVIOUS
      <4>3. g[s \ {n + 1}] = f[s \ {n + 1}]
        BY <2>2, <4>2
      <4>4. g[s] = f[s \ {n + 1}] + h[n + 1]
        BY <2>2, <3>1
      <4> QED BY <3>1, <4>1, <4>3, <4>4
    <3>2. CASE n + 1 \notin s
      <4>1. s \in SUBSET (1..n)
        BY <3>2
      <4>2. f[s] = IF s = {} THEN 0 ELSE f[s \ {Resources!Max(s)}] + h[Resources!Max(s)]
        BY <2>1, <4>1 DEF SumsOver
      <4>3. s \ {Resources!Max(s)} \in SUBSET (1..(n + 1)) /\ n + 1 \notin s \ {Resources!Max(s)}
        BY <3>2
      <4>4. g[s] = f[s] /\ g[s \ {Resources!Max(s)}] = f[s \ {Resources!Max(s)}]
        BY <2>2, <3>2, <4>3
      <4> QED BY <4>2, <4>4
    <3> QED BY <3>1, <3>2
  <2>4. g = [s \in SUBSET (1..(n + 1)) |->
               IF s = {} THEN 0 ELSE g[s \ {Resources!Max(s)}] + h[Resources!Max(s)]]
    BY <2>2, <2>3
  <2>5. SumsOver(g, h, n + 1)
    BY <2>4 DEF SumsOver
  <2> QED BY <2>5
<1>3. Nat \subseteq S
  <2> HIDE DEF S
  <2> QED BY <1>1, <1>2, NatSetInduction
<1> QED BY <1>3

\* The sum of a history none of whose readings exceeds a limit.
LEMMA SumBounded ==
  ASSUME NEW h \in Seq(Nat), NEW n \in Nat, n = Len(h), NEW limit \in Nat,
         \A i \in 1..n : h[i] <= limit
  PROVE  /\ Resources!Total(h) \in Nat
         /\ Resources!Total(h) <= limit * n
<1>1. PICK f : /\ f = CHOOSE g : SumsOver(g, h, n)
               /\ SumsOver(f, h, n)
  BY SumsExist
<1>2. Resources!Total(h) = f[1..n]
  <2>1. DOMAIN h = 1..n
    BY LenProperties
  <2> QED BY <1>1, <2>1 DEF Resources!Total, Resources!FoldLeft, Resources!MapThenFoldSet, SumsOver
<1> DEFINE S == {k \in Nat : k <= n => f[1..k] \in Nat /\ f[1..k] <= limit * k}
<1>3. 0 \in S
  <2>1. 1..0 = {} /\ limit * 0 = 0
    OBVIOUS
  <2>2. f[1..0] = 0
    BY <1>1, <2>1 DEF SumsOver
  <2> QED BY <2>1, <2>2
<1>4. ASSUME NEW k \in Nat, k \in S PROVE k + 1 \in S
  <2> SUFFICES ASSUME k + 1 <= n
               PROVE  f[1..(k + 1)] \in Nat /\ f[1..(k + 1)] <= limit * (k + 1)
    OBVIOUS
  <2>1. /\ 1..(k + 1) \in SUBSET (1..n) /\ 1..(k + 1) # {}
        /\ 1..(k + 1) \in SUBSET (1..(k + 1)) /\ k + 1 \in 1..(k + 1)
    <3>1. k + 1 \in 1..(k + 1)
      OBVIOUS
    <3>2. \A i \in 1..(k + 1) : i \in 1..n
      OBVIOUS
    <3> QED BY <3>1, <3>2
  <2>2. Resources!Max(1..(k + 1)) = k + 1
    BY <2>1, MaxOfInterval
  <2>3. (1..(k + 1)) \ {k + 1} = 1..k
    OBVIOUS
  <2>4. f[1..(k + 1)] = f[1..k] + h[k + 1]
    BY <1>1, <2>1, <2>2, <2>3 DEF SumsOver
  <2>5. f[1..k] \in Nat /\ f[1..k] <= limit * k
    BY <1>4
  <2>6. h[k + 1] \in Nat /\ h[k + 1] <= limit
    <3>1. k + 1 \in 1..n
      OBVIOUS
    <3> QED BY <3>1, LenProperties
  <2>7. limit * (k + 1) = limit * k + limit /\ limit * k \in Nat
    OBVIOUS
  <2> QED BY <2>4, <2>5, <2>6, <2>7
<1>5. n \in S
  <2> HIDE DEF S
  <2> QED BY <1>3, <1>4, NatSetInduction
<1> QED BY <1>2, <1>5

\* The history with one reading more is no longer than it may be.
LEMMA RememberedBounded ==
  ASSUME cpuHistory \in Seq(Nat), Len(cpuHistory) <= HistorySize, NEW c \in Nat
  PROVE  Resources!Remembered(c) \in Seq(Nat) /\ Len(Resources!Remembered(c)) <= HistorySize
<1>1. PICK l \in Nat : l = Len(cpuHistory)
  BY LenProperties
<1>2. CASE l < HistorySize
  <2>1. Append(cpuHistory, c) \in Seq(Nat) /\ Len(Append(cpuHistory, c)) = l + 1
    BY <1>1, AppendProperties
  <2> QED BY <1>1, <1>2, <2>1, ResourcesAssumption DEF Resources!Remembered
<1>3. CASE ~(l < HistorySize)
  <2>1. cpuHistory # <<>>
    BY <1>1, <1>3, ResourcesAssumption
  <2>2. PICK t \in Seq(Nat) : t = Tail(cpuHistory) /\ Len(t) = l - 1
    BY <1>1, <2>1, HeadTailProperties
  <2>3. Append(t, c) \in Seq(Nat) /\ Len(Append(t, c)) = Len(t) + 1
    BY AppendProperties
  <2>4. (l - 1) + 1 = l
    BY <1>1
  <2> QED BY <1>1, <1>3, <2>2, <2>3, <2>4 DEF Resources!Remembered
<1> QED BY <1>2, <1>3

LEMMA ResourcesInit == Resources!Init => Resources!IInv
<1> SUFFICES ASSUME Resources!Init PROVE Resources!IInv
  OBVIOUS
<1>1. <<>> \in Seq(Nat) /\ Len(<<>>) = 0
  OBVIOUS
<1> QED BY <1>1, ResourcesAssumption
       DEF Resources!Init, Resources!IInv, Resources!TypeOK, Resources!ThrottleIsOfSample, Resources!Uses

LEMMA ResourcesInvNext == Resources!IInv /\ [Resources!Next]_Resources!vars => Resources!IInv'
<1> SUFFICES ASSUME Resources!IInv, [Resources!Next]_Resources!vars PROVE Resources!IInv'
  OBVIOUS
<1>0. Resources!TypeOK /\ Resources!ThrottleIsOfSample
  BY DEF Resources!IInv
<1>1. CASE Resources!Start \/ Resources!Stop \/ Resources!CollectFails \/ Resources!Wake \/ UNCHANGED Resources!vars
  <2>1. /\ UNCHANGED <<sample, cpuHistory, throttle, overrides>>
        /\ sampler' \in {"gone", "collect", "asleep"} \/ sampler' = sampler
        /\ sampler' # "analyze" => sampler # "analyze"
    BY <1>1 DEF Resources!Start, Resources!Stop, Resources!CollectFails, Resources!Wake, Resources!vars
  <2>2. Resources!TypeOK'
    BY <1>0, <2>1 DEF Resources!TypeOK
  <2>3. Resources!ThrottleIsOfSample'
    BY <1>0, <2>1 DEF Resources!ThrottleIsOfSample, Resources!Violations
  <2> QED BY <2>2, <2>3 DEF Resources!IInv
<1>2. CASE Resources!Collect
  <2>1. UNCHANGED <<cpuHistory, throttle, overrides>> /\ sampler = "collect"
    BY <1>2 DEF Resources!Collect
  <2>2. CASE active
    <3>1. sampler' = "analyze" /\ sample' \in Resources!Samples
      BY <1>2, <2>2 DEF Resources!Collect
    <3>2. sample'.cpu \in Nat /\ sample'.ram \in Resources!Uses /\ sample'.disk \in Resources!Uses
      <4>1. sample'.cpu \in CpuReadings
        BY <3>1 DEF Resources!Samples
      <4>2. sample'.ram \in Resources!Uses /\ sample'.disk \in Resources!Uses
        BY <3>1 DEF Resources!Samples
      <4> QED BY <4>1, <4>2, ResourcesAssumption
    <3>3. Resources!TypeOK'
      BY <1>0, <2>1, <3>1, <3>2 DEF Resources!TypeOK
    <3> QED BY <3>1, <3>3 DEF Resources!IInv, Resources!ThrottleIsOfSample
  <2>3. CASE ~active
    <3>1. sampler' = "gone" /\ sample' = sample
      BY <1>2, <2>3 DEF Resources!Collect
    <3>2. Resources!TypeOK'
      BY <1>0, <2>1, <3>1 DEF Resources!TypeOK
    <3>3. Resources!ThrottleIsOfSample'
      BY <1>0, <2>1, <3>1 DEF Resources!ThrottleIsOfSample, Resources!Violations
    <3> QED BY <3>2, <3>3 DEF Resources!IInv
  <2> QED BY <2>2, <2>3
<1>3. CASE Resources!Analyze
  <2>1. /\ cpuHistory' = Resources!Remembered(sample.cpu)
        /\ sampler' = "asleep" /\ sample' = sample
    BY <1>3 DEF Resources!Analyze
  <2>2. Resources!TypeOK'
    BY <1>0, <2>1, RememberedBounded DEF Resources!TypeOK
  <2>3. Resources!ThrottleIsOfSample'
    BY <1>3, <2>1 DEF Resources!Analyze, Resources!ThrottleIsOfSample, Resources!Violations
  <2> QED BY <2>2, <2>3 DEF Resources!IInv
<1> QED BY <1>1, <1>2, <1>3 DEF Resources!Next

\* Within the budgets there is nothing to throttle for.
LEMMA NothingViolated == Resources!IInv => Resources!ThrottleLifts
<1> SUFFICES ASSUME Resources!IInv,
                    sampler = "asleep", Len(cpuHistory) >= HistorySize,
                    \A c \in Resources!Recent : ~Resources!Near(c, CpuAverage),
                    ~Resources!Near(sample.cpu, CpuPeak),
                    sample.ram = "low", sample.disk = "low"
             PROVE  /\ throttle = [on |-> FALSE, level |-> 0] /\ overrides = {}
                    /\ Resources!HealthStatus = "healthy"
  BY DEF Resources!ThrottleLifts
<1>1. /\ cpuHistory \in Seq(Nat) /\ Len(cpuHistory) <= HistorySize
      /\ sample.cpu \in Nat
  BY DEF Resources!IInv, Resources!TypeOK
<1>2. PICK l \in Nat : l = Len(cpuHistory)
  BY <1>1, LenProperties
<1>3. l = HistorySize /\ l > 0
  BY <1>1, <1>2, ResourcesAssumption
<1>4. \A n \in 1..l : cpuHistory[n] <= CpuAverage
  <2> SUFFICES ASSUME NEW n \in 1..l PROVE cpuHistory[n] <= CpuAverage
    OBVIOUS
  <2>1. Len(cpuHistory) - HistorySize + 1 = 1
    BY <1>2, <1>3
  <2>2. ~Resources!Near(cpuHistory[n], CpuAverage)
    BY <1>2, <2>1 DEF Resources!Recent
  <2>3. cpuHistory[n] \in Nat
    BY <1>1, <1>2, ElementOfSeq
  <2> QED BY <2>2, <2>3, ResourcesAssumption DEF Resources!Near
<1>5. PICK total \in Nat : total = Resources!Total(cpuHistory) /\ total <= CpuAverage * l
  BY <1>1, <1>2, <1>4, SumBounded, ResourcesAssumption
<1>6. PICK p \in Nat : p = CpuAverage * l
  BY <1>2, ResourcesAssumption
<1>7. ~Resources!AverageOver(cpuHistory, CpuAverage)
  BY <1>2, <1>5, <1>6 DEF Resources!AverageOver
<1>8. ~Resources!AverageFarOver(cpuHistory, CpuAverage)
  <2>1. 3 * CpuAverage * l = 3 * p
    BY <1>2, <1>6, ResourcesAssumption
  <2>2. 2 * total <= 3 * p
    BY <1>5, <1>6
  <2> QED BY <1>2, <1>5, <2>1, <2>2 DEF Resources!AverageFarOver
<1>9. ~(sample.cpu > CpuPeak)
  BY <1>1, ResourcesAssumption DEF Resources!Near
<1>10. Resources!Violations(sample, cpuHistory) = {}
  BY <1>7, <1>8, <1>9 DEF Resources!Violations
<1>11. Resources!Level({}) = 0
  BY DEF Resources!Level
<1>12. throttle = [on |-> FALSE, level |-> 0] /\ overrides = {}
  BY <1>2, <1>3, <1>10, <1>11 DEF Resources!IInv, Resources!ThrottleIsOfSample
<1>13. Resources!HealthStatus = "healthy"
  BY <1>9, <1>12 DEF Resources!HealthStatus
<1> QED BY <1>12, <1>13

\* While another component is at work, the resource manager rests.
LEMMA ResourcesStep == [ComponentNext]_componentVars => [Resources!Next]_Resources!vars
BY DEF ComponentNext, componentVars, resourceVars, Resources!vars

LEMMA ResourcesInductive == ComponentSpec => []Resources!IInv
<1>1. ComponentInit => Resources!IInv
  BY ResourcesInit DEF ComponentInit
<1>2. Resources!IInv /\ [ComponentNext]_componentVars => Resources!IInv'
  BY ResourcesStep, ResourcesInvNext
<1> QED BY <1>1, <1>2, PTL DEF ComponentSpec

\* Whatever the readings, the failures and the restarts of the sampler were, and whatever
\* the budgets and the length of the history are: after one history of samples up to 80% of
\* the budgets _analyze_snapshot() throttles nothing, and health_check() says so.
THEOREM SpikesAreForgotten == ComponentSpec => []ThrottleLifts
<1>1. Resources!IInv => ThrottleLifts
  BY NothingViolated DEF ThrottleLifts
<1> QED BY <1>1, ResourcesInductive, PTL

-----------------------------------------------------------------------------
(* The cache *)

\* What the instance has of Filters and FiniteSets is the same here.
LEMMA CacheKept == ASSUME NEW s, NEW T PROVE Cache!Kept(s, T) = Kept(s, T)
BY DEF Cache!Kept, Kept

LEMMA CacheCount == ASSUME NEW S PROVE Cache!Cardinality(S) = Cardinality(S)
BY DEF Cache!Cardinality, Cardinality

\* A list t of entries has come out of s by removing some: each key kept is followed by
\* no others than it was.
Thinned(t, s) ==
  /\ t \in Seq(Cache!CacheEntries) /\ Cache!Distinct(t)
  /\ \A i \in 1..Len(t) : \E m \in 1..Len(s) : t[i] = s[m]
  /\ \A i \in 1..Len(t) : \A us : Cache!Followed(s, t[i].key, us)
     => Cache!Followed(t, t[i].key, us)

LEMMA WithoutThins ==
  ASSUME NEW s \in Seq(Cache!CacheEntries), Cache!Distinct(s), NEW ks
  PROVE  LET t == Cache!Without(s, ks)
         IN  /\ Thinned(t, s) /\ Len(t) <= Len(s)
             /\ (\E m \in 1..Len(s) : s[m].key \in ks) => Len(t) < Len(s)
             /\ \A i \in 1..Len(t) : t[i].key \notin ks
             /\ \A m \in 1..Len(s) : s[m].key \notin ks => \E i \in 1..Len(t) : t[i] = s[m]
<1> DEFINE T == {e \in Cache!ToSet(s) : e.key \notin ks}
<1>1. Cache!Without(s, ks) = Kept(s, T)
  BY CacheKept DEF Cache!Without
<1>2. Len(s) \in Nat /\ \A m \in 1..Len(s) : s[m] \in T <=> s[m].key \notin ks
  BY LenProperties DEF Cache!ToSet
<1>3. PICK t \in Seq(Cache!CacheEntries) : t = Kept(s, T)
  BY KeptKeeps
<1> HIDE DEF T
<1>4. ShorterOrSame(t, s, Len(s))
  BY <1>3, KeptKeeps
<1>5. PICK g : Places(g, t, s, T, Len(s))
  BY <1>3, KeptKeeps
<1>6. PICK n \in Nat, l \in Nat : n = Len(s) /\ l = Len(t) /\ l <= n
  BY <1>4, LenProperties DEF ShorterOrSame
<1>7. /\ g \in [1..l -> 1..n]
      /\ \A i \in 1..l : t[i] = s[g[i]] /\ s[g[i]] \in T
      /\ \A i, j \in 1..l : i < j => g[i] < g[j]
      /\ \A m \in 1..n : s[m] \in T => \E i \in 1..l : g[i] = m
  BY <1>5, <1>6 DEF Places
<1>8. \A i \in 1..l : t[i].key \notin ks
  BY <1>2, <1>6, <1>7
<1>9. \A m \in 1..n : s[m].key \notin ks => \E i \in 1..l : t[i] = s[m]
  BY <1>2, <1>6, <1>7
<1>10. (\E m \in 1..n : s[m].key \in ks) => l < n
  <2> SUFFICES ASSUME NEW m \in 1..n, s[m].key \in ks, l = n PROVE FALSE
    BY <1>6
  <2>1. t[m] = s[m]
    BY <1>4, <1>6 DEF ShorterOrSame
  <2> QED BY <1>8, <2>1
<1>11. Cache!Distinct(t)
  <2> SUFFICES ASSUME NEW i \in 1..l, NEW j \in 1..l, i < j PROVE t[i].key # t[j].key
    BY <1>6 DEF Cache!Distinct
  <2>1. g[i] \in 1..n /\ g[j] \in 1..n /\ g[i] < g[j] /\ t[i] = s[g[i]] /\ t[j] = s[g[j]]
    BY <1>7
  <2> QED BY <1>6, <2>1 DEF Cache!Distinct
<1>12. ASSUME NEW i \in 1..l, NEW us, Cache!Followed(s, t[i].key, us)
       PROVE  Cache!Followed(t, t[i].key, us)
  <2>1. PICK m \in 1..n : s[m].key = t[i].key /\ \A j \in m + 1..n : s[j].key \in us
    BY <1>6, <1>12 DEF Cache!Followed
  <2>2. g[i] \in 1..n /\ t[i] = s[g[i]]
    BY <1>7
  <2>3. g[i] = m
    BY <1>6, <2>1, <2>2 DEF Cache!Distinct
  <2>4. ASSUME NEW j \in i + 1..l PROVE t[j].key \in us
    <3>1. j \in 1..l /\ i < j
      OBVIOUS
    <3>2. g[j] \in 1..n /\ g[i] < g[j] /\ t[j] = s[g[j]]
      BY <1>7, <3>1
    <3>3. g[j] \in m + 1..n
      BY <2>2, <2>3, <3>2
    <3> QED BY <2>1, <3>2, <3>3
  <2> QED BY <1>6, <2>4 DEF Cache!Followed
<1>13. Thinned(t, s)
  BY <1>6, <1>7, <1>11, <1>12 DEF Thinned
<1> QED BY <1>1, <1>3, <1>6, <1>8, <1>9, <1>10, <1>13

\* Giving up the first entry.
LEMMA TailThins ==
  ASSUME NEW s \in Seq(Cache!CacheEntries), Cache!Distinct(s), s # <<>>
  PROVE  /\ Thinned(Tail(s), s) /\ Len(Tail(s)) = Len(s) - 1
         /\ \A m \in 2..Len(s) : \E i \in 1..Len(Tail(s)) : Tail(s)[i] = s[m]
<1>1. PICK t \in Seq(Cache!CacheEntries) :
        t = Tail(s) /\ Len(t) = Len(s) - 1 /\ \A i \in 1..Len(t) : t[i] = s[i + 1]
  BY HeadTailProperties
<1>2. PICK n \in Nat, l \in Nat : n = Len(s) /\ l = Len(t) /\ n = l + 1
  <2>1. Len(s) \in Nat /\ Len(t) \in Nat /\ Len(t) = Len(s) - 1
    BY <1>1, LenProperties
  <2> QED BY <2>1
<1>3. \A i \in 1..l : i + 1 \in 1..n /\ t[i] = s[i + 1]
  BY <1>1, <1>2
<1>4. Cache!Distinct(t)
  <2> SUFFICES ASSUME NEW i \in 1..l, NEW j \in 1..l, i < j PROVE t[i].key # t[j].key
    BY <1>2 DEF Cache!Distinct
  <2>1. i + 1 \in 1..n /\ j + 1 \in 1..n /\ i + 1 < j + 1
    BY <1>2
  <2>2. s[i + 1].key # s[j + 1].key
    BY <1>2, <2>1 DEF Cache!Distinct
  <2> QED BY <1>3, <2>2
<1>5. ASSUME NEW i \in 1..l, NEW us, Cache!Followed(s, t[i].key, us)
      PROVE  Cache!Followed(t, t[i].key, us)
  <2>1. PICK m \in 1..n : s[m].key = t[i].key /\ \A j \in m + 1..n : s[j].key \in us
    BY <1>2, <1>5 DEF Cache!Followed
  <2>2. m = i + 1
    BY <1>2, <1>3, <2>1 DEF Cache!Distinct
  <2>3. ASSUME NEW j \in i + 1..l PROVE t[j].key \in us
    <3>1. j \in 1..l /\ j + 1 \in m + 1..n
      BY <1>2, <2>2
    <3> QED BY <1>3, <2>1, <3>1
  <2> QED BY <1>2, <2>3 DEF Cache!Followed
<1>6. ASSUME NEW m \in 2..n PROVE \E i \in 1..l : t[i] = s[m]
  <2>1. m - 1 \in 1..l /\ (m - 1) + 1 = m
    BY <1>2
  <2> QED BY <1>3, <2>1
<1>7. Thinned(t, s)
  BY <1>2, <1>3, <1>4, <1>5 DEF Thinned
<1> QED BY <1>1, <1>2, <1>6, <1>7

LEMMA AllThins ==
  ASSUME NEW s \in Seq(Cache!CacheEntries), Cache!Distinct(s)
  PROVE  Thinned(s, s)
BY DEF Thinned

\* An entry is added at the end.
LEMMA AddedLast ==
  ASSUME NEW t \in Seq(Cache!CacheEntries), Cache!Distinct(t), NEW e \in Cache!CacheEntries,
         \A i \in 1..Len(t) : t[i].key # e.key
  PROVE  LET u == Append(t, e)
         IN  /\ u \in Seq(Cache!CacheEntries) /\ Len(u) = Len(t) + 1 /\ Cache!Distinct(u)
             /\ \A us : Cache!Followed(u, e.key, us)
             /\ \A k, us : Cache!Followed(t, k, us) => Cache!Followed(u, k, us \cup {e.key})
<1>1. PICK u \in Seq(Cache!CacheEntries) :
        /\ u = Append(t, e) /\ Len(u) = Len(t) + 1 /\ u[Len(t) + 1] = e
        /\ \A i \in 1..Len(t) : u[i] = t[i]
  <2>1. /\ Append(t, e) \in Seq(Cache!CacheEntries) /\ Len(Append(t, e)) = Len(t) + 1
        /\ Append(t, e)[Len(t) + 1] = e /\ \A i \in 1..Len(t) : Append(t, e)[i] = t[i]
    BY AppendProperties
  <2> QED BY <2>1
<1>2. PICK l \in Nat : l = Len(t)
  BY LenProperties
<1>3. Len(u) = l + 1 /\ u[l + 1] = e /\ \A i \in 1..l : u[i] = t[i]
  BY <1>1, <1>2
<1>4. Cache!Distinct(u)
  <2> SUFFICES ASSUME NEW i \in 1..(l + 1), NEW j \in 1..(l + 1), i < j PROVE u[i].key # u[j].key
    BY <1>3 DEF Cache!Distinct
  <2>1. i \in 1..l /\ u[i] = t[i]
    BY <1>3
  <2>2. CASE j = l + 1
    BY <1>2, <1>3, <2>1, <2>2
  <2>3. CASE j # l + 1
    <3>1. j \in 1..l /\ u[j] = t[j]
      BY <1>3, <2>3
    <3> QED BY <1>2, <2>1, <3>1 DEF Cache!Distinct
  <2> QED BY <2>2, <2>3
<1>5. ASSUME NEW us PROVE Cache!Followed(u, e.key, us)
  <2>1. l + 1 \in 1..Len(u) /\ \A j \in (l + 1) + 1..Len(u) : u[j].key \in us
    BY <1>3
  <2> QED BY <1>3, <2>1 DEF Cache!Followed
<1>6. ASSUME NEW k, NEW us, Cache!Followed(t, k, us) PROVE Cache!Followed(u, k, us \cup {e.key})
  <2>1. PICK i \in 1..l : t[i].key = k /\ \A j \in i + 1..l : t[j].key \in us
    BY <1>2, <1>6 DEF Cache!Followed
  <2>2. i \in 1..Len(u) /\ u[i].key = k
    BY <1>3, <2>1
  <2>3. ASSUME NEW j \in i + 1..(l + 1) PROVE u[j].key \in us \cup {e.key}
    <3>1. CASE j = l + 1
      BY <1>3, <3>1
    <3>2. CASE j # l + 1
      <4>1. j \in i + 1..l /\ j \in 1..l
        BY <3>2
      <4> QED BY <1>3, <2>1, <4>1
    <3> QED BY <3>1, <3>2
  <2> QED BY <1>3, <2>2, <2>3 DEF Cache!Followed
<1> QED BY <1>1, <1>2, <1>3, <1>4, <1>5, <1>6

\* The key of the first entry of a full cache has been followed by as many others as
\* there are places, once another key comes.
LEMMA FirstIsOld ==
  ASSUME NEW s \in Seq(Cache!CacheEntries), Cache!Distinct(s), Len(s) = CacheSize,
         NEW us \in SUBSET Keys, Cache!Followed(s, s[1].key, us),
         NEW k \in Keys, \A i \in 1..Len(s) : s[i].key # k
  PROVE  Cache!Cardinality(us \cup {k}) >= CacheSize
<1> DEFINE h == [i \in 1..CacheSize |-> IF i = 1 THEN k ELSE s[i].key]
<1>1. CacheSize \in Nat \ {0} /\ 1 \in 1..CacheSize
  BY CacheAssumption
<1>2. \A i, j \in 1..CacheSize : i < j => s[i].key # s[j].key
  BY DEF Cache!Distinct
<1>3. \A j \in 2..CacheSize : s[j].key \in us
  <2>1. PICK i \in 1..CacheSize : s[i].key = s[1].key /\ \A j \in i + 1..CacheSize : s[j].key \in us
    BY DEF Cache!Followed
  <2>2. i = 1
    BY <1>1, <1>2, <2>1
  <2> QED BY <2>1, <2>2
<1>4. h \in Injection(1..CacheSize, us \cup {k})
  <2>1. h \in [1..CacheSize -> us \cup {k}]
    <3> SUFFICES ASSUME NEW i \in 1..CacheSize, i # 1 PROVE s[i].key \in us
      OBVIOUS
    <3>1. i \in 2..CacheSize
      OBVIOUS
    <3> QED BY <1>3, <3>1
  <2>2. ASSUME NEW i \in 1..CacheSize, NEW j \in 1..CacheSize, i < j PROVE h[i] # h[j]
    <3>1. j # 1 /\ h[j] = s[j].key
      BY <2>2
    <3> QED BY <1>2, <2>2, <3>1
  <2>3. \A i, j \in 1..CacheSize : h[i] = h[j] => i = j
    BY <1>1, <2>2
  <2> QED BY <2>1, <2>3 DEF Injection, IsInjective
<1> HIDE DEF h
<1>5. IsFiniteSet(us \cup {k})
  <2>1. us \cup {k} \in SUBSET Keys
    OBVIOUS
  <2> QED BY <2>1, CacheAssumption, FS_Subset
<1>6. Cache!Cardinality(1..CacheSize) <= Cache!Cardinality(us \cup {k})
  BY <1>4, <1>5, FS_Injection, CacheCount
<1>7. Cache!Cardinality(1..CacheSize) = CacheSize
  <2>1. 1 \in Int /\ CacheSize \in Int /\ ~(1 > CacheSize) /\ CacheSize - 1 + 1 = CacheSize
    BY <1>1
  <2> QED BY <2>1, FS_Interval, CacheCount
<1>8. Cache!Cardinality(us \cup {k}) \in Nat
  BY <1>5, FS_CardinalityType, CacheCount
<1> QED BY <1>1, <1>6, <1>7, <1>8

\* What remains in order of use.
LEMMA UseGrows ==
  ASSUME NEW us \in SUBSET Keys, NEW vs \in SUBSET Keys, us \subseteq vs,
         Cache!Cardinality(us) >= CacheSize
  PROVE  Cache!Cardinality(vs) >= CacheSize
<1>1. IsFiniteSet(vs)
  BY CacheAssumption, FS_Subset
<1>2. us \in SUBSET vs /\ IsFiniteSet(us) /\ Cache!Cardinality(us) <= Cache!Cardinality(vs)
  BY <1>1, FS_Subset, CacheCount
<1>3. Cache!Cardinality(us) \in Nat /\ Cache!Cardinality(vs) \in Nat /\ CacheSize \in Nat
  BY <1>1, <1>2, CacheAssumption, FS_CardinalityType, CacheCount
<1> QED BY <1>2, <1>3

\* The cache is in order, and its entries are typed.
Ordered ==
  /\ store \in Seq(Cache!CacheEntries) /\ Len(store) <= CacheSize
  /\ since \in [Keys -> SUBSET Keys]
  /\ Cache!Distinct(store) /\ Cache!InOrderOfUse

\* Entries are dropped.
LEMMA DropKeepsOrder ==
  ASSUME Ordered, NEW ks \in SUBSET Keys,
         store' = Cache!Without(store, ks), since' = Cache!Dropped(ks)
  PROVE  Ordered'
<1>1. PICK s \in Seq(Cache!CacheEntries) : s = store /\ Cache!Distinct(s)
  BY DEF Ordered
<1>2. PICK t \in Seq(Cache!CacheEntries) :
        /\ t = store' /\ Thinned(t, s) /\ Len(t) <= Len(s)
        /\ \A m \in 1..Len(s) : s[m].key \notin ks => \E i \in 1..Len(t) : t[i] = s[m]
  <2>1. /\ Thinned(Cache!Without(s, ks), s) /\ Len(Cache!Without(s, ks)) <= Len(s)
        /\ \A m \in 1..Len(s) :
             s[m].key \notin ks
                => \E i \in 1..Len(Cache!Without(s, ks)) : Cache!Without(s, ks)[i] = s[m]
    BY <1>1, WithoutThins
  <2>2. Cache!Without(s, ks) \in Seq(Cache!CacheEntries) /\ store' = Cache!Without(s, ks)
    BY <1>1, <2>1 DEF Thinned
  <2> QED BY <2>1, <2>2
<1>3. /\ since' \in [Keys -> SUBSET Keys]
      /\ \A k \in Keys : k \notin since'[k] => k \notin ks /\ since'[k] = since[k]
  BY DEF Ordered, Cache!Dropped
<1>4. Len(t) <= CacheSize
  BY <1>1, <1>2, CacheAssumption, LenProperties DEF Ordered
<1>5. ASSUME NEW k \in Keys, k \notin since'[k]
      PROVE  Cache!Cardinality(since'[k]) >= CacheSize \/ Cache!Followed(t, k, since'[k])
  <2>1. k \notin ks /\ since'[k] = since[k]
    BY <1>3, <1>5
  <2>2. CASE Cache!Cardinality(since[k]) >= CacheSize
    BY <2>1, <2>2
  <2>3. CASE Cache!Followed(s, k, since[k])
    <3>1. PICK m \in 1..Len(s) : s[m].key = k
      BY <2>3 DEF Cache!Followed
    <3>2. PICK i \in 1..Len(t) : t[i] = s[m]
      BY <1>2, <2>1, <3>1
    <3>3. t[i].key = k
      BY <3>1, <3>2
    <3> QED BY <1>2, <2>1, <2>3, <3>3 DEF Thinned
  <2> QED BY <1>1, <1>5, <2>1, <2>2, <2>3 DEF Ordered, Cache!InOrderOfUse
<1> QED BY <1>2, <1>3, <1>4, <1>5 DEF Ordered, Cache!InOrderOfUse, Thinned

\* A key is used, and its entry becomes the last one; another may have been given up.
LEMMA UseKeepsOrder ==
  ASSUME Ordered, NEW k \in Keys, NEW e \in Cache!CacheEntries, e.key = k,
         NEW t, Thinned(t, store), Len(t) < CacheSize, \A i \in 1..Len(t) : t[i].key # k,
         \A m \in 1..Len(store) :
           store[m].key # k => (\E i \in 1..Len(t) : t[i] = store[m])
                               \/ (/\ m = 1 /\ Len(store) = CacheSize
                                   /\ \A i \in 1..Len(store) : store[i].key # k),
         store' = Append(t, e), since' = Cache!Used(k)
  PROVE  Ordered'
<1>1. PICK s \in Seq(Cache!CacheEntries) : s = store /\ Cache!Distinct(s)
  BY DEF Ordered
<1>2. t \in Seq(Cache!CacheEntries) /\ Cache!Distinct(t)
  BY DEF Thinned
<1>3. PICK u \in Seq(Cache!CacheEntries) :
        /\ u = store' /\ Len(u) = Len(t) + 1 /\ Cache!Distinct(u)
        /\ \A us : Cache!Followed(u, k, us)
        /\ \A j, us : Cache!Followed(t, j, us) => Cache!Followed(u, j, us \cup {k})
  BY <1>2, AddedLast
<1>4. Len(u) <= CacheSize
  BY <1>2, <1>3, CacheAssumption, LenProperties
<1>5. /\ since' \in [Keys -> SUBSET Keys]
      /\ \A j \in Keys \ {k} : since'[j] = since[j] \cup {k}
  BY DEF Ordered, Cache!Used
<1>6. ASSUME NEW j \in Keys, j \notin since'[j]
      PROVE  Cache!Cardinality(since'[j]) >= CacheSize \/ Cache!Followed(u, j, since'[j])
  <2>1. CASE j = k
    BY <1>3, <2>1
  <2>2. CASE j # k
    <3>0. PICK us \in SUBSET Keys : us = since[j] /\ since'[j] = us \cup {k}
      BY <1>5, <2>2 DEF Ordered
    <3>1. us \cup {k} \in SUBSET Keys /\ us \subseteq us \cup {k}
      OBVIOUS
    <3>2. j \notin since[j]
      BY <1>6, <3>0
    <3>3. CASE Cache!Cardinality(us) >= CacheSize
      BY <3>0, <3>1, <3>3, UseGrows
    <3>4. CASE Cache!Followed(s, j, us)
      <4>1. PICK m \in 1..Len(s) : s[m].key = j
        BY <3>4 DEF Cache!Followed
      <4>2. CASE \E i \in 1..Len(t) : t[i] = s[m]
        <5>1. PICK i \in 1..Len(t) : t[i] = s[m]
          BY <4>2
        <5>2. t[i].key = j
          BY <4>1, <5>1
        <5>3. Cache!Followed(t, j, us)
          BY <1>1, <3>4, <5>1, <5>2 DEF Thinned
        <5> QED BY <1>3, <3>0, <5>3
      <4>3. CASE m = 1 /\ Len(s) = CacheSize /\ \A i \in 1..Len(s) : s[i].key # k
        <5>1. Cache!Followed(s, s[1].key, us)
          BY <3>4, <4>1, <4>3
        <5>2. Cache!Cardinality(us \cup {k}) >= CacheSize
          BY <1>1, <4>3, <5>1, FirstIsOld
        <5> QED BY <3>0, <5>2
      <4> QED BY <1>1, <2>2, <4>1, <4>2, <4>3
    <3> QED BY <1>1, <3>0, <3>2, <3>3, <3>4 DEF Ordered, Cache!InOrderOfUse
  <2> QED BY <2>1, <2>2
<1> QED BY <1>3, <1>4, <1>5, <1>6 DEF Ordered, Cache!InOrderOfUse

LEMMA EntryIs ==
  ASSUME Ordered, NEW k \in Cache!KeysOf(store)
 
PROVE   Cache!Entry(k) \in Cache!CacheEntries /\ Cache!Entry(k).key = k
   /\ \E m \in 1..Len(store) : store[m].key = k
<1>1. DOMAIN store = 1..Len(store) /\ \A i \in 1..Len(store) : store[i] \in Cache!CacheEntries
  BY LenProperties, ElementOfSeq DEF Ordered
<1>2. PICK m \in 1..Len(store) : store[m].key = k
  BY <1>1 DEF Cache!KeysOf
<1>3. store[m] \in Cache!ToSet(store) /\ \A e \in Cache!ToSet(store) : e \in Cache!CacheEntries
  BY <1>1 DEF Cache!ToSet
<1> QED BY <1>2, <1>3 DEF Cache!Entry

\* The entry of a key is replaced, or moved, by one at the end.
LEMMA ReplaceKeepsOrder ==
  ASSUME Ordered, NEW k \in Keys, k \in Cache!KeysOf(store), NEW e \in Cache!CacheEntries,
     e.key = k,
         store' = Append(Cache!Without(store, {k}), e), since' = Cache!Used(k)
  PROVE  Ordered'
<1>1. PICK s \in Seq(Cache!CacheEntries) : s = store /\ Cache!Distinct(s)
  BY DEF Ordered
<1>2. PICK m \in 1..Len(s) : s[m].key = k
  BY <1>1, EntryIs
<1>3. PICK ks \in SUBSET Keys : ks = {k}
  OBVIOUS
<1>a. PICK t : t = Cache!Without(s, ks)
  OBVIOUS
<1>4. /\ Thinned(t, s) /\ Len(t) <= Len(s)
      /\ (\E i \in 1..Len(s) : s[i].key \in ks) => Len(t) < Len(s)
      /\ \A i \in 1..Len(t) : t[i].key \notin ks
      /\ \A i \in 1..Len(s) : s[i].key \notin ks => \E j \in 1..Len(t) : t[j] = s[i]
  <2>1. /\ Thinned(Cache!Without(s, ks), s) /\ Len(Cache!Without(s, ks)) <= Len(s)
        /\ (\E i \in 1..Len(s) : s[i].key \in ks) => Len(Cache!Without(s, ks)) < Len(s)
    BY <1>1, WithoutThins
  <2>2. \A i \in 1..Len(Cache!Without(s, ks)) : Cache!Without(s, ks)[i].key \notin ks
    BY <1>1, WithoutThins
  <2>3. \A i \in 1..Len(s) :
          s[i].key \notin ks
             => \E j \in 1..Len(Cache!Without(s, ks)) : Cache!Without(s, ks)[j] = s[i]
    BY <1>1, WithoutThins
  <2> QED BY <1>a, <2>1, <2>2, <2>3
<1>5. Len(t) < CacheSize
  <2>1. Len(t) < Len(s) /\ Len(s) <= CacheSize
    BY <1>1, <1>2, <1>3, <1>4 DEF Ordered
  <2>2. Len(t) \in Nat /\ Len(s) \in Nat
    BY <1>4, LenProperties DEF Thinned
  <2> QED BY <2>1, <2>2, CacheAssumption
<1>6. /\ \A i \in 1..Len(t) : t[i].key # k
      /\ \A i \in 1..Len(s) : s[i].key # k => \E j \in 1..Len(t) : t[j] = s[i]
  BY <1>3, <1>4
<1>7. store' = Append(t, e) /\ Thinned(t, store)
  BY <1>1, <1>3, <1>a, <1>4
<1> QED BY <1>1, <1>5, <1>6, <1>7, UseKeepsOrder

\* A key without an entry gets one; a full cache gives up its first.
LEMMA InsertKeepsOrder ==
  ASSUME Ordered, NEW k \in Keys, k \notin Cache!KeysOf(store), NEW e \in Cache!CacheEntries,
     e.key = k,
         store' = Append(Cache!Room, e), since' = Cache!Used(k)
  PROVE  Ordered'
<1>1. PICK s \in Seq(Cache!CacheEntries) : s = store /\ Cache!Distinct(s) /\ Len(s) <= CacheSize
  BY DEF Ordered
<1>2. Len(s) \in Nat /\ CacheSize \in Nat \ {0}
  BY CacheAssumption, LenProperties
<1>3. \A i \in 1..Len(s) : s[i].key # k
  BY <1>1, LenProperties DEF Cache!KeysOf
<1>4. CASE Len(s) >= CacheSize
  <2>0. Len(s) = CacheSize
    BY <1>1, <1>2, <1>4
  <2>1. s # <<>> /\ Len(s) = CacheSize
    <3>1. 1 \in 1..Len(s)
      BY <1>2, <2>0
    <3> QED BY <2>0, <3>1
  <2>2. PICK t : t = Tail(s)
    OBVIOUS
  <2>3. /\ Thinned(t, s) /\ Len(t) = Len(s) - 1
        /\ \A m \in 2..Len(s) : \E i \in 1..Len(t) : t[i] = s[m]
    BY <1>1, <2>1, <2>2, TailThins
  <2>4. \A i \in 1..Len(t) : t[i].key # k
    BY <1>3, <2>3 DEF Thinned
  <2>5. Len(t) < CacheSize /\ \A m \in 1..Len(s) : m = 1 \/ m \in 2..Len(s)
    BY <1>2, <2>1, <2>3
  <2>6. store' = Append(t, e)
    BY <1>1, <1>4, <2>2 DEF Cache!Room
  <2> QED BY <1>1, <1>3, <2>1, <2>3, <2>4, <2>5, <2>6, UseKeepsOrder
<1>5. CASE ~(Len(s) >= CacheSize)
  <2>1. Thinned(s, s) /\ Len(s) < CacheSize
    BY <1>1, <1>2, <1>5, AllThins
  <2>2. store' = Append(s, e)
    BY <1>1, <1>5 DEF Cache!Room
  <2> QED BY <1>1, <1>3, <2>1, <2>2, UseKeepsOrder
<1> QED BY <1>4, <1>5

LEMMA GetKeepsOrder == ASSUME Ordered, NEW k \in Keys, Cache!Get(k) PROVE Ordered'
<1>1. CASE Cache!Alive(k)
  <2>1. k \in Cache!KeysOf(store)
    BY <1>1 DEF Cache!Alive
  <2>2. store' = Append(Cache!Without(store, {k}), Cache!Entry(k)) /\ since' = Cache!Used(k)
    BY <1>1 DEF Cache!Get, Cache!Touched
  <2>3. Cache!Entry(k) \in Cache!CacheEntries /\ Cache!Entry(k).key = k
    BY <2>1, EntryIs
  <2> QED BY <2>1, <2>2, <2>3, ReplaceKeepsOrder
<1>2. CASE ~Cache!Alive(k)
  BY <1>2, DropKeepsOrder DEF Cache!Get
<1> QED BY <1>1, <1>2

LEMMA SetKeepsOrder ==
  ASSUME Ordered, NEW t \in Threads, pending[t] \in Cache!CacheEntries, Cache!Set(t)
  PROVE  Ordered'
<1>1. PICK e \in Cache!CacheEntries, k \in Keys : e = pending[t] /\ e.key = k
  BY DEF Cache!CacheEntries
<1>3. CASE k \in Cache!KeysOf(store)
  BY <1>1, <1>3, ReplaceKeepsOrder DEF Cache!Set
<1>4. CASE k \notin Cache!KeysOf(store)
  BY <1>1, <1>4, InsertKeepsOrder DEF Cache!Set
<1> QED BY <1>3, <1>4

LEMMA OrderNext == Cache!IInv /\ [Cache!Next]_Cache!vars => Ordered'
<1> SUFFICES ASSUME Cache!IInv, [Cache!Next]_Cache!vars PROVE Ordered'
  OBVIOUS
<1>0. Ordered
  BY DEF Cache!IInv, Cache!TypeOK, Ordered
<1>1. CASE Cache!Tick \/ Cache!StartSweeper \/ UNCHANGED Cache!vars
  <2>1. store' = store /\ since' = since
    BY <1>1 DEF Cache!Tick, Cache!StartSweeper, Cache!vars
  <2> QED BY <1>0, <2>1 DEF Ordered, Cache!InOrderOfUse
<1>2. CASE Cache!Sweep
  <2>1. PICK old : /\ old = {e.key : e \in {d \in Cache!ToSet(store) : Cache!Expired(d)}}
                   /\ store' = Cache!Without(store, old) /\ since' = Cache!Dropped(old)
    BY <1>2 DEF Cache!Sweep
  <2>2. old \in SUBSET Keys
    <3>1. \A e \in Cache!ToSet(store) : e.key \in Keys
      <4>1. store \in Seq(Cache!CacheEntries) /\ DOMAIN store = 1..Len(store)
        BY <1>0, LenProperties DEF Ordered
      <4>2. \A e \in Cache!ToSet(store) : e \in Cache!CacheEntries
        BY <4>1, ElementOfSeq DEF Cache!ToSet
      <4> QED BY <4>2 DEF Cache!CacheEntries
    <3> QED BY <2>1, <3>1
  <2> QED BY <1>0, <2>1, <2>2, DropKeepsOrder
<1>3. ASSUME NEW k \in Keys, Cache!DoGet(k) PROVE Ordered'
  BY <1>0, <1>3, GetKeepsOrder DEF Cache!DoGet
<1>4. ASSUME NEW t \in Threads, Cache!Set(t) PROVE Ordered'
  <2>1. pending[t] \in Cache!CacheEntries
    BY <1>4 DEF Cache!Set, Cache!NoWork, Cache!IInv, Cache!TypeOK
  <2> QED BY <1>0, <1>4, <2>1, SetKeepsOrder
<1>5. ASSUME NEW k \in Keys, Cache!Has(k) PROVE Ordered'
  <2>1. CASE Cache!Alive(k)
    <3>1. store' = store /\ since' = since
      BY <1>5, <2>1 DEF Cache!Has
    <3> QED BY <1>0, <3>1 DEF Ordered, Cache!InOrderOfUse
  <2>2. CASE ~Cache!Alive(k)
    BY <1>0, <1>5, <2>2, DropKeepsOrder DEF Cache!Has
  <2> QED BY <2>1, <2>2
<1>6. ASSUME NEW ks \in SUBSET Keys, Cache!Delete(ks) PROVE Ordered'
  BY <1>0, <1>6, DropKeepsOrder DEF Cache!Delete
<1>7. ASSUME NEW t \in Threads, Cache!Computed(t) \/ \E k \in Keys : Cache!SetBegins(t, k)
      PROVE  Ordered'
  <2>1. store' = store /\ since' = since
    BY <1>7 DEF Cache!Computed, Cache!SetBegins
  <2> QED BY <1>0, <2>1 DEF Ordered, Cache!InOrderOfUse
<1>8. ASSUME NEW t \in Threads, NEW k \in Keys, Cache!Miss(t, k) PROVE Ordered'
  BY <1>0, <1>8, GetKeepsOrder DEF Cache!Miss
<1> QED BY <1>1, <1>2, <1>3, <1>4, <1>5, <1>6, <1>7, <1>8 DEF Cache!Next

LEMMA CacheInvNext == Cache!IInv /\ [Cache!Next]_Cache!vars => Cache!IInv'
<1> SUFFICES ASSUME Cache!IInv, [Cache!Next]_Cache!vars PROVE Cache!IInv'
  OBVIOUS
<1>1. Ordered'
  BY OrderNext
<1>2. time' \in Nat /\ ops' \in Nat
  <2>1. time' = time \/ time' = time + 1
    BY DEF Cache!Next, Cache!Tick, Cache!StartSweeper, Cache!Sweep, Cache!DoGet,
       Cache!Set, Cache!SetBegins, Cache!Has, Cache!Delete, Cache!Computed, Cache!Miss, Cache!vars
  <2>2. ops' = ops \/ ops' = ops + 1
    BY DEF Cache!Next, Cache!Tick, Cache!StartSweeper, Cache!Sweep, Cache!DoGet,
       Cache!Set, Cache!SetBegins, Cache!Has, Cache!Delete, Cache!Computed, Cache!Miss, Cache!Count, Cache!vars
  <2> QED BY <2>1, <2>2 DEF Cache!IInv, Cache!TypeOK
<1>3. sweeping' \in BOOLEAN
  <2>1. sweeping' = sweeping \/ sweeping' = ~sweeping
    BY Zenon DEF Cache!Next, Cache!Tick, Cache!StartSweeper, Cache!Sweep, Cache!DoGet,
       Cache!Set, Cache!SetBegins, Cache!Has, Cache!Delete, Cache!Computed, Cache!Miss, Cache!vars
  <2> QED BY Zenon, <2>1 DEF Cache!IInv, Cache!TypeOK
<1>4. pending' \in [Threads -> Cache!CacheEntries \cup {Cache!NoWork}]
  <2>1. CASE UNCHANGED pending
    BY <2>1 DEF Cache!IInv, Cache!TypeOK
  <2>2. ASSUME NEW t \in Threads, Cache!Computed(t)
        PROVE  pending' \in [Threads -> Cache!CacheEntries \cup {Cache!NoWork}]
    <3>1. pending[t] \in Cache!CacheEntries
      BY <2>2 DEF Cache!IInv, Cache!TypeOK, Cache!Computed
    <3>2. PICK ttl \in Ttls : pending' = [pending EXCEPT ![t].expires = time + ttl]
      BY <2>2 DEF Cache!Computed
    <3>3. PICK n \in Nat : n = time + ttl
      BY CacheAssumption DEF Cache!IInv, Cache!TypeOK
    <3>4. pending' = [pending EXCEPT ![t] = [pending[t] EXCEPT !.expires = n]]
      BY <3>2, <3>3
    <3>5. [pending[t] EXCEPT !.expires = n] \in Cache!CacheEntries
      BY <3>1 DEF Cache!CacheEntries
    <3> QED BY <3>4, <3>5 DEF Cache!IInv, Cache!TypeOK
  <2>3. ASSUME NEW t \in Threads, NEW e \in Cache!CacheEntries \cup {Cache!NoWork},
               pending' = [pending EXCEPT ![t] = e]
        PROVE  pending' \in [Threads -> Cache!CacheEntries \cup {Cache!NoWork}]
    BY <2>3 DEF Cache!IInv, Cache!TypeOK
  <2>4. ASSUME NEW t \in Threads, NEW k \in Keys, Cache!Miss(t, k)
        PROVE  pending' \in [Threads -> Cache!CacheEntries \cup {Cache!NoWork}]
    <3>1. [key |-> k, expires |-> 0] \in Cache!CacheEntries
      BY DEF Cache!CacheEntries
    <3> QED BY <2>3, <2>4, <3>1 DEF Cache!Miss
  <2>5. ASSUME NEW t \in Threads, NEW k \in Keys, Cache!SetBegins(t, k)
        PROVE  pending' \in [Threads -> Cache!CacheEntries \cup {Cache!NoWork}]
    <3>1. PICK ttl \in Ttls : pending' = [pending EXCEPT ![t] = [key |-> k, expires |-> time + ttl]]
      BY <2>5 DEF Cache!SetBegins
    <3>2. time + ttl \in Nat
      BY CacheAssumption DEF Cache!IInv, Cache!TypeOK
    <3>3. [key |-> k, expires |-> time + ttl] \in Cache!CacheEntries
      BY <3>2 DEF Cache!CacheEntries
    <3> QED BY <2>3, <3>1, <3>3
  <2>6. ASSUME NEW t \in Threads, Cache!Set(t)
        PROVE  pending' \in [Threads -> Cache!CacheEntries \cup {Cache!NoWork}]
    BY <2>3, <2>6 DEF Cache!Set
  <2> QED BY <2>1, <2>2, <2>4, <2>5, <2>6 DEF Cache!Next, Cache!Tick, Cache!StartSweeper,
             Cache!Sweep, Cache!DoGet, Cache!Has, Cache!Delete, Cache!vars
<1> QED BY <1>1, <1>2, <1>3, <1>4 DEF Cache!IInv, Cache!TypeOK, Ordered

LEMMA CacheInit == Cache!Init => Cache!IInv
<1> SUFFICES ASSUME Cache!Init PROVE Cache!IInv
  OBVIOUS
<1>1. /\ time = 0 /\ store = <<>> /\ ops = 0
      /\ pending = [t \in Threads |-> Cache!NoWork] /\ since = [k \in Keys |-> {k}]
  BY DEF Cache!Init
<1>2. sweeping \in BOOLEAN
  BY Zenon DEF Cache!Init
<1>3. store \in Seq(Cache!CacheEntries) /\ Len(store) = 0
  BY <1>1
<1>4. since \in [Keys -> SUBSET Keys] /\ \A k \in Keys : k \in since[k]
  BY <1>1
<1>5. pending \in [Threads -> Cache!CacheEntries \cup {Cache!NoWork}]
  BY <1>1
<1>6. Cache!TypeOK
  BY <1>1, <1>2, <1>3, <1>4, <1>5, CacheAssumption DEF Cache!TypeOK
<1>7. Cache!Distinct(store) /\ Cache!InOrderOfUse
  BY <1>3, <1>4 DEF Cache!Distinct, Cache!InOrderOfUse
<1> QED BY <1>6, <1>7 DEF Cache!IInv

LEMMA OrderKeeps == Cache!IInv => Cache!RecentlyUsedKept
<1> SUFFICES ASSUME Cache!IInv, NEW k \in Keys, k \notin since[k],
       Cache!Cardinality(since[k]) < CacheSize
             PROVE  k \in Cache!KeysOf(store)
  BY DEF Cache!IInv, Cache!TypeOK, Cache!RecentlyUsedKept
<1>1. Cache!Cardinality(since[k]) \in Nat
  <2>1. since[k] \in SUBSET Keys
    BY DEF Cache!IInv, Cache!TypeOK
  <2> QED BY <2>1, CacheAssumption, FS_Subset, FS_CardinalityType, CacheCount
<1>2. Cache!Followed(store, k, since[k])
  BY <1>1, CacheAssumption DEF Cache!IInv, Cache!InOrderOfUse
<1>3. PICK i \in 1..Len(store) : store[i].key = k
  BY <1>2 DEF Cache!Followed
<1>4. DOMAIN store = 1..Len(store)
  BY LenProperties DEF Cache!IInv, Cache!TypeOK
<1> QED BY <1>3, <1>4 DEF Cache!KeysOf

\* While another component is at work, the cache rests.
LEMMA CacheStep == [ComponentNext]_componentVars => [Cache!Next]_Cache!vars
BY DEF ComponentNext, componentVars, cacheVars, Cache!vars

LEMMA CacheInductive == ComponentSpec => []Cache!IInv
<1>1. ComponentInit => Cache!IInv
  BY CacheInit DEF ComponentInit
<1>2. Cache!IInv /\ [ComponentNext]_componentVars => Cache!IInv'
  BY CacheStep, CacheInvNext
<1> QED BY <1>1, <1>2, PTL DEF ComponentSpec

\* The cache gives up no key before as many others as it has places were used after it,
\* whatever get(), set(), get_or_set(), delete() and the sweep do in between.
THEOREM RecentKeysAreKept == ComponentSpec => []RecentlyUsedKept
<1>1. Cache!IInv => RecentlyUsedKept
  BY OrderKeeps DEF RecentlyUsedKept
<1> QED BY <1>1, CacheInductive, PTL

-----------------------------------------------------------------------------
(* The API server *)

LEMMA ApiKept == ASSUME NEW s, NEW T PROVE Api!Kept(s, T) = Kept(s, T)
BY DEF Api!Kept, Kept

\* The requests of the window are some of the bucket's, or all of them, and all of them
\* recent.
LEMMA RecentAre ==
  ASSUME Api!TypeOK, NEW c \in Clients
  PROVE  LET recent == Api!RecentRequests(c)
         IN  /\ recent \in Seq(Nat) /\ Len(recent) <= Len(buckets[c])
             /\ Len(recent) = Len(buckets[c]) =>
                  \A i \in 1..Len(recent) :
                    recent[i] = buckets[c][i] /\ recent[i] > halves - 2 * WindowLength
<1> DEFINE T == {t \in 0..halves : t > halves - 2 * WindowLength}
<1>1. Api!RecentRequests(c) = Kept(buckets[c], T)
  BY ApiKept DEF Api!RecentRequests
<1>2. \A t \in T : t > halves - 2 * WindowLength
  OBVIOUS
<1>3. buckets[c] \in Seq(Nat)
  BY DEF Api!TypeOK
<1> HIDE DEF T
<1>4. /\ Api!RecentRequests(c) \in Seq(Nat)
      /\ ShorterOrSame(Api!RecentRequests(c), buckets[c], Len(buckets[c]))
  BY <1>1, <1>3, KeptKeeps
<1>5. \A i \in 1..Len(Api!RecentRequests(c)) : Api!RecentRequests(c)[i] \in T
  BY <1>1, <1>3, KeptElements
<1> QED BY <1>2, <1>4, <1>5 DEF ShorterOrSame

LEMMA ApiInit == Api!Init => Api!IInv
<1> SUFFICES ASSUME Api!Init PROVE Api!IInv
  OBVIOUS
<1>1. /\ server = "down" /\ halves = 0 /\ part \in {"none", "works", "fails"}
      /\ buckets = [c \in Clients |-> <<>>] /\ request = [c \in Clients |-> Api!Nobody]
      /\ sent = [c \in Clients |-> 0] /\ answer = [c \in Clients |-> 0]
      /\ refused = [c \in Clients |-> Api!NotRefused]
  BY DEF Api!Init
<1>2. joined \in BOOLEAN
  BY Zenon DEF Api!Init
<1>3. buckets \in [Clients -> Seq(Nat)] /\ \A c \in Clients : Len(buckets[c]) = 0
  BY <1>1
<1>4. request \in [Clients -> Api!Routes \cup {Api!Nobody}]
  BY <1>1
<1>5. sent \in [Clients -> Nat] /\ answer \in [Clients -> Nat]
  BY <1>1
<1>6. refused \in [Clients -> Nat \X Nat] /\ \A c \in Clients : refused[c] = Api!NotRefused
  BY <1>1 DEF Api!NotRefused
<1>7. Api!TypeOK
  BY <1>1, <1>2, <1>3, <1>4, <1>5, <1>6, ApiAssumption DEF Api!TypeOK
<1> QED BY <1>6, <1>7 DEF Api!IInv, Api!RefusalEnds

\* What Retry-After says is less than a second short.
LEMMA RetryAfterIs ==
  ASSUME Api!TypeOK, NEW c \in Clients, Len(Api!RecentRequests(c)) >= Limit
  PROVE  /\ Len(buckets[c]) = Limit /\ Api!RetryAfter(Api!RecentRequests(c)) \in Nat
         /\ buckets[c][1] + 2 * WindowLength
              < halves + 2 * (Api!RetryAfter(Api!RecentRequests(c)) + 1)
<1>1. PICK s \in Seq(Nat) : s = Api!RecentRequests(c)
  BY RecentAre
<1>2. PICK b \in Seq(Nat) : b = buckets[c]
  BY DEF Api!TypeOK
<1>3. /\ Len(s) >= Limit /\ Len(s) <= Len(b) /\ Len(b) <= Limit
      /\ Len(s) = Len(b) => \A i \in 1..Len(s) : s[i] = b[i] /\ s[i] > halves - 2 * WindowLength
  BY <1>1, <1>2, RecentAre DEF Api!TypeOK
<1>4. Len(s) = Limit /\ Len(b) = Limit /\ 1 \in 1..Len(s)
  BY <1>3, ApiAssumption, LenProperties
<1>5. PICK h \in Nat : h = s[1] /\ h = b[1] /\ h > halves - 2 * WindowLength
  <2>1. s[1] \in Nat
    BY <1>4, ElementOfSeq
  <2> QED BY <1>3, <1>4, <2>1
<1>6. Head(s) = h
  <2>1. s # <<>>
    BY <1>4
  <2>2. Head(s) = s[1]
    BY <2>1
  <2> QED BY <1>5, <2>2
<1> DEFINE x == 2 * WindowLength - (halves - h)
<1>7. halves \in Nat /\ WindowLength \in Nat
  BY ApiAssumption DEF Api!TypeOK
<1>8. x \in Nat /\ h + 2 * WindowLength = halves + x
  <2>1. PICK w \in Nat, n \in Nat : w = WindowLength /\ n = halves
    BY <1>7
  <2>2. h > n - 2 * w
    BY <1>5, <2>1
  <2>3. 2 * w - (n - h) \in Nat /\ h + 2 * w = n + (2 * w - (n - h))
    BY <2>2
  <2> QED BY <2>1, <2>3
<1> HIDE DEF x
<1>9. PICK q \in Nat : q = x \div 2 /\ x < 2 * (q + 1)
  BY <1>8
<1>10. PICK r \in Nat : r = Api!RetryAfter(s) /\ q <= r
  <2>1. Api!RetryAfter(s) = IF q < 1 THEN 1 ELSE q
    BY <1>6, <1>9 DEF Api!RetryAfter, x
  <2> QED BY <2>1
<1>11. h + 2 * WindowLength < halves + 2 * (r + 1)
  BY <1>7, <1>8, <1>9, <1>10
<1> QED BY <1>1, <1>2, <1>4, <1>5, <1>10, <1>11

LEMMA ApiInvNext == Api!IInv /\ [Api!Next]_Api!apiVars => Api!IInv'
<1> SUFFICES ASSUME Api!TypeOK, Api!RefusalEnds, [Api!Next]_Api!apiVars PROVE Api!IInv'
  BY DEF Api!IInv
<1>1. CASE \/ Api!PartChanges \/ Api!Start \/ Api!RunServer \/ Api!ServerEnds
         \/ Api!StopBegin \/ Api!StopReturns
           \/ Api!Tick \/ UNCHANGED Api!apiVars
  <2>1. UNCHANGED <<buckets, request, sent, answer, refused>>
    BY <1>1 DEF Api!PartChanges, Api!Start, Api!RunServer, Api!ServerEnds, Api!StopBegin,
       Api!StopReturns, Api!Tick, Api!apiVars
  <2>2. /\ server' \in {"down", "starting", "serving", "exiting", "ended"}
        /\ part' \in {"none", "works", "fails"} /\ halves' \in Nat
    BY <1>1 DEF Api!PartChanges, Api!Start, Api!RunServer, Api!ServerEnds, Api!StopBegin,
       Api!StopReturns, Api!Tick, Api!apiVars, Api!TypeOK
  <2>3. joined' \in BOOLEAN
    <3>1. joined' = joined \/ joined' = TRUE
      BY Zenon, <1>1 DEF Api!PartChanges, Api!Start, Api!RunServer, Api!ServerEnds,
         Api!StopBegin, Api!StopReturns, Api!Tick, Api!apiVars
    <3> QED BY Zenon, <3>1 DEF Api!TypeOK
  <2>4. Api!TypeOK'
    BY <2>1, <2>2, <2>3 DEF Api!TypeOK
  <2>5. Api!RefusalEnds'
    BY <2>1 DEF Api!RefusalEnds
  <2> QED BY <2>4, <2>5 DEF Api!IInv
<1>2. ASSUME NEW c \in Clients, NEW routes, NEW code \in Nat, Api!Answer(c, routes, code)
      PROVE  Api!IInv'
  <2>1. UNCHANGED <<server, joined, halves, buckets, part, sent, refused>>
    BY <1>2 DEF Api!Answer
  <2>2. answer' \in [Clients -> Nat] /\ request' \in [Clients -> Api!Routes \cup {Api!Nobody}]
    BY <1>2 DEF Api!Answer, Api!TypeOK
  <2>3. Api!TypeOK'
    BY <2>1, <2>2 DEF Api!TypeOK
  <2>4. Api!RefusalEnds'
    BY <2>1 DEF Api!RefusalEnds
  <2> QED BY <2>3, <2>4 DEF Api!IInv
<1>3. ASSUME NEW c \in Clients, Api!Unlimited(c) PROVE Api!IInv'
  <2>1. UNCHANGED <<server, joined, halves, buckets, request, part, refused>>
    BY <1>3 DEF Api!Unlimited
  <2>2. answer' \in [Clients -> Nat] /\ sent' \in [Clients -> Nat]
    BY <1>3 DEF Api!Unlimited, Api!Sends, Api!TypeOK
  <2>3. Api!TypeOK'
    BY <2>1, <2>2 DEF Api!TypeOK
  <2>4. Api!RefusalEnds'
    BY <2>1 DEF Api!RefusalEnds
  <2> QED BY <2>3, <2>4 DEF Api!IInv
<1>4. ASSUME NEW c \in Clients, Api!Refuse(c) PROVE Api!IInv'
  <2>1. /\ UNCHANGED <<server, joined, halves, request, part>>
           /\ Len(Api!RecentRequests(c)) >= Limit
        /\ refused' = [refused EXCEPT ![c] = <<halves, Api!RetryAfter(Api!RecentRequests(c))>>]
        /\ buckets' = [buckets EXCEPT ![c] = buckets[c]]
        /\ answer' = [answer EXCEPT ![c] = 429]
    BY <1>4 DEF Api!Refuse, Api!BucketAfterRefusal
  <2>2. sent' \in [Clients -> Nat] /\ answer' \in [Clients -> Nat]
    BY <1>4, <2>1 DEF Api!Refuse, Api!Sends, Api!TypeOK
  <2>3. PICK r \in Nat :
          /\ r = Api!RetryAfter(Api!RecentRequests(c)) /\ Len(buckets[c]) = Limit
          /\ buckets[c][1] + 2 * WindowLength < halves + 2 * (r + 1)
    BY <2>1, RetryAfterIs
  <2>4. buckets' = buckets
    BY <2>1 DEF Api!TypeOK
  <2>5. refused' \in [Clients -> Nat \X Nat] /\ refused'[c] = <<halves, r>>
        /\ \A d \in Clients \ {c} : refused'[d] = refused[d]
    BY <2>1, <2>3 DEF Api!TypeOK
  <2>6. Api!TypeOK'
    BY <2>1, <2>2, <2>4, <2>5 DEF Api!TypeOK
  <2>7. Api!RefusalEnds'
    <3> SUFFICES ASSUME NEW d \in Clients, refused'[d] # Api!NotRefused
                 PROVE  /\ Len(buckets[d]) = Limit
                        /\ buckets[d][1] + 2 * WindowLength < refused'[d][1] + 2 * (refused'[d][2] + 1)
      BY <2>4 DEF Api!RefusalEnds
    <3>1. CASE d = c
      BY <2>3, <2>5, <3>1
    <3>2. CASE d # c
      BY <2>5, <3>2 DEF Api!RefusalEnds
    <3> QED BY <3>1, <3>2
  <2> QED BY <2>6, <2>7 DEF Api!IInv
<1>5. ASSUME NEW c \in Clients, NEW route \in Api!Routes, Api!Admit(c, route) PROVE Api!IInv'
  <2>1. PICK s \in Seq(Nat) : s = Api!RecentRequests(c)
    BY RecentAre
  <2>2. PICK q \in Seq(Nat) : q = Append(s, halves) /\ Len(q) = Len(s) + 1
    BY AppendProperties DEF Api!TypeOK
  <2>3. /\ UNCHANGED <<server, joined, halves, part, answer>> /\ Len(s) < Limit
        /\ buckets' = [buckets EXCEPT ![c] = q]
        /\ request' = [request EXCEPT ![c] = route]
        /\ refused' = [refused EXCEPT ![c] = Api!NotRefused]
    BY <1>5, <2>1, <2>2 DEF Api!Admit
  <2>4. Len(q) <= Limit
    BY <2>2, <2>3, LenProperties, ApiAssumption
  <2>5. sent' \in [Clients -> Nat] /\ request' \in [Clients -> Api!Routes \cup {Api!Nobody}]
    BY <1>5, <2>3 DEF Api!Admit, Api!Sends, Api!TypeOK
  <2>6. /\ buckets' \in [Clients -> Seq(Nat)] /\ buckets'[c] = q
        /\ \A d \in Clients \ {c} : buckets'[d] = buckets[d]
    BY <2>3 DEF Api!TypeOK
  <2>7. /\ refused' \in [Clients -> Nat \X Nat] /\ refused'[c] = Api!NotRefused
        /\ \A d \in Clients \ {c} : refused'[d] = refused[d]
    BY <2>3 DEF Api!TypeOK, Api!NotRefused
  <2>8. \A d \in Clients : Len(buckets'[d]) <= Limit
    BY <2>4, <2>6 DEF Api!TypeOK
  <2>9. Api!TypeOK'
    BY <2>3, <2>5, <2>6, <2>7, <2>8 DEF Api!TypeOK
  <2>10. Api!RefusalEnds'
    <3> SUFFICES ASSUME NEW d \in Clients, refused'[d] # Api!NotRefused
                 PROVE  /\ Len(buckets'[d]) = Limit
                        /\ buckets'[d][1] + 2 * WindowLength
                             < refused'[d][1] + 2 * (refused'[d][2] + 1)
      BY DEF Api!RefusalEnds
    <3>1. d # c /\ refused[d] = refused'[d] /\ buckets[d] = buckets'[d]
      BY <2>6, <2>7
    <3> QED BY <3>1 DEF Api!RefusalEnds
  <2> QED BY <2>9, <2>10 DEF Api!IInv
<1>6. ASSUME NEW c \in Clients,
             \/ Api!AnswerListing(c) \/ Api!AnswerOverview(c) \/ Api!AnswerThreat(c)
                \/ Api!AnswerMark(c)
             \/ Api!AnswerSettings(c) \/ Api!AnswerExecute(c)
      PROVE  Api!IInv'
  <2>1. CASE Api!AnswerListing(c) \/ Api!AnswerOverview(c) \/ Api!AnswerExecute(c)
    BY <1>2, <2>1 DEF Api!AnswerListing, Api!AnswerOverview, Api!AnswerExecute
  <2>2. CASE Api!AnswerThreat(c)
    BY <1>2, <2>2 DEF Api!AnswerThreat
  <2>3. CASE Api!AnswerMark(c)
    BY <1>2, <2>3 DEF Api!AnswerMark
  <2>4. CASE Api!AnswerSettings(c)
    BY <1>2, <2>4 DEF Api!AnswerSettings
  <2> QED BY <1>6, <2>1, <2>2, <2>3, <2>4
<1> QED BY <1>1, <1>3, <1>4, <1>5, <1>6 DEF Api!Next

\* A client whose oldest request has left the window is not refused.
LEMMA WaitedEnough ==
  ASSUME Api!IInv, [Api!Next]_Api!apiVars, NEW c \in Clients,
         refused[c] # Api!NotRefused, halves >= refused[c][1] + 2 * (refused[c][2] + 1)
  PROVE  refused'[c] = refused[c] \/ refused'[c] = Api!NotRefused
<1>1. ASSUME Api!Refuse(c) PROVE FALSE
  <2>1. Len(Api!RecentRequests(c)) >= Limit
    BY <1>1 DEF Api!Refuse
  <2>2. Len(buckets[c]) = Limit /\ Limit \in Nat \ {0} /\ halves \in Nat /\ WindowLength \in Nat
    BY ApiAssumption DEF Api!IInv, Api!TypeOK, Api!RefusalEnds
  <2>3. PICK s \in Seq(Nat), b \in Seq(Nat) : s = Api!RecentRequests(c) /\ b = buckets[c]
    BY RecentAre DEF Api!IInv, Api!TypeOK
  <2>4. Len(s) = Len(b) /\ 1 \in 1..Len(s) /\ 1 \in 1..Len(b)
    <3>1. Len(s) <= Len(b)
      BY <2>3, RecentAre DEF Api!IInv
    <3>2. Len(s) \in Nat
      BY LenProperties
    <3> QED BY <2>1, <2>2, <2>3, <3>1, <3>2
  <2>5. b[1] > halves - 2 * WindowLength
    BY <2>3, <2>4, RecentAre DEF Api!IInv
  <2>6. b[1] \in Nat
    BY <2>4, ElementOfSeq
  <2>7. PICK at \in Nat, sec \in Nat : at = refused[c][1] /\ sec = refused[c][2]
    BY DEF Api!IInv, Api!TypeOK
  <2>8. b[1] + 2 * WindowLength < at + 2 * (sec + 1)
    BY <2>3, <2>7 DEF Api!IInv, Api!RefusalEnds
  <2>9. PICK h \in Nat, n \in Nat, l \in Nat : h = b[1] /\ n = halves /\ l = WindowLength
    BY <2>2, <2>6
  <2>10. n >= at + 2 * (sec + 1)
    BY <2>7, <2>9
  <2>11. h > n - 2 * l /\ h + 2 * l < at + 2 * (sec + 1)
    BY <2>5, <2>8, <2>9
  <2> QED BY <2>10, <2>11
<1>2. CASE \E d \in Clients : Api!Refuse(d)
  <2>1. PICK d \in Clients : Api!Refuse(d)
    BY <1>2
  <2>2. d # c
    BY <1>1, <2>1
  <2> QED BY <2>1, <2>2 DEF Api!Refuse, Api!IInv, Api!TypeOK
<1>3. CASE \E d \in Clients, r \in Api!Routes : Api!Admit(d, r)
  <2>1. PICK d \in Clients, r \in Api!Routes : Api!Admit(d, r)
    BY <1>3
  <2> QED BY <2>1 DEF Api!Admit, Api!IInv, Api!TypeOK
<1>4. CASE ~(\E d \in Clients : Api!Refuse(d))
         /\ ~(\E d \in Clients, r \in Api!Routes : Api!Admit(d, r))
  <2>1. refused' = refused
    BY <1>4 DEF Api!Next, Api!Tick, Api!PartChanges, Api!Start, Api!RunServer, Api!ServerEnds,
       Api!StopBegin, Api!StopReturns, Api!Unlimited,
       Api!AnswerListing, Api!AnswerOverview, Api!AnswerThreat, Api!AnswerMark,
       Api!AnswerSettings, Api!AnswerExecute, Api!Answer,
       Api!apiVars
  <2> QED BY <2>1
<1> QED BY <1>2, <1>3, <1>4

\* While another component is at work, the API server rests.
LEMMA ApiStep == [ComponentNext]_componentVars => [Api!Next]_Api!apiVars
BY DEF ComponentNext, componentVars, apiVars, Api!apiVars

LEMMA ApiInductive == ComponentSpec => []Api!IInv
<1>1. ComponentInit => Api!IInv
  BY ApiInit DEF ComponentInit
<1>2. Api!IInv /\ [ComponentNext]_componentVars => Api!IInv'
  BY ApiStep, ApiInvNext
<1> QED BY <1>1, <1>2, PTL DEF ComponentSpec

\* A client that waits one second longer than Retry-After said is let through when it
\* asks again, however often it was refused before.
THEOREM WaitingIsEnough == ComponentSpec => WaitingHelps
<1>1. Api!IInv /\ [ComponentNext]_componentVars =>
        [\A c \in Clients :
           refused[c] # Api!NotRefused /\ halves >= refused[c][1] + 2 * (refused[c][2] + 1) =>
             refused'[c] = refused[c] \/ refused'[c] = Api!NotRefused]_Api!apiVars
  BY ApiStep, WaitedEnough
<1>2. WaitingHelps <=>
        [][\A c \in Clients :
             refused[c] # Api!NotRefused /\ halves >= refused[c][1] + 2 * (refused[c][2] + 1) =>
               refused'[c] = refused[c] \/ refused'[c] = Api!NotRefused]_Api!apiVars
  BY DEF WaitingHelps, Api!WaitingHelps
<1> QED BY <1>1, <1>2, ApiInductive, PTL DEF ComponentSpec
=============================================================================
