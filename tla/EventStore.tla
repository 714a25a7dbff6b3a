----------------------------- MODULE EventStore -----------------------------
(***************************************************************************)
(* The event store (storage/event_store.py) as the application uses it: the *)
(* bus' workers write events and threats with handle_bus_event() and        *)
(* handle_threat_event(), the API's coroutines take asyncio.Lock and read   *)
(* or mark threats in the executor.  The handlers do not take the lock, so  *)
(* that all of them share one SQLite connection, and with it one            *)
(* transaction: `with connection:` begins with a statement and ends with a  *)
(* commit of whatever is pending, or with its rollback.                    *)
(*                                                                         *)
(* A row is its key; the columns the properties tell apart are the flag and *)
(* the record of false positives.  A threat id is stored once, so that      *)
(* INSERT OR REPLACE and INSERT OR IGNORE both add a row.                   *)
(***************************************************************************)
EXTENDS Naturals, FiniteSets

CONSTANTS
  EventIds,     \* raw events
  Timestamp,    \* Timestamp[e]: of event e
  ThreatIds,
  Workers,      \* workers of the bus that run the handlers
  Statements,   \* how many statements the migration has
  MaxEvents,    \* max_events of a prune
  MaxFailures,  \* bound: how many statements fail
  MaxCrashes,   \* bound: how often the process is killed
  MaxMarks      \* bound: how often the API marks or prunes

\* The coroutines follow each other under the lock: one stands for all.
Coroutine == "coroutine"

\* Keys and marks are told apart; each event has a time of its own.
ASSUME StoreAssumption ==
  /\ Statements \in Nat /\ MaxEvents \in Nat
  /\ Timestamp \in [EventIds -> Nat]
  /\ \A e, f \in EventIds : Timestamp[e] = Timestamp[f] => e = f
  /\ Coroutine \notin Workers
  /\ (EventIds \cup ThreatIds) \cap (ThreatIds \X {"flag", "record"}) = {}

VARIABLES
  phase,     \* of the store: "down", "opened", "migrating", "ready", "closing", "failed"
  schema,    \* what the migration has left in the file: [made |-> number of statements, version]
  step,      \* the next statement of a running migration
  disk,      \* what is committed
  view,      \* what the connection sees: disk and the pending transaction
  task,      \* task[p]: what the worker or the coroutine p is doing
  failures, crashes, marks,
  (* what the properties remember *)
  kept,      \* rows and marks whose `with` block ended without an exception
  gone,      \* rows deleted by a prune
  swept      \* rows and marks that were pending when somebody else rolled back

tally == <<failures, crashes, marks>>
ghosts == <<kept, gone, swept>>
vars == <<phase, schema, step, disk, view, task, tally, ghosts>>

Idle == [at |-> "idle", row |-> "none"]

\* A database: its events, its threats, those flagged as false positives and those
\* with a record in false_positives.
Empty == [events |-> {}, threats |-> {}, flagged |-> {}, recorded |-> {}]

Rows(d) == d.events \cup d.threats

\* The marks of a database, as pairs of a threat and what was done to it.
Marks(d) == {<<t, "flag">> : t \in d.flagged} \cup {<<t, "record">> : t \in d.recorded}

Stored(d) == Rows(d) \cup Marks(d)

Init ==
  /\ phase = "down"
  /\ schema = [made |-> 0, version |-> 0] /\ step = 0
  /\ disk = Empty /\ view = Empty
  /\ task = [p \in Workers \cup {Coroutine} |-> Idle]
  /\ failures = 0 /\ crashes = 0 /\ marks = 0
  /\ kept = {} /\ gone = {} /\ swept = {}

-----------------------------------------------------------------------------
(* initialize(): the connection, then the pending migrations. *)

Open ==
  /\ phase = "down"
  /\ phase' = "opened" /\ view' = disk
  /\ UNCHANGED <<schema, step, disk, task, tally, ghosts>>

\* The file cannot be opened: the application goes on without a store.
OpenFails ==
  /\ phase = "down" /\ failures < MaxFailures
  /\ phase' = "failed" /\ failures' = failures + 1
  /\ UNCHANGED <<schema, step, disk, view, task, crashes, marks, ghosts>>

\* _get_schema_version(): 0 while there is no such table.
ReadVersion ==
  /\ phase = "opened"
  /\ IF schema.version = 0
     THEN phase' = "migrating" /\ step' = 1
     ELSE phase' = "ready" /\ step' = step
  /\ UNCHANGED <<schema, disk, view, task, tally, ghosts>>

\* Mutant: the statements are not written to be repeated.
StatementRunsOnce(n) == schema.made < n

\* CREATE ... IF NOT EXISTS also runs where an earlier attempt left off.
StatementRuns(n) == TRUE

\* _apply_migration(): no transaction is open while tables are created, so that
\* each statement lasts; the version is inserted last.
Migrate ==
  /\ phase = "migrating"
  /\ IF step <= Statements
     THEN /\ phase' = IF StatementRuns(step) THEN "migrating" ELSE "failed"
          /\ step' = step + 1
          /\ schema' = [schema EXCEPT !.made = IF step > @ THEN step ELSE @]
     ELSE /\ schema' = [schema EXCEPT !.version = 1]
          /\ phase' = "ready" /\ step' = 0
  /\ UNCHANGED <<disk, view, task, tally, ghosts>>

-----------------------------------------------------------------------------
(* Writing: a statement in a `with connection:` block, then its end. *)

\* A handler is called; without a connection it returns.
Insert(w, row) ==
  /\ phase \in {"ready", "closing"}
  /\ task[w] = Idle /\ row \notin Rows(view) \cup kept \cup gone \cup swept
  /\ \A p \in Workers : task[p].row # row
  /\ view' = IF row \in EventIds THEN [view EXCEPT !.events = @ \cup {row}]
             ELSE [view EXCEPT !.threats = @ \cup {row}]
  /\ task' = [task EXCEPT ![w] = [at |-> "commit", row |-> row]]
  /\ UNCHANGED <<phase, schema, step, disk, tally, ghosts>>

\* Mutant: the block is left without a commit.
CommittedNot == disk

\* What the end of a block leaves in the file: all that is pending.
Committed == view

Commit(w) ==
  /\ w \in Workers /\ task[w].at = "commit"
  /\ disk' = Committed
  /\ kept' = kept \cup {task[w].row}
  /\ task' = [task EXCEPT ![w] = Idle]
  /\ UNCHANGED <<phase, schema, step, view, tally, gone, swept>>

\* The block ends with an exception: whatever is pending is rolled back, the rows
\* of others included.  (The row of w itself never was, or is no longer, there.)
RollBack(own) ==
  /\ view' = disk
  /\ swept' = swept \cup ((Stored(view) \ Stored(disk)) \ own)
  /\ failures' = failures + 1

\* The statement of a handler fails, and the handler swallows it.
InsertFails(w) ==
  /\ phase \in {"ready", "closing"} /\ failures < MaxFailures
  /\ w \in Workers /\ task[w] = Idle
  /\ RollBack({})
  /\ UNCHANGED <<phase, schema, step, disk, task, crashes, marks, kept, gone>>

\* So does the commit.
CommitFails(w) ==
  /\ failures < MaxFailures
  /\ w \in Workers /\ task[w].at = "commit"
  /\ RollBack({task[w].row})
  /\ task' = [task EXCEPT ![w] = Idle]
  /\ UNCHANGED <<phase, schema, step, disk, crashes, marks, kept, gone>>

-----------------------------------------------------------------------------
(* The coroutines. *)

\* mark_false_positive(): the flag of a threat that is there, and a record in any
\* case, in one block.
MarkFlag(t) ==
  /\ phase = "ready" /\ task[Coroutine] = Idle /\ marks < MaxMarks
  /\ view' = [view EXCEPT !.flagged = @ \cup ({t} \cap view.threats)]
  /\ task' = [task EXCEPT ![Coroutine] = [at |-> "record", row |-> t]]
  /\ marks' = marks + 1
  /\ UNCHANGED <<phase, schema, step, disk, failures, crashes, ghosts>>

MarkRecord ==
  /\ task[Coroutine].at = "record"
  /\ view' = [view EXCEPT !.recorded = @ \cup {task[Coroutine].row}]
  /\ task' = [task EXCEPT ![Coroutine].at = "end"]
  /\ UNCHANGED <<phase, schema, step, disk, tally, ghosts>>

MarkCommit ==
  /\ task[Coroutine].at = "end"
  /\ disk' = Committed
  /\ kept' = kept \cup {<<task[Coroutine].row, "record">>}
             \cup ({<<task[Coroutine].row, "flag">>} \cap Marks(view))
  /\ task' = [task EXCEPT ![Coroutine] = Idle]
  /\ UNCHANGED <<phase, schema, step, view, tally, gone, swept>>

\* The API answers 500.
MarkFails ==
  /\ task[Coroutine].at = "record" /\ failures < MaxFailures
  /\ RollBack({<<task[Coroutine].row, "flag">>})
  /\ task' = [task EXCEPT ![Coroutine] = Idle]
  /\ UNCHANGED <<phase, schema, step, disk, crashes, marks, kept, gone>>

\* What a prune by volume deletes: the oldest, until MaxEvents are left.
Excess(s) ==
  {e \in s : Cardinality({f \in s : Timestamp[f] >= Timestamp[e]}) > MaxEvents}

\* prune_old_events(), by volume; nothing in the repository but its tests calls it.
Prune ==
  /\ phase = "ready" /\ task[Coroutine] = Idle /\ marks < MaxMarks
  /\ LET doomed == Excess(view.events)
     IN  /\ view' = [view EXCEPT !.events = @ \ doomed]
         /\ task' = [task EXCEPT ![Coroutine] = [at |-> "pruned", row |-> "none"]]
         /\ gone' = gone \cup doomed
  /\ marks' = marks + 1
  /\ UNCHANGED <<phase, schema, step, disk, failures, crashes, kept, swept>>

PruneCommit ==
  /\ task[Coroutine].at = "pruned"
  /\ disk' = Committed
  /\ task' = [task EXCEPT ![Coroutine] = Idle]
  /\ UNCHANGED <<phase, schema, step, view, tally, ghosts>>

-----------------------------------------------------------------------------
\* close(), after the bus was stopped; a worker the bus gave up on may still be at
\* it and finds the connection gone or closed.
Close ==
  /\ phase = "ready" /\ task[Coroutine] = Idle
  /\ phase' = "closing"
  /\ UNCHANGED <<schema, step, disk, view, task, tally, ghosts>>

\* SQLite drops what is pending.
Closed ==
  /\ phase = "closing"
  /\ phase' = "down"
  /\ view' = disk
  /\ task' = [p \in DOMAIN task |-> Idle]
  /\ UNCHANGED <<schema, step, disk, tally, ghosts>>

\* The process is killed: the committed rows are in the file.
Crash ==
  /\ crashes < MaxCrashes /\ phase # "down"
  /\ crashes' = crashes + 1
  /\ phase' = "down" /\ step' = 0
  /\ view' = disk
  /\ task' = [p \in DOMAIN task |-> Idle]
  /\ UNCHANGED <<schema, disk, failures, marks, ghosts>>

Handle ==
  \E w \in Workers : \/ \E row \in EventIds \cup ThreatIds : Insert(w, row)
                     \/ Commit(w) \/ InsertFails(w) \/ CommitFails(w)

Next ==
  \/ Open \/ OpenFails \/ ReadVersion \/ Migrate \/ Handle
  \/ (\E t \in ThreatIds : MarkFlag(t)) \/ MarkRecord \/ MarkCommit \/ MarkFails
  \/ Prune \/ PruneCommit \/ Close \/ Closed \/ Crash

Spec == Init /\ [][Next]_vars

-----------------------------------------------------------------------------
(* Properties *)

Databases == [events : SUBSET EventIds, threats : SUBSET ThreatIds,
              flagged : SUBSET ThreatIds, recorded : SUBSET ThreatIds]
Tasks == [at : {"idle", "commit", "record", "end", "pruned"},
          row : EventIds \cup ThreatIds \cup {"none"}]

\* Every variable keeps its type; a store that is not at work has nothing pending.
TypeOK ==
  /\ phase \in {"down", "opened", "migrating", "ready", "closing", "failed"}
  /\ schema \in [made : 0..Statements, version : {0, 1}] /\ step \in 0..(Statements + 1)
  /\ disk \in Databases /\ view \in Databases
  /\ task \in [Workers \cup {Coroutine} -> Tasks]
  /\ failures \in Nat /\ crashes \in Nat /\ marks \in Nat
  /\ phase \in {"down", "opened", "failed", "migrating"} => view = disk

\* "We serialize access via asyncio.Lock": what was written without an error is in
\* the file until it is pruned.
WrittenIsKept ==
  kept \subseteq Stored(disk) \cup gone

\* The handlers do not take that lock.  A row or a mark that was written without
\* an error is lost only if another writer failed while it was pending; no crash,
\* no restart, no close and no prune of older events loses any.
LostOnlyByRollback ==
  kept \subseteq Stored(disk) \cup gone \cup swept

\* Wherever a crash interrupts the migration, the next start completes it: a store
\* that is ready has all its tables, and no start fails but for a file that cannot
\* be opened.
MigrationCompletes ==
  /\ phase \in {"ready", "closing"} => schema.made = Statements /\ schema.version = 1
  /\ phase = "failed" => failures > 0

-----------------------------------------------------------------------------
(* What makes the properties inductive. *)

\* What is in the file is in the view of the connection, but for what a prune that
\* has not ended took out.
ViewCovers == Stored(disk) \subseteq Stored(view) \cup gone

\* Writers at work have rows of their own, which are pending, pruned or swept away.
WritersPending ==
  \A w \in Workers : task[w].at = "commit" =>
    /\ task[w].row \in EventIds \cup ThreatIds
    /\ task[w].row \in Stored(view) \cup gone \cup swept
    /\ \A v \in Workers \ {w} : task[v].at = "commit" => task[v].row # task[w].row

\* So is the record of a mark that is about to be committed.  A coroutine runs only
\* while the store is ready.
MarkPending ==
  /\ task[Coroutine] # Idle => phase = "ready"
  /\ task[Coroutine].at \in {"record", "end"} => task[Coroutine].row \in ThreatIds
  /\ task[Coroutine].at = "end" =>
       <<task[Coroutine].row, "record">> \in Stored(view) \cup gone \cup swept

\* A migration goes on from the tables that are there; the version comes last.
MigrationOnCourse ==
  /\ schema.version = 1 => schema.made = Statements
  /\ phase \in {"ready", "closing"} => schema.version = 1
  /\ phase = "migrating" => step >= 1 /\ step <= schema.made + 1
  /\ phase = "failed" => failures > 0

IInv ==
  /\ TypeOK
  /\ ViewCovers /\ WritersPending /\ MarkPending /\ MigrationOnCourse
  /\ LostOnlyByRollback
=============================================================================
