----------------------------- MODULE SecureOps -----------------------------
(***************************************************************************)
(* The SOC exporter of integrations/secureops.py.  Who acts:                *)
(*                                                                         *)
(*   - bus workers run handle_event(): settings first, then, as a separate  *)
(*     step, an upsert into the SQLite queue;                               *)
(*   - the one uploader thread runs _run(): settings, bad-key flag, ingest  *)
(*     key and due alerts are read one after the other, each with its own   *)
(*     lock or none, then one HTTP request is made with no lock held, then  *)
(*     its answer is recorded in one transaction;                           *)
(*   - the API calls update_settings() and test_connection();               *)
(*   - the application starts and stops the exporter; the process may       *)
(*     crash at any step.                                                   *)
(*                                                                         *)
(* status, born, badKey, enabled and key are on disk and survive a crash.   *)
(* An alert is its alert_id.  Time is abstract: a retried alert rests until *)
(* its delay is over, and attempts, which only choose the length of that    *)
(* delay, are left out, and so is the wake-up event, which only shortens    *)
(* the one second between two rounds.  The SecureOps server is external: it *)
(* may answer anything its protocol allows.                                 *)
(***************************************************************************)
EXTENDS Naturals, FiniteSets

CONSTANTS
  Alerts,      \* the alerts; a threat is handled once, and so is its alert_id
  Severity,    \* Severity[a]: 0 (critical) to 4 (unknown), as get_due() ranks it
  Keys,        \* ingest keys a user may enter
  NoKey,       \* no ingest key is stored
  ValidKeys,   \* the keys the server knows
  MaxBatch,    \* max_batch_size
  MaxStarts,   \* bound: how often the process is started
  MayCrash,    \* whether the process crashes
  MayTimeOut   \* whether stop()'s join may run into its timeout

ASSUME ExportAssumption ==
  /\ Severity \in [Alerts -> 0..4]
  /\ NoKey \notin Keys
  /\ ValidKeys \subseteq Keys
  /\ MaxBatch \in Nat \ {0}
  /\ MaxStarts \in Nat
  /\ MayCrash \in BOOLEAN
  /\ MayTimeOut \in BOOLEAN

VARIABLES
  life,      \* the exporter: "off", "up", "stopping" or "closed" (queue closed)
  starts,    \* how often the process was started (bounded by MaxStarts)
  status,    \* status[a]: a's row; "due" and "resting" rows are 'queued'
  born,      \* born[a]: created_at of a's row
  clock,     \* the next created_at
  badKey,    \* bad_ingest_key
  enabled, key,   \* the saved settings
  saving,    \* how far a call of update_settings() with a new key has come
  pc,        \* where the uploader is
  using,     \* the key it has read
  batch,     \* the alerts of its request
  reply,     \* the answer to it
  fresh,     \* alerts whose threat has not reached handle_event()
  handling,  \* alerts in handle_event(), past the enabled test
  accepted,  \* alerts enqueue() returned for
  (* the other side, and what the properties remember *)
  received,  \* alerts the server has
  rejected,  \* alerts in a request the server rejected
  recorded,  \* alerts whose success was recorded
  late       \* requests begun since the bad-key flag was last raised

lifeVars   == <<life, starts>>
queueVars  == <<status, born, clock, badKey>>
setVars    == <<enabled, key, saving>>
uploadVars == <<pc, using, batch, reply>>
busVars    == <<fresh, handling, accepted>>
socVars    == <<received, rejected, recorded, late>>
vars == <<lifeVars, queueVars, setVars, uploadVars, busVars, socVars>>

\* _require_connection() does not raise.
Open == life \in {"up", "stopping"}

Init ==
  /\ life = "off" /\ starts = 0
  /\ status = [a \in Alerts |-> "absent"]
  /\ born = [a \in Alerts |-> 0] /\ clock = 0
  /\ badKey = FALSE
  /\ enabled \in BOOLEAN /\ key \in Keys \cup {NoKey} /\ saving = "no"
  /\ pc = "off" /\ using = NoKey /\ batch = {} /\ reply = "none"
  /\ fresh = Alerts /\ handling = {} /\ accepted = {}
  /\ received = {} /\ rejected = {} /\ recorded = {} /\ late = 0

-----------------------------------------------------------------------------
(* handle_event(), on a bus worker; the bus outlives the exporter *)

HandleEvent(a) ==
  /\ life # "off"
  /\ a \in fresh
  /\ fresh' = fresh \ {a}
  /\ handling' = IF enabled THEN handling \cup {a} ELSE handling
  /\ UNCHANGED <<lifeVars, queueVars, setVars, uploadVars, accepted, socVars>>

\* INSERT ... ON CONFLICT(alert_id) DO UPDATE: an old row keeps its created_at.
Enqueue(a) ==
  /\ a \in handling
  /\ Open
  /\ handling' = handling \ {a}
  /\ accepted' = accepted \cup {a}
  /\ status' = [status EXCEPT ![a] = "due"]
  /\ IF status[a] = "absent"
     THEN born' = [born EXCEPT ![a] = clock] /\ clock' = clock + 1
     ELSE UNCHANGED <<born, clock>>
  /\ UNCHANGED <<lifeVars, badKey, setVars, uploadVars, fresh, socVars>>

\* The queue is closed (RuntimeError), or SQLite fails: handle_event() logs and
\* swallows it.
EnqueueRaises(a) ==
  /\ a \in handling
  /\ handling' = handling \ {a}
  /\ UNCHANGED <<lifeVars, queueVars, setVars, uploadVars, fresh, accepted, socVars>>

-----------------------------------------------------------------------------
(* The uploader: one round of _run() *)

LoadSettings ==
  /\ pc = "idle" /\ life = "up"
  /\ enabled
  /\ pc' = "settings"
  /\ UNCHANGED <<lifeVars, queueVars, setVars, using, batch, reply, busVars, socVars>>

\* Mutant: the flag is not looked at.
CheckBadKeyIgnored ==
  /\ pc = "settings" /\ Open
  /\ pc' = "status"
  /\ UNCHANGED <<lifeVars, queueVars, setVars, using, batch, reply, busVars, socVars>>

CheckBadKey ==
  /\ pc = "settings" /\ Open
  /\ ~badKey
  /\ pc' = "status"
  /\ UNCHANGED <<lifeVars, queueVars, setVars, using, batch, reply, busVars, socVars>>

GetKey ==
  /\ pc = "status"
  /\ key # NoKey
  /\ using' = key
  /\ pc' = "key"
  /\ UNCHANGED <<lifeVars, queueVars, setVars, batch, reply, busVars, socVars>>

Due == {a \in Alerts : status[a] = "due"}

\* ORDER BY severity, created_at
Before(a, b) ==
  \/ Severity[a] < Severity[b]
  \/ Severity[a] = Severity[b] /\ born[a] < born[b]

\* LIMIT max_batch_size
DueBatch == {a \in Due : Cardinality({b \in Due : Before(b, a)}) < MaxBatch}

\* Mutant: rows leave the queue when they are read, not when they are confirmed.
TakeDuePops ==
  /\ pc = "key" /\ Open
  /\ Due # {}
  /\ batch' = DueBatch
  /\ status' = [a \in Alerts |-> IF a \in DueBatch THEN "absent" ELSE status[a]]
  /\ pc' = "sent"
  /\ late' = IF badKey THEN late + 1 ELSE late
  /\ UNCHANGED <<lifeVars, born, clock, badKey, setVars, using, reply, busVars,
                 received, rejected, recorded>>

\* get_due(), and the request goes out.
TakeDue ==
  /\ pc = "key" /\ Open
  /\ Due # {}
  /\ batch' = DueBatch
  /\ pc' = "sent"
  /\ late' = IF badKey THEN late + 1 ELSE late
  /\ UNCHANGED <<lifeVars, queueVars, setVars, using, reply, busVars,
                 received, rejected, recorded>>

\* Mutant: the first round with nothing to do is the last one.
GiveUpForGood ==
  /\ \/ pc = "settings" /\ (badKey \/ ~Open)
     \/ pc = "status" /\ key = NoKey
     \/ pc = "key" /\ (Due = {} \/ ~Open)
  /\ pc' = "exited"
  /\ using' = NoKey
  /\ UNCHANGED <<lifeVars, queueVars, setVars, batch, reply, busVars, socVars>>

\* Halted, no key, nothing due, or the queue is closed and raises: next round.
GiveUp ==
  /\ \/ pc = "settings" /\ (badKey \/ ~Open)
     \/ pc = "status" /\ key = NoKey
     \/ pc = "key" /\ (Due = {} \/ ~Open)
  /\ pc' = "idle"
  /\ using' = NoKey
  /\ UNCHANGED <<lifeVars, queueVars, setVars, batch, reply, busVars, socVars>>

(* The server's answer *)

Answer(r, taken, refused) ==
  /\ pc = "sent"
  /\ pc' = "answered"
  /\ reply' = r
  /\ received' = received \cup taken
  /\ rejected' = rejected \cup refused
  /\ UNCHANGED <<lifeVars, queueVars, setVars, using, batch, busVars, recorded, late>>

AnswerSuccess == using \in ValidKeys /\ Answer("success", batch, {})

AnswerUnauthorized == using \notin ValidKeys /\ Answer("unauthorized", {}, {})

\* 400, 422 and every code the client does not know.
AnswerInvalid == Answer("invalid", {}, batch)

\* 429, 5xx or no answer at all, perhaps after the server took the alerts.
AnswerFailure ==
  \/ Answer("failure", {}, {})
  \/ using \in ValidKeys /\ Answer("failure", batch, {})

(* _handle_upload_response() *)

EndRound ==
  /\ pc = "answered"
  /\ pc' = "idle"
  /\ using' = NoKey /\ batch' = {} /\ reply' = "none"

\* The rows of the batch that are still there.
Rows == {a \in batch : status[a] # "absent"}

Mark(S, s) == status' = [a \in Alerts |-> IF a \in S THEN s ELSE status[a]]

\* Mutant: the DELETE lacks its WHERE clause.
RecordSuccessOfAll ==
  /\ EndRound /\ Open /\ reply = "success"
  /\ Mark(Alerts, "absent")
  /\ badKey' = FALSE
  /\ recorded' = recorded \cup batch
  /\ late' = 0
  /\ UNCHANGED <<lifeVars, born, clock, setVars, busVars, received, rejected>>

\* Mutant: success is noted, the row stays.
RecordSuccessKeeps ==
  /\ EndRound /\ Open /\ reply = "success"
  /\ badKey' = FALSE
  /\ recorded' = recorded \cup batch
  /\ late' = 0
  /\ UNCHANGED <<lifeVars, status, born, clock, setVars, busVars, received, rejected>>

\* mark_success()
RecordSuccess ==
  /\ EndRound /\ Open /\ reply = "success"
  /\ Mark(batch, "absent")
  /\ badKey' = FALSE
  /\ recorded' = recorded \cup batch
  /\ late' = 0
  /\ UNCHANGED <<lifeVars, born, clock, setVars, busVars, received, rejected>>

\* mark_bad_key(): the alerts stay due.
RecordUnauthorized ==
  /\ EndRound /\ Open /\ reply = "unauthorized"
  /\ badKey' = TRUE
  /\ UNCHANGED <<lifeVars, status, born, clock, setVars, busVars, socVars>>

\* mark_permanent()
RecordInvalid ==
  /\ EndRound /\ Open /\ reply = "invalid"
  /\ Mark(Rows, "permanent")
  /\ UNCHANGED <<lifeVars, born, clock, badKey, setVars, busVars, socVars>>

\* mark_retry(): it moves next_attempt_at, and leaves the status column alone.
RecordFailure ==
  /\ EndRound /\ Open /\ reply = "failure"
  /\ Mark(Rows \cap Due, "resting")
  /\ UNCHANGED <<lifeVars, born, clock, badKey, setVars, busVars, socVars>>

\* The queue was closed while the request was out: the answer is lost.  An open
\* queue is taken to work.
RecordRaises ==
  /\ EndRound /\ ~Open
  /\ UNCHANGED <<lifeVars, queueVars, setVars, busVars, socVars>>

\* next_attempt_at passes.
BackoffElapses(a) ==
  /\ status[a] = "resting"
  /\ status' = [status EXCEPT ![a] = "due"]
  /\ UNCHANGED <<lifeVars, born, clock, badKey, setVars, uploadVars, busVars, socVars>>

\* _run() finds _stop_event set.
ExitUploader ==
  /\ pc = "idle" /\ life \in {"stopping", "closed"}
  /\ pc' = "exited"
  /\ UNCHANGED <<lifeVars, queueVars, setVars, using, batch, reply, busVars, socVars>>

-----------------------------------------------------------------------------
(* The API *)

\* update_settings(ingest_key = k): the key is stored first, ...
SaveKey(k) ==
  /\ life = "up" /\ saving = "no"
  /\ key' = k
  /\ saving' = "settings"
  /\ UNCHANGED <<lifeVars, queueVars, enabled, uploadVars, busVars, socVars>>

\* ... then the settings file is written, and an empty key, which deletes the one
\* there was, ends it (a blank one does not) ...
SaveSettings(b) ==
  /\ saving = "settings"
  /\ enabled' = b
  /\ saving' = "flag" \/ (key = NoKey /\ saving' = "no")
  /\ UNCHANGED <<lifeVars, queueVars, key, uploadVars, busVars, socVars>>

\* ... then clear_bad_key(), if the queue is still open.
ClearBadKey ==
  /\ saving = "flag"
  /\ saving' = "no"
  /\ IF Open THEN badKey' = FALSE /\ late' = 0 ELSE UNCHANGED <<badKey, late>>
  /\ UNCHANGED <<lifeVars, status, born, clock, enabled, key, uploadVars, busVars,
                 received, rejected, recorded>>

\* update_settings(enabled = b), without a key.
SetEnabled(b) ==
  /\ life = "up" /\ saving = "no"
  /\ enabled' = b
  /\ UNCHANGED <<lifeVars, queueVars, key, saving, uploadVars, busVars, socVars>>

\* test_connection() with any key: the flag follows the answer, 401 or 2xx.  The
\* API serves one request at a time, so never in the middle of update_settings().
TestConnection(k) ==
  /\ Open /\ saving = "no"
  /\ badKey' = (k \notin ValidKeys)
  /\ late' = IF badKey' THEN late ELSE 0
  /\ UNCHANGED <<lifeVars, status, born, clock, setVars, uploadVars, busVars,
                 received, rejected, recorded>>

-----------------------------------------------------------------------------
(* The application *)

Start ==
  /\ life = "off"
  /\ starts < MaxStarts
  /\ life' = "up" /\ starts' = starts + 1
  /\ pc' = "idle"
  /\ UNCHANGED <<queueVars, setVars, using, batch, reply, busVars, socVars>>

StopBegin ==
  /\ life = "up"
  /\ life' = "stopping"
  /\ UNCHANGED <<starts, queueVars, setVars, uploadVars, busVars, socVars>>

\* join(timeout=5.0), then the queue is closed, whoever still needs it.
CloseQueue ==
  /\ life = "stopping"
  /\ pc = "exited" \/ MayTimeOut
  /\ life' = "closed"
  /\ UNCHANGED <<starts, queueVars, setVars, uploadVars, busVars, socVars>>

\* The process ends, orderly or not: threads and memory are gone.
EndProcess ==
  /\ life = "closed" \/ (MayCrash /\ life # "off")
  /\ life' = "off"
  /\ pc' = "off" /\ using' = NoKey /\ batch' = {} /\ reply' = "none"
  /\ saving' = "no"
  /\ handling' = {}
  /\ UNCHANGED <<starts, queueVars, enabled, key, fresh, accepted, socVars>>

-----------------------------------------------------------------------------
Bus == \E a \in Alerts : HandleEvent(a) \/ Enqueue(a) \/ EnqueueRaises(a)

Respond == AnswerSuccess \/ AnswerUnauthorized \/ AnswerInvalid \/ AnswerFailure

Round == LoadSettings \/ CheckBadKey \/ GetKey \/ TakeDue \/ GiveUp \/ ExitUploader

Record ==
  RecordSuccess \/ RecordUnauthorized \/ RecordInvalid \/ RecordFailure \/ RecordRaises

Upload == Round \/ Record

API ==
  \/ \E k \in Keys \cup {NoKey} : SaveKey(k)
  \/ \E b \in BOOLEAN : SaveSettings(b) \/ SetEnabled(b)
  \/ ClearBadKey
  \/ \E k \in Keys : TestConnection(k)

Application == Start \/ StopBegin \/ CloseQueue \/ EndProcess

Next ==
  \/ Bus \/ Upload \/ Respond \/ API \/ Application
  \/ \E a \in Alerts : BackoffElapses(a)

Spec == Init /\ [][Next]_vars

\* The uploader is a thread, time passes, every request ends (it has a timeout),
\* and a server that keeps being asked does not fail forever.
Fairness ==
  /\ WF_vars(Upload)
  /\ WF_vars(Respond)
  /\ SF_vars(AnswerSuccess \/ AnswerUnauthorized \/ AnswerInvalid)
  /\ \A a \in Alerts : WF_vars(BackoffElapses(a))

FairSpec == Spec /\ Fairness

-----------------------------------------------------------------------------
(* Properties *)

\* Every variable keeps its type (the row columns of SecureOpsQueue, the
\* settings, the position of the uploader); a round past GetKey has a key.
TypeOK ==
  /\ life \in {"off", "up", "stopping", "closed"}
  /\ starts \in 0..MaxStarts
  /\ status \in [Alerts -> {"absent", "due", "resting", "permanent"}]
  /\ born \in [Alerts -> Nat] /\ clock \in Nat
  /\ badKey \in BOOLEAN
  /\ enabled \in BOOLEAN /\ key \in Keys \cup {NoKey}
  /\ saving \in {"no", "settings", "flag"}
  /\ pc \in {"off", "idle", "settings", "status", "key", "sent", "answered", "exited"}
  /\ using \in Keys \cup {NoKey}
  /\ pc \in {"key", "sent", "answered"} => using # NoKey
  /\ batch \subseteq Alerts
  /\ reply \in {"none", "success", "unauthorized", "invalid", "failure"}
  /\ fresh \subseteq Alerts /\ handling \subseteq Alerts
  /\ accepted \subseteq Alerts
  /\ received \subseteq Alerts /\ rejected \subseteq Alerts /\ recorded \subseteq Alerts
  /\ late \in Nat

\* Rows that will be sent (again).
Queued == {a \in Alerts : status[a] \in {"due", "resting"}}

Parked == {a \in Alerts : status[a] = "permanent"}

\* "The outbound queue keeps unsent alerts locally": an alert that got into the
\* queue stays queued until the server has it, or is put aside only after the
\* server rejected it, over crashes, lost answers and stops that time out.
NothingLost ==
  \A a \in accepted :
    \/ a \in Queued \cup received
    \/ a \in Parked \cap rejected

\* A confirmed alert is never sent again: not after a crash, not by a round that
\* read the queue before the confirmation was recorded.
NoResend == recorded \cap (Queued \cup batch) = {}

\* "SecureOps upload halted because the ingest key was rejected": once the flag
\* is raised, by the uploader or by a connection test, no request begins any
\* more, except the one of a round that had already passed the test of the flag.
HaltsOnBadKey == late <= 1

\* The export keeps the contract of Outbox: what the queue holds, what the server
\* has, what was put aside.
Contract == INSTANCE Outbox WITH held <- Queued, taken <- received, refused <- Parked

ImplementsOutbox == Contract!Spec

\* The export has a visible reason not to upload.
Halted == life # "up" \/ ~enabled \/ badKey \/ key = NoKey

\* A queued alert is not forgotten: unless the export has a visible reason not to
\* upload, the alert eventually leaves the queue, whatever is queued with it.
QueuedAlertsSettle == \A a \in Alerts : a \in Queued ~> (a \notin Queued \/ Halted)

-----------------------------------------------------------------------------
(* What makes NothingLost, NoResend and HaltsOnBadKey inductive, and every  *)
(* step a step of Outbox.                                                   *)

\* What has not been enqueued has left no trace.
NotYetQueued ==
  /\ fresh \cap handling = {}
  /\ \A a \in fresh \cup handling : status[a] = "absent" /\ a \notin received

\* A request is made of queued alerts, and its answer says what became of them;
\* there is none when the process is down.
RequestSound ==
  /\ life = "off" => pc = "off"
  /\ batch \subseteq Queued
  /\ pc \notin {"sent", "answered"} => batch = {}
  /\ pc # "answered" => reply = "none"
  /\ reply = "success" => batch \subseteq received
  /\ reply = "invalid" => batch \subseteq rejected

\* A round that began after the flag was raised stops at the test of the flag.
FlagSound ==
  /\ ~badKey => late = 0
  /\ late = 1 => pc \notin {"status", "key"}

IInv ==
  /\ TypeOK
  /\ NotYetQueued
  /\ RequestSound
  /\ recorded \subseteq received
  /\ NothingLost
  /\ NoResend
  /\ FlagSound
  /\ HaltsOnBadKey

-----------------------------------------------------------------------------
(* What the sources promise and the code does not keep: see README.md.      *)

\* "The outbound queue keeps unsent alerts locally": no alert of an enabled
\* export is thrown away before it reaches the queue.
NoneDropped ==
  [][\A a \in handling : a \in handling' \cup accepted' \/ life' = "off"]_vars
=============================================================================
