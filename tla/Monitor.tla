------------------------------ MODULE Monitor ------------------------------
(***************************************************************************)
(* The monitors that poll and compare: ProcessMonitor, NetworkMonitor,      *)
(* RegistryMonitor and ServiceMonitor of monitors/, on the life cycle of    *)
(* BaseMonitor (monitors/base.py), driven as app.py drives it: initialized, *)
(* started, restarted when its health check says failed, stopped.           *)
(*                                                                         *)
(* An item is a process, a connection, a registry value or a service; its   *)
(* version is what a poll can tell apart (0: absent).  A process or a       *)
(* connection is only there or not.  The events' contents and priorities,   *)
(* the beacon statistics of connections and the error counters are left     *)
(* out.  The application gives its monitors no resource manager, so that    *)
(* _publish() never throttles.                                              *)
(***************************************************************************)
EXTENDS Naturals, FiniteSets

CONSTANTS
  Kinds,        \* the monitors to look at, a subset of the four below
  Items,
  Ignored,      \* items on the monitor's white list
  Versions,     \* versions of an item: 1..n
  MaxChanges,   \* bound: how often the system changes
  MaxMisreads,  \* bound: how many snapshots miss something that is there
  MaxCrashes    \* bound: how often the loop crashes

ASSUME MonitorAssumption ==
  /\ Kinds \subseteq {"process", "network", "registry", "service"}
  /\ Ignored \subseteq Items
  /\ Versions \subseteq Nat \ {0} /\ 1 \in Versions
  /\ MaxChanges \in Nat /\ MaxMisreads \in Nat /\ MaxCrashes \in Nat

VARIABLES
  kind,        \* which monitor this is
  world,       \* the version of each item in the system
  control,     \* where the application is with the monitor
  running, initialized,  \* of _status
  stopEvent,   \* _stop_event
  loop,        \* where the monitor's thread is
  seen,        \* the snapshot the thread took
  baseline,    \* _prev_pids, _prev_conn_keys, _baseline
  cache,       \* _process_cache: the processes it has information about
  todo,        \* the items of which an event is still to be published
  changes, misreads, crashes,
  (* what the properties remember *)
  told,        \* told[i]: the version the last report about i spoke of
  absent,      \* items that were absent since they were last reported created
  excused,     \* items of which an event was dropped, or could not be built
  doubted,     \* items a snapshot missed, or whose baseline stop() has emptied
  early        \* the loop crashed before start() returned

lifeVars == <<control, running, initialized, stopEvent>>
pollVars == <<seen, baseline, cache, todo>>
ghosts   == <<told, absent, excused, doubted, early>>
vars == <<kind, world, lifeVars, loop, pollVars, changes, misreads, crashes, ghosts>>

Nothing == [i \in Items |-> 0]

\* What a poll can see of a version.
Visible(v) == IF kind \in {"process", "network"} /\ v # 0 THEN 1 ELSE v

\* A snapshot that misses the items of m.
Snapshot(m) == [i \in Items |-> IF i \in m THEN 0 ELSE Visible(world[i])]

\* The errors of reading one service or one value are swallowed; psutil lists
\* processes and connections as a whole, or raises.
Unread == IF kind \in {"registry", "service"} /\ misreads < MaxMisreads
          THEN SUBSET {i \in Items : world[i] # 0}
          ELSE {{}}

Init ==
  /\ kind \in Kinds
  /\ world \in [Items -> {0, 1}]
  /\ control = "new" /\ running = FALSE /\ initialized = FALSE /\ stopEvent = FALSE
  /\ loop = "gone"
  /\ seen = Nothing /\ baseline = Nothing /\ cache = {} /\ todo = {}
  /\ changes = 0 /\ misreads = 0 /\ crashes = 0
  /\ told = Nothing /\ absent = {} /\ excused = {} /\ doubted = {} /\ early = FALSE

-----------------------------------------------------------------------------
\* The system changes under the monitor.
Change(i) ==
  /\ changes < MaxChanges
  /\ changes' = changes + 1
  /\ \E v \in (Versions \cup {0}) \ {world[i]} :
       /\ world' = [world EXCEPT ![i] = v]
       /\ absent' = IF v = 0 THEN absent \cup {i} ELSE absent
  /\ UNCHANGED <<kind, lifeVars, loop, pollVars, misreads, crashes, told, excused, doubted, early>>

-----------------------------------------------------------------------------
(* The application's side: app.py and the methods of BaseMonitor. *)

\* Mutant: no baseline is taken.
FirstBaselineEmpty(m) == Nothing

\* The baseline before the first poll, from a snapshot that misses m.
FirstBaseline(m) == Snapshot(m)

\* initialize(): the baseline, and for processes what can be learned about them.
\* What changed since an earlier baseline is not reported.
Initialize ==
  /\ control \in {"new", "restarting"}
  /\ \E m \in Unread, known \in IF kind = "process" THEN SUBSET Items ELSE {{}} :
       /\ baseline' = FirstBaseline(m)
       /\ cache' = {i \in known : world[i] # 0}
       /\ misreads' = IF m = {} THEN misreads ELSE misreads + 1
       /\ doubted' = m
  /\ told' = baseline'
  /\ absent' = {i \in Items : world[i] = 0}
  /\ excused' = {}
  /\ initialized' = TRUE
  /\ control' = "ready"
  /\ UNCHANGED <<kind, world, running, stopEvent, loop, seen, todo, changes, crashes, early>>

\* It raises: a new monitor is given up, a restart is tried again after the next
\* health check.
InitializeFails ==
  /\ control \in {"new", "restarting"}
  /\ control' = IF control = "new" THEN "excluded" ELSE "watched"
  /\ UNCHANGED <<kind, world, running, initialized, stopEvent, loop, pollVars, changes, misreads,
                 crashes, ghosts>>

\* start(): the thread runs before the flag says so.
StartThread ==
  /\ control = "ready"
  /\ ~running
  /\ stopEvent' = FALSE
  /\ loop' = "check"
  /\ control' = "starting"
  /\ UNCHANGED <<kind, world, running, initialized, pollVars, changes, misreads, crashes, ghosts>>

SetRunning ==
  /\ control = "starting"
  /\ running' = TRUE
  /\ control' = "watched"
  /\ UNCHANGED <<kind, world, initialized, stopEvent, loop, pollVars, changes, misreads, crashes,
                 ghosts>>

\* Mutant: the health check never fails.
FailedNever == FALSE

\* health_check()
Failed == ~running /\ initialized

\* What stop() leaves of the monitor's data.
Forget == baseline' = Nothing /\ cache' = {} /\ doubted' = Items

\* _check_monitor_health(): stop() finds a dead thread, then initialize() and
\* start() follow.
HealthCheck ==
  /\ control = "watched"
  /\ Failed
  /\ stopEvent' = TRUE
  /\ running' = FALSE
  /\ Forget
  /\ control' = "restarting"
  /\ UNCHANGED <<kind, world, initialized, loop, seen, todo, changes, misreads, crashes, told,
                 absent, excused, early>>

StopBegin ==
  /\ control = "watched"
  /\ stopEvent' = TRUE
  /\ control' = "joining"
  /\ UNCHANGED <<kind, world, running, initialized, loop, pollVars, changes, misreads, crashes,
                 ghosts>>

\* join() returns after at most five seconds, whether or not a slow poll is over;
\* then the monitor's data are cleared.
StopEnd ==
  /\ control = "joining"
  /\ running' = FALSE
  /\ Forget
  /\ control' = "stopped"
  /\ UNCHANGED <<kind, world, initialized, stopEvent, loop, seen, todo, changes, misreads, crashes,
                 told, absent, excused, early>>

-----------------------------------------------------------------------------
(* The monitor's thread. *)

LoopCheck ==
  /\ loop = "check"
  /\ loop' = IF stopEvent THEN "exit" ELSE "look"
  /\ UNCHANGED <<kind, world, lifeVars, pollVars, changes, misreads, crashes, ghosts>>

\* The system is read ...
Look ==
  /\ loop = "look"
  /\ \E m \in Unread :
       /\ seen' = Snapshot(m)
       /\ misreads' = IF m = {} THEN misreads ELSE misreads + 1
       /\ doubted' = doubted \cup m
  /\ loop' = "compare"
  /\ UNCHANGED <<kind, world, lifeVars, baseline, cache, todo, changes, crashes, told, absent,
                 excused, early>>

\* ... or cannot be: the poll ends without a new baseline.
LookFails ==
  /\ loop = "look"
  /\ kind \in {"process", "network"}
  /\ loop' = "sleep"
  /\ UNCHANGED <<kind, world, lifeVars, pollVars, changes, misreads, crashes, ghosts>>

New == {i \in Items : seen[i] # 0 /\ baseline[i] = 0}
Gone == {i \in Items : seen[i] = 0 /\ baseline[i] # 0}
Modified == {i \in Items : seen[i] # 0 /\ baseline[i] # 0 /\ seen[i] # baseline[i]}

\* The diff.  No event is made of an ignored process or connection, nor of a new
\* process that cannot be looked into, nor of the end of one not in the cache;
\* connections are not reported closed.
Compare ==
  /\ loop = "compare"
  /\ \E dark \in IF kind = "process" THEN SUBSET New ELSE {{}} :
       LET mute == dark \cup (IF kind \in {"process", "network"} THEN Ignored ELSE {})
           ended == CASE kind = "process" -> Gone \cap cache
                      [] kind = "network" -> {}
                      [] OTHER -> Gone
       IN  /\ todo' = (New \ mute) \cup ended \cup Modified
           /\ cache' = CASE kind = "process" -> (cache \ Gone) \cup (New \ mute) [] OTHER -> cache
           /\ excused' = excused \cup (New \cap mute) \cup (Gone \ ended)
  /\ loop' = "publish"
  /\ UNCHANGED <<kind, world, lifeVars, seen, baseline, changes, misreads, crashes, told, absent,
                 doubted, early>>

\* The events about the items of sent are on the bus; those about the items of
\* lost were not taken.
Sent(sent, lost) ==
  /\ todo' = todo \ (sent \cup lost)
  /\ told' = [i \in Items |-> IF i \in sent THEN seen[i] ELSE told[i]]
  /\ absent' = absent \ {i \in sent : seen[i] # 0 /\ world[i] # 0}
  /\ excused' = (excused \ sent) \cup lost

\* _publish_many(): the bus takes what it has room for, and no event if it is
\* not running.  New processes go first, ended ones in a second batch.
PublishMany ==
  /\ loop = "publish" /\ kind \in {"process", "network"}
  /\ todo # {}
  /\ LET born  == {i \in todo : seen[i] # 0}
         batch == IF born # {} THEN born ELSE todo
     IN  \E sent \in SUBSET batch : Sent(sent, batch \ sent)
  /\ UNCHANGED <<kind, world, lifeVars, loop, seen, baseline, cache, changes, misreads, crashes,
                 doubted, early>>

\* _publish(), one event after the other.
PublishOne(i) ==
  /\ loop = "publish" /\ kind \in {"registry", "service"}
  /\ i \in todo
  /\ Sent({i}, {}) \/ Sent({}, {i})
  /\ UNCHANGED <<kind, world, lifeVars, loop, seen, baseline, cache, changes, misreads, crashes,
                 doubted, early>>

\* Mutant: the baseline stays where it was.
NewBaselineNot == baseline

\* The baseline after a poll.
NewBaseline == seen

\* The poll ends with the new baseline.
Commit ==
  /\ loop = "publish"
  /\ todo = {}
  /\ baseline' = NewBaseline
  /\ cache' = {i \in cache : seen[i] # 0}
  /\ loop' = "sleep"
  /\ UNCHANGED <<kind, world, lifeVars, seen, todo, changes, misreads, crashes, ghosts>>

\* _sleep_poll_interval(), which a stop cuts short.
Wake ==
  /\ loop = "sleep"
  /\ loop' = "check"
  /\ UNCHANGED <<kind, world, lifeVars, pollVars, changes, misreads, crashes, ghosts>>

\* What is raised outside a poll ends the loop, as a stop does.
LoopCrashes ==
  /\ loop = "sleep"
  /\ crashes < MaxCrashes
  /\ crashes' = crashes + 1
  /\ loop' = "exit"
  /\ UNCHANGED <<kind, world, lifeVars, pollVars, changes, misreads, ghosts>>

\* Mutant: a loop that ends says nothing.
FlagOfDeadUnset == running

\* The flag when the thread is over.
FlagOfDead == FALSE

\* The end of _thread_entry().
ThreadEnds ==
  /\ loop = "exit"
  /\ loop' = "gone"
  /\ running' = FlagOfDead
  /\ early' = (early \/ control = "starting")
  /\ UNCHANGED <<kind, world, control, initialized, stopEvent, pollVars, changes, misreads, crashes,
                 told, absent, excused, doubted>>

-----------------------------------------------------------------------------
Poll ==
  \/ LoopCheck \/ Look \/ LookFails \/ Compare \/ PublishMany \/ (\E i \in Items : PublishOne(i))
  \/ Commit \/ Wake \/ ThreadEnds

Life ==
  \/ Initialize \/ InitializeFails \/ StartThread \/ SetRunning \/ HealthCheck
  \/ StopBegin \/ StopEnd

Next == Poll \/ Life \/ LoopCrashes \/ \E i \in Items : Change(i)

Spec == Init /\ [][Next]_vars

\* The thread runs and polls that fail are not all there is; the application
\* starts what it initialized, looks after its monitors every minute, and a
\* restart that is tried again and again succeeds at last.
FairSpec ==
  /\ Spec
  /\ WF_vars(Poll) /\ SF_vars(Look)
  /\ WF_vars(StartThread \/ SetRunning \/ HealthCheck)
  /\ WF_vars(Initialize \/ InitializeFails) /\ SF_vars(Initialize)

-----------------------------------------------------------------------------
(* Properties *)

\* Every variable keeps its type; a monitor that was never initialized has no
\* thread, and one that was stopped orderly no data.
TypeOK ==
  /\ kind \in Kinds
  /\ world \in [Items -> Versions \cup {0}]
  /\ control \in {"new", "excluded", "ready", "starting", "watched", "restarting", "joining",
                  "stopped"}
  /\ running \in BOOLEAN /\ initialized \in BOOLEAN /\ stopEvent \in BOOLEAN
  /\ loop \in {"check", "look", "compare", "publish", "sleep", "exit", "gone"}
  /\ {seen, baseline, told} \subseteq [Items -> Versions \cup {0}]
  /\ cache \subseteq Items /\ todo \subseteq Items
  /\ {absent, excused, doubted} \subseteq SUBSET Items
  /\ ~initialized => loop = "gone" /\ control \in {"new", "excluded"}

\* "Reports changes": an item is reported as created only if it was absent at
\* some time since it was last reported or taken into the baseline - unless a
\* snapshot had missed it, or stop() emptied the baseline while a slow poll was
\* still to compare with it.
CreatedOnlyWhatWasAbsent ==
  [][\A i \in todo \ todo' :
       seen[i] # 0 /\ told[i] = 0 /\ told'[i] # 0 => i \in absent \cup doubted]_vars

\* The baseline does not run ahead of the reports: after a poll the subscribers
\* have been told of every item what the baseline says, or the event about it
\* was dropped by a full bus, or could not be made.  Nothing repeats what is lost
\* then.
BaselineWasReported ==
  loop = "sleep" /\ control \in {"starting", "watched", "joining"} =>
    \A i \in Items \ (excused \cup doubted) : told[i] = baseline[i]

\* is_running tells whether the thread is there, but for one that crashed before
\* start() had set the flag: that monitor is never restarted.
RunningIsTrue ==
  control = "watched" /\ running => loop # "gone" \/ early

\* A change that lasts is noticed, and a monitor whose loop crashed is at work
\* again, unless it is stopped or crashed unnoticed.
LastingChangesNoticed ==
  \A i \in Items :
    []<>(baseline[i] = Visible(world[i]) \/ control \in {"new", "excluded", "joining", "stopped"}
         \/ early)

-----------------------------------------------------------------------------
(* What makes the properties inductive. *)

\* The flag follows the thread, except while start() is at it.
FlagFollows ==
  /\ control \in {"new", "excluded", "ready", "restarting"} => loop = "gone" /\ ~running
  /\ control = "starting" => ~running /\ (loop = "gone" => early)
  /\ control = "watched" => IF running THEN loop # "gone" \/ early ELSE loop = "gone"

\* Between two polls the baseline is what was told, while a poll publishes what
\* it saw is.
ToldSoFar ==
  \A i \in Items \ (excused \cup doubted) :
    /\ loop \in {"check", "look", "compare", "sleep"} \/ control = "ready" => told[i] = baseline[i]
    /\ loop = "publish" /\ i \notin todo => told[i] = seen[i]

\* What is not there, was not seen or was last told to be gone has been absent, or
\* a snapshot missed it.
AbsenceKnown ==
  initialized =>
    \A i \in Items :
      /\ world[i] = 0 => i \in absent
      /\ told[i] = 0 => i \in absent \cup doubted
      /\ loop \in {"compare", "publish"} /\ seen[i] = 0 => i \in absent \cup doubted

IInv == TypeOK /\ FlagFollows /\ ToldSoFar /\ AbsenceKnown
=============================================================================
