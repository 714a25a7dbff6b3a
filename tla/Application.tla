---------------------------- MODULE Application ----------------------------
(***************************************************************************)
(* The application (app.py): the order in which run() starts the parts,     *)
(* subscribes them to the event bus, supervises the monitors and shuts the  *)
(* parts down again, while events flow.                                    *)
(*                                                                         *)
(* The parts are modelled by what the others rely on: a part is up between  *)
(* its start and its stop, the bus takes items while it runs and hands each *)
(* one to the subscribers it has then (EventBus has the details), the       *)
(* monitors publish events, and the detection engine may publish a threat   *)
(* while it handles an event.  Logging, directories and the wording of the  *)
(* health reports are left out.                                            *)
(***************************************************************************)
EXTENDS Naturals, Sequences, FiniteSets

CONSTANTS
  Monitors,     \* the monitors of enabled_monitors
  Capacity,     \* max_queue_size of the bus
  MaxItems,     \* bound: how many items are published
  MaxCrashes    \* bound: how often a monitor's loop ends by itself

VARIABLES
  phase,        \* "starting", "running", "stopping", "over" or "failed"
  todo,         \* the parts run() or _shutdown() has still to deal with
  up,           \* the parts that were started and not stopped
  subscribers,  \* who has subscribed to the bus
  monitoring,   \* the monitors of _monitors, those whose loop runs, and crashes
  requested,    \* _shutdown_event
  accepting,    \* the bus' _running
  queue,        \* the bus' queue: [nr, kind]
  handling,     \* <<item, subscriber>>: callbacks that were submitted
  items,        \* how many items there were
  (* what the properties remember *)
  offered,      \* offered[n]: the subscribers that item n was dispatched to
  threats,      \* the items that are threats
  closedOn,     \* items handed to the store when it was closed
  refused       \* threats that the bus did not take because it was stopping

appVars == <<phase, todo, up, subscribers, monitoring, requested>>
busVars == <<accepting, queue, handling, items>>
ghosts == <<offered, threats, closedOn, refused>>
vars == <<appVars, busVars, ghosts>>

\* Mutant: the monitors start before the channels that are to hear of threats.
InitOrderMonitorsEarly ==
  <<"resources", "bus", "store", "engine", "monitors", "notifier", "exporter", "scheduler", "api">>

\* _initialize()
InitOrder ==
  <<"resources", "bus", "store", "engine", "notifier", "exporter", "monitors", "scheduler", "api">>

\* Mutant: the store is closed before the bus is drained.
StopOrderStoreEarly ==
  <<"api", "exporter", "scheduler", "monitors", "engine", "store", "bus", "resources">>

\* _shutdown(); the notifier has no stop().
StopOrder ==
  <<"api", "exporter", "scheduler", "monitors", "engine", "bus", "store", "resources">>

Sinks == {"store", "engine", "notifier", "exporter"}

\* Whom an item of this kind goes to.  The engine ignores what the application and
\* itself publish.
Takers(kind) == CASE kind = "event"  -> {"store", "engine"}
                  [] kind = "threat" -> {"store", "notifier", "exporter"}
                  [] OTHER           -> {"store"}

Init ==
  /\ phase = "starting" /\ todo = InitOrder /\ up = {} /\ subscribers = {}
  /\ monitoring = [listed |-> {}, alive |-> {}, crashes |-> 0] /\ requested = FALSE
  /\ accepting = FALSE /\ queue = <<>> /\ handling = {} /\ items = 0
  /\ offered = [n \in 1..MaxItems |-> {}]
  /\ threats = {} /\ closedOn = {} /\ refused = FALSE

-----------------------------------------------------------------------------
(* The event bus *)

\* publish(): a bus that does not run refuses, a full one raises; the publishers
\* go on in both cases.
Publish(kind) ==
  /\ items < MaxItems
  /\ items' = items + 1
  /\ threats' = IF kind = "threat" THEN threats \cup {items'} ELSE threats
  /\ queue' = IF accepting /\ Len(queue) < Capacity THEN Append(queue, [nr |-> items', kind |-> kind])
              ELSE queue
  /\ refused' = (refused \/ (kind = "threat" /\ ~accepting))

\* The bus takes no part in this step.
NoPublish == UNCHANGED <<items, threats, queue, refused>>

\* The dispatcher hands the first item to the subscribers of the moment.
Dispatch ==
  /\ queue # <<>> /\ "bus" \in up
  /\ queue' = Tail(queue)
  /\ LET n == Head(queue).nr
         to == Takers(Head(queue).kind) \cap subscribers
     IN  /\ handling' = handling \cup {<<n, s>> : s \in to}
         /\ offered' = [offered EXCEPT ![n] = to]
  /\ UNCHANGED <<appVars, accepting, items, threats, closedOn, refused>>

\* A callback ends.  The store writes, into a closed database in vain; the engine
\* may have found a threat, which _emit_threat() publishes.
Handle(n, s) ==
  /\ <<n, s>> \in handling
  /\ handling' = handling \ {<<n, s>>}
  /\ closedOn' = IF s = "store" /\ "store" \notin up THEN closedOn \cup {n} ELSE closedOn
  /\ \/ NoPublish
     \/ s = "engine" /\ Publish("threat")
  /\ UNCHANGED <<appVars, accepting, offered>>

-----------------------------------------------------------------------------
(* Starting *)

\* The part run() is to start.
Next1(part) == phase = "starting" /\ todo # <<>> /\ Head(todo) = part

\* It has started, and hears from now on of what it has subscribed to.
Started(part) ==
  /\ todo' = Tail(todo) /\ up' = up \cup {part}
  /\ subscribers' = IF part \in Sinks THEN subscribers \cup {part} ELSE subscribers

\* It has not, which is logged.
LeftOut == todo' = Tail(todo) /\ UNCHANGED <<up, subscribers>>

StartResources ==
  /\ Next1("resources") /\ Started("resources")
  /\ UNCHANGED <<phase, monitoring, requested, busVars, ghosts>>

StartBus ==
  /\ Next1("bus") /\ Started("bus")
  /\ accepting' = TRUE
  /\ UNCHANGED <<phase, monitoring, requested, queue, handling, items, ghosts>>

\* _init_storage(): the database may not open.
StartStore ==
  /\ Next1("store") /\ (Started("store") \/ LeftOut)
  /\ UNCHANGED <<phase, monitoring, requested, busVars, ghosts>>

\* _init_alerting()
StartNotifier ==
  /\ Next1("notifier") /\ (Started("notifier") \/ LeftOut)
  /\ UNCHANGED <<phase, monitoring, requested, busVars, ghosts>>

\* _init_secureops_exporter()
StartExporter ==
  /\ Next1("exporter") /\ (Started("exporter") \/ LeftOut)
  /\ UNCHANGED <<phase, monitoring, requested, busVars, ghosts>>

\* _init_scheduler()
StartScheduler ==
  /\ Next1("scheduler") /\ Started("scheduler")
  /\ UNCHANGED <<phase, monitoring, requested, busVars, ghosts>>

\* _init_api_server(), unless the API is disabled.
StartApi ==
  /\ Next1("api") /\ (Started("api") \/ LeftOut)
  /\ UNCHANGED <<phase, monitoring, requested, busVars, ghosts>>

\* _init_detection_engine(): without an engine there is no start, and nothing that
\* was started is stopped.
StartEngine ==
  /\ Next1("engine")
  /\ \/ Started("engine") /\ UNCHANGED phase
     \/ phase' = "failed" /\ UNCHANGED <<todo, up, subscribers>>
  /\ UNCHANGED <<monitoring, requested, busVars, ghosts>>

\* _init_monitors(): a monitor that does not start is left out; without any of
\* those that are enabled there is no start.
StartMonitor(m) ==
  /\ Next1("monitors") /\ m \notin monitoring.listed
  /\ monitoring' = [monitoring EXCEPT !.listed = @ \cup {m}, !.alive = @ \cup {m}]
  /\ UNCHANGED <<phase, todo, up, subscribers, requested, busVars, ghosts>>

MonitorsStarted ==
  /\ Next1("monitors")
  /\ IF monitoring.listed = {} /\ Monitors # {}
     THEN phase' = "failed" /\ UNCHANGED <<todo, up, subscribers>>
     ELSE Started("monitors") /\ UNCHANGED phase
  /\ UNCHANGED <<monitoring, requested, busVars, ghosts>>

\* The start is over: the signal handlers are installed, IHADRS_STARTED is published.
StartupOver ==
  /\ phase = "starting" /\ todo = <<>>
  /\ phase' = "running"
  /\ Publish("internal") \/ (items = MaxItems /\ NoPublish)
  /\ UNCHANGED <<todo, up, subscribers, monitoring, requested, accepting, handling, offered, closedOn>>

-----------------------------------------------------------------------------
(* Running *)

\* stop(), or a signal once its handlers are installed.
RequestStop ==
  /\ phase \in {"starting", "running"} /\ ~requested
  /\ requested' = TRUE
  /\ UNCHANGED <<phase, todo, up, subscribers, monitoring, busVars, ghosts>>

Observe(m) ==
  /\ m \in monitoring.alive
  /\ Publish("event")
  /\ UNCHANGED <<appVars, accepting, handling, offered, closedOn>>

Crash(m) ==
  /\ m \in monitoring.alive /\ monitoring.crashes < MaxCrashes
  /\ monitoring' = [monitoring EXCEPT !.alive = @ \ {m}, !.crashes = @ + 1]
  /\ UNCHANGED <<phase, todo, up, subscribers, requested, busVars, ghosts>>

\* _check_monitor_health(): a monitor that does not run is restarted, or its
\* exception logged.  The check may find the shutdown requested meanwhile.
Restart(m) ==
  /\ phase = "running" /\ m \in monitoring.listed \ monitoring.alive
  /\ monitoring' = [monitoring EXCEPT !.alive = @ \cup {m}]
  /\ UNCHANGED <<phase, todo, up, subscribers, requested, busVars, ghosts>>

-----------------------------------------------------------------------------
(* Shutting down *)

\* The wait loop ends; IHADRS_STOPPED is published.
BeginShutdown ==
  /\ phase = "running" /\ requested
  /\ phase' = "stopping" /\ todo' = StopOrder
  /\ Publish("internal") \/ (items = MaxItems /\ NoPublish)
  /\ UNCHANGED <<up, subscribers, monitoring, requested, accepting, handling, offered, closedOn>>

Stopping(part) == phase = "stopping" /\ todo # <<>> /\ Head(todo) = part

\* The server's thread may not end in five seconds.
StopApi ==
  /\ Stopping("api")
  /\ todo' = Tail(todo)
  /\ up' = up \ {"api"} \/ UNCHANGED up
  /\ UNCHANGED <<phase, subscribers, monitoring, requested, busVars, ghosts>>

\* What stop() of the scheduler raises (see StopRaises of Scheduler) is not caught:
\* it ends _shutdown() and run().
SchedulerRaises ==
  /\ Stopping("scheduler")
  /\ phase' = "failed"
  /\ UNCHANGED <<todo, up, subscribers, monitoring, requested, busVars, ghosts>>

\* Exporter, engine and store, whose exceptions are logged, scheduler and resource
\* manager.
StopPart(part) ==
  /\ Stopping(part) /\ part \notin {"api", "monitors", "bus"}
  /\ todo' = Tail(todo)
  /\ up' = up \ {part}
  /\ UNCHANGED <<phase, subscribers, monitoring, requested, busVars, ghosts>>

\* Mutant: a monitor whose stop() raises ends the shutdown.
StopMonitorUnguarded(m) ==
  /\ Stopping("monitors") /\ m \in monitoring.listed
  /\ \/ monitoring' = [monitoring EXCEPT !.listed = @ \ {m}, !.alive = @ \ {m}] /\ UNCHANGED phase
     \/ phase' = "failed" /\ UNCHANGED monitoring
  /\ UNCHANGED <<todo, up, subscribers, requested, busVars, ghosts>>

\* The monitors are stopped one after the other; a thread that does not end in
\* five seconds, or a stop() that raises, leaves the monitor at work.
StopMonitor(m) ==
  /\ Stopping("monitors") /\ m \in monitoring.listed
  /\ \E ended \in BOOLEAN :
       monitoring' = [monitoring EXCEPT !.listed = @ \ {m},
                                        !.alive = IF ended THEN @ \ {m} ELSE @]
  /\ UNCHANGED <<phase, todo, up, subscribers, requested, busVars, ghosts>>

MonitorsStopped ==
  /\ Stopping("monitors") /\ monitoring.listed = {}
  /\ todo' = Tail(todo) /\ up' = up \ {"monitors"}
  /\ UNCHANGED <<phase, subscribers, monitoring, requested, busVars, ghosts>>

\* EventBus.stop(): nothing is taken any more ...
BusStops ==
  /\ Stopping("bus") /\ accepting
  /\ accepting' = FALSE
  /\ UNCHANGED <<appVars, queue, handling, items, ghosts>>

\* ... the queue drains, or ten seconds pass, and the callbacks that were submitted
\* end.
BusStopped ==
  /\ Stopping("bus") /\ ~accepting /\ handling = {}
  /\ todo' = Tail(todo) /\ up' = up \ {"bus"}
  /\ UNCHANGED <<phase, subscribers, monitoring, requested, busVars, ghosts>>

ShutdownOver ==
  /\ phase = "stopping" /\ todo = <<>>
  /\ phase' = "over"
  /\ UNCHANGED <<todo, up, subscribers, monitoring, requested, busVars, ghosts>>

-----------------------------------------------------------------------------
Parts == {InitOrder[i] : i \in DOMAIN InitOrder}

Main ==
  \/ StartResources \/ StartBus \/ StartStore \/ StartEngine \/ StartNotifier \/ StartExporter
  \/ MonitorsStarted \/ StartScheduler \/ StartApi \/ StartupOver \/ BeginShutdown
  \/ StopApi \/ SchedulerRaises \/ \E part \in Parts : StopPart(part)
  \/ MonitorsStopped \/ BusStops \/ BusStopped \/ ShutdownOver
  \/ \E m \in Monitors : StartMonitor(m) \/ Restart(m) \/ StopMonitor(m)

Callbacks == \E n \in 1..MaxItems, s \in Sinks : Handle(n, s)

Next == Main \/ Dispatch \/ Callbacks \/ RequestStop \/ \E m \in Monitors : Observe(m) \/ Crash(m)

Spec == Init /\ [][Next]_vars

\* The main thread, the dispatcher and the callbacks do not pause for ever.
Fairness == WF_vars(Main) /\ WF_vars(Dispatch) /\ WF_vars(Callbacks)

FairSpec == Spec /\ Fairness

-----------------------------------------------------------------------------
(* Properties *)

\* Every variable keeps its type; the numbers of items are given out in order.
TypeOK ==
  /\ phase \in {"starting", "running", "stopping", "over", "failed"}
  /\ todo \in Seq(Parts) /\ up \subseteq Parts /\ subscribers \subseteq Sinks
  /\ monitoring \in [listed : SUBSET Monitors, alive : SUBSET Monitors, crashes : Nat]
  /\ requested \in BOOLEAN /\ accepting \in BOOLEAN /\ refused \in BOOLEAN
  /\ items \in 0..MaxItems
  /\ queue \in Seq([nr : 1..MaxItems, kind : {"event", "threat", "internal"}])
  /\ \A i \in 1..Len(queue) : queue[i].nr <= items
  /\ handling \subseteq (1..MaxItems) \X Sinks
  /\ offered \in [1..MaxItems -> SUBSET Sinks]
  /\ threats \subseteq 1..items /\ closedOn \subseteq 1..MaxItems

\* "Initialize all subsystems in dependency order": whenever a threat is dispatched,
\* each of the parts that are to hear of threats has subscribed, unless it is one
\* of those that did not start.
ThreatsReachAll ==
  phase = "running" =>
    \A n \in threats : offered[n] # {} => offered[n] = Takers("threat") \cap subscribers

\* "Drain and stop event bus", then "Close storage": no item is handed to the store
\* when its database is closed, however long the drain takes.
StoreOutlivesEvents == closedOn = {}

\* "Graceful shutdown": once a start was completed, a requested stop comes to its
\* end, and no part is left at work but the server's or a monitor's thread that does
\* not end, and the notifier, which has nothing to stop.  Only the scheduler, which
\* nothing guards, can end the shutdown before.
ShutdownCompletes ==
  (phase = "running" /\ requested)
    ~> \/ phase = "over" /\ up \subseteq {"notifier", "api"}
       \/ phase = "failed" /\ Head(todo) = "scheduler"

\* "Graceful shutdown", "Waits ... for the queue to drain": a threat found in an
\* event that was queued when the shutdown began is taken by the bus.
DrainedThreatsHeard == ~refused
-----------------------------------------------------------------------------
(* What makes ThreatsReachAll and StoreOutlivesEvents inductive. *)

\* What is left of an order is its end.
EndOf(order) ==
  /\ Len(todo) <= Len(order)
  /\ \A i \in 1..Len(todo) : todo[i] = order[Len(order) - Len(todo) + i]

OnCourse ==
  /\ phase = "starting" => EndOf(InitOrder)
  /\ phase = "stopping" => EndOf(StopOrder)

\* Before the monitors are started, nothing is published.
QuietBefore ==
  phase = "starting" /\ Len(todo) > 3 =>
    /\ monitoring.listed = {} /\ monitoring.alive = {}
    /\ items = 0 /\ queue = <<>> /\ handling = {} /\ threats = {}

\* A threat is a threat in the queue, and was dispatched to all there are, if it was.
ThreatsKnown ==
  /\ \A i \in 1..Len(queue) : queue[i].nr \in threats => queue[i].kind = "threat"
  /\ \A n \in 1..MaxItems : n > items => offered[n] = {}
  /\ \A n \in threats : offered[n] # {} => offered[n] = Takers("threat") \cap subscribers

\* The store's turn to stop comes when the bus is done; until then it can write
\* what it is handed.
StoreServes ==
  /\ phase = "stopping" /\ Len(todo) <= 2 => "bus" \notin up /\ handling = {}
  /\ "store" \in subscribers /\ ("bus" \in up \/ phase = "starting") => "store" \in up
  /\ \A n \in 1..MaxItems : <<n, "store">> \in handling => "store" \in up
  /\ closedOn = {}

IInv == TypeOK /\ OnCourse /\ QuietBefore /\ ThreatsKnown /\ StoreServes
=============================================================================
