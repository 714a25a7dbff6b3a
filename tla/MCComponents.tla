---------------------------- MODULE MCComponents ----------------------------
(***************************************************************************)
(* The event store, the file, authentication and resource monitors, the TTL *)
(* cache, the notifier, the auto responder and the API server on small       *)
(* instances.  They share no state here: "component" says which of them a   *)
(* behaviour is of, and the others rest in one initial state.               *)
(***************************************************************************)
EXTENDS EventStore, TLC

CONSTANTS
  e1, e2, t1, t2, w1, w2,
  Threshold, Window, Capacity, MaxRenames, FileTime,                \* of FileMonitor
  Platforms, TailLines, Back, MaxClock, MaxEntries,                 \* of AuthMonitor
  Classes, MaxPerMinute, Cooldown, Minute, AlertTime, MaxThreats,   \* of Notifier
  Threats, Pids, Modes, Categories, Windows, MaxProcesses,          \* of AutoResponder
  CpuReadings, CpuAverage, CpuPeak, HistorySize,                    \* of ResourceManager
  Keys, Threads, CacheSize, Ttls, CacheTime, MaxOps,                \* of TTLCache
  Clients, Limit, WindowLength, ApiTime, MaxRequests                \* of ApiServer

\* The workers are finitely many; the limits are numbers.
ASSUME AlertsAssumption ==
  /\ IsFiniteSet(Workers) /\ Workers # {}
  /\ MaxPerMinute \in Nat /\ Minute \in Nat /\ Cooldown \in Nat

ASSUME FilesAssumption == Threshold \in Nat /\ Window \in Nat /\ Capacity \in Nat

\* The budgets are independent of each other.
ASSUME ResourcesAssumption ==
  /\ CpuReadings \subseteq Nat
  /\ CpuAverage \in Nat /\ CpuPeak \in Nat /\ HistorySize \in Nat \ {0}

ASSUME AuthAssumption == TailLines \in Nat /\ Back \in Nat

\* A cache has a place, and its entries live for a while.
ASSUME CacheAssumption == IsFiniteSet(Keys) /\ CacheSize \in Nat \ {0} /\ Ttls \subseteq Nat \ {0}

\* The configuration allows ten requests at least (config.py:473).
ASSUME ApiAssumption == Limit \in Nat \ {0} /\ WindowLength \in Nat

VARIABLES
  component,
  clock, observer, stopping, check, stamp, born, tracker, asOf, counted, touched,
  summarised, unheard, raced, overrun,
  platform, now, log, poller, position, polledAt, read, told, dropped,
  active, sampler, sample, cpuHistory, throttle, overrides, starts,
  time, store, pending, sweeping, ops, since,
  tick, alertTimes, lastAlert, handler, threats, history, beganAt, overpopped,
  mode, onWindows, threat, proc, rules, response, status, results, recorded,
  server, joined, halves, buckets, request, part, sent, answer, refused

Files == INSTANCE FileMonitor WITH MaxTime <- FileTime
Auth == INSTANCE AuthMonitor
Resources == INSTANCE ResourceManager WITH MaxStarts <- 2
Cache == INSTANCE TTLCache WITH MaxSize <- CacheSize, MaxClock <- CacheTime
Alerts == INSTANCE Notifier WITH MaxTime <- AlertTime
Response == INSTANCE AutoResponder
Api == INSTANCE ApiServer WITH MaxClock <- ApiTime

storeVars == <<phase, schema, step, disk, view, task, failures, crashes, marks, kept, gone, swept>>
fileVars == <<clock, observer, stopping, check, stamp, born, tracker, asOf, counted, touched,
              summarised, unheard, raced, overrun>>
authVars == <<platform, now, log, poller, position, polledAt, read, told, dropped>>
resourceVars == <<active, sampler, sample, cpuHistory, throttle, overrides, starts>>
cacheVars == <<time, store, pending, sweeping, ops, since>>
alertVars == <<tick, alertTimes, lastAlert, handler, threats, history, beganAt, overpopped>>
responseVars == <<mode, onWindows, threat, proc, rules, response, status, results, recorded>>
apiVars == <<server, joined, halves, buckets, request, part, sent, answer, refused>>
componentVars == <<component, storeVars, fileVars, authVars, resourceVars, cacheVars, alertVars,
                   responseVars, apiVars>>

ComponentInit ==
  /\ component \in {"store", "files", "auth", "resources", "cache", "alerts", "response",
                    "api"}
  /\ Init /\ Files!Init /\ Auth!Init /\ Resources!Init /\ Cache!Init /\ Alerts!Init /\ Response!Init
  /\ Api!Init
  /\ component # "api" => part = "none"
  /\ component # "auth" => platform = "linux"
  /\ component # "response" =>
       /\ mode = "manual" /\ ~onWindows
       /\ \A t \in Threats : /\ threat[t].category = "PERSISTENCE" /\ ~threat[t].severe
                                /\ threat[t].pid = Response!NoPid

ComponentNext ==
  /\ UNCHANGED component
  /\ \/ /\ component = "store" /\ Next
        /\ UNCHANGED <<fileVars, authVars, resourceVars, cacheVars, alertVars, responseVars, apiVars>>
     \/ /\ component = "files" /\ Files!Next
        /\ UNCHANGED <<storeVars, authVars, resourceVars, cacheVars, alertVars, responseVars, apiVars>>
     \/ /\ component = "auth" /\ Auth!Next
        /\ UNCHANGED <<storeVars, fileVars, resourceVars, cacheVars, alertVars, responseVars, apiVars>>
     \/ /\ component = "resources" /\ Resources!Next
        /\ UNCHANGED <<storeVars, fileVars, authVars, cacheVars, alertVars, responseVars, apiVars>>
     \/ /\ component = "cache" /\ Cache!Next
        /\ UNCHANGED <<storeVars, fileVars, authVars, resourceVars, alertVars, responseVars, apiVars>>
     \/ /\ component = "alerts" /\ Alerts!Next
        /\ UNCHANGED <<storeVars, fileVars, authVars, resourceVars, cacheVars, responseVars, apiVars>>
     \/ /\ component = "response" /\ Response!Next
        /\ UNCHANGED <<storeVars, fileVars, authVars, resourceVars, cacheVars, alertVars, apiVars>>
     \/ /\ component = "api" /\ Api!Next
        /\ UNCHANGED <<storeVars, fileVars, authVars, resourceVars, cacheVars, alertVars,
                       responseVars>>

ComponentSpec == ComponentInit /\ [][ComponentNext]_componentVars

\* The first event is the older one.
Timestamps == e1 :> 1 @@ e2 :> 2

\* The workers of the bus are interchangeable in the store.
Symmetry == Permutations(Workers)

-----------------------------------------------------------------------------
\* A rename burst of the window is reported, however check, callback and restart
\* interleave (file_monitor.py); see FileMonitor.
BurstNotOverlooked == Files!BurstNotOverlooked

\* No log entry between two polls escapes (auth_monitor.py); see AuthMonitor.
NoEntryEscapes == Auth!NoEntryEscapes

\* A poll returns what was written since the last one (auth_monitor.py); see
\* AuthMonitor.
OnlyNewEntries == Auth!OnlyNewEntries

\* Throttling ends with what caused it (resource_manager.py); see ResourceManager.
ThrottleLifts == Resources!ThrottleLifts

\* Use near the budget throttles (resource_manager.py); see ResourceManager.
ThrottledNearBudget == Resources!ThrottledNearBudget

\* The cache gives up what was used least recently (cache.py); see TTLCache.
RecentlyUsedKept == Cache!RecentlyUsedKept

\* The alerts of a minute are limited (notifier.py); see Notifier.
MinuteBounded == Alerts!MinuteBounded

\* Alerts of a class are spaced, but for those handled at once (notifier.py); see
\* Notifier.
RepeatsOverlap == Alerts!RepeatsOverlap

\* What was suspended can be resumed (auto_responder.py); see AutoResponder.
SuspensionsUndoable == Response!SuspensionsUndoable

\* Waiting as told ends a refusal (server.py); see ApiServer.
WaitingHelps == Api!WaitingHelps
=============================================================================
