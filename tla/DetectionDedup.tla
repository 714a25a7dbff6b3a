--------------------------- MODULE DetectionDedup ---------------------------
(***************************************************************************)
(* Deduplication and emission in detection/engine.py: stage 4 of            *)
(* _run_detection_pipeline(), _should_emit() and _emit_threat().  The bus   *)
(* runs process_event() on several pool workers at once, and no lock guards *)
(* _dedup_cache: a worker looks a threat up, and inserts, refreshes, scans  *)
(* and deletes in later steps.                                              *)
(*                                                                         *)
(* What the rules and detectors find in an event is an input: a list of     *)
(* findings, each the key it is deduplicated by (rules and resource) and    *)
(* whether it reaches the minimum confidence.  Time is a clock of ticks.    *)
(***************************************************************************)
EXTENDS Naturals, Sequences, FiniteSets

CONSTANTS
  Keys,        \* dedup keys: (triggered rules, affected resource)
  NoKey,       \* the worker's scan has chosen nothing
  Workers,     \* the pool workers that run process_event()
  Reports,     \* the lists of findings an event may lead to
  Window,      \* _dedup_window
  CacheMax,    \* _DEDUP_CACHE_MAX
  MaxEvents,   \* bound: how many events are processed
  MaxTime,     \* bound: the last tick
  MayFail      \* whether publish() may raise (the bus is full)

ASSUME DedupAssumption ==
  /\ NoKey \notin Keys
  /\ IsFiniteSet(Workers)
  /\ Reports \subseteq Seq([key : Keys, sure : BOOLEAN])
  /\ Window \in Nat \ {0}
  /\ CacheMax \in Nat \ {0}
  /\ MaxEvents \in Nat
  /\ MaxTime \in Nat
  /\ MayFail \in BOOLEAN

VARIABLES
  clock, events,
  pc,        \* pc[w]: where worker w is in _should_emit() and _emit_threat()
  todo,      \* todo[w]: the findings it has still to handle, this one first
  current,   \* current[w]: the record w has looked up is still the cached one
  size,      \* size[w]: the size of the cache when w began to scan it
  oldest,    \* oldest[w]: the key w's scan has chosen
  cached,    \* the keys of _dedup_cache
  lastSeen,  \* lastSeen[k]: DedupRecord.last_seen of the cached record
  raised,    \* processing_errors
  (* what the properties remember *)
  shown,     \* shown[w][k]: 1 + when w last decided to emit k, 0 for never (or evicted)
  published, failed, lost,   \* keys published, not published, in a pipeline that raised
  silenced   \* keys suppressed as duplicates

workVars  == <<pc, todo, current, size, oldest>>
cacheVars == <<cached, lastSeen>>
pastVars  == <<raised, shown, published, failed, lost, silenced>>
vars == <<clock, events, workVars, cacheVars, pastVars>>

Init ==
  /\ clock = 0 /\ events = 0
  /\ pc = [w \in Workers |-> "idle"]
  /\ todo = [w \in Workers |-> <<>>]
  /\ current = [w \in Workers |-> FALSE]
  /\ size = [w \in Workers |-> 0]
  /\ oldest = [w \in Workers |-> NoKey]
  /\ cached = {} /\ lastSeen = [k \in Keys |-> 0]
  /\ raised = 0
  /\ shown = [w \in Workers |-> [k \in Keys |-> 0]]
  /\ published = {} /\ failed = {} /\ lost = {} /\ silenced = {}

\* The finding worker w is at.
key(w) == Head(todo[w]).key

\* Worker w is done with its finding.
NextFinding(w) ==
  /\ todo' = [todo EXCEPT ![w] = Tail(@)]
  /\ pc' = [pc EXCEPT ![w] = IF Tail(todo[w]) = <<>> THEN "idle" ELSE "look"]

\* Nobody holds k's cached record any more: it was replaced or removed.
Displace(k) ==
  current' = [w \in Workers |-> current[w] /\ (todo[w] = <<>> \/ key(w) # k)]

-----------------------------------------------------------------------------
Tick ==
  /\ clock < MaxTime
  /\ clock' = clock + 1
  /\ UNCHANGED <<events, workVars, cacheVars, pastVars>>

\* process_event(): the first stages are over, and have found something.
ProcessEvent(w, r) ==
  /\ pc[w] = "idle"
  /\ events < MaxEvents
  /\ r # <<>>
  /\ events' = events + 1
  /\ todo' = [todo EXCEPT ![w] = r]
  /\ pc' = [pc EXCEPT ![w] = "look"]
  /\ UNCHANGED <<clock, current, size, oldest, cacheVars, pastVars>>

(* _should_emit() *)

\* Below the minimum confidence: suppressed before the cache is looked at.
TooWeak(w) ==
  /\ pc[w] = "look"
  /\ ~Head(todo[w]).sure
  /\ NextFinding(w)
  /\ UNCHANGED <<clock, events, current, size, oldest, cacheVars, pastVars>>

\* Mutant: the window is measured the wrong way round.
RecentInverted(k) == k \in cached /\ clock - lastSeen[k] > Window

\* The cached record is younger than the window.
Recent(k) == k \in cached /\ clock - lastSeen[k] < Window

\* Mutant: a finding below the confidence is cached like any other.
LookUpNewCachesWeak(w) ==
  /\ pc[w] = "look"
  /\ ~Recent(key(w))
  /\ IF Head(todo[w]).sure
     THEN pc' = [pc EXCEPT ![w] = "insert"] /\ UNCHANGED <<todo, cacheVars>>
     ELSE /\ cached' = cached \cup {key(w)}
          /\ lastSeen' = [lastSeen EXCEPT ![key(w)] = clock]
          /\ NextFinding(w)
  /\ UNCHANGED <<clock, events, current, size, oldest, pastVars>>

\* No recent record of this key.
LookUpNew(w) ==
  /\ pc[w] = "look"
  /\ Head(todo[w]).sure
  /\ ~Recent(key(w))
  /\ pc' = [pc EXCEPT ![w] = "insert"]
  /\ UNCHANGED <<clock, events, todo, current, size, oldest, cacheVars, pastVars>>

\* A recent record of this key: w holds on to it.
LookUpDuplicate(w) ==
  /\ pc[w] = "look"
  /\ Head(todo[w]).sure
  /\ Recent(key(w))
  /\ pc' = [pc EXCEPT ![w] = "refresh"]
  /\ current' = [current EXCEPT ![w] = TRUE]
  /\ UNCHANGED <<clock, events, todo, size, oldest, cacheVars, pastVars>>

\* A duplicate: the record that was looked up is refreshed, cached or not.
Refresh(w) ==
  /\ pc[w] = "refresh"
  /\ lastSeen' = [lastSeen EXCEPT ![key(w)] = IF current[w] THEN clock ELSE @]
  /\ silenced' = silenced \cup {key(w)}
  /\ current' = [current EXCEPT ![w] = FALSE]
  /\ NextFinding(w)
  /\ UNCHANGED <<clock, events, size, oldest, cached, raised, shown, published, failed, lost>>

\* No recent record: a new one replaces whatever is cached by now.
Insert(w) ==
  /\ pc[w] = "insert"
  /\ cached' = cached \cup {key(w)}
  /\ lastSeen' = [lastSeen EXCEPT ![key(w)] = clock]
  /\ Displace(key(w))
  /\ shown' = [shown EXCEPT ![w][key(w)] = 1 + clock]
  /\ pc' = [pc EXCEPT ![w] = "evict"]
  /\ UNCHANGED <<clock, events, todo, size, oldest, raised, published, failed, lost, silenced>>

Fits(w) ==
  /\ pc[w] = "evict"
  /\ Cardinality(cached) <= CacheMax
  /\ pc' = [pc EXCEPT ![w] = "publish"]
  /\ UNCHANGED <<clock, events, todo, current, size, oldest, cacheVars, pastVars>>

\* Too many entries: min() starts to iterate over the dict, ...
ScanBegin(w) ==
  /\ pc[w] = "evict"
  /\ Cardinality(cached) > CacheMax
  /\ size' = [size EXCEPT ![w] = Cardinality(cached)]
  /\ pc' = [pc EXCEPT ![w] = "scan"]
  /\ UNCHANGED <<clock, events, todo, current, oldest, cacheVars, pastVars>>

\* ... comes to an end with an entry of least last_seen, ...
ScanEnd(w) ==
  /\ pc[w] = "scan"
  /\ Cardinality(cached) = size[w]
  /\ \E k \in cached :
       /\ \A j \in cached : lastSeen[k] <= lastSeen[j]
       /\ oldest' = [oldest EXCEPT ![w] = k]
  /\ size' = [size EXCEPT ![w] = 0]
  /\ pc' = [pc EXCEPT ![w] = "delete"]
  /\ UNCHANGED <<clock, events, todo, current, cacheVars, pastVars>>

\* ... and that entry is deleted, if nobody has deleted it.
Delete(w) ==
  /\ pc[w] = "delete"
  /\ oldest[w] \in cached
  /\ cached' = cached \ {oldest[w]}
  /\ Displace(oldest[w])
  /\ shown' = [v \in Workers |-> [shown[v] EXCEPT ![oldest[w]] = 0]]
  /\ oldest' = [oldest EXCEPT ![w] = NoKey]
  /\ pc' = [pc EXCEPT ![w] = "publish"]
  /\ UNCHANGED <<clock, events, todo, size, lastSeen, raised, published, failed, lost, silenced>>

\* The dict changed size under the iterator (RuntimeError), or the entry is gone
\* (KeyError): process_event() logs and counts it, and the findings are lost.
Raise(w) ==
  /\ \/ pc[w] = "scan" /\ Cardinality(cached) # size[w]
     \/ pc[w] = "delete" /\ oldest[w] \notin cached
  /\ raised' = raised + 1
  /\ lost' = lost \cup {todo[w][i].key : i \in 1..Len(todo[w])}
  /\ todo' = [todo EXCEPT ![w] = <<>>]
  /\ size' = [size EXCEPT ![w] = 0]
  /\ oldest' = [oldest EXCEPT ![w] = NoKey]
  /\ pc' = [pc EXCEPT ![w] = "idle"]
  /\ UNCHANGED <<clock, events, current, cacheVars, shown, published, failed, silenced>>

(* _emit_threat() *)

Publish(w) ==
  /\ pc[w] = "publish"
  /\ published' = published \cup {key(w)}
  /\ NextFinding(w)
  /\ UNCHANGED <<clock, events, current, size, oldest, cacheVars, raised, shown, failed, lost,
                 silenced>>

\* EventBusFullError is logged and swallowed; the record stays in the cache.
PublishFails(w) ==
  /\ MayFail
  /\ pc[w] = "publish"
  /\ failed' = failed \cup {key(w)}
  /\ NextFinding(w)
  /\ UNCHANGED <<clock, events, current, size, oldest, cacheVars, raised, shown, published, lost,
                 silenced>>

-----------------------------------------------------------------------------
ShouldEmit(w) ==
  \/ TooWeak(w) \/ LookUpNew(w) \/ LookUpDuplicate(w) \/ Refresh(w) \/ Insert(w)
  \/ Fits(w) \/ ScanBegin(w) \/ ScanEnd(w) \/ Delete(w) \/ Raise(w)

EmitThreat(w) == Publish(w) \/ PublishFails(w)

Next ==
  \/ Tick
  \/ \E w \in Workers, r \in Reports : ProcessEvent(w, r)
  \/ \E w \in Workers : ShouldEmit(w) \/ EmitThreat(w)

Spec == Init /\ [][Next]_vars

-----------------------------------------------------------------------------
(* Properties *)

\* Every variable keeps its type; a worker that handles a finding has one, and
\* one that handles none has none.
TypeOK ==
  /\ clock \in 0..MaxTime /\ events \in 0..MaxEvents
  /\ pc \in [Workers -> {"idle", "look", "refresh", "insert", "evict", "scan", "delete",
                         "publish"}]
  /\ todo \in [Workers -> Seq([key : Keys, sure : BOOLEAN])]
  /\ \A w \in Workers : pc[w] = "idle" <=> todo[w] = <<>>
  /\ current \in [Workers -> BOOLEAN]
  /\ size \in [Workers -> Nat]
  /\ oldest \in [Workers -> Keys \cup {NoKey}]
  /\ \A w \in Workers : pc[w] = "delete" => oldest[w] # NoKey
  /\ cached \subseteq Keys
  /\ lastSeen \in [Keys -> 0..MaxTime]
  /\ raised \in Nat
  /\ shown \in [Workers -> [Keys -> Nat]]
  /\ published \subseteq Keys /\ failed \subseteq Keys
  /\ lost \subseteq Keys /\ silenced \subseteq Keys

\* The workers that have inserted and not yet evicted.
Evicting == {w \in Workers : pc[w] \in {"evict", "scan", "delete"}}

\* The cache is not bounded by CacheMax alone, but every entry above it is owed
\* to a worker that is about to evict one, or to an eviction that raised.
CacheBounded == Cardinality(cached) <= CacheMax + Cardinality(Evicting) + raised

\* "Same rule+resource within cooldown window emits only one threat", as far as
\* it holds with several workers: no worker decides twice within a window to
\* emit the same threat, whatever the others insert, refresh and evict, unless
\* the record was evicted in between.
RepeatsSpaced ==
  [][\A w \in Workers :
       pc[w] = "insert" /\ pc'[w] = "evict" /\ shown[w][key(w)] # 0
         => 1 + clock - shown[w][key(w)] >= Window]_vars

\* A worker has inserted k and has not come to publish it.
InProgress(k) ==
  \E w \in Workers : pc[w] \in {"evict", "scan", "delete", "publish"} /\ key(w) = k

\* k was published, is about to be, or could not be published.
Handled(k) == k \in published \cup failed \cup lost \/ InProgress(k)

\* A threat is only suppressed behind one that was published, is about to be,
\* or could not be published: findings below the confidence never silence one.
SilencedBehindAnother == \A k \in silenced : Handled(k)

-----------------------------------------------------------------------------
(* What makes CacheBounded, SilencedBehindAnother and RepeatsSpaced         *)
(* inductive.                                                               *)

\* A cached record, and one a worker holds on to, stands for a handled threat.
RecordsHandled ==
  /\ \A k \in cached : Handled(k)
  /\ \A w \in Workers : pc[w] = "refresh" => Handled(key(w))

\* What a worker decided to emit is cached, no older than the decision; a worker
\* about to insert has not decided to emit the same within the window.
ShownCached ==
  /\ \A k \in Keys : lastSeen[k] <= clock
  /\ \A w \in Workers, k \in Keys : shown[w][k] # 0 =>
       k \in cached /\ shown[w][k] <= 1 + lastSeen[k]
  /\ \A w \in Workers : pc[w] = "insert" =>
       shown[w][key(w)] = 0 \/ 1 + clock - shown[w][key(w)] >= Window

IInv ==
  /\ TypeOK
  /\ IsFiniteSet(cached)
  /\ CacheBounded
  /\ SilencedBehindAnother
  /\ RecordsHandled
  /\ ShownCached

-----------------------------------------------------------------------------
(* What the sources promise and the code does not keep: see README.md.      *)

\* "Same rule+resource within cooldown window emits only one threat."
OneThreatPerWindow ==
  [][\A v, w \in Workers :
       pc[w] = "insert" /\ pc'[w] = "evict" /\ shown[v][key(w)] # 0
         => 1 + clock - shown[v][key(w)] >= Window]_vars
=============================================================================
