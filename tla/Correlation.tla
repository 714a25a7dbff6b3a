---------------------------- MODULE Correlation ----------------------------
(***************************************************************************)
(* CorrelationEngine of detection/correlation.py.  Pool workers of the bus  *)
(* take events in the order of their creation and hand them to              *)
(* process_event(), which takes them one at a time under its lock, perhaps  *)
(* in another order and later than their time stamps say.                   *)
(*                                                                         *)
(* An event is the fields the patterns compare: a process that an office    *)
(* application started as a shell has that application as its app; image is *)
(* a program file, the downloaded file, or the program that a service path  *)
(* or a registry value names.  The program of a process may be unknown,     *)
(* which the code stores as an empty string: it is part of every path.      *)
(* What a match says is left out, as are its evidence and the statistics.   *)
(***************************************************************************)
EXTENDS Naturals, Sequences, FiniteSets

CONSTANTS
  Workers,     \* the pool workers that run process_event()
  Inputs,      \* the events there are, a subset of EventRecords
  Apps, Pids, Images, Sources,
  None,        \* an empty or absent field
  Window,      \* window_seconds
  Recency,     \* Recency["service"], Recency["registry"]: 60 and 120 seconds
  MinFailures, \* how many failures make a success suspicious (3)
  MaxHistory,  \* _MAX_WINDOW_EVENTS
  Cooldown,    \* _cooldown_seconds
  MaxEvents,   \* bound: how many events there are
  MaxTime      \* bound: the last tick

\* The events there can be.
EventRecords ==
  [type : {"process"}, pid : Pids, app : Apps \cup {None}, image : Images \cup {None},
   source : {None}]
  \cup [type : {"network"}, pid : Pids \cup {None}, app : {None}, image : {None}, source : {None}]
  \cup [type : {"file", "service", "registry"}, pid : {None}, app : {None}, image : Images,
        source : {None}]
  \cup [type : {"failure", "success"}, pid : {None}, app : {None}, image : {None},
        source : Sources \cup {None}]

\* What a cooldown is kept for: a pattern and its office application, file,
\* source, service path or registry value.
CooldownKeys ==
  ({"office"} \X Apps) \cup ({"download", "service", "registry"} \X Images)
  \cup ({"stuffing"} \X Sources)

VARIABLES
  clock, events,
  inHand,     \* inHand[w]: the event worker w has made a record of, with its stamp
  history,    \* _event_history
  office,     \* _pending_chains["OFFICE_MACRO"]
  downloads,  \* _pending_chains["DOWNLOAD_EXEC"]
  failures,   \* _pending_chains["CRED_STUFF"]: a count and a start for each source
  last,       \* last[k]: 1 + _last_correlation of k, 0 when it has none
  (* what the properties remember *)
  handled,    \* the records in the order they were handled, and when
  alerts      \* the matches: key and time

chainVars == <<history, office, downloads, failures, last>>
vars == <<clock, events, inHand, chainVars, handled, alerts>>

Idle == [event |-> None, stamp |-> 0]

Init ==
  /\ clock = 0 /\ events = 0
  /\ inHand = [w \in Workers |-> Idle]
  /\ history = <<>>
  /\ office = {} /\ downloads = {}
  /\ failures = [s \in Sources |-> [count |-> 0, started |-> 0]]
  /\ last = [k \in CooldownKeys |-> 0]
  /\ handled = <<>>
  /\ alerts = {}

\* append() to a deque of limited length.
Remember(s, r) == LET t == Append(s, r) IN IF Len(t) > MaxHistory THEN Tail(t) ELSE t

\* Mutant: a chain is dropped a tick too early.
LiveTooShort(started) == started + Window > clock + 1

\* _prune_old_entries(): what starts before the cutoff or at it is forgotten.
Live(started) == started + Window > clock

LiveChains(chains) == {c \in chains : Live(c.started)}

LiveCount(s) == IF Live(failures[s].started) THEN failures[s].count ELSE 0

OnCooldown(k) == last[k] # 0 /\ 1 + clock - last[k] < Cooldown

\* "p in path", for the program of a process.
PartOf(program, path) == program \in {None, path}

-----------------------------------------------------------------------------
(* The patterns: the cooldown keys of what they match, before the cooldown. *)

\* Stage 2 of the office pattern: the chains of the connected shell.
Connected(e) ==
  {c \in LiveChains(office) :
     e.type = "network" /\ e.pid # None /\ c.pid = e.pid /\ c.stage = 1}

OfficeMatches(e) == {<<"office", c.app>> : c \in Connected(e)}

DownloadMatches(e) ==
  {<<"download", c.image>> :
     c \in {d \in LiveChains(downloads) : e.type = "process" /\ d.image = e.image}}

\* Mutant: pruned chains go on counting.
StuffingMatchesUnpruned(e) ==
  {<<"stuffing", s>> :
     s \in {r \in Sources : e.type = "success" /\ e.source = r
                            /\ failures[r].count >= MinFailures}}

StuffingMatches(e) ==
  {<<"stuffing", s>> :
     s \in {r \in Sources : e.type = "success" /\ e.source = r /\ LiveCount(r) >= MinFailures}}

\* A service, or a registry value, that names a program started lately; t is the
\* history with the event itself.
PersistenceMatches(e, t) ==
  {<<e.type, e.image>> :
     r \in {q \in {t[i] : i \in 1..Len(t)} :
              /\ e.type \in {"service", "registry"}
              /\ q.event.type = "process"
              /\ clock < q.stamp + Recency[e.type]
              /\ PartOf(q.event.image, e.image)}}

Matches(e, t) ==
  OfficeMatches(e) \cup DownloadMatches(e) \cup StuffingMatches(e) \cup PersistenceMatches(e, t)

-----------------------------------------------------------------------------
Tick ==
  /\ clock < MaxTime
  /\ clock' = clock + 1
  /\ UNCHANGED <<events, inHand, chainVars, handled, alerts>>

\* An event is created, stamped, and taken by a worker, which makes the record of
\* it that is kept, without the lock.
MakeRecord(w, e) ==
  /\ inHand[w] = Idle
  /\ events < MaxEvents
  /\ events' = events + 1
  /\ inHand' = [inHand EXCEPT ![w] = [event |-> e, stamp |-> clock]]
  /\ UNCHANGED <<clock, chainVars, handled, alerts>>

\* The office chains after an event: a shell begins one, its connection moves it
\* on whether or not the match is held back by the cooldown.
OfficeAfter(e, stamp) ==
  (LiveChains(office) \ Connected(e))
  \cup {[c EXCEPT !.stage = 2] : c \in Connected(e)}
  \cup {[pid |-> e.pid, app |-> a, started |-> stamp, stage |-> 1] :
          a \in {b \in Apps : e.type = "process" /\ e.app = b}}

DownloadsAfter(e, stamp) ==
  LiveChains(downloads)
  \cup {[image |-> i, started |-> stamp] : i \in {j \in Images : e.type = "file" /\ e.image = j}}

\* Failures are counted from the first one; a success does not end the count.
FailuresAfter(e, stamp) ==
  [s \in Sources |->
     LET n == LiveCount(s)
         started == IF n = 0 THEN 0 ELSE failures[s].started
     IN  IF e.type = "failure" /\ e.source = s
         THEN [count |-> n + 1, started |-> IF n = 0 THEN stamp ELSE started]
         ELSE [count |-> n, started |-> started]]

\* process_event() under the lock: history, pruning, then the five patterns.
ProcessEvent(w) ==
  LET e    == inHand[w].event
      kept == Remember(history, inHand[w])
      new  == {k \in Matches(e, kept) : ~OnCooldown(k)}
  IN  /\ inHand[w] # Idle
      /\ history' = kept
      /\ office' = OfficeAfter(e, inHand[w].stamp)
      /\ downloads' = DownloadsAfter(e, inHand[w].stamp)
      /\ failures' = FailuresAfter(e, inHand[w].stamp)
      /\ last' = [k \in CooldownKeys |-> IF k \in new THEN 1 + clock ELSE last[k]]
      /\ alerts' = alerts \cup {[key |-> k, at |-> clock] : k \in new}
      /\ handled' = Append(handled, [event |-> e, stamp |-> inHand[w].stamp, at |-> clock])
      /\ inHand' = [inHand EXCEPT ![w] = Idle]
      /\ UNCHANGED <<clock, events>>

Next ==
  \/ Tick
  \/ \E w \in Workers : ProcessEvent(w) \/ \E e \in Inputs : MakeRecord(w, e)

Spec == Init /\ [][Next]_vars

-----------------------------------------------------------------------------
(* Properties *)

Young(i) == handled[i].stamp + Window > clock

\* The failures of a source that were handled.
Failed(s) ==
  {i \in 1..Len(handled) : handled[i].event.type = "failure" /\ handled[i].event.source = s}

\* The chains that event e ends, told from all that was handled before it.  A
\* shell of an office application connects for the first time.
OfficeEnded(e) ==
  {a \in Apps :
     /\ e.type = "network"
     /\ \E i \in 1..Len(handled) :
          LET first == handled[i].event
          IN  /\ first.type = "process" /\ first.app = a /\ first.pid = e.pid /\ Young(i)
              /\ ~ \E j \in 1..Len(handled) :
                     j > i /\ handled[j].event.type = "network" /\ handled[j].event.pid = e.pid}

\* A downloaded file runs.
DownloadEnded(e) ==
  {f \in Images :
     /\ e.type = "process" /\ e.image = f
     /\ \E i \in 1..Len(handled) :
          handled[i].event.type = "file" /\ handled[i].event.image = f /\ Young(i)}

\* A source whose failures are all young logs on.
StuffingEnded(e) ==
  {s \in Sources :
     /\ e.type = "success" /\ e.source = s
     /\ Cardinality(Failed(s)) >= MinFailures
     /\ \A i \in Failed(s) : Young(i)}

\* A program among the last events and started lately is installed.
PersistenceEnded(e) ==
  {f \in Images :
     /\ e.type \in {"service", "registry"} /\ e.image = f
     /\ \E i \in 1..Len(handled) :
          /\ i + MaxHistory > Len(handled) + 1
          /\ handled[i].event.type = "process" /\ PartOf(handled[i].event.image, f)
          /\ clock < handled[i].stamp + Recency[e.type]}

Ended(e) ==
  {<<"office", a>> : a \in OfficeEnded(e)} \cup {<<"download", f>> : f \in DownloadEnded(e)}
  \cup {<<"stuffing", s>> : s \in StuffingEnded(e)} \cup {<<e.type, f>> : f \in PersistenceEnded(e)}

\* "When a pattern's event chain is satisfied, a CorrelationMatch is emitted":
\* whatever was pruned, pushed out of the history or moved on in between, the
\* event that ends a chain is matched, or its key was within the cooldown.
EndedChainsReported ==
  [][handled' # handled
       => \A k \in Ended(handled'[Len(handled')].event) :
            \E a \in alerts' : a.key = k /\ (a.at = clock \/ clock - a.at < Cooldown)]_vars

\* Those that were handled within the window before a match of their source.
FailedBefore(a) ==
  {i \in Failed(a.key[2]) : handled[i].at <= a.at /\ handled[i].at + Window > a.at}

\* "Many failed logins followed by a successful login": a match of that pattern
\* rests on enough failures of the source that were handled within the window;
\* older ones are never added to them, although a success does not reset the
\* count and the window is that of the first failure.
StuffingGrounded ==
  \A a \in alerts : a.key[1] = "stuffing" => MinFailures <= Cardinality(FailedBefore(a))

-----------------------------------------------------------------------------
(* What makes EndedChainsReported and StuffingGrounded inductive. *)

\* Every variable keeps its type, and no record is of the future.
TypeOK ==
  /\ clock \in Nat
  /\ \A w \in Workers :
       inHand[w] = Idle \/ (inHand[w] \in [event : Inputs, stamp : Nat] /\ inHand[w].stamp <= clock)
  /\ DOMAIN inHand = Workers
  /\ history \in Seq([event : Inputs, stamp : Nat]) /\ Len(history) <= MaxHistory
  /\ handled \in Seq([event : Inputs, stamp : Nat, at : Nat])
  /\ \A i \in 1..Len(handled) : handled[i].stamp <= handled[i].at /\ handled[i].at <= clock
  /\ failures \in [Sources -> [count : Nat, started : Nat]]
  /\ last \in [CooldownKeys -> Nat]
  /\ \A a \in alerts : a.at \in Nat /\ a.at <= clock

\* A shell of an office application is remembered until it connects or is too old.
OfficeRemembered ==
  \A i \in 1..Len(handled) :
    LET e == handled[i].event
    IN  /\ e.type = "process" /\ e.app \in Apps /\ Young(i)
        /\ ~ \E j \in 1..Len(handled) :
               j > i /\ handled[j].event.type = "network" /\ handled[j].event.pid = e.pid
        => [pid |-> e.pid, app |-> e.app, started |-> handled[i].stamp, stage |-> 1] \in office

\* A file is remembered until it is too old.
DownloadsRemembered ==
  \A i \in 1..Len(handled) :
    LET e == handled[i].event
    IN  e.type = "file" /\ e.image \in Images /\ Young(i) =>
          [image |-> e.image, started |-> handled[i].stamp] \in downloads

\* Failures that are all young are all counted, from the time of one of them.
FailuresCounted ==
  \A s \in Sources :
    (\A i \in Failed(s) : Young(i)) =>
      /\ failures[s].count = Cardinality(Failed(s))
      /\ Failed(s) # {} => \E i \in Failed(s) : failures[s].started = handled[i].stamp

\* Whatever is counted was handled after the count began.
Since(s) == {i \in Failed(s) : handled[i].at >= failures[s].started}
CountsGrounded == \A s \in Sources : failures[s].count <= Cardinality(Since(s))

\* The history is the last events that were handled.
HistoryIsLast ==
  /\ Len(history) <= Len(handled)
  /\ Len(history) = Len(handled) \/ Len(history) >= MaxHistory
  /\ \A j \in 1..Len(history) :
       LET i == Len(handled) - Len(history) + j
       IN  history[j].event = handled[i].event /\ history[j].stamp = handled[i].stamp

\* What a cooldown is for was reported when it began.
CooldownsReported ==
  \A k \in CooldownKeys : last[k] # 0 => \E a \in alerts : a.key = k /\ 1 + a.at = last[k]

IInv ==
  /\ TypeOK
  /\ OfficeRemembered /\ DownloadsRemembered
  /\ FailuresCounted /\ CountsGrounded /\ StuffingGrounded
  /\ HistoryIsLast /\ CooldownsReported
=============================================================================
