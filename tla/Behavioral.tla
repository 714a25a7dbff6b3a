----------------------------- MODULE Behavioral -----------------------------
(***************************************************************************)
(* BehavioralDetector and SlidingWindowTracker of detection/behavioral.py.  *)
(* The bus runs process_event() on several workers.  A tracker has a lock,  *)
(* but the dictionaries of trackers and _last_detection have none, and the  *)
(* clock is read before the lock is taken.                                  *)
(*                                                                         *)
(* A key is what a pattern counts by: a source of failed log-ins, a parent  *)
(* of shells, a process that reads files, or the one key of the ransomware  *)
(* pattern, whose tracker exists from the start and which fires again while *)
(* an attack goes on (Ongoing).  Events that no pattern counts, what is     *)
(* kept about an event but its time, and the match that is built are left   *)
(* out.  Time is a clock of ticks.                                          *)
(***************************************************************************)
EXTENDS Naturals, Sequences, FiniteSets

CONSTANTS
  Keys,        \* what events are counted by
  Ongoing,     \* those among them that are counted for ransomware
  Workers,     \* the pool workers that run process_event()
  Trackers,    \* bound: the SlidingWindowTracker objects there can be
  None,        \* no tracker, no key
  Threshold, Window,   \* of every tracker
  MaxHistory,  \* max_history
  Again,       \* ransomware fires every so many events (10)
  Cooldown,    \* _detection_cooldown
  MaxEvents,   \* bound: how many events are processed
  MaxTime      \* bound: the last tick

ASSUME BehavioralAssumption ==
  /\ Ongoing \subseteq Keys
  /\ IsFiniteSet(Workers) /\ Workers # {}
  /\ IsFiniteSet(Trackers)
  /\ None \notin Trackers \cup Keys
  /\ Threshold \in Nat \ {0} /\ Window \in Nat /\ MaxHistory \in Nat /\ Threshold <= MaxHistory
  /\ Again \in Nat \ {0} /\ Cooldown \in Nat \ {0}
  /\ MaxEvents \in Nat /\ MaxTime \in Nat

VARIABLES
  clock, events,
  tracker,   \* tracker[k]: the tracker of k, None before k's first event
  window,    \* window[o]: _events of tracker o, the times in it
  last,      \* last[k]: 1 + _last_detection of k, 0 when it has none
  pc,        \* pc[w]: where worker w is
  key,       \* key[w]: what its event is counted by
  mine,      \* mine[w]: the tracker it has looked up
  now,       \* now[w]: the time it has read for it
  crossed,   \* crossed[w]: what add() returned
  (* what the properties remember *)
  times,     \* times[k]: the times of the events of k that were counted
  reached,   \* reached[k]: 1 + when a count of k last reached the threshold, or 0
  split,     \* keys that got two trackers
  alerted    \* alerted[w][k]: 1 + when w last reported k, or 0

workVars == <<pc, key, mine, now, crossed>>
vars == <<clock, events, tracker, window, last, workVars, times, reached, split, alerted>>

Init ==
  /\ clock = 0 /\ events = 0
  /\ tracker \in [Keys -> Trackers \cup {None}]
  /\ \A k \in Keys : tracker[k] # None <=> k \in Ongoing
  /\ \A j, k \in Ongoing : tracker[j] = tracker[k] => j = k
  /\ window = [o \in Trackers |-> <<>>]
  /\ last = [k \in Keys |-> 0]
  /\ pc = [w \in Workers |-> "idle"]
  /\ key = [w \in Workers |-> None]
  /\ mine = [w \in Workers |-> None]
  /\ now = [w \in Workers |-> 0]
  /\ crossed = [w \in Workers |-> FALSE]
  /\ times = [k \in Keys |-> <<>>]
  /\ reached = [k \in Keys |-> 0]
  /\ split = {}
  /\ alerted = [w \in Workers |-> [k \in Keys |-> 0]]

\* _prune(): what is older than the window goes, from the left up to the first
\* that is not.
Prune(s, t) ==
  LET old == {i \in 1..Len(s) : \A j \in 1..i : s[j] + Window < t}
  IN  SubSeq(s, Cardinality(old) + 1, Len(s))

\* Mutant: appendleft(): the newest event comes first.
PushLeft(s, t) == LET r == <<t>> \o s IN IF Len(r) > MaxHistory THEN SubSeq(r, 1, MaxHistory) ELSE r

\* append() to a deque of limited length.
Push(s, t) == LET r == Append(s, t) IN IF Len(r) > MaxHistory THEN Tail(r) ELSE r

Done(w) ==
  /\ pc' = [pc EXCEPT ![w] = "idle"]
  /\ key' = [key EXCEPT ![w] = None]
  /\ mine' = [mine EXCEPT ![w] = None]
  /\ now' = [now EXCEPT ![w] = 0]
  /\ crossed' = [crossed EXCEPT ![w] = FALSE]

-----------------------------------------------------------------------------
Tick ==
  /\ clock < MaxTime
  /\ clock' = clock + 1
  /\ UNCHANGED <<events, tracker, window, last, workVars, times, reached, split, alerted>>

\* An event of k: its tracker is looked up in a defaultdict.
LookUp(w, k) ==
  /\ pc[w] = "idle"
  /\ events < MaxEvents
  /\ events' = events + 1
  /\ key' = [key EXCEPT ![w] = k]
  /\ mine' = [mine EXCEPT ![w] = tracker[k]]
  /\ pc' = [pc EXCEPT ![w] = IF tracker[k] = None THEN "create" ELSE "stamp"]
  /\ UNCHANGED <<clock, tracker, window, last, now, crossed, times, reached, split, alerted>>

\* There was none: a new one replaces what another worker may have put there.
Create(w, o) ==
  /\ pc[w] = "create"
  /\ \A k \in Keys : tracker[k] # o
  /\ \A v \in Workers : mine[v] # o
  /\ window[o] = <<>>
  /\ tracker' = [tracker EXCEPT ![key[w]] = o]
  /\ split' = IF tracker[key[w]] = None THEN split ELSE split \cup {key[w]}
  /\ mine' = [mine EXCEPT ![w] = o]
  /\ pc' = [pc EXCEPT ![w] = "stamp"]
  /\ UNCHANGED <<clock, events, window, last, key, now, crossed, times, reached, alerted>>

\* add(): the clock is read, ...
Stamp(w) ==
  /\ pc[w] = "stamp"
  /\ now' = [now EXCEPT ![w] = clock]
  /\ pc' = [pc EXCEPT ![w] = "add"]
  /\ UNCHANGED <<clock, events, tracker, window, last, key, mine, crossed, times, reached, split,
                 alerted>>

\* Mutant: one event more is needed.
CrossesLate(n) == n = Threshold + 1

\* What add() returns for a count.
Crosses(n) == n = Threshold

\* ... and the event is counted under the tracker's lock.
Add(w) ==
  LET counted == Prune(Push(window[mine[w]], now[w]), now[w])
  IN  /\ pc[w] = "add"
      /\ window' = [window EXCEPT ![mine[w]] = counted]
      /\ crossed' = [crossed EXCEPT ![w] = Crosses(Len(counted))]
      /\ pc' = [pc EXCEPT ![w] = "count"]
      /\ times' = [times EXCEPT ![key[w]] = Append(@, now[w])]
      /\ reached' = [reached EXCEPT ![key[w]] = IF Len(counted) = Threshold THEN 1 + clock ELSE @]
      /\ UNCHANGED <<clock, events, tracker, last, key, mine, now, split, alerted>>

\* count_in_window(), under the lock again.  All patterns fire when add() saw the
\* threshold reached, ransomware also when the count is high and round.
Fires(w, n) ==
  crossed[w] \/ (key[w] \in Ongoing /\ n >= Threshold /\ n % Again = 0)

Count(w) ==
  LET counted == Prune(window[mine[w]], clock)
  IN  /\ pc[w] = "count"
      /\ window' = [window EXCEPT ![mine[w]] = counted]
      /\ IF Fires(w, Len(counted))
         THEN pc' = [pc EXCEPT ![w] = "cooldown"] /\ UNCHANGED <<key, mine, now, crossed>>
         ELSE Done(w)
      /\ UNCHANGED <<clock, events, tracker, last, times, reached, split, alerted>>

\* Mutant: there is no cooldown.
OnCooldownNever(k) == FALSE

OnCooldown(k) == last[k] # 0 /\ 1 + clock - last[k] < Cooldown

Suppress(w) ==
  /\ pc[w] = "cooldown"
  /\ OnCooldown(key[w])
  /\ Done(w)
  /\ UNCHANGED <<clock, events, tracker, window, last, times, reached, split, alerted>>

Pass(w) ==
  /\ pc[w] = "cooldown"
  /\ ~OnCooldown(key[w])
  /\ pc' = [pc EXCEPT ![w] = "report"]
  /\ UNCHANGED <<clock, events, tracker, window, last, key, mine, now, crossed, times, reached,
                 split, alerted>>

\* _set_cooldown(), and the match; all patterns but one read samples for it from
\* the window, which prunes it.
Report(w) ==
  /\ pc[w] = "report"
  /\ last' = [last EXCEPT ![key[w]] = 1 + clock]
  /\ window' \in {window, [window EXCEPT ![mine[w]] = Prune(@, clock)]}
  /\ alerted' = [alerted EXCEPT ![w][key[w]] = 1 + clock]
  /\ Done(w)
  /\ UNCHANGED <<clock, events, tracker, times, reached, split>>

-----------------------------------------------------------------------------
Next ==
  \/ Tick
  \/ \E w \in Workers : \/ \E k \in Keys : LookUp(w, k)
                        \/ \E o \in Trackers : Create(w, o)
                        \/ Stamp(w) \/ Add(w) \/ Count(w)
                        \/ Suppress(w) \/ Pass(w) \/ Report(w)

Spec == Init /\ [][Next]_vars

-----------------------------------------------------------------------------
(* Properties *)

\* Every variable keeps its type; a worker has a key while it handles an event
\* and a tracker from the look-up on.
TypeOK ==
  /\ clock \in 0..MaxTime /\ events \in 0..MaxEvents
  /\ tracker \in [Keys -> Trackers \cup {None}]
  /\ window \in [Trackers -> Seq(Nat)] /\ \A o \in Trackers : Len(window[o]) <= MaxHistory
  /\ last \in [Keys -> Nat]
  /\ pc \in [Workers -> {"idle", "create", "stamp", "add", "count", "cooldown", "report"}]
  /\ key \in [Workers -> Keys \cup {None}] /\ mine \in [Workers -> Trackers \cup {None}]
  /\ \A w \in Workers : /\ pc[w] = "idle" <=> key[w] = None
                        /\ pc[w] \notin {"idle", "create"} => mine[w] # None
  /\ now \in [Workers -> Nat] /\ crossed \in [Workers -> BOOLEAN]
  /\ times \in [Keys -> Seq(Nat)] /\ reached \in [Keys -> Nat] /\ split \subseteq Keys
  /\ alerted \in [Workers -> [Keys -> Nat]]

\* No worker is at an event of k.
Quiet(k) == \A w \in Workers : key[w] # k

\* How many events of k there were in the last Window.
Recent(k) == Cardinality({i \in 1..Len(times[k]) : times[k][i] + Window >= clock})

\* "Fires when BRUTE_FORCE_FAILURE_THRESHOLD failures occur ... within ...": when
\* enough events lie in the window and are handled, there has been an alert, and
\* the one in force when the threshold was last reached was not older than the
\* cooldown.  Two workers that create a tracker for one key split its count.
BurstReported ==
  \A k \in Keys \ split :
    Quiet(k) /\ Recent(k) >= Threshold => last[k] # 0 /\ reached[k] < last[k] + Cooldown

\* Times are read before the lock is taken, so that an older one may stand
\* behind a newer one and outlive its window there.  There is no more than one
\* such event for every other worker: by so much a count may be too high.
CountHonest ==
  \A o \in Trackers :
    LET s == window[o]
    IN  Cardinality({i \in 1..Len(s) : s[i] < s[1]}) < Cardinality(Workers)

\* "Cooldown suppresses repeated alerts for the same pattern", as far as it holds
\* with several workers: none reports a key twice within the cooldown.
AlertsSpaced ==
  [][\A w \in Workers, k \in Keys :
       alerted'[w][k] # alerted[w][k] /\ alerted[w][k] # 0
         => alerted'[w][k] - alerted[w][k] >= Cooldown]_vars

-----------------------------------------------------------------------------
(* What makes AlertsSpaced inductive. *)

\* A worker's own reports are among those the cooldown is kept by, which may have
\* been renewed by others since; nothing lies in the future.
OwnAlertsKept ==
  \A k \in Keys : /\ last[k] <= 1 + clock
                  /\ \A w \in Workers : alerted[w][k] <= last[k]

\* Who is about to report found no cooldown, so that its own last report is as old.
PassedCooldown ==
  \A w \in Workers :
    pc[w] = "report" /\ alerted[w][key[w]] # 0 => alerted[w][key[w]] + Cooldown <= 1 + clock

IInv == TypeOK /\ OwnAlertsKept /\ PassedCooldown

-----------------------------------------------------------------------------
(* What makes CountHonest inductive. *)

\* The events behind the i-th of a window that are older than it.
Behind(s, i) == {j \in i + 1 .. Len(s) : s[j] < s[i]}

\* The workers that are about to add to tracker o.
Adding(o) == {w \in Workers : pc[w] = "add" /\ mine[w] = o}

\* Those among them that hold a stamp older than x.
Late(adding, stamp, x) == {w \in adding : stamp[w] < x}

\* When an event was stamped nobody but the other workers held an older stamp:
\* each of them has been pushed behind it or is still about to be.
Honest(s, adding, stamp) ==
  \A i \in 1..Len(s) :
    Cardinality(Behind(s, i)) + Cardinality(Late(adding, stamp, s[i])) < Cardinality(Workers)

\* Nothing has been stamped with a time to come.
StampsPast ==
  /\ \A w \in Workers : now[w] <= clock
  /\ \A o \in Trackers : \A i \in 1..Len(window[o]) : window[o][i] <= clock

HonestInv == StampsPast /\ \A o \in Trackers : Honest(window[o], Adding(o), now)

-----------------------------------------------------------------------------
(* What makes BurstReported inductive. *)

\* Who saw the threshold reached is on its way to the report, or there has been
\* one that was in force then.
ReachedTold ==
  /\ \A w \in Workers : crossed[w] => pc[w] \in {"count", "cooldown", "report"}
  /\ \A k \in Keys :
       /\ reached[k] <= 1 + clock
       /\ reached[k] # 0 => \/ \E w \in Workers : key[w] = k /\ crossed[w]
                            \/ last[k] # 0 /\ reached[k] < last[k] + Cooldown

\* Trackers are not shared, and who handles an event of a key that was not split
\* uses the key's tracker.
TrackersOwned ==
  /\ \A j, k \in Keys : tracker[j] = tracker[k] /\ tracker[k] # None => j = k
  /\ \A w \in Workers :
       /\ pc[w] \in {"idle", "create"} => mine[w] = None
       /\ mine[w] # None =>
            /\ key[w] \notin split => mine[w] = tracker[key[w]]
            /\ \A k \in Keys : mine[w] = tracker[k] => key[w] = k

\* A window s is what is left of the times ts when the first d are dropped.
LeftOf(s, ts, d) ==
  /\ Len(ts) = d + Len(s)
  /\ \A i \in 1..Len(s) : s[i] = ts[d + i]

\* Until a count reaches the threshold, a window holds every event of its key
\* that is not too old.
NothingForgotten ==
  \A k \in Keys \ split : reached[k] = 0 =>
    IF tracker[k] = None
    THEN times[k] = <<>>
    ELSE /\ Len(window[tracker[k]]) < Threshold
         /\ \E d \in 0..Len(times[k]) :
              /\ LeftOf(window[tracker[k]], times[k], d)
              /\ \A i \in 1..d : times[k][i] + Window < clock

BurstInv == ReachedTold /\ TrackersOwned /\ NothingForgotten
=============================================================================
