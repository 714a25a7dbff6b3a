---------------------------- MODULE FileMonitor ----------------------------
(***************************************************************************)
(* FileMonitor (monitors/file_monitor.py): the watchdog's thread records    *)
(* the renames to an extension ransomware uses, the monitor's own thread    *)
(* looks every second whether there were too many of them, with no lock     *)
(* between the two.                                                        *)
(*                                                                         *)
(* Renames are numbered in the order of their callbacks.  Other changes of  *)
(* files are published and leave nothing behind; they are left out.         *)
(***************************************************************************)
EXTENDS Naturals, Sequences, FiniteSets, SequencesExt

CONSTANTS
  Threshold,  \* RANSOMWARE_FILE_RENAME_THRESHOLD
  Window,     \* RANSOMWARE_TIME_WINDOW_SECONDS
  Capacity,   \* maxlen of _crypto_rename_times
  MaxTime,    \* bound of the clock
  MaxRenames  \* bound: how many renames there are

VARIABLES
  clock,
  observer,   \* the watchdog: "none", "scheduled", "alive"
  stopping,   \* _stop_event
  check,      \* where the monitor's thread is
  stamp,      \* the time a running callback took, plus one; 0: none runs
  born,       \* born[n]: the time recorded for the n-th rename
  tracker,    \* _crypto_rename_times, as the numbers of the renames
  asOf,       \* the time the running check took
  counted,    \* the renames it counted
  touched,    \* tracker changed since it began
  summarised, \* renames counted by a summary that was published
  unheard,    \* renames counted by a summary the bus did not take
  raced,      \* renames recorded between the count and the clearing
  overrun     \* renames pushed out of a full tracker

vars == <<clock, observer, stopping, check, stamp, born, tracker, asOf, counted, touched,
          summarised, unheard, raced, overrun>>

Init ==
  /\ clock = 0 /\ observer = "none" /\ stopping = FALSE /\ check = "gone"
  /\ stamp = 0 /\ born = <<>> /\ tracker = <<>> /\ asOf = 0 /\ counted = {} /\ touched = FALSE
  /\ summarised = {} /\ unheard = {} /\ raced = {} /\ overrun = {}

Tick ==
  /\ clock < MaxTime
  /\ clock' = clock + 1
  /\ UNCHANGED <<observer, stopping, check, stamp, born, tracker, asOf, counted, touched,
                 summarised, unheard, raced, overrun>>

\* initialize(): a new observer for the paths that are there; it raises if none
\* could be scheduled, and the monitor is given up.
Initialize ==
  /\ observer = "none" /\ check = "gone"
  /\ observer' = "scheduled"
  /\ UNCHANGED <<clock, stopping, check, stamp, born, tracker, asOf, counted, touched, summarised,
                 unheard, raced, overrun>>

\* start(): the observer runs before the monitor's thread does.
StartObserver ==
  /\ observer = "scheduled"
  /\ observer' = "alive"
  /\ UNCHANGED <<clock, stopping, check, stamp, born, tracker, asOf, counted, touched, summarised,
                 unheard, raced, overrun>>

StartLoop ==
  /\ observer = "alive" /\ check = "gone" /\ ~stopping
  /\ check' = "begin"
  /\ UNCHANGED <<clock, observer, stopping, stamp, born, tracker, asOf, counted, touched, summarised,
                 unheard, raced, overrun>>

\* stop(): the observer is joined, then the thread.  The tracker stays as it is
\* for the next start.
Stop ==
  /\ observer = "alive" /\ check # "gone" /\ ~stopping
  /\ observer' = "none"
  /\ stopping' = TRUE
  /\ UNCHANGED <<clock, check, stamp, born, tracker, asOf, counted, touched, summarised, unheard,
                 raced, overrun>>

-----------------------------------------------------------------------------
\* _on_file_event() of a rename to such an extension reads the clock ...
Stamp ==
  /\ observer = "alive" /\ stamp = 0
  /\ Len(born) < MaxRenames
  /\ stamp' = clock + 1
  /\ UNCHANGED <<clock, observer, stopping, check, born, tracker, asOf, counted, touched,
                 summarised, unheard, raced, overrun>>

\* ... and appends the time; the tracker keeps the last Capacity of them.  stop()
\* waits five seconds for the callback, which may be on its way still.
Renamed ==
  /\ stamp > 0
  /\ stamp' = 0
  /\ born' = Append(born, stamp - 1)
  /\ LET all == Append(tracker, Len(born'))
     IN  IF Len(all) > Capacity
         THEN tracker' = Tail(all) /\ overrun' = overrun \cup {Head(all)}
         ELSE tracker' = all /\ overrun' = overrun
  /\ touched' = TRUE
  /\ UNCHANGED <<clock, observer, stopping, check, asOf, counted, summarised, unheard, raced>>

-----------------------------------------------------------------------------
(* _run_monitor_loop() and _check_ransomware_pattern(). *)

Begin ==
  /\ check = "begin"
  /\ IF stopping
     THEN check' = "gone" /\ stopping' = FALSE /\ UNCHANGED <<asOf, touched>>
     ELSE check' = "count" /\ asOf' = clock /\ touched' = FALSE /\ UNCHANGED stopping
  /\ counted' = {}
  /\ UNCHANGED <<clock, observer, stamp, born, tracker, summarised, unheard, raced, overrun>>

\* Mutant: a rename exactly as old as the window does not count.
InWindowOpen(n) == born[n] + Window > asOf

\* The renames of the window.
InWindow(n) == born[n] + Window >= asOf

Count ==
  /\ check = "count"
  /\ counted' = {n \in ToSet(tracker) : InWindow(n)}
  /\ check' = IF Cardinality(counted') >= Threshold THEN "report" ELSE "sleep"
  /\ UNCHANGED <<clock, observer, stopping, stamp, born, tracker, asOf, touched, summarised, unheard,
                 raced, overrun>>

\* Iterating over a deque the other thread appends to raises RuntimeError: this
\* check counts nothing.
CountFails ==
  /\ check = "count" /\ touched
  /\ check' = "sleep"
  /\ UNCHANGED <<clock, observer, stopping, stamp, born, tracker, asOf, counted, touched, summarised,
                 unheard, raced, overrun>>

\* The summary goes to the bus, which may be full ...
Report ==
  /\ check = "report"
  /\ \/ summarised' = summarised \cup counted /\ UNCHANGED unheard
     \/ unheard' = unheard \cup counted /\ UNCHANGED summarised
  /\ check' = "clear"
  /\ UNCHANGED <<clock, observer, stopping, stamp, born, tracker, asOf, counted, touched, raced,
                 overrun>>

\* ... and the tracker is cleared in any case.
Clear ==
  /\ check = "clear"
  /\ tracker' = <<>>
  /\ raced' = raced \cup {n \in ToSet(tracker) \ counted : InWindow(n)}
  /\ check' = "sleep"
  /\ UNCHANGED <<clock, observer, stopping, stamp, born, asOf, counted, touched, summarised, unheard,
                 overrun>>

Wake ==
  /\ check = "sleep"
  /\ check' = "begin"
  /\ UNCHANGED <<clock, observer, stopping, stamp, born, tracker, asOf, counted, touched, summarised,
                 unheard, raced, overrun>>

Next ==
  \/ Tick \/ Initialize \/ StartObserver \/ StartLoop \/ Stop \/ Stamp \/ Renamed
  \/ Begin \/ Count \/ CountFails \/ Report \/ Clear \/ Wake

Spec == Init /\ [][Next]_vars

-----------------------------------------------------------------------------
(* Properties *)

\* "Ransomware bulk-rename pattern": a check that counts finds every rename of
\* its window that was recorded and not summarised before, over restarts of the
\* monitor too - so that fewer than the threshold are left when it reports
\* nothing - but for those a full bus, a full tracker or the clearing behind a
\* count swallowed.
BurstNotOverlooked ==
  [][check = "count" /\ check' = "sleep" /\ (~touched \/ counted' # {}) =>
       Cardinality({n \in DOMAIN born : born[n] + Window >= asOf}
                   \ (summarised \cup unheard \cup raced \cup overrun)) < Threshold]_vars
-----------------------------------------------------------------------------
(* What makes BurstNotOverlooked inductive. *)

\* Every variable keeps its type.
TypeOK ==
  /\ clock \in Nat /\ asOf \in Nat /\ asOf <= clock
  /\ stamp \in Nat /\ born \in Seq(Nat)
  /\ tracker \in Seq(1..Len(born))
  /\ check \in {"gone", "begin", "count", "report", "clear", "sleep"}

\* A check has counted nothing before it counts, and what it has counted when it
\* clears the tracker went into a summary.
CountedIsSummarised ==
  /\ check = "count" => counted = {}
  /\ check = "clear" => counted \subseteq summarised \cup unheard

\* Every rename is in the tracker, or in a summary, or known to be lost, or too old
\* for the running check and all that follow.
EachAccountedFor ==
  \A n \in 1..Len(born) :
    n \in ToSet(tracker) \cup summarised \cup unheard \cup raced \cup overrun \/ ~InWindow(n)

IInv == TypeOK /\ CountedIsSummarised /\ EachAccountedFor
=============================================================================
