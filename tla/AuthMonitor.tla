---------------------------- MODULE AuthMonitor ----------------------------
(***************************************************************************)
(* AuthMonitor (monitors/auth_monitor.py).  It keeps no position in the     *)
(* log: on Linux every poll reads the last lines of the file, on Windows    *)
(* the entries of the last two poll intervals.                             *)
(*                                                                         *)
(* The log is a sequence of entries in the order they were written; on      *)
(* Windows the kinds of entry are the four event ids that are asked for.    *)
(***************************************************************************)
EXTENDS Naturals, Sequences, FiniteSets

CONSTANTS
  Platforms,   \* a subset of {"linux", "windows"}
  TailLines,   \* how many lines are read on Linux (50)
  Back,        \* how far back is read on Windows: two intervals, ten seconds at least
  MaxClock,    \* bound of the clock
  MaxEntries   \* bound: the length of the log

VARIABLES
  platform,
  now,
  log,      \* the entries: their kind and time
  poller,   \* where the monitor's thread is
  position, \* the length of the log at the last poll that read it
  polledAt, \* the time of that poll
  read,     \* the entries the running poll read
  told,     \* entries of which an event was published
  dropped   \* entries of which the bus took no event

vars == <<platform, now, log, poller, position, polledAt, read, told, dropped>>

\* 4634 is a logoff, 4648 a logon with explicit credentials; the patterns for
\* Linux know failures and successes, all other lines are passed over.
EntryKinds == IF platform = "windows" THEN {"4624", "4625", "4648", "4634"}
              ELSE {"failure", "success", "other"}

Init ==
  /\ platform \in Platforms
  /\ now = 0 /\ log = <<>> /\ poller = "poll" /\ position = 0 /\ polledAt = 0
  /\ read = {} /\ told = {} /\ dropped = {}

Pass ==
  /\ now < MaxClock
  /\ now' = now + 1
  /\ UNCHANGED <<platform, log, poller, position, polledAt, read, told, dropped>>

Write ==
  /\ Len(log) < MaxEntries
  /\ \E k \in EntryKinds : log' = Append(log, [kind |-> k, at |-> now])
  /\ UNCHANGED <<platform, now, poller, position, polledAt, read, told, dropped>>

\* Mutant: on Windows a single interval is read.
RecentShort(n) == IF platform = "linux" THEN n + TailLines > Len(log)
                  ELSE 2 * (now - log[n].at) <= Back

\* What a poll reads.
Recent(n) == IF platform = "linux" THEN n + TailLines > Len(log) ELSE now - log[n].at <= Back

\* Of other lines no event is made.
Eventful(n) == log[n].kind # "other"

\* _poll_windows_events() and _poll_linux_events()
Poll ==
  /\ poller = "poll"
  /\ read' = {n \in DOMAIN log : Recent(n) /\ Eventful(n)}
  /\ position' = Len(log)
  /\ polledAt' = now
  /\ poller' = IF read' = {} THEN "asleep" ELSE "publish"
  /\ UNCHANGED <<platform, now, log, told, dropped>>

\* The command fails, or takes too long: no events.
PollFails ==
  /\ poller = "poll"
  /\ poller' = "asleep"
  /\ UNCHANGED <<platform, now, log, position, polledAt, read, told, dropped>>

\* _publish_many(): the bus takes what it has room for.
Publish ==
  /\ poller = "publish"
  /\ \E sent \in SUBSET read :
       told' = told \cup sent /\ dropped' = dropped \cup (read \ sent)
  /\ poller' = "asleep"
  /\ UNCHANGED <<platform, now, log, position, polledAt, read>>

Wake ==
  /\ poller = "asleep"
  /\ poller' = "poll"
  /\ UNCHANGED <<platform, now, log, position, polledAt, read, told, dropped>>

Next == Pass \/ Write \/ Poll \/ PollFails \/ Publish \/ Wake

Spec == Init /\ [][Next]_vars

-----------------------------------------------------------------------------
(* Properties *)

\* Nothing that is written between two polls escapes, however many polls fail in
\* between, unless more lines came than are read, or the polls lay further apart
\* than is looked back.
NoEntryEscapes ==
  [][poller = "poll" /\ position' = Len(log) /\ polledAt' = now =>
       LET fresh == {n \in DOMAIN log : n > position /\ Eventful(n)}
       IN  IF platform = "linux"
           THEN Len(log) - position <= TailLines => fresh \subseteq read'
           ELSE now - polledAt <= Back => fresh \subseteq read']_vars

\* "Returns authentication events since last poll."
OnlyNewEntries ==
  [][poller = "publish" => read \cap told = {}]_vars
-----------------------------------------------------------------------------
(* What makes NoEntryEscapes inductive. *)

\* Every variable keeps its type.
TypeOK ==
  /\ now \in Nat /\ polledAt \in Nat /\ position \in Nat
  /\ log \in Seq([kind : EntryKinds, at : Nat])
  /\ position <= Len(log)

\* No entry is of a time to come, and what no poll has read is no older than the
\* last poll that read anything.
UnreadIsRecent ==
  /\ polledAt <= now
  /\ \A n \in 1..Len(log) :
       log[n].at <= now /\ (n > position => log[n].at >= polledAt)

IInv == TypeOK /\ UnreadIsRecent
=============================================================================
