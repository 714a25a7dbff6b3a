------------------------------ MODULE Notifier ------------------------------
(***************************************************************************)
(* The notifier (alerting/notifier.py): handle_event() runs on the bus'     *)
(* workers, several at once, and takes no lock.                            *)
(*                                                                         *)
(* An alert is told apart by its class, the severity and attack category    *)
(* that make its cooldown key.  What the channels print is left out, and so *)
(* is which of them are switched on: a channel that fails, or that the      *)
(* severity does not reach, changes nothing here.                          *)
(***************************************************************************)
EXTENDS Naturals, Sequences, FiniteSets

CONSTANTS
  Workers,       \* the workers the bus runs the subscriber on
  Classes,       \* cooldown keys
  MaxPerMinute,  \* _max_per_minute
  Cooldown,      \* _cooldown_seconds
  Minute,        \* the 60 seconds of _passes_rate_limit()
  MaxTime,       \* bound of the clock
  MaxThreats     \* bound: how many threats are handed over

VARIABLES
  tick,        \* the clock
  alertTimes,  \* _alert_times
  lastAlert,   \* _alert_cooldown: times plus one, 0 for no alert yet
  handler,     \* handler[w]: where w is, the class of its threat, when it began
  threats,     \* how many threats there were
  (* what the properties remember *)
  history,     \* the alerts recorded: their class and time
  beganAt,     \* beganAt[w]: how many of them there were when w began
  overpopped   \* a worker removed a time another had looked at

vars == <<tick, alertTimes, lastAlert, handler, threats, history, beganAt, overpopped>>

Free == [at |-> "free", class |-> "none", now |-> 0]

Init ==
  /\ tick = 0 /\ alertTimes = <<>> /\ lastAlert = [c \in Classes |-> 0]
  /\ handler = [w \in Workers |-> Free] /\ threats = 0
  /\ history = <<>> /\ beganAt = [w \in Workers |-> 0] /\ overpopped = FALSE

Goto(w, at) == handler' = [handler EXCEPT ![w].at = at]

Tick ==
  /\ tick < MaxTime
  /\ tick' = tick + 1
  /\ UNCHANGED <<alertTimes, lastAlert, handler, threats, history, beganAt, overpopped>>

\* A payload that is no threat returns at once; of a threat, _passes_rate_limit()
\* reads the clock once.
Receive(w, c) ==
  /\ handler[w] = Free /\ threats < MaxThreats
  /\ handler' = [handler EXCEPT ![w] = [at |-> "rate", class |-> c, now |-> tick]]
  /\ threats' = threats + 1
  /\ beganAt' = [beganAt EXCEPT ![w] = Len(history)]
  /\ UNCHANGED <<tick, alertTimes, lastAlert, history, overpopped>>

\* Mutant: one alert more is let through.
FullOneMore == Len(alertTimes) > MaxPerMinute

\* The minute has all the alerts it may have.
Full == Len(alertTimes) >= MaxPerMinute

\* _passes_rate_limit(): the loop's test, whether there is a time at all ...
Rate(w) ==
  /\ handler[w].at = "rate"
  /\ Goto(w, IF alertTimes = <<>> THEN "count" ELSE "head")
  /\ UNCHANGED <<tick, alertTimes, lastAlert, threats, history, beganAt, overpopped>>

\* ... and whether the first is old.  If another worker has popped the last one
\* meanwhile it raises, and the bus drops the alert.
Look(w) ==
  /\ handler[w].at = "head"
  /\ IF alertTimes = <<>> THEN handler' = [handler EXCEPT ![w] = Free]
     ELSE Goto(w, IF Head(alertTimes) + Minute < handler[w].now THEN "pop" ELSE "count")
  /\ UNCHANGED <<tick, alertTimes, lastAlert, threats, history, beganAt, overpopped>>

\* popleft(): another worker may have popped the time this one looked at.  On an
\* empty deque it raises too.
Pop(w) ==
  /\ handler[w].at = "pop"
  /\ IF alertTimes = <<>>
     THEN handler' = [handler EXCEPT ![w] = Free] /\ UNCHANGED <<alertTimes, overpopped>>
     ELSE /\ Goto(w, "rate")
          /\ overpopped' = (overpopped \/ Head(alertTimes) + Minute >= tick)
          /\ alertTimes' = Tail(alertTimes)
  /\ UNCHANGED <<tick, lastAlert, threats, history, beganAt>>

\* The rest is counted.
CountTimes(w) ==
  /\ handler[w].at = "count"
  /\ IF Full THEN handler' = [handler EXCEPT ![w] = Free] ELSE Goto(w, "cooldown")
  /\ UNCHANGED <<tick, alertTimes, lastAlert, threats, history, beganAt, overpopped>>

\* Mutant: the key's alert is never found.
OnCooldownNever(c) == FALSE

\* _is_on_cooldown()
OnCooldown(c) == Cooldown > 0 /\ lastAlert[c] # 0 /\ tick - (lastAlert[c] - 1) < Cooldown

Cool(w) ==
  /\ handler[w].at = "cooldown"
  /\ IF OnCooldown(handler[w].class) THEN handler' = [handler EXCEPT ![w] = Free]
     ELSE Goto(w, "record")
  /\ UNCHANGED <<tick, alertTimes, lastAlert, threats, history, beganAt, overpopped>>

\* _record_alert(); the dispatch to the channels follows.
Record(w) ==
  /\ handler[w].at = "record"
  /\ alertTimes' = Append(alertTimes, tick)
  /\ lastAlert' = [lastAlert EXCEPT ![handler[w].class] = tick + 1]
  /\ history' = Append(history, [class |-> handler[w].class, time |-> tick])
  /\ handler' = [handler EXCEPT ![w] = Free]
  /\ UNCHANGED <<tick, threats, beganAt, overpopped>>

Next ==
  \/ Tick
  \/ \E w \in Workers : \/ \E c \in Classes : Receive(w, c)
                        \/ Rate(w) \/ Look(w) \/ Pop(w) \/ CountTimes(w) \/ Cool(w) \/ Record(w)

Spec == Init /\ [][Next]_vars

-----------------------------------------------------------------------------
(* Properties *)

\* "Rate limit for alerts (prevents alert fatigue)": no minute has more alerts
\* than the limit, plus one for every further worker that passed the test at the
\* same time - as long as no worker removed a time another had looked at.
MinuteBounded ==
  ~overpopped =>
    Cardinality({i \in DOMAIN history : history[i].time + Minute >= tick})
      <= MaxPerMinute + Cardinality(Workers) - 1

\* "Suppress duplicate alerts for this many seconds": two alerts of a class come
\* within the cooldown only if the second was being handled when the first was
\* recorded.
RepeatsOverlap ==
  [][\A w \in Workers : history' # history /\ handler[w].at = "record" /\ handler'[w] = Free =>
       \A i \in 1..beganAt[w] :
         history[i].class = handler[w].class => tick - history[i].time >= Cooldown]_vars
-----------------------------------------------------------------------------
(* What makes MinuteBounded and RepeatsOverlap inductive. *)

\* Every variable keeps its type, and no alert is of the future.
TypeOK ==
  /\ tick \in Nat /\ alertTimes \in Seq(Nat)
  /\ lastAlert \in [Classes -> Nat]
  /\ \A w \in Workers :
       \/ handler[w] = Free
       \/ handler[w] \in [at : {"rate", "head", "pop", "count", "cooldown", "record"},
                          class : Classes, now : Nat]
  /\ DOMAIN handler = Workers
  /\ history \in Seq([class : Classes, time : Nat])
  /\ beganAt \in [Workers -> Nat] /\ overpopped \in BOOLEAN
  /\ \A i \in 1..Len(history) : history[i].time <= tick
  /\ \A w \in Workers : beganAt[w] <= Len(history)

\* _alert_times is the end of the history, and before it there are only old alerts.
OldDropped ==
  ~overpopped =>
    /\ Len(alertTimes) <= Len(history)
    /\ \A i \in 1..Len(alertTimes) :
         history[Len(history) - Len(alertTimes) + i].time = alertTimes[i]
    /\ \A i \in 1..(Len(history) - Len(alertTimes)) : history[i].time + Minute < tick

\* The workers that passed the test and have not recorded their alert yet.
Passed == {w \in Workers : handler[w].at \in {"cooldown", "record"}}

\* Each of them may add one.
SlotsBounded == Len(alertTimes) + Cardinality(Passed) <= MaxPerMinute + Cardinality(Workers) - 1

\* _alert_cooldown has the last alert of a class.
LastIsLast ==
  \A i \in 1..Len(history) : history[i].time < lastAlert[history[i].class]

\* A worker about to record is rid of the alerts there were when it began.
Cooled ==
  \A w \in Workers : handler[w].at = "record" =>
    \A i \in 1..beganAt[w] :
      history[i].class = handler[w].class => tick - history[i].time >= Cooldown

IInv == TypeOK /\ OldDropped /\ SlotsBounded /\ LastIsLast /\ Cooled
=============================================================================
