----------------------------- MODULE MCSystem ------------------------------
(***************************************************************************)
(* The application and the monitors it drives, on small instances: either   *)
(* one of the four polling monitors in full, with a watched item and an     *)
(* ignored one, or the application as a whole.  The two share no variable,  *)
(* so that a behaviour is one of them at work while the other rests.        *)
(***************************************************************************)
EXTENDS Monitor, Sequences, TLC

CONSTANTS
  watched, trusted,
  Monitors, Capacity, MaxItems    \* of the application

\* MaxItems is a number.
ASSUME SystemAssumption == MaxItems \in Nat

VARIABLES
  which,
  phase, parts, up, subscribers, monitoring, requested, accepting, queue, handling, items,
  offered, threats, closedOn, refused

App == INSTANCE Application WITH todo <- parts

monitorVars == <<kind, world, control, running, initialized, stopEvent, loop, seen, baseline, cache,
                 todo, changes, misreads, crashes, told, absent, excused, doubted, early>>
applicationVars == <<phase, parts, up, subscribers, monitoring, requested, accepting, queue, handling,
                     items, offered, threats, closedOn, refused>>
systemVars == <<which, monitorVars, applicationVars>>

\* While one of them is looked at, the other has only one initial state.
SystemInit ==
  /\ which \in {"monitor", "application"}
  /\ Init /\ App!Init
  /\ which = "application" => kind = "process" /\ world = Nothing

OfMonitor(step) == which = "monitor" /\ step /\ UNCHANGED <<which, applicationVars>>
OfApplication(step) == which = "application" /\ step /\ UNCHANGED <<which, monitorVars>>

SystemNext == OfMonitor(Next) \/ OfApplication(App!Next)

\* The fairness of both; see Monitor and Application.
SystemSpec ==
  /\ SystemInit /\ [][SystemNext]_systemVars
  /\ WF_systemVars(OfMonitor(Poll)) /\ SF_systemVars(OfMonitor(Look))
  /\ WF_systemVars(OfMonitor(StartThread \/ SetRunning \/ HealthCheck))
  /\ WF_systemVars(OfMonitor(Initialize \/ InitializeFails)) /\ SF_systemVars(OfMonitor(Initialize))
  /\ WF_systemVars(OfApplication(App!Main))
  /\ WF_systemVars(OfApplication(App!Dispatch)) /\ WF_systemVars(OfApplication(App!Callbacks))

-----------------------------------------------------------------------------
\* Every part that is to hear of threats hears of each (app.py); see Application.
ThreatsReachAll == App!ThreatsReachAll

\* Nothing is written to a closed store (app.py); see Application.
StoreOutlivesEvents == App!StoreOutlivesEvents

\* A requested shutdown comes to its end (app.py); see Application.
ShutdownCompletes == App!ShutdownCompletes

\* Threats found while the bus drains are heard (app.py); see Application.
DrainedThreatsHeard == App!DrainedThreatsHeard
=============================================================================
