----------------------------- MODULE Scheduler -----------------------------
(***************************************************************************)
(* TaskScheduler of core/scheduler.py.  Every job is kept going by a chain: *)
(* a timer fires, its thread runs the job and arms the next timer.  The     *)
(* public methods hold _jobs_lock; a job's own thread does not, neither when *)
(* it decides to go on nor when it replaces the timer.                      *)
(*                                                                         *)
(* A threading.Timer is a thread, so one set of threads stands for timers   *)
(* and runs.  The thread that arms a timer ends at once: it is modelled as  *)
(* becoming that timer.  Each registration of a job is a value of Jobs with *)
(* an id of its own; what the job's function does is left out but for its   *)
(* end, and an exception in it is caught and changes only counters.         *)
(***************************************************************************)
EXTENDS Naturals, FiniteSets

CONSTANTS
  Jobs,       \* ScheduledJob objects
  Threads,    \* bound: the threads there are
  None,       \* no job, no timer
  Spent,      \* a timer that has ended, in _timers still
  MaxCalls    \* bound: how many public methods are called

ASSUME SchedulerAssumption ==
  /\ IsFiniteSet(Jobs) /\ IsFiniteSet(Threads)
  /\ None \notin Jobs \cup Threads /\ Spent \notin Threads \cup {None}
  /\ MaxCalls \in Nat

VARIABLES
  running,     \* _running
  registered,  \* the jobs of _jobs
  created,     \* the jobs add_job() has been called for
  enabled,     \* the jobs whose enabled is True
  eager,       \* the jobs whose run_immediately is True
  timer,       \* timer[j]: _timers[job_id], Spent when it has ended, or None
  at,          \* at[t]: what thread t does
  job,         \* job[t]: the job it does it for
  (* the thread that calls the public methods *)
  ctl,         \* where it is
  work,        \* the jobs it has still to schedule
  soon,        \* those of them that are to run without waiting
  arming,      \* the job whose timer it is about to start
  left,        \* the timers stop() has still to cancel
  entries,     \* how many timers there were when stop() began
  calls,
  (* what the properties remember *)
  twins        \* the jobs scheduled while they ran, or whose chain outlived a stop()

jobVars  == <<registered, created, enabled, eager>>
runVars  == <<timer, at, job>>
ctlVars  == <<ctl, work, soon, arming, entries>>
vars == <<running, jobVars, runVars, ctlVars, left, calls, twins>>

Init ==
  /\ running = FALSE
  /\ registered = {} /\ created = {} /\ enabled = {} /\ eager = {}
  /\ timer = [j \in Jobs |-> None]
  /\ at = [t \in Threads |-> "free"]
  /\ job = [t \in Threads |-> None]
  /\ ctl = "idle" /\ work = {} /\ soon = {} /\ arming = None /\ left = {} /\ entries = 0 /\ calls = 0
  /\ twins = {}

\* The jobs that have an entry in _timers.
Timed == {j \in Jobs : timer[j] # None}

\* The threads that keep job j going.
Chain(j) == {t \in Threads : job[t] = j /\ at[t] \in {"waiting", "running", "test", "pop", "arm"}}

Call ==
  /\ ctl = "idle"
  /\ calls < MaxCalls
  /\ calls' = calls + 1

\* Mutant: the timer that is cancelled is not the one that waits.
PopTimerUncancelled(j) ==
  /\ timer' = [timer EXCEPT ![j] = None]
  /\ UNCHANGED <<at, job>>

\* pop() the timer of j and cancel() it, which has no effect once it has fired.
PopTimer(j) ==
  LET stopped == {t \in Threads : t = timer[j] /\ at[t] = "waiting"}
  IN  /\ at' = [t \in Threads |-> IF t \in stopped THEN "free" ELSE at[t]]
      /\ job' = [t \in Threads |-> IF t \in stopped THEN None ELSE job[t]]
      /\ timer' = [timer EXCEPT ![j] = None]

-----------------------------------------------------------------------------
(* The public methods.  What they schedule is scheduled by the steps below. *)

\* add_job(): refuses a name that is registered, so j is new.
AddJob(j, on, immediately) ==
  /\ Call
  /\ j \notin created
  /\ created' = created \cup {j} /\ registered' = registered \cup {j}
  /\ enabled' = IF on THEN enabled \cup {j} ELSE enabled
  /\ eager' = IF immediately THEN eager \cup {j} ELSE eager
  /\ IF running /\ on
     THEN ctl' = "schedule" /\ work' = {j} /\ soon' = IF immediately THEN {j} ELSE {}
     ELSE UNCHANGED <<ctl, work, soon>>
  /\ UNCHANGED <<running, runVars, arming, left, entries, twins>>

RemoveJob(j) ==
  /\ Call
  /\ j \in registered
  /\ registered' = registered \ {j}
  /\ PopTimer(j)
  /\ UNCHANGED <<running, created, enabled, eager, ctlVars, left, twins>>

\* Mutant: the timer of a job that is enabled again is left to the next start().
EnableJobUnscheduled(j) ==
  /\ Call
  /\ j \in registered
  /\ enabled' = enabled \cup {j}
  /\ UNCHANGED <<running, registered, created, eager, runVars, ctlVars, left, twins>>

EnableJob(j) ==
  /\ Call
  /\ j \in registered
  /\ enabled' = enabled \cup {j}
  /\ IF running THEN ctl' = "schedule" /\ work' = {j} /\ soon' = {}
                ELSE UNCHANGED <<ctl, work, soon>>
  /\ UNCHANGED <<running, registered, created, eager, runVars, arming, left, entries, twins>>

DisableJob(j) ==
  /\ Call
  /\ j \in registered
  /\ enabled' = enabled \ {j}
  /\ PopTimer(j)
  /\ UNCHANGED <<running, registered, created, eager, ctlVars, left, twins>>

\* trigger_now(): a run outside the chain, enabled or not, running or not.
TriggerNow(j, t) ==
  /\ Call
  /\ j \in registered
  /\ at[t] = "free"
  /\ at' = [at EXCEPT ![t] = "oneshot"] /\ job' = [job EXCEPT ![t] = j]
  /\ UNCHANGED <<running, jobVars, timer, ctlVars, left, twins>>

Start ==
  /\ Call
  /\ ~running
  /\ running' = TRUE
  /\ work' = registered \cap enabled
  /\ soon' = registered \cap enabled \cap eager
  /\ ctl' = IF work' = {} THEN "idle" ELSE "schedule"
  /\ twins' = twins \cup {j \in Jobs : Chain(j) # {}}
  /\ UNCHANGED <<jobVars, runVars, arming, left, entries>>

\* stop(): the flag first, ...
StopBegin ==
  /\ Call
  /\ running
  /\ running' = FALSE
  /\ ctl' = "cancel" /\ left' = Timed /\ entries' = Cardinality(Timed)
  /\ UNCHANGED <<jobVars, runVars, work, soon, arming, twins>>

\* ... then the timers are cancelled one by one, ...
StopCancel(j) ==
  /\ ctl = "cancel"
  /\ Cardinality(Timed) = entries
  /\ j \in left
  /\ left' = left \ {j}
  /\ at' = [t \in Threads |-> IF t = timer[j] /\ at[t] = "waiting" THEN "free" ELSE at[t]]
  /\ job' = [t \in Threads |-> IF t = timer[j] /\ at[t] = "waiting" THEN None ELSE job[t]]
  /\ timer' = [timer EXCEPT ![j] = IF \E t \in Threads : t = timer[j] /\ at[t] = "waiting"
                                  THEN Spent ELSE @]
  /\ UNCHANGED <<running, jobVars, ctlVars, calls, twins>>

\* ... and forgotten.
StopCancelled ==
  /\ ctl = "cancel"
  /\ Cardinality(Timed) = entries
  /\ left = {}
  /\ ctl' = "clear" /\ entries' = 0
  /\ UNCHANGED <<running, jobVars, runVars, work, soon, arming, left, calls, twins>>

StopClear ==
  /\ ctl = "clear"
  /\ timer' = [j \in Jobs |-> None]
  /\ ctl' = "idle"
  /\ UNCHANGED <<running, jobVars, at, job, work, soon, arming, left, entries, calls, twins>>

\* A job's thread changed the size of _timers under the loop: RuntimeError.
StopRaises ==
  /\ ctl = "cancel"
  /\ Cardinality(Timed) # entries
  /\ ctl' = "idle" /\ left' = {} /\ entries' = 0
  /\ UNCHANGED <<running, jobVars, runVars, work, soon, arming, calls, twins>>

-----------------------------------------------------------------------------
(* _schedule_job() for the jobs in work, with the lock. *)

\* The old timer goes, ...
SchedulePop(j) ==
  /\ ctl = "schedule"
  /\ j \in work
  /\ PopTimer(j)
  /\ work' = work \ {j}
  /\ arming' = j
  /\ ctl' = "arm"
  /\ twins' = IF Chain(j)' = {} THEN twins ELSE twins \cup {j}
  /\ UNCHANGED <<running, jobVars, soon, left, entries, calls>>

\* ... and a thread is started that runs the job at once, or waits as its timer.
ScheduleArm(t) ==
  /\ ctl = "arm"
  /\ at[t] = "free"
  /\ at' = [at EXCEPT ![t] = IF arming \in soon THEN "running" ELSE "waiting"]
  /\ job' = [job EXCEPT ![t] = arming]
  /\ timer' = IF arming \in soon THEN timer ELSE [timer EXCEPT ![arming] = t]
  /\ soon' = soon \ {arming}
  /\ arming' = None
  /\ ctl' = IF work = {} THEN "idle" ELSE "schedule"
  /\ UNCHANGED <<running, jobVars, work, left, entries, calls, twins>>

-----------------------------------------------------------------------------
(* The threads of the jobs, without the lock. *)

\* The interval is over and the timer was not cancelled.
Fire(t) ==
  /\ at[t] = "waiting"
  /\ at' = [at EXCEPT ![t] = "running"]
  /\ UNCHANGED <<running, jobVars, timer, job, ctlVars, left, calls, twins>>

\* Mutant: an exception in the function ends the thread.
RunEndsUncaught(t) ==
  /\ at[t] = "running"
  /\ \/ at' = [at EXCEPT ![t] = "test"] /\ UNCHANGED job
     \/ at' = [at EXCEPT ![t] = "free"] /\ job' = [job EXCEPT ![t] = None]
  /\ UNCHANGED <<running, jobVars, timer, ctlVars, left, calls, twins>>

\* The function returns, or raises what _run_job() catches.
RunEnds(t) ==
  /\ at[t] = "running"
  /\ at' = [at EXCEPT ![t] = "test"]
  /\ UNCHANGED <<running, jobVars, timer, job, ctlVars, left, calls, twins>>

\* A run started by trigger_now() ends, and is not followed by another.
OneShotEnds(t) ==
  /\ at[t] = "oneshot"
  /\ at' = [at EXCEPT ![t] = "free"] /\ job' = [job EXCEPT ![t] = None]
  /\ UNCHANGED <<running, jobVars, timer, ctlVars, left, calls, twins>>

\* Mutant: whether the job is enabled is not looked at.
GoesOnDisabled(t) == running

\* What _run_and_reschedule() and then _schedule_job() look at before going on:
\* not whether the job is still registered.
GoesOn(t) == running /\ job[t] \in enabled

RescheduleTest(t) ==
  /\ at[t] = "test"
  /\ at' = [at EXCEPT ![t] = IF GoesOn(t) THEN "pop" ELSE "free"]
  /\ job' = [job EXCEPT ![t] = IF GoesOn(t) THEN @ ELSE None]
  /\ timer' = [timer EXCEPT ![job[t]] = IF @ = t /\ ~GoesOn(t) THEN Spent ELSE @]
  /\ UNCHANGED <<running, jobVars, ctlVars, left, calls, twins>>

\* The job's timer goes: this thread's own, or another that waits.
ReschedulePop(t) ==
  /\ at[t] = "pop"
  /\ LET stopped == {u \in Threads : u = timer[job[t]] /\ at[u] = "waiting"}
     IN  /\ at' = [u \in Threads |-> CASE u = t -> "arm"
                                       [] u \in stopped -> "free"
                                       [] OTHER -> at[u]]
         /\ job' = [u \in Threads |-> IF u \in stopped THEN None ELSE job[u]]
  /\ timer' = [timer EXCEPT ![job[t]] = None]
  /\ left' = left \ {job[t]}
  /\ UNCHANGED <<running, jobVars, ctlVars, calls, twins>>

\* The next timer: stop() comes to it if it is still at its loop.
RescheduleArm(t) ==
  /\ at[t] = "arm"
  /\ at' = [at EXCEPT ![t] = "waiting"]
  /\ timer' = [timer EXCEPT ![job[t]] = t]
  /\ left' = IF ctl = "cancel" THEN left \cup {job[t]} ELSE left
  /\ UNCHANGED <<running, jobVars, job, ctlVars, calls, twins>>

-----------------------------------------------------------------------------
PublicMethod ==
  \/ \E j \in Jobs, on, immediately \in BOOLEAN : AddJob(j, on, immediately)
  \/ \E j \in Jobs : RemoveJob(j) \/ EnableJob(j) \/ DisableJob(j)
  \/ \E j \in Jobs, t \in Threads : TriggerNow(j, t)
  \/ Start \/ StopBegin

Control ==
  \/ \E j \in Jobs : SchedulePop(j) \/ StopCancel(j)
  \/ \E t \in Threads : ScheduleArm(t)
  \/ StopCancelled \/ StopClear \/ StopRaises

JobThread(t) ==
  \/ Fire(t) \/ RunEnds(t) \/ OneShotEnds(t)
  \/ RescheduleTest(t) \/ ReschedulePop(t) \/ RescheduleArm(t)

Next == PublicMethod \/ Control \/ \E t \in Threads : JobThread(t)

Spec == Init /\ [][Next]_vars

\* A method that was called returns, timers fire, jobs end: every thread is
\* scheduled.  Nobody has to call a method.
FairSpec == Spec /\ WF_vars(Control) /\ \A t \in Threads : WF_vars(JobThread(t))

-----------------------------------------------------------------------------
(* Properties *)

\* Every variable keeps its type, and the control thread and the threads hold a
\* job exactly while they need one.
TypeOK ==
  /\ running \in BOOLEAN
  /\ registered \subseteq created /\ created \subseteq Jobs
  /\ enabled \subseteq created /\ eager \subseteq created
  /\ timer \in [Jobs -> Threads \cup {None, Spent}]
  /\ at \in [Threads -> {"free", "waiting", "running", "oneshot", "test", "pop", "arm"}]
  /\ job \in [Threads -> Jobs \cup {None}]
  /\ \A t \in Threads : at[t] = "free" <=> job[t] = None
  /\ ctl \in {"idle", "schedule", "arm", "cancel", "clear"}
  /\ work \subseteq registered /\ soon \subseteq registered /\ left \subseteq Jobs
  /\ (ctl = "schedule" => work # {}) /\ (ctl = "arm" <=> arming \in Jobs)
  /\ arming \in Jobs \cup {None}
  /\ entries \in Nat /\ calls \in 0..MaxCalls /\ twins \subseteq Jobs

\* A job that should go on does: while the scheduler runs, an enabled job has a
\* timer that waits, or a run that will arm one, whatever was called before.
ChainAlive ==
  running => \A j \in (registered \cap enabled) \ (work \cup {arming}) : Chain(j) # {}

\* disable_job(), remove_job() and stop() cancel the timer in _timers.  It is the
\* only one there is, and the chain the only chain, unless the job was enabled
\* while it ran, or its chain outlived a stop() (twins).
CancelReaches ==
  running => \A j \in Jobs \ (twins \cup work) :
               /\ \A t, u \in Chain(j) : t = u
               /\ \A t \in Chain(j) : at[t] = "waiting" => timer[j] = t

\* A registered job that stays enabled while the scheduler runs is run again and
\* again, although chains race and cancel each other's timers.
EnabledJobsRun ==
  \A j \in Jobs :
    <>[](running /\ j \in registered \cap enabled)
      => []<>(\E t \in Threads : job[t] = j /\ at[t] = "running")

\* stop() and disable_job() do not cancel a timer that is armed by a run that was
\* past its test, but such a run is the last: what is off comes to rest.
OffSettles ==
  \A j \in Jobs : <>[](~running \/ j \notin enabled) => <>[](Chain(j) = {})

-----------------------------------------------------------------------------
(* What makes ChainAlive and CancelReaches inductive. *)

\* A timer in _timers is of its job's own chain.
TimerSound ==
  \A j \in Jobs : timer[j] \in Threads => timer[j] \in Chain(j)

\* Whoever schedules finds the scheduler running, and stop() has said it does not.
ControlSound ==
  /\ ctl \in {"schedule", "arm"} => running
  /\ ctl \in {"cancel", "clear"} => ~running
  /\ ctl \notin {"schedule", "arm"} => work = {}
  /\ soon \subseteq work \cup {arming}

\* Between the old timer and the new one, a job has no chain, or gets a second.
ArmingAlone == arming \in Jobs => Chain(arming) = {} \/ arming \in twins

IInv ==
  /\ TypeOK /\ TimerSound /\ ControlSound /\ ArmingAlone
  /\ ChainAlive /\ CancelReaches

-----------------------------------------------------------------------------
(* What the sources promise and the code does not keep: see README.md. *)

\* "Remove a job and cancel its timer": a removed job is not run for ever.
RemovedSettles ==
  \A j \in Jobs : <>[](j \in created \ registered) => <>[](Chain(j) = {})
=============================================================================
