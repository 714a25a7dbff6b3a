--------------------------- MODULE SchedulerProofs ---------------------------
(***************************************************************************)
(* Proofs about Scheduler, for any number of jobs, threads and calls: chains *)
(* do not break, and what cancels a timer reaches it.  IInv is inductive.   *)
(***************************************************************************)
EXTENDS Scheduler, FiniteSetTheorems, TLAPS

Places == {"free", "waiting", "running", "oneshot", "test", "pop", "arm"}
InChain == {"waiting", "running", "test", "pop", "arm"}

\* What the rest of the invariant says, apart from the types.
Rest == TimerSound /\ ControlSound /\ ArmingAlone /\ ChainAlive /\ CancelReaches

LEMMA Distinct == None \notin Threads /\ Spent \notin Threads /\ None \notin Jobs
BY SchedulerAssumption

-----------------------------------------------------------------------------
(* Types *)

LEMMA TypeInit == Init => TypeOK
<1> SUFFICES ASSUME Init PROVE TypeOK
  OBVIOUS
<1>1. MaxCalls \in Nat /\ None \notin Jobs
  BY SchedulerAssumption
<1>2. timer \in [Jobs -> Threads \cup {None, Spent}] /\ job \in [Threads -> Jobs \cup {None}]
  BY DEF Init
<1>3. at \in [Threads -> Places] /\ \A t \in Threads : at[t] = "free" /\ job[t] = None
  BY DEF Init, Places
<1>4. /\ registered = {} /\ created = {} /\ enabled = {} /\ eager = {} /\ twins = {}
      /\ ctl = "idle" /\ work = {} /\ soon = {} /\ arming = None /\ left = {}
      /\ entries = 0 /\ calls = 0 /\ running = FALSE
  BY DEF Init
<1>5. calls \in 0..MaxCalls /\ entries \in Nat
  BY <1>1, <1>4
<1>6. ctl = "arm" <=> arming \in Jobs
  BY <1>1, <1>4
<1> QED BY <1>2, <1>3, <1>4, <1>5, <1>6 DEF TypeOK, Places

\* Taking the timer of a job away keeps the types.
LEMMA PopTypes ==
  ASSUME TypeOK, NEW j \in Jobs, PopTimer(j)
  PROVE  /\ timer' \in [Jobs -> Threads \cup {None, Spent}]
         /\ at' \in [Threads -> Places]
         /\ job' \in [Threads -> Jobs \cup {None}]
         /\ \A t \in Threads : at'[t] = "free" <=> job'[t] = None
BY DEF TypeOK, PopTimer, Places

LEMMA PublicTypes == TypeOK /\ ControlSound /\ PublicMethod => TypeOK'
<1> SUFFICES ASSUME TypeOK, ControlSound, PublicMethod PROVE TypeOK'
  OBVIOUS
<1> USE DEF jobVars, runVars, ctlVars
<1>a. MaxCalls \in Nat /\ None \notin Jobs
  BY SchedulerAssumption
<1>b. Call => calls' \in 0..MaxCalls /\ ctl = "idle" /\ work = {} /\ soon = {}
  BY <1>a DEF Call, TypeOK, ControlSound
<1>1. ASSUME NEW j \in Jobs, NEW on \in BOOLEAN, NEW immediately \in BOOLEAN,
             AddJob(j, on, immediately)
      PROVE  TypeOK'
  BY <1>1, <1>a, <1>b DEF AddJob, TypeOK
<1>2. ASSUME NEW j \in Jobs, RemoveJob(j) PROVE TypeOK'
  BY <1>2, <1>b, PopTypes DEF RemoveJob, TypeOK, Places
<1>3. ASSUME NEW j \in Jobs, EnableJob(j) PROVE TypeOK'
  BY <1>3, <1>a, <1>b DEF EnableJob, TypeOK
<1>4. ASSUME NEW j \in Jobs, DisableJob(j) PROVE TypeOK'
  BY <1>4, <1>b, PopTypes DEF DisableJob, TypeOK, Places
<1>5. ASSUME NEW j \in Jobs, NEW t \in Threads, TriggerNow(j, t) PROVE TypeOK'
  BY <1>5, <1>a, <1>b DEF TriggerNow, TypeOK
<1>6. CASE Start
  BY <1>6, <1>a, <1>b DEF Start, TypeOK
<1>7. CASE StopBegin
  <2>1. Timed \subseteq Jobs /\ Cardinality(Timed) \in Nat
    BY SchedulerAssumption, FS_Subset, FS_CardinalityType DEF Timed
  <2> QED BY <1>7, <1>a, <1>b, <2>1 DEF StopBegin, TypeOK
<1> QED BY <1>1, <1>2, <1>3, <1>4, <1>5, <1>6, <1>7 DEF PublicMethod

LEMMA ControlTypes == TypeOK /\ ControlSound /\ Control => TypeOK'
<1> SUFFICES ASSUME TypeOK, ControlSound, Control PROVE TypeOK'
  OBVIOUS
<1> USE DEF jobVars, runVars, ctlVars
<1>a. None \notin Jobs
  BY SchedulerAssumption
<1>1. ASSUME NEW j \in Jobs, SchedulePop(j) PROVE TypeOK'
  BY <1>1, <1>a, PopTypes DEF SchedulePop, TypeOK, Places
<1>2. ASSUME NEW j \in Jobs, StopCancel(j) PROVE TypeOK'
  BY <1>2 DEF StopCancel, TypeOK
<1>3. ASSUME NEW t \in Threads, ScheduleArm(t) PROVE TypeOK'
  BY <1>3, <1>a DEF ScheduleArm, TypeOK
<1>4. CASE StopCancelled \/ StopClear \/ StopRaises
  BY <1>4, <1>a DEF StopCancelled, StopClear, StopRaises, TypeOK
<1> QED BY <1>1, <1>2, <1>3, <1>4 DEF Control

LEMMA ThreadTypes == ASSUME TypeOK, NEW t \in Threads, JobThread(t) PROVE TypeOK'
<1> USE DEF jobVars, runVars, ctlVars
<1>a. None \notin Jobs
  BY SchedulerAssumption
<1>1. CASE Fire(t) \/ RunEnds(t) \/ OneShotEnds(t)
  BY <1>1, <1>a DEF Fire, RunEnds, OneShotEnds, TypeOK
<1>2. CASE RescheduleTest(t)
  BY <1>2, <1>a DEF RescheduleTest, TypeOK
<1>3. CASE ReschedulePop(t)
  BY <1>3, <1>a DEF ReschedulePop, TypeOK
<1>4. CASE RescheduleArm(t)
  BY <1>4, <1>a DEF RescheduleArm, TypeOK
<1> QED BY <1>1, <1>2, <1>3, <1>4 DEF JobThread

-----------------------------------------------------------------------------
(* Chains *)

\* Taking the timer of j away ends at most j's own chain, and what is left of
\* that does not wait at j's timer.
LEMMA PopChains ==
  ASSUME TypeOK, TimerSound, NEW j \in Jobs, PopTimer(j)
  PROVE  /\ \A i \in Jobs \ {j} : Chain(i)' = Chain(i) /\ timer'[i] = timer[i]
         /\ Chain(j)' \subseteq Chain(j) /\ timer'[j] = None
         /\ \A i \in Jobs : \A t \in Chain(i)' : at'[t] = at[t]
         /\ TimerSound'
         /\ CancelReaches => \A t \in Chain(j)' :
                               running /\ j \notin twins \cup work => at'[t] # "waiting"
<1>1. timer' = [timer EXCEPT ![j] = None]
  BY DEF PopTimer
<1>2. \A t \in Threads : \/ at'[t] = at[t] /\ job'[t] = job[t]
                         \/ t = timer[j] /\ at[t] = "waiting" /\ at'[t] = "free" /\ job'[t] = None
  BY DEF PopTimer
<1>3. \A t \in Threads : t = timer[j] => job[t] = j
  BY DEF TimerSound, Chain
<1>4. \A i \in Jobs \ {j} : Chain(i)' = Chain(i) /\ timer'[i] = timer[i]
  BY <1>1, <1>2, <1>3, Distinct DEF Chain, TypeOK
<1>5. Chain(j)' \subseteq Chain(j) /\ timer'[j] = None
  BY <1>1, <1>2, Distinct DEF Chain, TypeOK
<1>6. \A i \in Jobs : \A t \in Chain(i)' : at'[t] = at[t]
  BY <1>2, Distinct DEF Chain
<1>7. TimerSound'
  BY <1>4, <1>5, Distinct DEF TimerSound
<1>8. CancelReaches => \A t \in Chain(j)' :
                         running /\ j \notin twins \cup work => at'[t] # "waiting"
  <2> SUFFICES ASSUME CancelReaches, NEW t \in Chain(j)', running, j \notin twins \cup work,
                      at'[t] = "waiting"
               PROVE  FALSE
    OBVIOUS
  <2>1. t \in Chain(j) /\ at[t] = "waiting"
    BY <1>5, <1>6
  <2>2. timer[j] = t
    BY <2>1 DEF CancelReaches
  <2>3. at' = [u \in Threads |-> IF u = timer[j] /\ at[u] = "waiting" THEN "free" ELSE at[u]]
    BY DEF PopTimer
  <2> QED BY <2>1, <2>2, <2>3 DEF Chain
<1> QED BY <1>4, <1>5, <1>6, <1>7, <1>8

\* When no thread changes and no timer, chains do not.
LEMMA SameChains ==
  ASSUME at' = at, job' = job
  PROVE  \A j \in Jobs : Chain(j)' = Chain(j)
BY DEF Chain

\* A step that changes no chain, and brings none to wait, keeps the rest.
LEMMA NothingMoves ==
  ASSUME Rest, \A i \in Jobs : Chain(i)' = Chain(i),
         \A u \in Threads : u \in UNION {Chain(i) : i \in Jobs} /\ at'[u] = "waiting"
                              => at[u] = "waiting",
         UNCHANGED <<running, registered, enabled, timer, ctl, work, soon, arming, twins>>,
         registered \subseteq Jobs
  PROVE  Rest'
<1>1. TimerSound' /\ ControlSound' /\ ArmingAlone'
  BY DEF Rest, TimerSound, ControlSound, ArmingAlone
<1>2. ChainAlive'
  BY DEF Rest, ChainAlive
<1>3. CancelReaches'
  <2>1. \A i \in Jobs : \A u \in Chain(i) : u \in Threads /\ u \in UNION {Chain(k) : k \in Jobs}
    BY DEF Chain
  <2> QED BY <2>1 DEF Rest, CancelReaches
<1> QED BY <1>1, <1>2, <1>3 DEF Rest

LEMMA PublicRest == TypeOK /\ Rest /\ PublicMethod => Rest'
<1> SUFFICES ASSUME TypeOK, Rest, PublicMethod PROVE Rest'
  OBVIOUS
<1> USE DEF jobVars, runVars, ctlVars
<1>a. /\ TimerSound /\ ControlSound /\ ArmingAlone /\ ChainAlive /\ CancelReaches
      /\ Call => ctl = "idle" /\ work = {} /\ soon \subseteq {arming} /\ arming = None
  BY DEF Rest, Call, ControlSound, TypeOK
<1>b. registered \subseteq Jobs /\ soon \subseteq Jobs
  BY DEF TypeOK
<1>1. ASSUME NEW j \in Jobs, NEW on \in BOOLEAN, NEW immediately \in BOOLEAN,
             AddJob(j, on, immediately)
      PROVE  Rest'
  BY <1>1, <1>a, SameChains, Distinct
  DEF AddJob, Rest, TimerSound, ControlSound, ArmingAlone, ChainAlive, CancelReaches, TypeOK
<1>2. ASSUME NEW j \in Jobs, RemoveJob(j) \/ DisableJob(j) PROVE Rest'
  <2>1. /\ PopTimer(j) /\ ctl = "idle" /\ work = {} /\ arming = None
        /\ UNCHANGED <<running, created, ctl, work, soon, arming, twins>>
        /\ (registered \cap enabled)' = (registered \cap enabled) \ {j}
    BY <1>2, <1>a DEF RemoveJob, DisableJob
  <2>2. TimerSound' /\ ControlSound' /\ ArmingAlone'
    BY <2>1, <1>a, PopChains, Distinct DEF ControlSound, ArmingAlone
  <2>3. ChainAlive'
    BY <2>1, <1>a, <1>b, PopChains DEF ChainAlive
  <2>4. CancelReaches'
    BY <2>1, <1>a, PopChains DEF CancelReaches
  <2> QED BY <2>2, <2>3, <2>4 DEF Rest
<1>3. ASSUME NEW j \in Jobs, EnableJob(j) PROVE Rest'
  BY <1>3, <1>a, SameChains, Distinct
  DEF EnableJob, Rest, TimerSound, ControlSound, ArmingAlone, ChainAlive, CancelReaches, TypeOK
<1>4. ASSUME NEW j \in Jobs, NEW t \in Threads, TriggerNow(j, t) PROVE Rest'
  <2>1. \A i \in Jobs : Chain(i)' = Chain(i)
    BY <1>4, Distinct DEF TriggerNow, Chain, TypeOK
  <2>2. \A u \in Threads : at'[u] = "waiting" => at[u] = "waiting"
    BY <1>4 DEF TriggerNow, TypeOK
  <2>3. UNCHANGED <<running, registered, enabled, timer, ctl, work, soon, arming, twins>>
    BY <1>4 DEF TriggerNow
  <2> QED BY <1>b, <2>1, <2>2, <2>3, NothingMoves
<1>5. CASE Start
  BY <1>5, <1>a, SameChains, Distinct
  DEF Start, Rest, TimerSound, ControlSound, ArmingAlone, ChainAlive, CancelReaches, TypeOK
<1>6. CASE StopBegin
  BY <1>6, <1>a, SameChains, Distinct
  DEF StopBegin, Rest, TimerSound, ControlSound, ArmingAlone, ChainAlive, CancelReaches, TypeOK
<1> QED BY <1>1, <1>2, <1>3, <1>4, <1>5, <1>6 DEF PublicMethod

LEMMA ControlRest == TypeOK /\ Rest /\ Control => Rest'
<1> SUFFICES ASSUME TypeOK, Rest, Control PROVE Rest'
  OBVIOUS
<1> USE DEF jobVars, runVars, ctlVars
<1>a. TimerSound /\ ControlSound /\ ArmingAlone /\ ChainAlive /\ CancelReaches
  BY DEF Rest
<1>b. registered \subseteq Jobs /\ soon \subseteq Jobs
  BY DEF TypeOK
<1>1. ASSUME NEW j \in Jobs, SchedulePop(j) PROVE Rest'
  <2>1. /\ PopTimer(j) /\ ctl = "schedule" /\ j \in work /\ arming = None
        /\ UNCHANGED <<running, registered, enabled, soon>>
        /\ work' = work \ {j} /\ arming' = j /\ ctl' = "arm"
        /\ twins' = IF Chain(j)' = {} THEN twins ELSE twins \cup {j}
    BY <1>1, Distinct DEF SchedulePop, TypeOK
  <2>2. TimerSound' /\ ControlSound' /\ ArmingAlone'
    <3>1. TimerSound'
      BY <2>1, <1>a, PopChains
    <3>2. ControlSound'
      BY <2>1, <1>a, <1>b, Distinct DEF ControlSound
    <3>3. ArmingAlone'
      BY <2>1 DEF ArmingAlone
    <3> QED BY <3>1, <3>2, <3>3
  <2>3. ChainAlive'
    <3> SUFFICES ASSUME running', NEW i \in (registered \cap enabled)' \ (work \cup {arming})'
                 PROVE  Chain(i)' # {}
      BY DEF ChainAlive
    <3>1. i \in (registered \cap enabled) \ (work \cup {arming}) /\ i # j /\ running /\ i \in Jobs
      BY <2>1, <1>b, Distinct
    <3> QED BY <3>1, <2>1, <1>a, PopChains DEF ChainAlive
  <2>4. CancelReaches'
    <3> SUFFICES ASSUME running', NEW i \in Jobs \ (twins' \cup work')
                 PROVE  /\ \A t, u \in Chain(i)' : t = u
                        /\ \A t \in Chain(i)' : at'[t] = "waiting" => timer'[i] = t
      BY DEF CancelReaches
    <3>1. CASE i = j
      BY <3>1, <2>1
    <3>2. CASE i # j
      <4>1. i \in Jobs \ (twins \cup work) /\ running
        BY <2>1, <3>2
      <4> QED BY <4>1, <3>2, <1>a, <2>1, PopChains DEF CancelReaches
    <3> QED BY <3>1, <3>2
  <2> QED BY <2>2, <2>3, <2>4 DEF Rest
<1>2. ASSUME NEW t \in Threads, ScheduleArm(t) PROVE Rest'
  <2>0. PICK a \in Jobs : a = arming
    BY <1>2 DEF ScheduleArm, TypeOK
  <2>1. /\ ctl = "arm" /\ at[t] = "free" /\ job[t] = None
        /\ at' = [at EXCEPT ![t] = IF a \in soon THEN "running" ELSE "waiting"]
        /\ job' = [job EXCEPT ![t] = a]
        /\ timer' = IF a \in soon THEN timer ELSE [timer EXCEPT ![a] = t]
        /\ soon' = soon \ {a} /\ arming' = None
        /\ ctl' = IF work = {} THEN "idle" ELSE "schedule"
        /\ UNCHANGED <<running, registered, enabled, work, twins>>
    BY <1>2, <2>0 DEF ScheduleArm, TypeOK
  <2>2. Chain(a)' = Chain(a) \cup {t} /\ t \notin Chain(a)
    BY <2>1 DEF Chain, TypeOK
  <2>3. \A i \in Jobs \ {a} : Chain(i)' = Chain(i) /\ timer'[i] = timer[i]
    BY <2>1, Distinct DEF Chain, TypeOK
  <2>4. \A i \in Jobs : \A u \in Chain(i) : at'[u] = at[u]
    BY <2>1 DEF Chain, TypeOK
  <2>5. timer'[a] \in {timer[a], t} /\ (at'[t] = "waiting" => timer'[a] = t)
    BY <2>1 DEF TypeOK
  <2>6. TimerSound'
    BY <1>a, <2>1, <2>2, <2>3, <2>5 DEF TimerSound
  <2>7. ControlSound' /\ ArmingAlone'
    BY <1>a, <2>0, <2>1, Distinct DEF ControlSound, ArmingAlone
  <2>8. ChainAlive'
    BY <1>a, <1>b, <2>0, <2>1, <2>2, <2>3 DEF ChainAlive
  <2>9. CancelReaches'
    <3> SUFFICES ASSUME running', NEW i \in Jobs \ (twins' \cup work')
                 PROVE  /\ \A u, v \in Chain(i)' : u = v
                        /\ \A u \in Chain(i)' : at'[u] = "waiting" => timer'[i] = u
      BY DEF CancelReaches
    <3>1. running /\ i \in Jobs \ (twins \cup work)
      BY <2>1
    <3>2. CASE i = a
      <4>1. Chain(a) = {}
        BY <1>a, <2>0, <3>1, <3>2 DEF ArmingAlone
      <4> QED BY <3>2, <4>1, <2>2, <2>5
    <3>3. CASE i # a
      BY <3>1, <3>3, <1>a, <2>3, <2>4 DEF CancelReaches
    <3> QED BY <3>2, <3>3
  <2> QED BY <2>6, <2>7, <2>8, <2>9 DEF Rest
<1>3. ASSUME NEW j \in Jobs, StopCancel(j) PROVE Rest'
  <2>1. /\ ~running /\ ~running' /\ arming = None
        /\ UNCHANGED <<registered, enabled, ctl, work, soon, arming, twins>>
    BY <1>3, <1>a, Distinct DEF StopCancel, ControlSound, TypeOK
  <2>2. TimerSound'
    <3> SUFFICES ASSUME NEW i \in Jobs, timer'[i] \in Threads PROVE timer'[i] \in Chain(i)'
      BY DEF TimerSound
    <3>1. timer'[i] = timer[i]
      BY <1>3, Distinct DEF StopCancel, TypeOK
    <3>2. timer[i] \in Chain(i)
      BY <3>1, <1>a DEF TimerSound
    <3>3. ~(timer[i] = timer[j] /\ at[timer[i]] = "waiting")
      <4>1. CASE i = j
        BY <4>1, <3>1, <1>3, Distinct DEF StopCancel, TypeOK
      <4>2. CASE i # j
        BY <4>2, <3>2, <1>a DEF TimerSound, Chain
      <4> QED BY <4>1, <4>2
    <3>4. at'[timer[i]] = at[timer[i]] /\ job'[timer[i]] = job[timer[i]]
      BY <3>1, <3>3, <1>3 DEF StopCancel, TypeOK
    <3> QED BY <3>1, <3>2, <3>4 DEF Chain
  <2> QED BY <2>1, <2>2, <1>a, Distinct DEF Rest, ControlSound, ArmingAlone, ChainAlive, CancelReaches
<1>4. CASE StopCancelled \/ StopClear \/ StopRaises
  BY <1>4, <1>a, SameChains, Distinct
  DEF StopCancelled, StopClear, StopRaises, Rest, TimerSound, ControlSound, ArmingAlone,
      ChainAlive, CancelReaches, TypeOK
<1> QED BY <1>1, <1>2, <1>3, <1>4 DEF Control

\* A thread of a job moves within its chain, or leaves it when it may.
LEMMA ThreadRest == ASSUME TypeOK, Rest, NEW t \in Threads, JobThread(t) PROVE Rest'
<1> USE DEF jobVars, runVars, ctlVars
<1>a. TimerSound /\ ControlSound /\ ArmingAlone /\ ChainAlive /\ CancelReaches
  BY DEF Rest
<1>b. registered \subseteq Jobs
  BY DEF TypeOK
<1>1. CASE Fire(t) \/ RunEnds(t)
  <2>1. \A i \in Jobs : Chain(i)' = Chain(i)
    BY <1>1 DEF Fire, RunEnds, Chain, TypeOK
  <2>2. \A u \in Threads : at'[u] = "waiting" => at[u] = "waiting"
    BY <1>1 DEF Fire, RunEnds, TypeOK
  <2>3. UNCHANGED <<running, registered, enabled, timer, ctl, work, soon, arming, twins>>
    BY <1>1 DEF Fire, RunEnds
  <2> QED BY <1>b, <2>1, <2>2, <2>3, NothingMoves
<1>2. CASE OneShotEnds(t)
  <2>1. \A i \in Jobs : Chain(i)' = Chain(i)
    BY <1>2, Distinct DEF OneShotEnds, Chain, TypeOK
  <2>2. \A u \in Threads : at'[u] = "waiting" => at[u] = "waiting"
    BY <1>2 DEF OneShotEnds, TypeOK
  <2>3. UNCHANGED <<running, registered, enabled, timer, ctl, work, soon, arming, twins>>
    BY <1>2 DEF OneShotEnds
  <2> QED BY <1>b, <2>1, <2>2, <2>3, NothingMoves
<1>3. CASE RescheduleTest(t)
  <2>a. UNCHANGED <<running, registered, enabled, ctl, work, soon, arming, twins>>
    BY <1>3 DEF RescheduleTest
  <2>1. CASE GoesOn(t)
    <3>1. \A i \in Jobs : Chain(i)' = Chain(i)
      BY <1>3, <2>1 DEF RescheduleTest, Chain, TypeOK
    <3>2. \A u \in Threads : at'[u] = "waiting" => at[u] = "waiting"
      BY <1>3, <2>1 DEF RescheduleTest, TypeOK
    <3>3. timer' = timer
      BY <1>3, <2>1 DEF RescheduleTest, TypeOK
    <3> QED BY <1>b, <2>a, <3>1, <3>2, <3>3, NothingMoves
  <2>2. CASE ~GoesOn(t)
    <3>1. \A i \in Jobs : Chain(i)' = Chain(i) \ {t}
      BY <1>3, <2>2, Distinct DEF RescheduleTest, Chain, TypeOK
    <3>2. \A u \in Threads \ {t} : at'[u] = at[u] /\ job'[u] = job[u]
      BY <1>3, <2>2 DEF RescheduleTest, TypeOK
    <3>3. \A i \in Jobs : timer'[i] = timer[i] \/ (timer[i] = t /\ timer'[i] = Spent)
      BY <1>3, <2>2 DEF RescheduleTest, TypeOK
    <3>4. job[t] \in Jobs /\ at[t] = "test" /\ t \in Chain(job[t])
      BY <1>3 DEF RescheduleTest, Chain, TypeOK
    <3>5. timer'[job[t]] # t
      BY <1>3, <2>2, <3>4, Distinct DEF RescheduleTest, TypeOK
    <3>6. \A i \in Jobs : timer'[i] # t
      BY <3>3, <3>4, <3>5, <1>a, Distinct DEF TimerSound, Chain
    <3>7. TimerSound'
      BY <1>a, <3>1, <3>3, <3>6, Distinct DEF TimerSound
    <3>8. ControlSound' /\ ArmingAlone'
      BY <1>a, <2>a, <3>1 DEF ControlSound, ArmingAlone
    <3>9. ChainAlive'
      <4>1. ~running \/ job[t] \notin enabled
        BY <2>2 DEF GoesOn
      <4>2. \A i \in Jobs : i # job[t] => t \notin Chain(i)
        BY DEF Chain
      <4> QED BY <1>a, <2>a, <3>1, <4>1, <4>2 DEF ChainAlive, TypeOK
    <3>10. CancelReaches'
      <4> SUFFICES ASSUME running', NEW i \in Jobs \ (twins' \cup work')
                   PROVE  /\ \A u, v \in Chain(i)' : u = v
                          /\ \A u \in Chain(i)' : at'[u] = "waiting" => timer'[i] = u
        BY DEF CancelReaches
      <4>1. running /\ i \in Jobs \ (twins \cup work)
        BY <2>a
      <4>2. \A u, v \in Chain(i)' : u = v
        BY <4>1, <1>a, <3>1 DEF CancelReaches
      <4>3. ASSUME NEW u \in Chain(i)', at'[u] = "waiting" PROVE timer'[i] = u
        <5>1. u \in Chain(i) /\ u # t /\ u \in Threads
          BY <4>3, <3>1 DEF Chain
        <5>2. at[u] = "waiting" /\ timer[i] = u
          BY <4>1, <4>3, <5>1, <3>2, <1>a DEF CancelReaches
        <5> QED BY <5>1, <5>2, <3>3
      <4> QED BY <4>2, <4>3
    <3> QED BY <3>7, <3>8, <3>9, <3>10 DEF Rest
  <2> QED BY <2>1, <2>2
<1>4. CASE ReschedulePop(t)
  <2>0. PICK j \in Jobs : j = job[t]
    BY <1>4 DEF ReschedulePop, TypeOK
  <2>a. /\ j \in Jobs /\ at[t] = "pop" /\ t \in Chain(j)
        /\ timer' = [timer EXCEPT ![j] = None]
        /\ UNCHANGED <<running, registered, enabled, ctl, work, soon, arming, twins>>
    BY <2>0, <1>4 DEF ReschedulePop, Chain, TypeOK
  <2>1. \A u \in Threads \ {t} :
          \/ at'[u] = at[u] /\ job'[u] = job[u]
          \/ u = timer[j] /\ at[u] = "waiting" /\ at'[u] = "free" /\ job'[u] = None
    BY <2>0, <1>4 DEF ReschedulePop, TypeOK
  <2>2. at'[t] = "arm" /\ job'[t] = j
    BY <2>0, <1>4 DEF ReschedulePop, TypeOK
  <2>3. \A u \in Threads : u = timer[j] => job[u] = j
    BY <1>a, <2>a DEF TimerSound, Chain
  <2>4. \A i \in Jobs \ {j} : Chain(i)' = Chain(i) /\ timer'[i] = timer[i]
    BY <2>a, <2>1, <2>2, <2>3, Distinct DEF Chain, TypeOK
  <2>5. Chain(j)' \subseteq Chain(j) /\ t \in Chain(j)' /\ timer'[j] = None
    BY <2>a, <2>1, <2>2, Distinct DEF Chain, TypeOK
  <2>6. \A u \in Threads : at'[u] = "waiting" => at[u] = "waiting"
    BY <2>1, <2>2
  <2>7. TimerSound'
    BY <1>a, <2>a, <2>4, <2>5, Distinct DEF TimerSound
  <2>8. ControlSound' /\ ArmingAlone'
    BY <1>a, <2>a, <2>4, <2>5 DEF ControlSound, ArmingAlone
  <2>9. ChainAlive'
    BY <1>a, <1>b, <2>a, <2>4, <2>5 DEF ChainAlive
  <2>10. CancelReaches'
    <3> SUFFICES ASSUME running', NEW i \in Jobs \ (twins' \cup work')
                 PROVE  /\ \A u, v \in Chain(i)' : u = v
                        /\ \A u \in Chain(i)' : at'[u] = "waiting" => timer'[i] = u
      BY DEF CancelReaches
    <3>1. running /\ i \in Jobs \ (twins \cup work)
      BY <2>a
    <3>2. CASE i = j
      <4>1. Chain(j)' = {t}
        BY <3>1, <3>2, <2>a, <2>5, <1>a DEF CancelReaches
      <4> QED BY <3>2, <4>1, <2>2
    <3>3. CASE i # j
      <4>1. \A u \in Chain(i)' : u \in Threads
        BY DEF Chain
      <4> QED BY <3>1, <3>3, <4>1, <2>4, <2>6, <1>a DEF CancelReaches
    <3> QED BY <3>2, <3>3
  <2> QED BY <2>7, <2>8, <2>9, <2>10 DEF Rest
<1>5. CASE RescheduleArm(t)
  <2>0. PICK j \in Jobs : j = job[t]
    BY <1>5 DEF RescheduleArm, TypeOK
  <2>a. /\ j \in Jobs /\ at[t] = "arm" /\ t \in Chain(j)
        /\ at' = [at EXCEPT ![t] = "waiting"] /\ job' = job
        /\ timer' = [timer EXCEPT ![j] = t]
        /\ UNCHANGED <<running, registered, enabled, ctl, work, soon, arming, twins>>
    BY <2>0, <1>5 DEF RescheduleArm, Chain, TypeOK
  <2>1. \A i \in Jobs : Chain(i)' = Chain(i)
    BY <2>a DEF Chain, TypeOK
  <2>2. timer'[j] = t /\ \A i \in Jobs \ {j} : timer'[i] = timer[i]
    BY <2>a DEF TypeOK
  <2>3. \A i \in Jobs \ {j} : t \notin Chain(i)
    BY <2>0 DEF Chain
  <2>4. \A u \in Threads \ {t} : at'[u] = at[u]
    BY <2>a DEF TypeOK
  <2>5. TimerSound'
    BY <1>a, <2>a, <2>1, <2>2 DEF TimerSound
  <2>6. ControlSound' /\ ArmingAlone' /\ ChainAlive'
    BY <1>a, <2>a, <2>1 DEF ControlSound, ArmingAlone, ChainAlive, TypeOK
  <2>7. CancelReaches'
    <3> SUFFICES ASSUME running', NEW i \in Jobs \ (twins' \cup work')
                 PROVE  /\ \A u, v \in Chain(i)' : u = v
                        /\ \A u \in Chain(i)' : at'[u] = "waiting" => timer'[i] = u
      BY DEF CancelReaches
    <3>1. running /\ i \in Jobs \ (twins \cup work)
      BY <2>a
    <3>2. \A u, v \in Chain(i)' : u = v
      BY <3>1, <2>1, <1>a DEF CancelReaches
    <3>3. CASE i = j
      BY <3>2, <3>3, <2>a, <2>1, <2>2
    <3>4. CASE i # j
      <4>1. \A u \in Chain(i)' : u \in Chain(i) /\ u \in Threads \ {t}
        BY <3>4, <2>1, <2>3 DEF Chain
      <4> QED BY <3>1, <3>2, <3>4, <4>1, <2>2, <2>4, <1>a DEF CancelReaches
    <3> QED BY <3>3, <3>4
  <2> QED BY <2>5, <2>6, <2>7 DEF Rest
<1> QED BY <1>1, <1>2, <1>3, <1>4, <1>5 DEF JobThread

-----------------------------------------------------------------------------
LEMMA Inductive == Spec => []IInv
<1>1. Init => IInv
  <2> SUFFICES ASSUME Init PROVE IInv
    OBVIOUS
  <2>1. TypeOK
    BY TypeInit
  <2>2. TimerSound /\ ControlSound /\ ArmingAlone /\ ChainAlive /\ CancelReaches
    BY Distinct DEF Init, TimerSound, ControlSound, ArmingAlone, ChainAlive, CancelReaches
  <2> QED BY <2>1, <2>2 DEF IInv
<1>2. IInv /\ [Next]_vars => IInv'
  <2> SUFFICES ASSUME TypeOK, Rest, [Next]_vars PROVE TypeOK' /\ Rest'
    BY DEF IInv, Rest
  <2>1. CASE PublicMethod
    BY <2>1, PublicTypes, PublicRest DEF Rest
  <2>2. CASE Control
    BY <2>2, ControlTypes, ControlRest DEF Rest
  <2>3. ASSUME NEW t \in Threads, JobThread(t) PROVE TypeOK' /\ Rest'
    BY <2>3, ThreadTypes, ThreadRest
  <2>4. CASE UNCHANGED vars
    BY <2>4, SameChains
    DEF vars, jobVars, runVars, ctlVars, TypeOK, Rest, TimerSound, ControlSound, ArmingAlone,
        ChainAlive, CancelReaches
  <2> QED BY <2>1, <2>2, <2>3, <2>4 DEF Next
<1> QED BY <1>1, <1>2, PTL DEF Spec

\* Every variable keeps its type.
THEOREM TypeCorrect == Spec => []TypeOK
<1>1. IInv => TypeOK
  BY DEF IInv
<1> QED BY <1>1, Inductive, PTL

\* The chain of a job that should go on never breaks, whatever public methods
\* race with the threads of the job.
THEOREM ChainsNeverBreak == Spec => []ChainAlive
<1>1. IInv => ChainAlive
  BY DEF IInv
<1> QED BY <1>1, Inductive, PTL

\* A job that was not enabled while it ran, nor outlived a stop(), has one chain,
\* and its timer can be cancelled.
THEOREM TimersWithinReach == Spec => []CancelReaches
<1>1. IInv => CancelReaches
  BY DEF IInv
<1> QED BY <1>1, Inductive, PTL
=============================================================================
