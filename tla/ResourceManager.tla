-------------------------- MODULE ResourceManager --------------------------
(***************************************************************************)
(* ResourceManager (core/resource_manager.py): a thread that samples the    *)
(* process' own use of CPU, memory and disk and turns throttling on and     *)
(* off.  The application registers no violation callback and hands the      *)
(* manager to no monitor; throttle_state is read by its health check alone. *)
(*                                                                         *)
(* A sample is a record: the CPU use in small numbers, and whether memory   *)
(* and disk writes are low, near their budget (above 80% of it) or over it. *)
(***************************************************************************)
EXTENDS Naturals, Sequences, FiniteSets, SequencesExt

CONSTANTS
  CpuReadings,  \* the CPU readings there are, a finite set of numbers
  CpuAverage,   \* _cpu_budget_avg
  CpuPeak,      \* _cpu_budget_peak
  HistorySize,  \* _CPU_HISTORY_SIZE
  MaxStarts     \* bound: how often the manager is started

VARIABLES
  active,      \* _running
  sampler,     \* where the thread is: "gone", "collect", "analyze", "asleep"
  sample,      \* the latest snapshot
  cpuHistory,  \* _cpu_history
  throttle,    \* throttle_state: is_throttled and throttle_level
  overrides,   \* component_overrides
  starts

vars == <<active, sampler, sample, cpuHistory, throttle, overrides, starts>>

Uses == {"low", "near", "over"}
Samples == [cpu : CpuReadings, ram : Uses, disk : Uses]

OptionalWork == {"ml_classifier", "forensics_collector", "network_traffic_capture"}

Init ==
  /\ active = FALSE /\ sampler = "gone"
  /\ sample = [cpu |-> 0, ram |-> "low", disk |-> "low"]
  /\ cpuHistory = <<>>
  /\ throttle = [on |-> FALSE, level |-> 0]
  /\ overrides = {}
  /\ starts = 0

Start ==
  /\ ~active /\ sampler = "gone" /\ starts < MaxStarts
  /\ active' = TRUE /\ sampler' = "collect" /\ starts' = starts + 1
  /\ UNCHANGED <<sample, cpuHistory, throttle, overrides>>

\* stop(): the flag; the thread is joined when it has slept its interval.
Stop ==
  /\ active
  /\ active' = FALSE
  /\ UNCHANGED <<sampler, sample, cpuHistory, throttle, overrides, starts>>

\* _collect_snapshot()
Collect ==
  /\ sampler = "collect"
  /\ IF active THEN sampler' = "analyze" /\ sample' \in Samples
               ELSE sampler' = "gone" /\ sample' = sample
  /\ UNCHANGED <<active, cpuHistory, throttle, overrides, starts>>

\* A reading that raises is passed over, except that of a process psutil no
\* longer sees.
CollectFails ==
  /\ sampler = "collect" /\ active
  /\ \/ sampler' = "asleep" /\ active' = active
     \/ sampler' = "gone" /\ active' = FALSE
  /\ UNCHANGED <<sample, cpuHistory, throttle, overrides, starts>>

\* Mutant: the history never forgets.
RememberedAll(c) == Append(cpuHistory, c)

\* The history with one reading more.
Remembered(c) ==
  IF Len(cpuHistory) < HistorySize THEN Append(cpuHistory, c) ELSE Append(Tail(cpuHistory), c)

\* sum / len > limit, and > 1.5 * limit
Total(h) == FoldLeft(+, 0, h)
AverageOver(h, limit) == Total(h) > limit * Len(h)
AverageFarOver(h, limit) == 2 * Total(h) > 3 * limit * Len(h)

\* The violations _analyze_snapshot() lists.
Violations(s, h) ==
  {v \in {"cpu_peak", "cpu_avg", "cpu_avg_critical", "ram_max", "disk_write"} :
     CASE v = "cpu_peak"         -> s.cpu > CpuPeak
       [] v = "cpu_avg_critical" -> AverageFarOver(h, CpuAverage)
       [] v = "cpu_avg"          -> AverageOver(h, CpuAverage) /\ ~AverageFarOver(h, CpuAverage)
       [] v = "ram_max"          -> s.ram = "over"
       [] v = "disk_write"       -> s.disk = "over"}

Level(found) ==
  IF found = {} THEN 0
  ELSE IF found \cap {"ram_max", "cpu_avg_critical"} # {} THEN 3
  ELSE IF Cardinality(found) > 1 THEN 2 ELSE 1

\* _analyze_snapshot(), under the lock; reclaiming memory changes nothing here.
Analyze ==
  /\ sampler = "analyze"
  /\ cpuHistory' = Remembered(sample.cpu)
  /\ LET found == Violations(sample, cpuHistory')
     IN  /\ throttle' = [on |-> found # {}, level |-> Level(found)]
         /\ overrides' = IF found # {} THEN OptionalWork ELSE {}
  /\ sampler' = "asleep"
  /\ UNCHANGED <<active, sample, starts>>

Wake ==
  /\ sampler = "asleep"
  /\ sampler' = "collect"
  /\ UNCHANGED <<active, sample, cpuHistory, throttle, overrides, starts>>

\* health_check(): what the API and the user interface are shown.
HealthStatus ==
  IF sample.cpu > CpuPeak \/ sample.ram = "over" THEN "degraded"
  ELSE IF throttle.on THEN "throttled" ELSE "healthy"

Next == Start \/ Stop \/ Collect \/ CollectFails \/ Analyze \/ Wake

Spec == Init /\ [][Next]_vars

-----------------------------------------------------------------------------
(* Properties *)

\* The readings of the last minute.
Recent == {cpuHistory[n] : n \in Len(cpuHistory) - HistorySize + 1 .. Len(cpuHistory)}

\* A use above 80% of its budget.
Near(c, budget) == 5 * c > 4 * budget

\* The rolling average forgets: a spike throttles for one round of the history at
\* most.  When none of the last HistorySize readings was above 80% of the average
\* budget, and the latest sample is not of the others (_analyze_snapshot()),
\* throttling is off, and the health check says so.
ThrottleLifts ==
  sampler = "asleep" /\ Len(cpuHistory) >= HistorySize
  /\ (\A c \in Recent : ~Near(c, CpuAverage))
  /\ ~Near(sample.cpu, CpuPeak) /\ sample.ram = "low" /\ sample.disk = "low"
  => throttle = [on |-> FALSE, level |-> 0] /\ overrides = {} /\ HealthStatus = "healthy"

\* "Level 1 (light throttle): >80% of budget for 10s": when every reading of the last
\* minute, and so of the last ten seconds, was above 80% of the average budget,
\* _analyze_snapshot() has turned throttling on.
ThrottledNearBudget ==
  sampler = "asleep" /\ Len(cpuHistory) >= HistorySize /\ (\A c \in Recent : Near(c, CpuAverage))
  => throttle.on /\ throttle.level >= 1

-----------------------------------------------------------------------------
(* What makes ThrottleLifts inductive. *)

\* The history is never longer than it may be.
TypeOK ==
  /\ sampler \in {"gone", "collect", "analyze", "asleep"}
  /\ cpuHistory \in Seq(Nat) /\ Len(cpuHistory) <= HistorySize
  /\ sample.cpu \in Nat /\ sample.ram \in Uses /\ sample.disk \in Uses

\* The throttling is that of the latest sample that was analyzed, whether a later one
\* failed, and over restarts of the manager.
ThrottleIsOfSample ==
  sampler # "analyze" /\ Len(cpuHistory) > 0 =>
    LET found == Violations(sample, cpuHistory)
    IN  /\ throttle = [on |-> found # {}, level |-> Level(found)]
        /\ overrides = IF found # {} THEN OptionalWork ELSE {}

IInv == TypeOK /\ ThrottleIsOfSample
=============================================================================
