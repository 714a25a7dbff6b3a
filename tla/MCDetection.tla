---------------------------- MODULE MCDetection ----------------------------
(***************************************************************************)
(* The three detectors on small instances: the behavioral detector, the     *)
(* correlation engine, and the rules with the pipeline that puts the        *)
(* detectors together.  They share no state here: "detector" says which of  *)
(* them a behaviour is of, and the others rest in one initial state.        *)
(***************************************************************************)
EXTENDS Behavioral, TLC

CONSTANTS rename, source, word, shell1, shell2, dropper, host

\* The correlation engine's; those that Behavioral has too have names of their own.
CONSTANTS
  Inputs, Apps, Pids, Images, Sources, Recency, MinFailures,
  ChainWindow, ChainHistory, ChainCooldown, ChainEvents, ChainTime

\* The engine's.
CONSTANTS Files, Settings, Events, RulesEvents

VARIABLES
  detector,
  tick, arrived, inHand, history, office, downloads, failures, lastMatch, handled, alerts,
  file, settings, rules, disabled, active, whitelist, engine, metrics, result

-----------------------------------------------------------------------------
(* The correlation engine: two shells of one office application, one of them *)
(* a downloaded program, and one source of log-ins.  Registry values go       *)
(* through the same operator as services.                                   *)

Rec(type, pid, app, image, from) ==
  [type |-> type, pid |-> pid, app |-> app, image |-> image, source |-> from]

\* The values of Inputs and of Recency.
SomeInputs ==
  {Rec("process", shell1, word, None, None), Rec("process", shell2, word, dropper, None)}
  \cup {Rec("network", p, None, None, None) : p \in {shell1, shell2}}
  \cup {Rec(t, None, None, dropper, None) : t \in {"file", "service"}}
  \cup {Rec(t, None, None, None, host) : t \in {"failure", "success"}}

RecencyOf == [service |-> 1, registry |-> 2]

Chains == INSTANCE Correlation WITH
  Window <- ChainWindow, MaxHistory <- ChainHistory, Cooldown <- ChainCooldown,
  MaxEvents <- ChainEvents, MaxTime <- ChainTime,
  clock <- tick, events <- arrived, last <- lastMatch

\* A process has a number, and the limits of correlation.py are natural numbers.
ASSUME ChainsAssumption ==
  /\ Inputs \subseteq Chains!EventRecords
  /\ None \notin Pids
  /\ ChainWindow \in Nat /\ Recency \in [{"service", "registry"} -> Nat]
  /\ MinFailures \in Nat \ {0} /\ ChainHistory \in Nat \ {0} /\ ChainCooldown \in Nat

-----------------------------------------------------------------------------
(* The rules: files of up to two of them, with a clause for each operator    *)
(* and the forms that the loader does not expect.  SomeFiles, SomeSettings   *)
(* and SomeEvents are the values of Files, Settings and Events.             *)

Clause(field, op, value, values) ==
  [monitor |-> "network", field |-> field, operator |-> op, value |-> value, values |-> values]

Clauses ==
  {Clause("name", op, "evil", {}) : op \in {"equals", "not_equals", "contains", "not_contains", "regex"}}
  \cup {Clause("name", op, "None", {"evil", "dev"}) :
          op \in {"contains_any", "contains_all", "in", "not_in", "not contains_any", "like"}}
  \cup {Clause("port", op, "1", {}) : op \in {"greater_than", "less_than", "gte", "lte"}}
  \cup {Clause("port", op, "None", {}) : op \in {"is_null", "is_not_null"}}
  \cup {Clause("<number>", "equals", "evil", {})}

Rule(id, form, on, sev, cond, cs) ==
  [id |-> id, form |-> form, enabled |-> on, severity |-> sev, condition |-> cond, clauses |-> cs]

FirstRules ==
  {Rule("R1", "valid", TRUE, 2, cond, <<c>>) : cond \in {"all", "any"}, c \in Clauses}
  \cup {Rule("R1", "valid", TRUE, 1, cond, <<Clause("name", "equals", "evil", {}), c>>) :
          cond \in {"all", "any", "threshold"}, c \in Clauses}
  \cup {Rule("R1", form, FALSE, 1, "all", <<>>) : form \in {"valid", "invalid"}}

SecondRules ==
  {Rule("R2", form, TRUE, 3, "all",
        <<Clause("port", "gte", "1", {}), Clause("name", "contains", "evil", {})>>) :
     form \in {"valid", "invalid"}}

Whitelists ==
  {[broken |-> b, disabled |-> d,
    trusted |-> [processes |-> {"evil"}, pairs |-> {<<"dev", "sh">>}, paths |-> {"safe"},
                 publishers |-> {"ms"}]] : b \in BOOLEAN, d \in {{}, {"R1"}}}

SomeFiles ==
  {[readable |-> TRUE, rules |-> rs, whitelist |-> w] :
     rs \in {<<a, b>> : a \in FirstRules, b \in SecondRules}
            \cup {<<b, a>> : a \in FirstRules, b \in SecondRules},
     w \in Whitelists}
  \cup {[readable |-> FALSE, rules |-> <<>>, whitelist |-> w] : w \in Whitelists}

SomeSettings ==
  {[enabled |-> {}, disabled |-> {}], [enabled |-> {"R1"}, disabled |-> {}],
   [enabled |-> {}, disabled |-> {"R2"}]}

SomeEvents ==
  {[monitor |-> "network", field |-> [name |-> t, port |-> p]] :
     t \in {{"<null>"}, {}, {"evil"}, {"evil", "dev"}}, p \in {{"0"}, {"1"}, {"2"}, {"<null>"}}}
  \cup {[monitor |-> "process",
         field |-> [process_name |-> n, parent_name |-> {"dev"}, signer |-> s, name |-> {"evil"},
                    is_microsoft_signed |-> m]] :
          n \in {{"sh"}, {"cmd"}}, s \in {{}, {"ms"}}, m \in {{"yes"}, {"no"}}}
  \cup {[monitor |-> "file", field |-> [file_path |-> f, name |-> {"evil"}]] :
          f \in {{"tmp"}, {"safe", "tmp"}}}

Engine == INSTANCE RuleEngine WITH
  MaxEvents <- RulesEvents, last <- result

\* A rule of a file has the fields that _parse_rule() reads; a severity is a number.
ASSUME RulesAssumption == \A f \in Files : f.rules \in Seq(Engine!RuleRecords)

-----------------------------------------------------------------------------
chainVariables == <<tick, arrived, inHand, history, office, downloads, failures, lastMatch, handled,
                    alerts>>
engineVariables == <<file, settings, rules, disabled, active, whitelist, engine, metrics, result>>
detectionVars == <<detector, vars, chainVariables, engineVariables>>

\* The state a detector rests in: of those it can begin in, one is enough.
OneFile == CHOOSE f \in Files : ~f.readable
OneSetting == CHOOSE s \in Settings : TRUE

DetectionInit ==
  /\ detector \in {"behavior", "chains", "rules"}
  /\ Init /\ Chains!Init /\ Engine!Init
  /\ detector # "rules" => file = OneFile /\ settings = OneSetting

DetectionNext ==
  /\ UNCHANGED detector
  /\ \/ detector = "behavior" /\ Next /\ UNCHANGED <<chainVariables, engineVariables>>
     \/ detector = "chains" /\ Chains!Next /\ UNCHANGED <<vars, engineVariables>>
     \/ detector = "rules" /\ Engine!Next /\ UNCHANGED <<vars, chainVariables>>

DetectionSpec == DetectionInit /\ [][DetectionNext]_detectionVars

\* Workers and trackers are interchangeable.
Symmetry == Permutations(Workers) \cup Permutations(Trackers)

-----------------------------------------------------------------------------
\* A suspicious success rests on failures of the window (correlation.py); see
\* Correlation.
StuffingGrounded == Chains!StuffingGrounded

\* The event that ends a chain is matched (correlation.py); see Correlation.
EndedChainsReported == Chains!EndedChainsReported

\* A valid and enabled rule that holds is reported (rule_engine.py, engine.py); see
\* RuleEngine.
EnabledRulesReported == Engine!EnabledRulesReported

\* What a rule's exclusion clause lists is left out (config/rules.yaml); see
\* RuleEngine.
ExclusionsHonoured == Engine!ExclusionsHonoured

\* A rule with an operator that does not exist is skipped (rule_engine.py); see
\* RuleEngine.
UnreadableRulesSkipped == Engine!UnreadableRulesSkipped
=============================================================================
