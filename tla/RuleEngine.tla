----------------------------- MODULE RuleEngine -----------------------------
(***************************************************************************)
(* The rules (detection/rule_engine.py) and the pipeline that runs them     *)
(* (detection/engine.py): RuleLoader reads the rules file, RuleEvaluator    *)
(* matches an event against the active rules, and the engine builds threats *)
(* from what the rules, the behavioral detector and the correlation engine  *)
(* find.  Their suppression is DetectionDedup.                             *)
(*                                                                         *)
(* A text is the set of words it contains, a missing field the set {Null}   *)
(* and the empty text {}; where in a text a word stands is left out, and so *)
(* starts_with, ends_with and regex are contains.  A rule of the file is a  *)
(* record; "form" says how far the loader gets with it.                     *)
(***************************************************************************)
EXTENDS Integers, Sequences, FiniteSets, SequencesExt, Filters

CONSTANTS
  Files,       \* the rules files looked at: [readable, rules, whitelist]
  Settings,    \* the settings looked at: [enabled, disabled], sets of rule ids
  Events,      \* the events looked at: [monitor, field], field a function of names
  MaxEvents    \* bound: how many events are processed

VARIABLES
  file, settings,
  rules,      \* _all_rules
  disabled,   \* _disabled
  active,     \* _active_rules
  whitelist,  \* _trusted_processes, _trusted_parent_child, _trusted_paths, ...
  engine,     \* "new", "running" or "failed"
  metrics,    \* events_processed and processing_errors
  last        \* the event processed last, the stage that raised, the threats built

vars == <<file, settings, rules, disabled, active, whitelist, engine, metrics, last>>

Null == "<null>"
Missing == {Null}
Numbers == [w \in {"0", "1", "2"} |-> CASE w = "0" -> 0 [] w = "1" -> 1 [] w = "2" -> 2]

NoWhitelist == [processes |-> {}, pairs |-> {}, paths |-> {}, publishers |-> {}]
Nothing == [event |-> [monitor |-> "none", field |-> <<>>], raised |-> "nothing", threats |-> <<>>]

Init ==
  /\ file \in Files /\ settings \in Settings
  /\ rules = <<>> /\ disabled = {} /\ active = <<>> /\ whitelist = NoWhitelist
  /\ engine = "new" /\ metrics = [processed |-> 0, errors |-> 0] /\ last = Nothing

-----------------------------------------------------------------------------
(* RuleLoader *)

Operators ==
  {"equals", "not_equals", "contains", "not_contains", "contains_any", "contains_all",
   "starts_with", "ends_with", "regex", "in", "not_in", "is_null", "is_not_null",
   "greater_than", "less_than", "gte", "lte"}

\* An operator's name may have another spelling.
Spelled(op) == CASE op = "not contains_any" -> "not_contains"
                 [] op = "not in"           -> "not_in"
                 [] OTHER                   -> op

\* _parse_clauses(): a clause with an unknown operator is left out.
ParseClauses(raws) ==
  LET Parsed(c) == [c EXCEPT !.operator = Spelled(@)]
      known == Kept(raws, {c \in ToSet(raws) : Spelled(c.operator) \in Operators})
  IN  [i \in DOMAIN known |-> Parsed(known[i])]

\* _parse_rule(): an invalid rule raises.
ParseRule(raw) == [raw EXCEPT !.clauses = ParseClauses(@)]

\* Mutant: an invalid rule ends the file.
LoadUpToInvalid(raws) ==
  LET bad == {i \in DOMAIN raws : raws[i].form = "invalid"}
      n == IF bad = {} THEN Len(raws) ELSE (CHOOSE i \in bad : \A j \in bad : i <= j) - 1
  IN  [i \in 1..n |-> ParseRule(raws[i])]

\* load_rules(): invalid rules are skipped.
LoadRules(raws) ==
  LET valid == Kept(raws, {r \in ToSet(raws) : r.form # "invalid"})
  IN  [i \in DOMAIN valid |-> ParseRule(valid[i])]

\* _compute_active_rules()
ActiveRules(rs, off) ==
  Kept(rs, {r \in ToSet(rs) : /\ r.enabled /\ r.id \notin off
                              /\ settings.enabled # {} => r.id \in settings.enabled})

\* disabled_rules of the whitelist are taken out of the active rules.
Suppressed(rs, off) == Kept(rs, {r \in ToSet(rs) : r.id \notin off})

\* initialize() and _load_whitelist(): a value of the whitelist that cannot be
\* converted ends its loading, after the lists before it and before the rules to
\* disable.
Initialize ==
  /\ engine = "new"
  /\ IF ~file.readable
     THEN engine' = "failed" /\ UNCHANGED <<rules, disabled, active, whitelist>>
     ELSE LET loaded == LoadRules(file.rules)
              chosen == ActiveRules(loaded, settings.disabled)
              extra  == IF file.whitelist.broken THEN {} ELSE file.whitelist.disabled
          IN  /\ rules' = loaded
              /\ active' = Suppressed(chosen, extra)
              /\ disabled' = settings.disabled \cup extra
              /\ whitelist' = file.whitelist.trusted
              /\ engine' = "running"
  /\ UNCHANGED <<file, settings, metrics, last>>

-----------------------------------------------------------------------------
(* RuleEvaluator *)

Number(v) == IF v = Missing THEN 0
             ELSE IF \E w \in DOMAIN Numbers : v = {w} THEN Numbers[CHOOSE w \in v : TRUE] ELSE -1

Compares(op, x, y) == CASE op = "greater_than" -> x > y [] op = "less_than" -> x < y
                        [] op = "gte" -> x >= y         [] op = "lte" -> x <= y

\* _apply_operator(): v is the field, c the clause.  A clause written with values
\* has no value, and str(None) is a word of no text.
ApplyOperator(c, v) ==
  CASE c.operator = "is_null"      -> v \in {Missing, {}}
    [] c.operator = "is_not_null"  -> v \notin {Missing, {}}
    [] c.operator = "equals"       -> v = {c.value}
    [] c.operator = "not_equals"   -> v # {c.value}
    [] c.operator \in {"contains", "starts_with", "ends_with", "regex"} -> c.value \in v
    [] c.operator = "not_contains" -> c.value \notin v
    [] c.operator = "contains_any" -> \E w \in c.values : w \in v
    [] c.operator = "contains_all" -> v # Missing /\ \A w \in c.values : w \in v
    [] c.operator = "in"           -> \E w \in c.values : v = {w}
    [] c.operator = "not_in"       -> \A w \in c.values : v # {w}
    [] OTHER -> /\ Number(v) >= 0 /\ Number({c.value}) >= 0
                /\ Compares(c.operator, Number(v), Number({c.value}))

\* _extract_field(): a field the event does not have is missing, whatever monitor
\* the clause is written for.
ExtractField(e, name) == IF name \in DOMAIN e.field THEN e.field[name] ELSE Missing

\* A clause whose field is no text raises when it is evaluated.
Raises(r) == \E i \in DOMAIN r.clauses : r.clauses[i].field = "<number>"

\* _evaluate_rule(): threshold and behavioral rules match nothing, and neither does
\* a rule without clauses or one that raises.
EvaluateRule(r, e) ==
  LET holds(c) == ApplyOperator(c, ExtractField(e, c.field))
  IN  /\ r.clauses # <<>> /\ ~Raises(r)
      /\ \/ r.condition = "all" /\ \A i \in DOMAIN r.clauses : holds(r.clauses[i])
         \/ r.condition = "any" /\ \E i \in DOMAIN r.clauses : holds(r.clauses[i])

\* evaluate()
Evaluate(e) == Kept(active, {r \in ToSet(active) : EvaluateRule(r, e)})

-----------------------------------------------------------------------------
(* DetectionEngine *)

\* _is_whitelisted(): processes and files of trusted names, parents, paths, signers.
IsWhitelisted(e) ==
  LET value(name) == ExtractField(e, name)
  IN  \/ /\ e.monitor = "process"
         /\ \/ \E w \in whitelist.processes : value("process_name") = {w}
            \/ \E p \in whitelist.pairs : value("parent_name") = {p[1]} /\ value("process_name") = {p[2]}
            \/ value("image_path") \cap whitelist.paths # {}
            \/ value("is_microsoft_signed") = {"yes"}
            \/ \E w \in whitelist.publishers : value("signer") = {w}
      \/ e.monitor = "file" /\ value("file_path") \cap whitelist.paths # {}

\* _build_threat_from_rules(): one threat for all rules, as severe as the first of
\* the most severe of them.
ThreatFromRules(rs) ==
  LET worst == CHOOSE i \in DOMAIN rs : \A j \in DOMAIN rs :
                 rs[j].severity < rs[i].severity \/ (rs[j].severity = rs[i].severity /\ i <= j)
  IN  [ids |-> {rs[i].id : i \in DOMAIN rs}, severity |-> rs[worst].severity, primary |-> rs[worst].id]

\* _build_threat_from_behavioral() and _build_threat_from_correlation(): one threat
\* for each pattern.
ThreatFromPattern(p) == [ids |-> {p}, severity |-> 2, primary |-> p]

\* _run_detection_pipeline(): what the stages have found goes to the deduplication
\* only when all of them are over; process_event() counts the exception of one.
ProcessEvent(e, patterns, raised) ==
  /\ engine = "running" /\ metrics.processed < MaxEvents
  /\ LET matched == Evaluate(e)
         byRules == IF matched = <<>> THEN <<>> ELSE <<ThreatFromRules(matched)>>
         others  == [i \in DOMAIN patterns |-> ThreatFromPattern(patterns[i])]
         skipped == IsWhitelisted(e)
     IN  /\ skipped => raised = "nothing" /\ patterns = <<>>
         /\ last' = [event   |-> e, raised |-> raised,
                     threats |-> IF skipped \/ raised # "nothing" THEN <<>> ELSE byRules \o others]
  /\ metrics' = [processed |-> metrics.processed + 1,
                 errors    |-> metrics.errors + (IF raised = "nothing" THEN 0 ELSE 1)]
  /\ UNCHANGED <<file, settings, rules, disabled, active, whitelist, engine>>

Next ==
  \/ Initialize
  \/ \E e \in Events, patterns \in {<<>>, <<"BURST">>, <<"BURST", "CHAIN">>},
        raised \in {"nothing", "rules", "behavioral", "correlation"} :
       ProcessEvent(e, patterns, raised)

Spec == Init /\ [][Next]_vars

-----------------------------------------------------------------------------
(* Properties *)

\* The rules that the threats of the last event name.
Named == UNION {last.threats[i].ids : i \in DOMAIN last.threats}

\* "Operator values are valid": the loader can read every clause of r.
Readable(r) == \A k \in DOMAIN r.clauses : Spelled(r.clauses[k].operator) \in Operators

\* "Invalid rules are logged and skipped (system degrades gracefully)": whatever
\* else is in the file, and whatever other rules do with the event, a valid rule
\* that is enabled and holds is named by a threat as severe as it is, or more,
\* unless a stage raised or the event is trusted.  A rule with an operator that
\* does not exist is not valid.
EnabledRulesReported ==
  last.raised = "nothing" /\ last.event # Nothing.event /\ ~IsWhitelisted(last.event) =>
    \A i \in DOMAIN file.rules :
      LET r == file.rules[i]
      IN  /\ r.form = "valid" /\ Readable(r) /\ r.enabled
          /\ r.id \notin settings.disabled \cup file.whitelist.disabled
          /\ settings.enabled # {} => r.id \in settings.enabled
          /\ EvaluateRule(ParseRule(r), last.event)
          => \E j \in DOMAIN last.threats :
               r.id \in last.threats[j].ids /\ r.severity <= last.threats[j].severity

\* Common dev server (config/rules.yaml:1478), a process that rule R026 leaves out
\* with "not contains_any": a rule that has to hold altogether is not named for an
\* event whose field contains a word that such a clause lists.
ExclusionsHonoured ==
  \A i \in DOMAIN file.rules :
    file.rules[i].id \in Named /\ file.rules[i].condition = "all" =>
      \A k \in DOMAIN file.rules[i].clauses :
        LET c == file.rules[i].clauses[k]
        IN  c.operator = "not contains_any" => c.values \cap ExtractField(last.event, c.field) = {}

\* "Operator values are valid", "Invalid rules are logged and skipped": no rule is
\* named of which the loader (_parse_clauses()) could not read a clause.
UnreadableRulesSkipped ==
  \A i \in DOMAIN file.rules : file.rules[i].id \in Named => Readable(file.rules[i])

-----------------------------------------------------------------------------
(* What makes EnabledRulesReported inductive. *)

\* The operator of a clause is as somebody spelled it, or one of those there are.
ClauseRecords ==
  [monitor : STRING, field : STRING, operator : STRING \cup Operators,
   value : STRING, values : SUBSET STRING]

RuleRecords ==
  [id : STRING, form : {"valid", "invalid"}, enabled : BOOLEAN, severity : Nat,
   condition : STRING, clauses : Seq(ClauseRecords)]

\* Every variable keeps its type.
TypeOK ==
  /\ file \in Files /\ settings \in Settings
  /\ engine \in {"new", "running", "failed"}
  /\ rules \in Seq(RuleRecords) /\ active \in Seq(RuleRecords)

\* The rules to disable that _load_whitelist() came to.
DisabledByWhitelist == IF file.whitelist.broken THEN {} ELSE file.whitelist.disabled

\* The active rules are those of the file and the settings that are running.
ActiveAreChosen ==
  engine = "running" =>
    active = Suppressed(ActiveRules(LoadRules(file.rules), settings.disabled), DisabledByWhitelist)

\* The first threat of the last event is the one built from the rules, if any holds.
RulesComeFirst ==
  /\ engine # "running" => last = Nothing
  /\ last # Nothing /\ last.raised = "nothing" /\ ~IsWhitelisted(last.event) =>
       LET matched == Evaluate(last.event)
       IN  matched # <<>> =>
             1 \in DOMAIN last.threats /\ last.threats[1] = ThreatFromRules(matched)

IInv == TypeOK /\ ActiveAreChosen /\ RulesComeFirst
=============================================================================
