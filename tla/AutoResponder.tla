--------------------------- MODULE AutoResponder ---------------------------
(***************************************************************************)
(* The auto responder (response/auto_responder.py): respond() for a threat, *)
(* as a task of the event loop, and rollback_action() for what it recorded. *)
(* Nothing in the application calls it yet; the model calls it once for     *)
(* every threat, and a user may cancel the task or roll its actions back.   *)
(*                                                                         *)
(* The system is the processes a pid has stood for: proc[p] is the number   *)
(* of the process that has the pid, and whether it runs.  Forensics and the *)
(* user alert are files and log lines; blocking is a firewall rule on       *)
(* Windows and nothing elsewhere.                                          *)
(***************************************************************************)
EXTENDS Naturals, Sequences, FiniteSets, SequencesExt

CONSTANTS
  Threats, Pids,
  Modes,         \* response modes looked at, of "manual", "semi_auto", "full_auto"
  Categories,    \* attack categories looked at
  Windows,       \* whether this is Windows, both if a set of two
  MaxProcesses   \* bound: how many processes there are with one pid

VARIABLES
  mode, onWindows,
  threat,   \* what each threat says: [category, pid, severe]
  proc,     \* proc[p]: the process with pid p
  rules,    \* pids for whose program there is a firewall rule
  response, \* response[t]: where respond() is
  status,   \* threat.response_status
  results,  \* the results of the actions so far
  recorded  \* threat.automated_actions

vars == <<mode, onWindows, threat, proc, rules, response, status, results, recorded>>

\* _get_playbook_actions()
Playbook(category) ==
  CASE category = "RANSOMWARE"        -> <<"suspend", "block_network", "forensics">>
    [] category = "MALWARE_EXECUTION" -> <<"suspend", "forensics">>
    [] category = "CREDENTIAL_THEFT"  -> <<"kill", "alert">>
    [] category = "C2_COMMUNICATION"  -> <<"block_network", "forensics">>
    [] OTHER                          -> <<>>

\* A threat without a pid
NoPid == "<no pid>"
ThreatRecords == [category : Categories, pid : Pids \cup {NoPid}, severe : BOOLEAN]

Init ==
  /\ mode \in Modes /\ onWindows \in Windows
  /\ threat \in [Threats -> ThreatRecords]
  /\ proc = [p \in Pids |-> [nr |-> 1, state |-> "running"]]
  /\ rules = {}
  /\ response = [t \in Threats |-> "new"]
  /\ status = [t \in Threats |-> "none"]
  /\ results = [t \in Threats |-> <<>>]
  /\ recorded = [t \in Threats |-> <<>>]

-----------------------------------------------------------------------------
\* A process ends, and another one gets its pid.
Exit(p) ==
  /\ proc[p].state # "gone"
  /\ proc' = [proc EXCEPT ![p].state = "gone"]
  /\ UNCHANGED <<mode, onWindows, threat, rules, response, status, results, recorded>>

Reuse(p) ==
  /\ proc[p].state = "gone" /\ proc[p].nr < MaxProcesses
  /\ proc' = [proc EXCEPT ![p] = [nr |-> @.nr + 1, state |-> "running"]]
  /\ UNCHANGED <<mode, onWindows, threat, rules, response, status, results, recorded>>

-----------------------------------------------------------------------------
\* respond(): nothing in manual mode, for other severities, or without a playbook;
\* a confirmation is waited for in semi-automatic mode.
Begin(t) ==
  /\ response[t] = "new"
  /\ IF mode = "manual" \/ ~threat[t].severe \/ Playbook(threat[t].category) = <<>>
     THEN response' = [response EXCEPT ![t] = "over"] /\ UNCHANGED status
     ELSE IF mode = "semi_auto"
     THEN response' = [response EXCEPT ![t] = "confirming"] /\ UNCHANGED status
     ELSE /\ response' = [response EXCEPT ![t] = "acting"]
          /\ status' = [status EXCEPT ![t] = "executing"]
  /\ UNCHANGED <<mode, onWindows, threat, proc, rules, results, recorded>>

\* _wait_for_confirmation(): the timeout approves ...
Approve(t) ==
  /\ response[t] = "confirming"
  /\ response' = [response EXCEPT ![t] = "acting"]
  /\ status' = [status EXCEPT ![t] = "executing"]
  /\ UNCHANGED <<mode, onWindows, threat, proc, rules, results, recorded>>

\* ... and a cancelled task does not.
Cancel(t) ==
  /\ response[t] = "confirming"
  /\ response' = [response EXCEPT ![t] = "over"]
  /\ status' = [status EXCEPT ![t] = "cancelled"]
  /\ UNCHANGED <<mode, onWindows, threat, proc, rules, results, recorded>>

Result(a, ok, undo) == [action |-> a, success |-> ok, undo |-> undo]

\* _execute_actions(): the next action of the playbook is a, and this is its result.
\* The actions run without a pause of the event loop, but not of the system.
Answers(t, a, ok, undo) ==
  /\ response[t] = "acting"
  /\ Len(results[t]) < Len(Playbook(threat[t].category))
  /\ Playbook(threat[t].category)[Len(results[t]) + 1] = a
  /\ results' = [results EXCEPT ![t] = Append(@, Result(a, ok, undo))]
  /\ UNCHANGED <<mode, onWindows, threat, response, status, recorded>>

\* The threat names a process, and it is there.
Named(t) == threat[t].pid \in Pids
There(t) == Named(t) /\ proc[threat[t].pid].state # "gone"

\* A process that is gone counts as dealt with.
Suspend(t) ==
  \/ /\ There(t)
     /\ Answers(t, "suspend", TRUE, "resume_process")
     /\ proc' = [proc EXCEPT ![threat[t].pid].state = "suspended"]
     /\ UNCHANGED rules
  \/ /\ Named(t) /\ ~There(t)
     /\ Answers(t, "suspend", TRUE, "")
     /\ UNCHANGED <<proc, rules>>

Kill(t) ==
  /\ Named(t)
  /\ Answers(t, "kill", TRUE, "")
  /\ IF There(t)
     THEN proc' = [proc EXCEPT ![threat[t].pid].state = "gone"]
     ELSE UNCHANGED proc
  /\ UNCHANGED rules

\* Outside Windows no rule is made.
BlockProcessNetwork(t) ==
  /\ There(t)
  /\ Answers(t, "block_network", TRUE, IF onWindows THEN "rule_name" ELSE "")
  /\ rules' = IF onWindows THEN rules \cup {threat[t].pid} ELSE rules
  /\ UNCHANGED proc

CollectForensics(t) ==
  Answers(t, "forensics", TRUE, "") /\ UNCHANGED <<proc, rules>>

AlertUser(t) ==
  Answers(t, "alert", TRUE, "") /\ UNCHANGED <<proc, rules>>

\* Access is denied, netsh or the file system fails; or the process to be blocked is
\* gone, or the threat names none (process 0 has no program to block).  A rule that
\* netsh refuses is given rollback data all the same.
ActionFails(t) ==
  /\ \/ \E a \in {"suspend", "kill", "forensics"} : Answers(t, a, FALSE, "")
     \/ \E undo \in {"rule_name", ""} :
          /\ undo = "rule_name" => onWindows /\ There(t)
          /\ Answers(t, "block_network", FALSE, undo)
  /\ UNCHANGED <<proc, rules>>

\* The status of a response: partial success is success.
Outcome(rs) == IF \E i \in DOMAIN rs : rs[i].success THEN "executed" ELSE "failed"

\* Mutant: only what succeeded is recorded, and without its rollback data.
RecordsBare(rs) == [i \in DOMAIN rs |-> [rs[i] EXCEPT !.undo = ""]]

\* to_record() of the results.
Records(rs) == rs

Finish(t) ==
  /\ response[t] = "acting"
  /\ Len(results[t]) = Len(Playbook(threat[t].category))
  /\ status' = [status EXCEPT ![t] = Outcome(results[t])]
  /\ recorded' = [recorded EXCEPT ![t] = Records(results[t])]
  /\ response' = [response EXCEPT ![t] = "over"]
  /\ UNCHANGED <<mode, onWindows, threat, proc, rules, results>>

\* rollback_action() of a record: a suspended process is resumed.  The data of a
\* firewall rule for a process name no action, which is refused; so is a record
\* without data.  It leaves the record as it is.
RollBack(t, i) ==
  /\ response[t] = "over" /\ i \in DOMAIN recorded[t]
  /\ recorded[t][i].undo = "resume_process"
  /\ There(t) /\ proc[threat[t].pid].state = "suspended"
  /\ proc' = [proc EXCEPT ![threat[t].pid].state = "running"]
  /\ UNCHANGED <<mode, onWindows, threat, rules, response, status, results, recorded>>

Next ==
  \/ \E p \in Pids : Exit(p) \/ Reuse(p)
  \/ \E t \in Threats : \/ Begin(t) \/ Approve(t) \/ Cancel(t) \/ Finish(t)
                        \/ Suspend(t) \/ Kill(t) \/ BlockProcessNetwork(t)
                        \/ CollectForensics(t) \/ AlertUser(t) \/ ActionFails(t)
                        \/ \E i \in 1..3 : RollBack(t, i)

Spec == Init /\ [][Next]_vars

-----------------------------------------------------------------------------
(* Properties *)

\* "Store rollback_data before each destructive action": a process found
\* suspended when no response is under way can be resumed with the record of the
\* response that suspended it - also if its pid changed hands in between.
SuspensionsUndoable ==
  \A p \in Pids :
    proc[p].state = "suspended" /\ (\A t \in Threats : response[t] # "acting") =>
      \E t \in Threats : threat[t].pid = p
        /\ \E i \in DOMAIN recorded[t] : recorded[t][i].undo = "resume_process"
-----------------------------------------------------------------------------
(* What makes SuspensionsUndoable inductive. *)

Actions == {"suspend", "kill", "block_network", "forensics", "alert"}

\* Every variable keeps its type.
TypeOK ==
  /\ mode \in Modes /\ onWindows \in Windows /\ rules \subseteq Pids
  /\ threat \in [Threats -> ThreatRecords]
  /\ proc \in [Pids -> [nr : Nat, state : {"running", "suspended", "gone"}]]
  /\ response \in [Threats -> {"new", "confirming", "acting", "over"}]
  /\ status \in [Threats -> {"none", "executing", "cancelled", "executed", "failed"}]
  /\ results \in [Threats -> Seq([action : Actions, success : BOOLEAN,
                                  undo : {"", "resume_process", "rule_name"}])]
  /\ recorded \in [Threats -> Seq([action : Actions, success : BOOLEAN,
                                   undo : {"", "resume_process", "rule_name"}])]

\* One of the results tells how to resume the process.
Resumable(rs) == \E i \in DOMAIN rs : rs[i].undo = "resume_process"

\* A response is recorded when it is over, and not before.
RecordedAtTheEnd == \A t \in Threats : response[t] # "over" => recorded[t] = <<>>

\* What a suspended process is resumed with is recorded, or about to be.
SuspensionKnown ==
  \A p \in Pids : proc[p].state = "suspended" =>
    \E t \in Threats : /\ threat[t].pid = p
                       /\ \/ Resumable(recorded[t])
                          \/ response[t] = "acting" /\ Resumable(results[t])

IInv == TypeOK /\ RecordedAtTheEnd /\ SuspensionKnown
=============================================================================
