------------------------------- MODULE Outbox -------------------------------
(***************************************************************************)
(* What the SOC export of integrations/secureops.py promises to whoever     *)
(* hands it an alert: the alert is held until the other side has it or has  *)
(* refused it.  The other side may get an alert more than once; nothing is  *)
(* ever forgotten, whatever crashes.                                        *)
(***************************************************************************)
CONSTANT Alerts

VARIABLES
  held,     \* alerts accepted and not yet let go
  taken,    \* alerts the other side has
  refused   \* alerts put aside because the other side refused them

vars == <<held, taken, refused>>

Init == held = {} /\ taken = {} /\ refused = {}

Accept(a) ==
  /\ a \notin held \cup taken \cup refused
  /\ held' = held \cup {a}
  /\ UNCHANGED <<taken, refused>>

\* The other side takes some alerts; the sender need not learn of it.
Take(S) ==
  /\ S \subseteq held
  /\ taken' = taken \cup S
  /\ UNCHANGED <<held, refused>>

\* The sender lets go of what the other side is known to have.
Release(S) ==
  /\ S \subseteq held \cap taken
  /\ held' = held \ S
  /\ UNCHANGED <<taken, refused>>

Refuse(S) ==
  /\ S \subseteq held
  /\ held' = held \ S
  /\ refused' = refused \cup S
  /\ UNCHANGED taken

Next ==
  \/ \E a \in Alerts : Accept(a)
  \/ \E S \in SUBSET Alerts : Take(S) \/ Release(S) \/ Refuse(S)

Spec == Init /\ [][Next]_vars
=============================================================================
