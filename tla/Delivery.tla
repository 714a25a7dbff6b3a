------------------------------ MODULE Delivery ------------------------------
(***************************************************************************)
(* What the bus of core/event_bus.py promises to publishers and             *)
(* subscribers.  Events are taken in one order, that of their priority and  *)
(* among equals that of their acceptance; one is turned away only by a bus  *)
(* that is full or closed.  The event whose turn it is goes to whoever      *)
(* wants it, once each, and every subscriber begins with its events in the  *)
(* order in which it got them.  Nothing is said of events that are dropped  *)
(* on their turn, as an expired one is, nor of an inbox that is emptied.    *)
(***************************************************************************)
EXTENDS Naturals, Sequences, FiniteSets

CONSTANTS Events, NoEvent, Priority, Subscribers, Wants, Capacity

VARIABLES
  open,      \* whether the bus accepts single events
  new,       \* events that have not been offered yet
  waiting,   \* events accepted whose turn has not come
  before,    \* <<e, f>>: both wait, and e was accepted before f
  current,   \* the event whose turn it is
  inbox,     \* inbox[s]: events that s has got and not begun with, in order
  begun      \* begun[s]: events that s has begun with

vars == <<open, new, waiting, before, current, inbox, begun>>

Init ==
  /\ open = FALSE /\ new = Events
  /\ waiting = {} /\ before = {} /\ current = NoEvent
  /\ inbox = [s \in Subscribers |-> <<>>]
  /\ begun = [s \in Subscribers |-> {}]

OpenOrClose ==
  /\ open' \in BOOLEAN
  /\ UNCHANGED <<new, waiting, before, current, inbox, begun>>

\* The ways to accept all of S one after the other.
Orders(S) ==
  {R \in SUBSET (S \X S) :
     /\ \A e, f \in S : e # f => (<<e, f>> \in R <=> <<f, e>> \notin R)
     /\ \A e \in S : <<e, e>> \notin R
     /\ \A e, f, g \in S : <<e, f>> \in R /\ <<f, g>> \in R => <<e, g>> \in R}

\* The events S are accepted, those in D are turned away.
Offer(S, D) ==
  /\ new' = new \ (S \cup D)
  /\ waiting' = waiting \cup S
  /\ Cardinality(waiting') <= Capacity
  /\ D # {} => ~open \/ Cardinality(waiting') = Capacity
  /\ \E R \in Orders(S) : before' = before \cup (waiting \X S) \cup R
  /\ UNCHANGED <<open, current, inbox, begun>>

Urgent(e) ==
  \A f \in waiting \ {e} :
    Priority[e] < Priority[f] \/ (Priority[e] = Priority[f] /\ <<e, f>> \in before)

Take(e) ==
  /\ current = NoEvent
  /\ Urgent(e)
  /\ waiting' = waiting \ {e}
  /\ before' = {p \in before : e \notin {p[1], p[2]}}
  /\ current' = e
  /\ UNCHANGED <<open, new, inbox, begun>>

Give(s) ==
  /\ current # NoEvent
  /\ current \in Wants[s]
  /\ current \notin begun[s] /\ \A i \in 1..Len(inbox[s]) : inbox[s][i] # current
  /\ inbox' = [inbox EXCEPT ![s] = Append(@, current)]
  /\ UNCHANGED <<open, new, waiting, before, current, begun>>

LetGo ==
  /\ current' = NoEvent
  /\ UNCHANGED <<open, new, waiting, before, inbox, begun>>

Begin(s) ==
  /\ inbox[s] # <<>>
  /\ inbox' = [inbox EXCEPT ![s] = Tail(@)]
  /\ begun' = [begun EXCEPT ![s] = @ \cup {Head(inbox[s])}]
  /\ UNCHANGED <<open, new, waiting, before, current>>

Cancel(s) ==
  /\ inbox' = [inbox EXCEPT ![s] = <<>>]
  /\ UNCHANGED <<open, new, waiting, before, current, begun>>

Next ==
  \/ OpenOrClose
  \/ \E S \in SUBSET new : \E D \in SUBSET (new \ S) : Offer(S, D)
  \/ \E e \in waiting : Take(e)
  \/ LetGo
  \/ \E s \in Subscribers : Give(s) \/ Begin(s) \/ Cancel(s)

Spec == Init /\ [][Next]_vars
=============================================================================
