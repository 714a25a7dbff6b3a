----------------------------- MODULE MCEventBus -----------------------------
(***************************************************************************)
(* Small instances of EventBus for TLC: a CRITICAL event and two NORMAL     *)
(* ones; a wildcard subscriber and one that takes some of the events.       *)
(***************************************************************************)
EXTENDS EventBus

CONSTANTS e1, e2, e3, wild, picky

Prio == [e \in Events |-> IF e = e1 THEN 0 ELSE 2]

Filter == [s \in Subscribers |-> IF s = wild THEN Events ELSE {e1, e2}]

\* publish_many() with a pair: NORMAL before CRITICAL.
OneBatch == {<<e3, e1>>}

NoBatch == {}
=============================================================================
