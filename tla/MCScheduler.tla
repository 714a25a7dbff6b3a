---------------------------- MODULE MCScheduler ----------------------------
(***************************************************************************)
(* Small instances of Scheduler for TLC.  One job and three threads already *)
(* give overlapping runs of it: a chain, its twin and a one-shot.           *)
(***************************************************************************)
EXTENDS Scheduler, TLC
=============================================================================
