---------------------------- MODULE MCSecureOps ----------------------------
(***************************************************************************)
(* Small instances of SecureOps for TLC: a critical alert and low ones, one *)
(* ingest key the server knows and one it does not.                         *)
(***************************************************************************)
EXTENDS SecureOps

CONSTANTS a1, a2, a3, good, wrong

Sev == [a \in Alerts |-> IF a = a1 THEN 0 ELSE 3]
=============================================================================
