------------------------------- MODULE Filters -------------------------------
(***************************************************************************)
(* What a list comprehension with a condition keeps of a list.  It is the   *)
(* standard SelectSeq for a set instead of a test, written as a recursive   *)
(* function, about which FilterProofs can prove something.                  *)
(***************************************************************************)
EXTENDS Integers, Sequences

\* [x for x in s if x in T]: T says which elements satisfy the condition.
Kept(s, T) ==
  LET f[n \in 0..Len(s)] ==
        IF n = 0 THEN <<>> ELSE IF s[n] \in T THEN Append(f[n - 1], s[n]) ELSE f[n - 1]
  IN  f[Len(s)]
=============================================================================
