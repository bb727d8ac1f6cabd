------------------------------- MODULE LeastId -------------------------------
(***************************************************************************)
(* What leap, next_S, next_ge and the other successor searches of the      *)
(* index answer: the least element of a set of ids from a bound on, 0 when *)
(* there is none.  Ids start at 1, and 0 stands for "none" everywhere.     *)
(***************************************************************************)
EXTENDS Integers

LeastFrom(S, c) ==
  LET above == {v \in S : c <= v}
  IN  IF above = {} THEN 0 ELSE CHOOSE v \in above : \A w \in above : v <= w

Least(S) == LeastFrom(S, 1)
=============================================================================
