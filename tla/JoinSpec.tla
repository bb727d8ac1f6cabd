------------------------------ MODULE JoinSpec ------------------------------
(***************************************************************************)
(* What a join promises, whatever its algorithm: it collects solutions of  *)
(* the query, each once and never more than the limit, and it ends with    *)
(* all of them unless the limit or the timeout cut it short.               *)
(***************************************************************************)
EXTENDS Integers, Sequences

VARIABLES
  solutions,   \* the assignments that satisfy the query
  limit,       \* most results wanted, 0 for all
  timeout,     \* whether the join may be cut by its timeout
  res,         \* what was collected
  status       \* running, complete or cut

query == <<solutions, limit, timeout>>
vars == <<solutions, limit, timeout, res, status>>

Collected == {res[k] : k \in DOMAIN res}

\* The join may end at once when nothing matches.
Init ==
  /\ limit \in Nat /\ timeout \in BOOLEAN
  /\ res = <<>>
  /\ \/ status = "running"
     \/ status = "complete" /\ solutions = {}

Collect ==
  /\ status = "running" /\ (limit = 0 \/ Len(res) < limit)
  /\ \E s \in solutions \ Collected : res' = Append(res, s)
  /\ \/ status' = "running"
     \/ status' = "complete" /\ Collected' = solutions
  /\ UNCHANGED query

Complete ==
  /\ status = "running" /\ Collected = solutions
  /\ status' = "complete" /\ UNCHANGED <<query, res>>

Cut ==
  /\ status = "running" /\ (timeout \/ (limit > 0 /\ Len(res) = limit))
  /\ status' = "cut" /\ UNCHANGED <<query, res>>

Next == Collect \/ Complete \/ Cut

Spec == Init /\ [][Next]_vars /\ WF_vars(Next)
=============================================================================
