--------------------------------- MODULE LTJ ---------------------------------
(***************************************************************************)
(* The search of the leapfrog triejoin over a query: search_v2, search_v3, *)
(* base_postfilter and base_prefilter of ltj_algorithm_pg, which differ    *)
(* only in the seek they call; module Leapfrog shows that all of them      *)
(* answer the least value every iterator of the variable accepts, and one  *)
(* step of this module takes that answer.                                  *)
(*                                                                         *)
(* An iterator is the set of partial assignments it accepts: with bound[k] *)
(* what down left in it, leap(x, c) ranges over the v for which bound[k]   *)
(* extended by x = v is accepted.  Iterators of patterns accept the        *)
(* projections of their matches; those of WHERE may accept more until      *)
(* their last variable is bound.  The variable elimination order is any    *)
(* choice of an unbound variable.                                          *)
(***************************************************************************)
EXTENDS LeastId, Sequences, FiniteSets

CONSTANTS
  Vars,      \* variables a query may use
  Itrs,      \* iterators a query may have
  MaxId,     \* ids are 1 .. MaxId
  Queries    \* the queries joined, a function from their numbers

Ids == 1 .. MaxId

\* s restricted to the variables of V, and s with x bound to v.
On(s, V) == [y \in DOMAIN s \cap V |-> s[y]]
Extend(s, x, v) == [y \in DOMAIN s \union {x} |-> IF y = x THEN v ELSE s[y]]
Unbind(s, x) == On(s, Vars \ {x})
Nothing == [y \in {} |-> 0]

\* accepts[k]: what iterator k accepts; scope[k]: its variables; pattern: the
\* iterators that come from triple patterns; limit 0: no limit.  Every other iterator,
\* of WHERE or of a node expression, is made for a variable.
IsQuery(r) ==
  /\ IsFiniteSet(r.vars)
  /\ r.vars \subseteq Vars /\ r.itrs \subseteq Itrs /\ r.pattern \subseteq r.itrs
  /\ r.limit \in Nat /\ r.timeout \in BOOLEAN
  /\ \A x \in r.vars : \E k \in r.itrs : x \in r.scope[k]
  /\ \A k \in r.itrs :
       /\ r.scope[k] \subseteq r.vars /\ (k \notin r.pattern => r.scope[k] # {})
       /\ \A s \in r.accepts[k] :
            /\ DOMAIN s \subseteq r.scope[k] /\ \A y \in DOMAIN s : s[y] \in Ids
            /\ \A V \in SUBSET r.vars : On(s, V) \in r.accepts[k]

QueryAssumption == \A name \in DOMAIN Queries : IsQuery(Queries[name])
ASSUME QueryAssumption
ASSUME BoundsAssumption == MaxId \in Nat

VARIABLES
  query,    \* number of the query
  pc,       \* enter, seek, return, done (search returned true) or cut (false)
  frames,   \* one record per active search node: its variable x_j, value c, lonely path
  from,     \* lower bound of the next seek of the top node
  bound,    \* bound[k]: the variables iterator k has gone down by, and their values
  cursor,   \* cursor[k]: where seek_last left iterator k
  tuple,    \* the tuple under construction; entries keep old values
  res       \* results collected

vars == <<query, pc, frames, from, bound, cursor, tuple, res>>

q == Queries[query]

Depth == Len(frames)
Top == frames[Depth]
BoundVars == {frames[e].x : e \in 1 .. Depth}

\* m_var_to_iterators[x]
ItrsOf(x) == {k \in q.itrs : x \in q.scope[k]}

Candidates(k, x) == {v \in Ids : Extend(bound[k], x, v) \in q.accepts[k]}
Common(x) == {v \in Ids : \A k \in ItrsOf(x) : v \in Candidates(k, x)}

\* One iterator, of a pattern, with a single term left to bind.
Lonely(x) ==
  \E k \in q.pattern : ItrsOf(x) = {k} /\ q.scope[k] \ DOMAIN bound[k] = {x}

LimitReached == q.limit > 0 /\ Len(res) = q.limit

-----------------------------------------------------------------------------
(***************************************************************************)
(* Entry of a search call: timeout, limit, then a result or a variable.    *)
(***************************************************************************)
Stop ==     \* return false, and so do all callers, without going up
  /\ pc = "enter" /\ (q.timeout \/ LimitReached)
  /\ pc' = "cut"
  /\ UNCHANGED <<query, frames, from, bound, cursor, tuple, res>>

LateLimit ==                \* mutant: the limit is tested when a variable is chosen, not before a result
  /\ pc = "enter" /\ Depth = Cardinality(q.vars)
  /\ res' = Append(res, tuple)
  /\ pc' = IF Depth = 0 THEN "done" ELSE "return"
  /\ UNCHANGED <<query, frames, from, bound, cursor, tuple>>

Report ==
  /\ pc = "enter" /\ ~LimitReached /\ Depth = Cardinality(q.vars)
  /\ res' = Append(res, tuple)
  /\ pc' = IF Depth = 0 THEN "done" ELSE "return"
  /\ UNCHANGED <<query, frames, from, bound, cursor, tuple>>

ChooseAny(x) ==             \* mutant: a variable that is bound can be chosen again
  /\ pc = "enter" /\ ~LimitReached /\ Depth < Cardinality(q.vars)
  /\ x \in q.vars
  /\ frames' = Append(frames, [x |-> x, c |-> 0, lonely |-> Lonely(x)])
  /\ from' = 1
  /\ pc' = "seek"
  /\ UNCHANGED <<query, bound, cursor, tuple, res>>

Choose(x) ==
  /\ pc = "enter" /\ ~LimitReached
  /\ x \in q.vars \ BoundVars
  /\ frames' = Append(frames, [x |-> x, c |-> 0, lonely |-> Lonely(x)])
  /\ from' = 1
  /\ pc' = "seek"
  /\ UNCHANGED <<query, bound, cursor, tuple, res>>

(***************************************************************************)
(* The loop of a search node. seek_last and seek_last_next move the cursor *)
(* of the only iterator; the seeks leap from the bound.                    *)
(***************************************************************************)
LonelyItr == CHOOSE k \in q.itrs : ItrsOf(Top.x) = {k}

Found ==
  IF ~Top.lonely THEN LeastFrom(Common(Top.x), from)
  ELSE IF from = 1 THEN Least(Candidates(LonelyItr, Top.x))
  ELSE LeastFrom(Candidates(LonelyItr, Top.x), cursor[LonelyItr] + 1)

SharedCursor(c) ==          \* mutant: one cursor for all lonely scans, not one in each iterator
  cursor' = IF Top.lonely THEN [k \in DOMAIN cursor |-> c] ELSE cursor

MoveCursor(c) ==
  cursor' = IF Top.lonely THEN [cursor EXCEPT ![LonelyItr] = c] ELSE cursor

Bind(V, x, c) ==
  [k \in q.itrs |-> IF k \in V THEN Extend(bound[k], x, c) ELSE bound[k]]

ForgetfulDescend ==         \* mutant: only the first iterator of the variable goes down
  /\ pc = "seek" /\ Found # 0
  /\ LET x == Top.x IN
     /\ MoveCursor(Found)
     /\ tuple' = [tuple EXCEPT ![x] = Found]
     /\ frames' = [frames EXCEPT ![Depth].c = Found]
     /\ bound' = Bind({CHOOSE k \in ItrsOf(x) : TRUE}, x, Found)
  /\ pc' = "enter"
  /\ UNCHANGED <<query, from, res>>

Descend ==
  /\ pc = "seek" /\ Found # 0
  /\ LET x == Top.x IN
     /\ MoveCursor(Found)
     /\ tuple' = [tuple EXCEPT ![x] = Found]
     /\ frames' = [frames EXCEPT ![Depth].c = Found]
     /\ bound' = Bind(ItrsOf(x), x, Found)
  /\ pc' = "enter"
  /\ UNCHANGED <<query, from, res>>

StayDown ==                 \* mutant: the iterators do not go up before the next seek
  /\ pc = "return"
  /\ from' = Top.c + 1
  /\ pc' = "seek"
  /\ UNCHANGED <<query, frames, bound, cursor, tuple, res>>

StuckAscend ==              \* mutant: the next seek starts from c, not from c + 1
  /\ pc = "return"
  /\ bound' = [k \in q.itrs |-> Unbind(bound[k], Top.x)]
  /\ from' = Top.c
  /\ pc' = "seek"
  /\ UNCHANGED <<query, frames, cursor, tuple, res>>

Ascend ==
  /\ pc = "return"
  /\ bound' = [k \in q.itrs |-> Unbind(bound[k], Top.x)]
  /\ from' = Top.c + 1
  /\ pc' = "seek"
  /\ UNCHANGED <<query, frames, cursor, tuple, res>>

Exhaust ==
  /\ pc = "seek" /\ Found = 0
  /\ MoveCursor(0)
  /\ frames' = SubSeq(frames, 1, Depth - 1)
  /\ pc' = IF Depth = 1 THEN "done" ELSE "return"
  /\ UNCHANGED <<query, from, bound, tuple, res>>

-----------------------------------------------------------------------------
Init ==
  /\ query \in DOMAIN Queries
  \* the constructor found a pattern without any match: the join returns at once
  /\ pc = IF \E k \in q.pattern : Nothing \notin q.accepts[k] THEN "done" ELSE "enter"
  /\ frames = <<>> /\ from = 1 /\ res = <<>>
  /\ bound = [k \in q.itrs |-> Nothing]
  /\ cursor = [k \in q.itrs |-> 0]
  /\ tuple = [x \in q.vars |-> 0]

Next ==
  \/ Stop \/ Report
  \/ \E x \in Vars : Choose(x)
  \/ Descend \/ Ascend \/ Exhaust

\* One thread runs the search to its end.
Spec == Init /\ [][Next]_vars /\ WF_vars(Next)

-----------------------------------------------------------------------------
\* The answers of the query.
Solutions ==
  {s \in [q.vars -> Ids] : \A k \in q.itrs : On(s, q.scope[k]) \in q.accepts[k]}

TypeOK ==
  /\ query \in DOMAIN Queries
  /\ pc \in {"enter", "seek", "return", "done", "cut"}
  /\ frames \in Seq([x : q.vars, c : 0 .. MaxId, lonely : BOOLEAN])
  /\ \A e1, e2 \in 1 .. Depth : frames[e1].x = frames[e2].x => e1 = e2
  /\ from \in 1 .. MaxId + 1
  /\ \A k \in q.itrs : \E V \in SUBSET q.scope[k] : bound[k] \in [V -> Ids]
  /\ cursor \in [q.itrs -> 0 .. MaxId]
  /\ tuple \in [q.vars -> 0 .. MaxId]
  /\ res \in Seq([q.vars -> Ids])

\* Every iterator holds exactly the values that the active search nodes gave to
\* its variables, and nothing of a branch that was left.
IteratorsFollowPath ==
  LET placed == IF pc = "seek" THEN 1 .. Depth - 1 ELSE 1 .. Depth IN
  pc # "done" =>
    \A k \in q.itrs :
      /\ DOMAIN bound[k] = {frames[e].x : e \in placed} \cap q.scope[k]
      /\ \A e \in placed : frames[e].x \in q.scope[k] => bound[k][frames[e].x] = frames[e].c

\* A search that ran to its end leaves every iterator at its root, as the join
\* needs it to be run again.
RestoredWhenDone == pc = "done" => \A k \in q.itrs : bound[k] = Nothing

\* s lies in the part of the search tree that was left already.
Follows(s, d) == \A e \in 1 .. d : s[frames[e].x] = frames[e].c
Passed(s) ==
  \/ pc = "done"
  \/ pc = "return" /\ Follows(s, Depth)
  \/ \E e \in 1 .. Depth :
       /\ Follows(s, e - 1)
       /\ s[frames[e].x] < IF e = Depth /\ pc = "seek" THEN from ELSE frames[e].c

\* At every moment the results are exactly the solutions of the explored part of
\* the tree, each found once: nothing is lost when iterators skip, nothing wrong
\* is reported, and no branch is entered twice.
ResultsArePassedSolutions ==
  /\ \A s \in Solutions : Passed(s) <=> \E r \in DOMAIN res : res[r] = s
  /\ \A r \in DOMAIN res : res[r] \in Solutions
  /\ \A r1, r2 \in DOMAIN res : res[r1] = res[r2] => r1 = r2

\* The limit is never exceeded.
LimitKept == q.limit > 0 => Len(res) <= q.limit

\* The search implements the abstract join.
Status == CASE pc = "done" -> "complete" [] pc = "cut" -> "cut" [] OTHER -> "running"
Join == INSTANCE JoinSpec
          WITH solutions <- Solutions, limit <- q.limit, timeout <- q.timeout, status <- Status
ImplementsJoin == Join!Spec
=============================================================================
