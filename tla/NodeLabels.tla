------------------------------ MODULE NodeLabels ------------------------------
(***************************************************************************)
(* The nodes of each label (label_nodes) and the iterator of a Boolean     *)
(* expression over node labels (ltj_iterator_node_expr), which the join    *)
(* asks for the nodes of one variable.                                     *)
(*                                                                         *)
(* A label keeps its nodes and a sentinel above the last node.  To leave a *)
(* label from a node on, it tries the next RunLength ids one by one and    *)
(* then looks up the end of the run, which the constructor noted for runs  *)
(* of at least that length.  The run that the sentinel ends is not noted.  *)
(***************************************************************************)
EXTENDS LeastId, Sequences, FiniteSets

CONSTANTS
  MaxS,        \* m_max_s: nodes are 1 .. MaxS
  RunLength,   \* template parameter length
  LabelSets,   \* the labels explored: sequences of sets of nodes
  Exprs,       \* the expressions explored, with their parts
  AllOnes,     \* the largest value_type (32 bits), above every id
  Strays       \* words the build may find in front of m_next_0

ASSUME NodesAssumption ==
  /\ MaxS \in Nat \ {0} /\ RunLength \in Nat \ {0} /\ AllOnes \in Nat /\ AllOnes > MaxS + 1
  /\ LabelSets \subseteq Seq(SUBSET (1 .. MaxS)) /\ Strays \subseteq Nat

\* Expressions are trees, over labels that there are.
Parts(e) == IF e.type \in {"OR", "AND"} THEN {e.args[k] : k \in DOMAIN e.args} ELSE {}

ASSUME ExprAssumption ==
  /\ \A e \in Exprs :
       \/ e.type \in {"LAB", "NEG"} /\ \A L \in LabelSets : e.label \in DOMAIN L
       \/ e.type \in {"OR", "AND"} /\ e.args \in Seq(Exprs) /\ e.args # <<>>
  /\ \A S \in SUBSET Exprs : S # {} => \E e \in S : Parts(e) \cap S = {}

Ids == 1 .. MaxS
Sentinel == MaxS + 1
BvSize == Sentinel + 1       \* m_bv_nodes.size()

VARIABLES
  labels,      \* the nodes of each label
  stray,
  expr,        \* m_expr
  m_value,
  mode, ret,   \* the protocol with the join: see IteratorSpec
  busy,        \* a conjunction is being asked, from c on
  c, ans, ok, i

vars == <<labels, stray, expr, m_value, mode, ret, busy, c, ans, ok, i>>
index == <<labels, stray, expr>>
call == <<busy, c, ans, ok, i>>

-----------------------------------------------------------------------------
(***************************************************************************)
(* label_nodes                                                             *)
(***************************************************************************)
\* Of the nodes V of a label:
BvNodes(V) == V \union {Sentinel}

\* succ_support_sd::succ: the first one from n on, the size when there is none.
Succ(V, n) == LET w == LeastFrom(BvNodes(V), n) IN IF w = 0 THEN BvSize ELSE w

NextZero(V, n) == Least({z \in n .. BvSize : z \notin BvNodes(V)})

\* The runs that the constructor notes: where they begin; m_next_0 says where each ends.
Runs(V) ==
  {b \in BvNodes(V) : /\ b - 1 \notin V /\ b .. b + RunLength - 1 \subseteq BvNodes(V)
                      /\ NextZero(V, b) < Sentinel}

\* m_next_0[k], reading past both ends as the build does: stray, and a word of zeros.
Next0(V, w, k) ==
  IF k < 0 THEN w
  ELSE IF k >= Cardinality(Runs(V)) THEN 0
  ELSE NextZero(V, CHOOSE b \in Runs(V) : Cardinality({a \in Runs(V) : a < b}) = k)

\* m_rank_runs, over the beginnings of the runs and the sentinel
RankRuns(V, n) == Cardinality({b \in Runs(V) \union {Sentinel} : b < n})

NextNode(V, n) == IF n >= BvSize THEN 0 ELSE Succ(V, n)

\* The ids tried that are not in V.
Tried(V, n) == {m \in n .. n + RunLength - 1 : Succ(V, m) > m}

RankBeforeTries(V, w, n) ==   \* mutant: the run is looked up from where the tries began
  IF n >= BvSize THEN 0
  ELSE IF Tried(V, n) # {} THEN Least(Tried(V, n))
  ELSE Next0(V, w, RankRuns(V, n) - 1)

NextNegNode(V, w, n) ==
  IF n >= BvSize THEN 0
  ELSE IF Tried(V, n) # {} THEN Least(Tried(V, n))
  ELSE Next0(V, w, RankRuns(V, n + RunLength) - 1)

\* The search answers what it should when the last node is in no run of RunLength nodes.
LeavesTheEnd(V) == ~(MaxS - RunLength + 1 .. MaxS \subseteq V)

\* ring_pg: next_node_label, next_node_neg_label
InRange(n) == IF n > MaxS THEN 0 ELSE n

-----------------------------------------------------------------------------
(***************************************************************************)
(* next_node_rec, over the labels L and the word w.  A conjunction asks    *)
(* its parts in turn, each from the value reached, until all of them in a  *)
(* row answered that value.  A disjunction that no part answers returns    *)
(* AllOnes: its value of 32 bits never equals the -1ULL it is compared     *)
(* with.                                                                   *)
(***************************************************************************)
Asked(args, k) == args[k + 1]
Values == 0 .. Sentinel \union {AllOnes}

\* The locals of its loop, and one turn; of has what the parts answer.
Locals(args) == [ans : Values, ok : 0 .. Len(args), i : 0 .. Len(args) - 1]
Ended(args, t) == t.ans = 0 \/ t.ok = Len(args)
NextTurn(args, of, t) ==
  LET aux == of[Asked(args, t.i)][t.ans]
  IN  [ans |-> aux, ok |-> IF aux = t.ans THEN t.ok + 1 ELSE 1, i |-> (t.i + 1) % Len(args)]

\* What it answers in at most that many turns.
MostTurns(args) == Len(args) * (MaxS + 2)
Conjunction(args, of, from) ==
  LET loop[k \in 0 .. MostTurns(args)] ==
        [t \in Locals(args) |->
           IF k = 0 \/ Ended(args, t) THEN t.ans ELSE loop[k - 1][NextTurn(args, of, t)]]
  IN loop[MostTurns(args)][[ans |-> from, ok |-> 0, i |-> 0]]

NextOf(L, w, e, of, from) ==
  CASE e.type = "LAB" -> InRange(NextNode(L[e.label], from))
    [] e.type = "NEG" -> InRange(NextNegNode(L[e.label], w, from))
    [] e.type = "OR"  -> Least({AllOnes} \union {of[e.args[k]][from] : k \in DOMAIN e.args})
    [] e.type = "AND" -> Conjunction(e.args, of, from)

NextNodeRec(L, w, e, from) ==
  LET of[x \in Exprs] == [n \in Values |-> NextOf(L, w, x, of, n)] IN of[e][from]

-----------------------------------------------------------------------------
(***************************************************************************)
(* leap, down and up.  The join asks with rising bounds; it goes down by   *)
(* ids only, as an iterator of triples answers every variable too.         *)
(***************************************************************************)
MayAsk(b) ==
  /\ ~busy
  /\ \/ mode = "idle"
     \/ mode = "leap" /\ ret.v \in Ids /\ b >= ret.v
     \/ mode = "back" /\ b > ret.c

Answered(b, v) == ret' = [x |-> "x", c |-> b, v |-> v] /\ mode' = "leap"

Ask(e, n) == NextNodeRec(labels, stray, e, n)

\* leap(var) is leap(var, 1)
Leap(b) ==
  /\ MayAsk(b) /\ expr.type # "AND"
  /\ Answered(b, Ask(expr, b))
  /\ UNCHANGED <<index, m_value, call>>

LeapAnd(b) ==
  /\ MayAsk(b) /\ expr.type = "AND"
  /\ busy' = TRUE /\ c' = b /\ ans' = b /\ ok' = 0 /\ i' = 0
  /\ UNCHANGED <<index, m_value, mode, ret>>

NoWrap(aux) ==             \* mutant: after the last part comes none
  /\ ans' = aux /\ i' = i + 1
  /\ IF aux = 0 \/ ok' = Len(expr.args)
     THEN Answered(c, aux) /\ busy' = FALSE
     ELSE UNCHANGED <<mode, ret, busy>>
  /\ UNCHANGED <<index, m_value, c>>

Proceed(aux) ==
  /\ ans' = aux /\ i' = (i + 1) % Len(expr.args)
  /\ IF aux = 0 \/ ok' = Len(expr.args)
     THEN Answered(c, aux) /\ busy' = FALSE
     ELSE UNCHANGED <<mode, ret, busy>>
  /\ UNCHANGED <<index, m_value, c>>

AskFromBound ==            \* mutant: the parts are asked from the bound, not from the value reached
  LET aux == Ask(Asked(expr.args, i), c) IN
  busy /\ ok' = (IF aux = ans THEN ok + 1 ELSE 1) /\ Proceed(aux)

\* One turn of the loop of a conjunction.
Turn ==
  LET aux == Ask(Asked(expr.args, i), ans) IN
  busy /\ ok' = (IF aux = ans THEN ok + 1 ELSE 1) /\ Proceed(aux)

Down ==
  /\ ~busy /\ mode = "leap" /\ ret.v \in Ids
  /\ m_value' = ret.v
  /\ ret' = [ret EXCEPT !.c = ret.v, !.v = 0] /\ mode' = "down"
  /\ UNCHANGED <<index, call>>

Up ==
  /\ mode = "down"
  /\ m_value' = 0
  /\ ret' = [ret EXCEPT !.c = m_value, !.v = 0] /\ mode' = "back"
  /\ UNCHANGED <<index, call>>

-----------------------------------------------------------------------------
Init ==
  /\ labels \in LabelSets /\ stray \in Strays /\ expr \in Exprs
  /\ m_value = 0 /\ ans = 0 /\ ok = 0 /\ i = 0 /\ c = 0 /\ busy = FALSE
  /\ mode = "idle" /\ ret = [x |-> "none", c |-> 0, v |-> 0]

\* Bounds of the join: ids and the one after the last.
Next == (\E b \in 1 .. Sentinel : Leap(b) \/ LeapAnd(b)) \/ Turn \/ Down \/ Up

\* A call runs until it returns.
Spec == Init /\ [][Next]_vars /\ WF_vars(Turn)

-----------------------------------------------------------------------------
\* What an expression means: the nodes it holds of.
MeaningOf(L, e, of) ==
  CASE e.type = "LAB" -> L[e.label]
    [] e.type = "NEG" -> Ids \ L[e.label]
    [] e.type = "OR"  -> UNION {of[e.args[k]] : k \in DOMAIN e.args}
    [] e.type = "AND" -> {n \in Ids : \A k \in DOMAIN e.args : n \in of[e.args[k]]}

Meaning(L, e) == LET of[x \in Exprs] == MeaningOf(L, x, of) IN of[e]

\* The locals of a call and its answer are ids, none, or the largest number.
TypeOK ==
  /\ labels \in LabelSets /\ stray \in Strays /\ expr \in Exprs
  /\ m_value \in 0 .. MaxS
  /\ mode \in {"idle", "leap", "down", "back"}
  /\ ret.v \in Values /\ ans \in Values
  /\ busy => ok \in 0 .. Len(expr.args) - 1 /\ i \in 0 .. Len(expr.args) - 1

\* Whatever the runs of the labels and the nesting of the expression, a leap answers the
\* least node from its bound on that the expression holds of; when there is none, 0 or a
\* number that no iterator of triples answers.
Contract == INSTANCE IteratorSpec WITH
  Terms <- {"x"}, Bounds <- 1 .. Sentinel, variables <- {"x"},
  matches <- {[x |-> n] : n \in Meaning(labels, expr)},
  path <- IF mode = "down" THEN <<[x |-> "x", v |-> m_value]>> ELSE <<>>,
  mode <- IF mode = "down" THEN "idle" ELSE mode,
  ret <- [ret EXCEPT !.v = InRange(@)]
AnswersLeastMatch == Contract!Spec

\* A conjunction ends, even when its parts run out in turn.
ConjunctionEnds == busy ~> ~busy

\* The zero after the run that next_neg_node promises lies after the bound: an
\* iterator never leads the join back.
LeavesForward == mode = "leap" /\ ret.v \in Ids => ret.c <= ret.v
=============================================================================
