--------------------------------- MODULE VEO ---------------------------------
(***************************************************************************)
(* The adaptive variable elimination order (veo_adaptive_pg_v2): the join  *)
(* asks it for the next variable when it opens a search node, tells it of  *)
(* every value it goes down by and comes up from, and of the end of the    *)
(* node.  The order keeps a weight for each variable, recomputes those of  *)
(* the variables related to the one that got a value, and puts them back   *)
(* when the join returns.                                                  *)
(*                                                                         *)
(* What the iterators report (selectivity times interval length) is up to  *)
(* the environment: a search that goes down may find any of Reported.      *)
(* Weights are doubles in the code, and cut to whole numbers where they    *)
(* pass through weight_type (uint64_t): here they count in parts of 1/Unit.*)
(* A variable occurs in a pattern, so one of its intervals is finite and   *)
(* its weight is below the largest weight_type.                            *)
(***************************************************************************)
EXTENDS Integers, Sequences, FiniteSets

CONSTANTS
  Profiles,   \* the queries: [vars, nodes, lonely, related]
  Reported,   \* weights that the iterators may report, in parts of 1/Unit
  Unit

\* vars is 1 .. some number; lonely variables occur in one iterator only, and no
\* comparison or second pattern relates them to another one.
IsProfile(p) ==
  /\ IsFiniteSet(p.vars) /\ p.vars # {} /\ p.vars = 1 .. Cardinality(p.vars)
  /\ p.nodes \subseteq p.vars /\ p.lonely \subseteq p.vars
  /\ p.related \in [p.vars -> SUBSET (p.vars \ p.lonely)]

ASSUME WeightAssumption == Unit \in Nat \ {0} /\ Reported \in SUBSET Nat
ASSUME ProfileAssumption == \A p \in Profiles : IsProfile(p)

VARIABLES
  profile,
  is_bound, weight,   \* m_var_info, of the variables that are not lonely
  m_index,            \* next was called this many times more than done
  m_bound,            \* stack of the variables given, lonely ones excepted
  m_versions,         \* stack of what down overwrote: weights of some variables
  order,              \* the variable of each open search node, outermost first
  saved,              \* the weights when each of them was opened
  pc                  \* choose: a node opens; loop: it has its variable, no value or
                      \* the next; below: the search below a value has ended; done

vars == <<profile, is_bound, weight, m_index, m_bound, m_versions, order, saved, pc>>

Whole(w) == w - (w % Unit)      \* weight_type is uint64_t

NotLonely == profile.vars \ profile.lonely
NotLonelySize == Cardinality(NotLonely)
NodesCount == Cardinality(NotLonely \cap profile.nodes)
Depth == Len(order)

Top(s) == s[Len(s)]
Pop(s) == SubSeq(s, 1, Len(s) - 1)

-----------------------------------------------------------------------------
\* m_lonely: nodes first, then edges, each by number; this is its k-th variable.
LonelyBefore(v, w) ==
  \/ v \in profile.nodes /\ w \notin profile.nodes
  \/ v < w /\ (v \in profile.nodes <=> w \in profile.nodes)
LonelyAt(k) ==
  CHOOSE v \in profile.lonely : Cardinality({w \in profile.lonely : LonelyBefore(w, v)}) = k - 1

EligibleTwice(v) ==         \* mutant: variables that are bound are not passed over
  v \in NotLonely /\ (v \in profile.nodes <=> m_index < NodesCount)

\* The variables next looks at: nodes until there is none left, then edges.
Eligible(v) ==
  v \in NotLonely /\ ~is_bound[v] /\ (v \in profile.nodes <=> m_index < NodesCount)

\* The loop of next keeps the first variable lighter than the whole part of the
\* one it has: it ends with the first of those with the least whole weight.
Lightest ==
  LET S == {v \in profile.vars : Eligible(v)} IN
  CHOOSE v \in S : \A w \in S :
    Whole(weight[v]) < Whole(weight[w]) \/ (Whole(weight[v]) = Whole(weight[w]) /\ v <= w)

Open(v) == order' = Append(order, v) /\ saved' = Append(saved, weight) /\ pc' = "loop"

NextNotLonely ==
  /\ pc = "choose" /\ m_index < NotLonelySize
  /\ is_bound' = [is_bound EXCEPT ![Lightest] = TRUE]
  /\ m_bound' = Append(m_bound, Lightest)
  /\ Open(Lightest)
  /\ m_index' = m_index + 1
  /\ UNCHANGED <<profile, weight, m_versions>>

NextLonely ==
  /\ pc = "choose" /\ m_index >= NotLonelySize
  /\ m_index' = m_index + 1
  /\ Open(LonelyAt(m_index + 1 - NotLonelySize))
  /\ UNCHANGED <<profile, is_bound, weight, m_bound, m_versions>>

-----------------------------------------------------------------------------
Enter == pc' = IF Depth = Cardinality(profile.vars) THEN "below" ELSE "choose"

\* The variables whose weight falls to what the iterators report after a value.
Lowered(report) ==
  {v \in profile.related[Top(m_bound)] : ~is_bound[v] /\ report[v] < Whole(weight[v])}

DownNotLonely(report) ==
  /\ pc = "loop" /\ m_index - 1 < NotLonelySize
  /\ m_versions' = Append(m_versions, [v \in Lowered(report) |-> Whole(weight[v])])
  /\ weight' = [v \in NotLonely |-> IF v \in Lowered(report) THEN report[v] ELSE weight[v]]
  /\ Enter
  /\ UNCHANGED <<profile, is_bound, m_index, m_bound, order, saved>>

DownLonely ==
  /\ pc = "loop" /\ m_index - 1 >= NotLonelySize
  /\ Enter
  /\ UNCHANGED <<profile, is_bound, weight, m_index, m_bound, m_versions, order, saved>>

ForgetWeights ==            \* mutant: the version is dropped, the weights stay
  /\ pc = "below"
  /\ m_versions' = IF m_index - 1 < NotLonelySize THEN Pop(m_versions) ELSE m_versions
  /\ pc' = "loop"
  /\ UNCHANGED <<profile, is_bound, weight, m_index, m_bound, order, saved>>

Up ==
  /\ pc = "below"
  /\ IF m_index - 1 < NotLonelySize
     THEN /\ LET version == Top(m_versions) IN
             weight' = [v \in NotLonely |-> IF v \in DOMAIN version THEN version[v] ELSE weight[v]]
          /\ m_versions' = Pop(m_versions)
     ELSE UNCHANGED <<weight, m_versions>>
  /\ pc' = "loop"
  /\ UNCHANGED <<profile, is_bound, m_index, m_bound, order, saved>>

DoneKeepsBound ==           \* mutant: the variable is not taken off the stack
  /\ pc = "loop"
  /\ m_index' = m_index - 1
  /\ IF m_index' < NotLonelySize
     THEN is_bound' = [is_bound EXCEPT ![Top(m_bound)] = FALSE] /\ UNCHANGED m_bound
     ELSE UNCHANGED <<is_bound, m_bound>>
  /\ order' = Pop(order) /\ saved' = Pop(saved)
  /\ pc' = IF Depth = 1 THEN "done" ELSE "below"
  /\ UNCHANGED <<profile, weight, m_versions>>

DoneEarlyTest ==            \* mutant: the index is tested before it goes down
  /\ pc = "loop"
  /\ m_index' = m_index - 1
  /\ IF m_index < NotLonelySize
     THEN is_bound' = [is_bound EXCEPT ![Top(m_bound)] = FALSE] /\ m_bound' = Pop(m_bound)
     ELSE UNCHANGED <<is_bound, m_bound>>
  /\ order' = Pop(order) /\ saved' = Pop(saved)
  /\ pc' = IF Depth = 1 THEN "done" ELSE "below"
  /\ UNCHANGED <<profile, weight, m_versions>>

Done ==
  /\ pc = "loop"
  /\ m_index' = m_index - 1
  /\ IF m_index' < NotLonelySize
     THEN is_bound' = [is_bound EXCEPT ![Top(m_bound)] = FALSE] /\ m_bound' = Pop(m_bound)
     ELSE UNCHANGED <<is_bound, m_bound>>
  /\ order' = Pop(order) /\ saved' = Pop(saved)
  /\ pc' = IF Depth = 1 THEN "done" ELSE "below"
  /\ UNCHANGED <<profile, weight, m_versions>>

-----------------------------------------------------------------------------
Init ==
  /\ profile \in Profiles
  /\ is_bound = [v \in NotLonely |-> FALSE]
  /\ weight \in [NotLonely -> Reported]
  /\ m_index = 0 /\ m_bound = <<>> /\ m_versions = <<>>
  /\ order = <<>> /\ saved = <<>>
  /\ pc = "choose"

Next ==
  \/ NextNotLonely \/ NextLonely
  \/ \E report \in [NotLonely -> Reported] : DownNotLonely(report)
  \/ DownLonely \/ Up \/ Done

Spec == Init /\ [][Next]_vars

-----------------------------------------------------------------------------
Given == {order[d] : d \in 1 .. Depth}

TypeOK ==
  /\ profile \in Profiles
  /\ is_bound \in [NotLonely -> BOOLEAN]
  /\ weight \in [NotLonely -> Nat]
  /\ m_index \in 0 .. Cardinality(profile.vars)
  /\ m_bound \in Seq(NotLonely) /\ Len(m_bound) <= NotLonelySize
  /\ order \in Seq(profile.vars)
  /\ saved \in Seq([NotLonely -> Nat]) /\ Len(saved) = Depth
  /\ \A d \in 1 .. Len(m_versions) :
       DOMAIN m_versions[d] \subseteq NotLonely /\ m_versions[d] \in [DOMAIN m_versions[d] -> Nat]
  /\ pc \in {"choose", "loop", "below", "done"}

\* Nodes before edges, and what is lonely last.
Rank(v) ==
  CASE v \in NotLonely \cap profile.nodes -> 1
    [] v \in NotLonely \ profile.nodes    -> 2
    [] v \in profile.lonely \cap profile.nodes -> 3
    [] OTHER -> 4

\* However the search goes up and down, the open nodes have different variables,
\* nodes before edges and lonely variables last: the join binds each variable once.
OrderIsLegal ==
  \A d, e \in 1 .. Depth : d < e => order[d] # order[e] /\ Rank(order[d]) <= Rank(order[e])

\* The stacks follow the search: the order holds as bound exactly the variables of
\* the open nodes, with a version for each value the search is below.
StacksFollowSearch ==
  /\ m_index = Depth
  /\ Len(m_bound) <= Depth /\ \A d \in 1 .. Len(m_bound) : m_bound[d] = order[d]
  /\ \A v \in NotLonely : is_bound[v] <=> \E d \in 1 .. Len(m_bound) : m_bound[d] = v
  /\ pc # "done" => Given \ profile.lonely = {m_bound[d] : d \in 1 .. Len(m_bound)}
  /\ pc = "loop" /\ Depth <= NotLonelySize => Len(m_versions) = Depth - 1

\* Back at a node, every variable has the weight it had when the node opened, up to
\* the fraction that weight_type cuts off: which values were tried leaves no trace
\* in the order of the values to come.
WeightsRestored ==
  pc = "loop" =>
    \A v \in NotLonely : weight[v] \in {saved[Depth][v], Whole(saved[Depth][v])}
=============================================================================
