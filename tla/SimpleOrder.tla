----------------------------- MODULE SimpleOrder -----------------------------
(***************************************************************************)
(* The static variable elimination order (veo_simple_pg, what query-global *)
(* is built with).  The constructor orders all the variables before the    *)
(* search: it sorts them, then takes connected variables together, the     *)
(* lightest first, with a heap; the search only walks along the result.    *)
(*                                                                         *)
(* The weights the constructor computes from the iterators are any of      *)
(* StaticWeights, in parts of 1/Part; the heap holds them cut to whole     *)
(* numbers (size_type), the sort compares them as they are.  std::sort may *)
(* leave equal entries in any order.  The bits of checked are those of the *)
(* variables at its positions: the vector has one bit less than the code   *)
(* uses, which shows only when the variables fill a whole word of bits.    *)
(***************************************************************************)
EXTENDS Integers, Sequences, SequencesExt

CONSTANTS
  StaticQueries,   \* the queries: [vars, iterated, nodes, once, pairs, compared]
  StaticWeights,   \* the weights of variables, in parts of 1/Part
  Part             \* a weight of 1 is this many parts

\* vars is 1 .. ht.size(); once are the variables that occur once in the patterns,
\* iterated those that occur at all; pairs are the subject and object variables of a
\* pattern, compared those of a comparison.
IsStaticQuery(q) ==
  /\ IsFiniteSet(q.vars) /\ q.vars # {} /\ q.vars = 1 .. Cardinality(q.vars)
  /\ q.iterated \subseteq q.vars /\ q.nodes \subseteq q.vars /\ q.once \subseteq q.iterated
  /\ q.pairs \subseteq q.iterated \X q.iterated /\ q.compared \subseteq q.vars \X q.vars

\* What the constants must be; the module of the run assumes it.
StaticConstants ==
  Part \in Nat /\ Part > 0 /\ StaticWeights \in SUBSET Nat /\ \A q \in StaticQueries : IsStaticQuery(q)

VARIABLES
  query,        \* m_ptr_query
  weights,      \* the weights of info_var_type
  aux,          \* the variables, sorted
  checked,      \* the variables whose bit is set
  heap,         \* the variables in the heap
  m_order, i,
  index,        \* m_index
  given,        \* what next returned to the open search nodes
  at            \* sort: nothing done yet; next: the loop over i; heap: the loop over
                \* the heap; lonely: the last loop; search; thrown; idle: never run

svars == <<query, weights, aux, checked, heap, m_order, i, index, given, at>>

Alone(v) == v \in query.once                          \* var_type >= 2
VarType(v) == (IF v \in query.nodes THEN 0 ELSE 1) + (IF Alone(v) THEN 2 ELSE 0)
WeightOf(v) == IF Alone(v) THEN 0 ELSE weights[v]
Cut(w) == w \div Part                                 \* pair_type holds a size_type
nolonely_size == Cardinality({v \in query.vars : ~Alone(v)})

related(v) ==
  {w \in query.vars :
     \/ (<<v, w>> \in query.pairs \/ <<w, v>> \in query.pairs) /\ ~Alone(v) /\ ~Alone(w)
     \/ <<v, w>> \in query.compared \/ <<w, v>> \in query.compared}

compare_var_info(v, w) ==
  VarType(v) < VarType(w) \/ (VarType(v) = VarType(w) /\ WeightOf(v) < WeightOf(w))

\* at(v) throws for a variable that only a comparison names.
Throw ==
  /\ at = "sort" /\ query.iterated # query.vars
  /\ at' = "thrown"
  /\ UNCHANGED <<query, weights, aux, checked, heap, m_order, i, index, given>>

Sort ==
  /\ at = "sort" /\ query.iterated = query.vars
  /\ \E s \in SetToSeqs(query.vars) :
       /\ \A j, k \in DOMAIN s : j < k => ~compare_var_info(s[k], s[j])
       /\ aux' = s
  /\ i' = 1 /\ at' = "next"
  /\ UNCHANGED <<query, weights, checked, heap, m_order, index, given>>

FillUnchecked(v, done) == {w \in related(v) : ~Alone(w)}    \* mutant: checked is not read

\* What fill_heap pushes.
fill_heap(v, done) == {w \in related(v) : w \notin done /\ ~Alone(w)}

Take(v, done, rest) ==
  LET new == fill_heap(v, done) IN
  /\ m_order' = Append(m_order, v)
  /\ heap' = rest \union new /\ checked' = done \union new

TakeNext ==
  /\ at = "next" /\ i <= nolonely_size /\ aux[i] \notin checked
  /\ Take(aux[i], checked \union {aux[i]}, {})
  /\ at' = "heap"
  /\ UNCHANGED <<query, weights, aux, i, index, given>>

SkipChecked ==
  /\ at = "next" /\ i <= nolonely_size /\ aux[i] \in checked
  /\ i' = i + 1
  /\ UNCHANGED <<query, weights, aux, checked, heap, m_order, index, given, at>>

NumberBefore(v, w) == v < w                           \* mutant: the heap forgets the weights

\* pair_type: the whole part of the weight, then the number of the variable.
PairBefore(v, w) == Cut(weights[v]) < Cut(weights[w]) \/ (Cut(weights[v]) = Cut(weights[w]) /\ v < w)

PopHeap ==
  /\ at = "heap"
  /\ \E v \in heap :
       /\ \A w \in heap \ {v} : PairBefore(v, w)
       /\ Take(v, checked, heap \ {v})
  /\ UNCHANGED <<query, weights, aux, i, index, given, at>>

HeapEmpty ==
  /\ at = "heap" /\ heap = {}
  /\ i' = i + 1 /\ at' = "next"
  /\ UNCHANGED <<query, weights, aux, checked, heap, m_order, index, given>>

TakeLonely ==
  /\ at = "next" /\ i > nolonely_size /\ i <= Len(aux)
  /\ m_order' = Append(m_order, aux[i])
  /\ i' = i + 1
  /\ UNCHANGED <<query, weights, aux, checked, heap, index, given, at>>

Constructed ==
  /\ at = "next" /\ i > Len(aux)
  /\ index' = 0 /\ at' = "search"
  /\ UNCHANGED <<query, weights, aux, checked, heap, m_order, i, given>>

-----------------------------------------------------------------------------
\* The search: the join opens a node while some variable is left, and leaves it; down
\* and up do nothing.
next ==
  /\ at = "search" /\ Len(given) < Len(m_order)
  /\ index' = index + 1
  /\ given' = Append(given, m_order[index'])
  /\ UNCHANGED <<query, weights, aux, checked, heap, m_order, i, at>>

done ==
  /\ at = "search" /\ given # <<>>
  /\ index' = index - 1
  /\ given' = Front(given)
  /\ UNCHANGED <<query, weights, aux, checked, heap, m_order, i, at>>

SInit ==
  /\ query \in StaticQueries
  /\ weights \in [{v \in query.vars : ~Alone(v)} -> StaticWeights]
  /\ aux = <<>> /\ checked = {} /\ heap = {} /\ m_order = <<>> /\ i = 0
  /\ index = 0 /\ given = <<>> /\ at = "sort"

SNext ==
  \/ Throw \/ Sort \/ TakeNext \/ SkipChecked \/ PopHeap \/ HeapEmpty \/ TakeLonely \/ Constructed
  \/ next \/ done

SSpec == SInit /\ [][SNext]_svars

-----------------------------------------------------------------------------
\* The variables the order has yet to place before position k, and those of them that
\* some variable before k is related to.
Left(k) == {v \in query.vars : ~Alone(v) /\ \A j \in 1 .. k - 1 : m_order[j] # v}
Frontier(k) == {v \in Left(k) : \E j \in 1 .. k - 1 : v \in related(m_order[j])}

\* The static order is greedy and stays connected: as long as a variable is related to
\* one that has a value, the lightest of those comes next, and a variable unrelated to
\* all before it comes only when there is none, the lightest node or
\* else the lightest edge.  A join that leaves a connected part of the
\* query early multiplies its results.
StaysConnected ==
  \A k \in 1 .. Len(m_order) :
    ~Alone(m_order[k]) =>
      IF Frontier(k) # {}
      THEN /\ m_order[k] \in Frontier(k)
           /\ \A w \in Frontier(k) : Cut(weights[m_order[k]]) <= Cut(weights[w])
      ELSE \A w \in Left(k) :
             IF w \in query.nodes <=> m_order[k] \in query.nodes
             THEN weights[m_order[k]] <= weights[w]
             ELSE w \notin query.nodes

\* However the search goes up and down, its open nodes have different variables, those
\* that occur once last and edges after nodes among them, and at full depth every
\* variable of the query: the join binds each exactly once.
StaticOrderIsLegal ==
  /\ at \in {"next", "heap", "search"} =>
       \A j, k \in 1 .. Len(m_order) : j < k =>
         /\ m_order[j] # m_order[k]
         /\ Alone(m_order[j]) => Alone(m_order[k]) /\ VarType(m_order[j]) <= VarType(m_order[k])
  /\ at = "search" =>
       /\ ToSet(m_order) = query.vars
       /\ IsPrefix(given, m_order)
=============================================================================
