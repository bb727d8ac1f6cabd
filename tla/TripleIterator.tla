--------------------------- MODULE TripleIterator ---------------------------
(***************************************************************************)
(* The trie iterators of triple patterns over the ring: ltj_iterator, for  *)
(* a pattern without label, and ltj_iterator_edge_label.  The join that    *)
(* calls them is the environment: it goes down by the value the iterator   *)
(* answered last, and up in the reverse order.                             *)
(*                                                                         *)
(* The terms of a pattern are s, p and o; p is the edge itself, always a   *)
(* variable, s and o are variables or constants.  The variables of one     *)
(* pattern are distinct.                                                   *)
(***************************************************************************)
EXTENDS Ring

CONSTANTS
  Graphs,          \* the graphs explored: sets of edges
  Patterns,        \* the patterns: [s, o, label], 0 for a variable or no label
  MaxAsked         \* largest bound the join asks for

ASSUME GraphAssumption == \A E \in Graphs : IsGraph(E)
ASSUME PatternAssumption == Patterns \subseteq [s : Nat, o : Nat, label : Nat] /\ MaxAsked \in Nat

Terms == {"s", "p", "o"}

VARIABLES
  edges,      \* the graph
  R,          \* the ring over it
  pat,        \* m_pattern
  m_is_empty,
  m_level,
  m_state,    \* the terms bound at levels 0 and 1
  m_consts,   \* the values bound at levels 0, 1 and 2
  m_intervals,
  m_triple_j, \* position of the scan of the last term
  path, mode, ret   \* the protocol with the join: see IteratorSpec

index == <<edges, R, pat, m_is_empty>>
iter  == <<m_level, m_state, m_consts, m_intervals, m_triple_j>>
vars  == <<index, iter, path, mode, ret>>

-----------------------------------------------------------------------------
(***************************************************************************)
(* The constructor binds the constants of the pattern.                     *)
(***************************************************************************)
Unused == Interval(<<1, 0>>)     \* an entry of m_intervals that nothing set
Failed == [empty |-> TRUE, level |-> 0, state |-> [d \in 0 .. 1 |-> "none"],
           consts |-> [d \in 0 .. 2 |-> 0], ints |-> [d \in 0 .. 2 |-> Unused]]

Bound1(t, v, i0, i1) ==
  [Failed EXCEPT !.empty = FALSE, !.level = 1, !.state[0] = t, !.consts[0] = v,
                 !.ints[0] = i0, !.ints[1] = i1]

\* s from the interval i0 of POS, then o in all edges of s
StartSO(r, t, i0) ==
  LET i1 == Interval(Block(r.o, t.s))
  IN IF NextIn(r.s, i0, r.maxSO, t.s) # t.s \/ NextIn(r.o, i1, r.maxSO, t.o) # t.o THEN Failed
     ELSE [Bound1("s", t.s, i0, i1) EXCEPT
             !.level = 2, !.state[1] = "o", !.consts[1] = t.o,
             !.ints[2] = Interval(Step(r.o, r.p, <<i1.l, i1.r>>, t.o))]

Start(r, t) ==
  LET open == Interval(<<1, r.n>>) IN
  IF t.s # 0 /\ t.o # 0 THEN StartSO(r, t, open)
  ELSE IF t.o # 0 THEN
    IF NextIn(r.o, open, r.maxSO, t.o) # t.o THEN Failed
    ELSE Bound1("o", t.o, open, Interval(Block(r.p, t.o)))
  ELSE IF t.s # 0 THEN
    IF NextIn(r.s, open, r.maxSO, t.s) # t.s THEN Failed
    ELSE Bound1("s", t.s, open, Interval(Block(r.o, t.s)))
  ELSE [Failed EXCEPT !.empty = FALSE, !.ints[0] = open]

StartOtherLabel(r, t) ==     \* mutant: the label is sought in the whole graph, not in the edges of o
  LET open == Interval(<<1, r.n>>)
      i0   == Interval(Block(r.s, t.label))
      io   == Interval(Block(r.p, t.o))
  IN
  IF NextIn(r.p, open, r.maxP, t.label) # t.label THEN Failed
  ELSE IF t.s # 0 /\ t.o # 0 THEN StartSO(r, t, i0)
  ELSE IF t.o # 0 THEN
    IF NextIn(r.o, open, r.maxSO, t.o) # t.o THEN Failed
    ELSE Bound1("o", t.o, io, Interval(Step(r.p, r.s, <<io.l, io.r>>, t.label)))
  ELSE IF t.s # 0 THEN
    IF NextIn(r.s, i0, r.maxSO, t.s) # t.s THEN Failed
    ELSE Bound1("s", t.s, i0, Interval(Step(r.s, r.o, <<i0.l, i0.r>>, t.s)))
  ELSE [Failed EXCEPT !.empty = FALSE, !.ints[0] = i0]

StartLabel(r, t) ==
  LET open == Interval(<<1, r.n>>)
      i0   == Interval(Block(r.s, t.label))
      io   == Interval(Block(r.p, t.o))
  IN
  IF t.s = 0 /\ t.o # 0 THEN
    IF NextIn(r.o, open, r.maxSO, t.o) # t.o \/ NextIn(r.p, io, r.maxP, t.label) # t.label
    THEN Failed
    ELSE Bound1("o", t.o, io, Interval(Step(r.p, r.s, <<io.l, io.r>>, t.label)))
  ELSE IF NextIn(r.p, open, r.maxP, t.label) # t.label THEN Failed
  ELSE IF t.s # 0 /\ t.o # 0 THEN StartSO(r, t, i0)
  ELSE IF t.s # 0 THEN
    IF NextIn(r.s, i0, r.maxSO, t.s) # t.s THEN Failed
    ELSE Bound1("s", t.s, i0, Interval(Step(r.s, r.o, <<i0.l, i0.r>>, t.s)))
  ELSE [Failed EXCEPT !.empty = FALSE, !.ints[0] = i0]

-----------------------------------------------------------------------------
(***************************************************************************)
(* leap(var) (c = NoBound) and leap(var, c): what is answered, and the     *)
(* intervals, in which a search may keep what it selected.                 *)
(***************************************************************************)
Just(v) == [v |-> v, ints |-> m_intervals]
AtLeast(v, c) == Just(IF v >= c THEN v ELSE 0)
Search(d, found) == [v |-> found.v, ints |-> [m_intervals EXCEPT ![d] = found.int]]

\* min_in_ranges, next_in_ranges
InInterval(I, c) == Just(IF c <= I.l THEN I.l ELSE IF c > I.r THEN 0 ELSE c)

EdgeBound == m_consts[IF m_state[1] = "p" THEN 1 ELSE 0]
EndOf(x, e) == IF x = "s" THEN GetS(R, e) ELSE GetO(R, e)

Leap0(x, c) ==
  CASE x = "s" -> Just(NextIn(R.s, m_intervals[0], R.maxSO, c))
    [] x = "p" -> IF pat.label # 0 THEN InInterval(m_intervals[0], c)
                  ELSE Just(IF c = NoBound THEN 1 ELSE IF c > R.n THEN 0 ELSE c)
    [] x = "o" -> IF pat.label # 0 THEN Search(0, SelectIn(R.p, m_intervals[0], R.maxSO, pat.label, c))
                  ELSE Just(NextIn(R.o, m_intervals[0], R.maxSO, c))

EdgeOfO(I, c) == Just(IF c = NoBound THEN MinEofOS(R, I) ELSE NextEofO(R, I, c))

Leap1(x, c) ==
  LET I == m_intervals[1] IN
  CASE m_state[0] = "s" /\ x = "p" -> Just(NextEofS(R, m_intervals[0], m_consts[0], c))
    [] m_state[0] = "s" /\ x = "o" -> Just(NextIn(R.o, I, R.maxSO, c))
    [] m_state[0] = "p"            -> AtLeast(EndOf(x, m_consts[0]), c)
    [] m_state[0] = "o" /\ x = "s" -> IF pat.label # 0 THEN Just(NextIn(R.s, I, R.maxSO, c))
                                      ELSE Search(1, SelectIn(R.o, I, R.maxSO, m_consts[0], c))
    [] m_state[0] = "o" /\ x = "p" -> IF pat.label # 0 THEN InInterval(I, c) ELSE EdgeOfO(I, c)

\* The id of the edge at position i of the last interval, which lies in OSP unless
\* the label was bound first and the subject last.
LastEdge(i) ==
  IF pat.label # 0 /\ m_state[1] = "s" THEN SPOtoPOS(R, i, m_consts[0]) ELSE OSPtoPOS(R, i)

Leap2(x, c) ==
  LET I == m_intervals[2] IN
  IF x # "p" THEN AtLeast(EndOf(x, EdgeBound), c)
  ELSE IF c = NoBound THEN Just(LastEdge(I.l))
  ELSE IF pat.label = 0 THEN Just(NextEofO(R, I, c))
  ELSE Just(IF LastEdge(I.r) < c THEN 0 ELSE IF LastEdge(I.l) >= c THEN LastEdge(I.l) ELSE c)

Answer(x, c) ==
  CASE m_level = 0 -> Leap0(x, c) [] m_level = 1 -> Leap1(x, c) [] m_level = 2 -> Leap2(x, c)

-----------------------------------------------------------------------------
Variables == {"p"} \union {x \in {"s", "o"} : pat[x] = 0}
Free == Variables \ {path[d].x : d \in DOMAIN path}

(***************************************************************************)
(* The join at a node of its search asks for one term, with rising bounds, *)
(* until the answer is 0 or it leaves the node.                            *)
(***************************************************************************)
MayAsk(x, c) ==
  \/ mode = "idle" /\ x \in Free
  \/ mode = "leap" /\ ret.v # 0 /\ x = ret.x /\ c >= ret.v
  \/ mode = "back" /\ x = ret.x /\ c > ret.c

Leap(x, c) ==
  /\ ~m_is_empty /\ MayAsk(x, c)
  /\ m_intervals' = Answer(x, c).ints
  /\ ret' = [x |-> x, c |-> c, v |-> Answer(x, c).v]
  /\ mode' = "leap"
  /\ UNCHANGED <<index, m_level, m_state, m_consts, m_triple_j, path>>

(***************************************************************************)
(* seek_last and seek_last_next, when one term is left (in_last_level).    *)
(***************************************************************************)
SeekLast(x) ==
  /\ ~m_is_empty /\ mode = "idle" /\ m_level = 2 /\ x \in Free
  /\ IF x = "p"
     THEN /\ m_triple_j' = m_intervals[2].l
          /\ ret' = [x |-> x, c |-> NoBound, v |-> LastEdge(m_intervals[2].l)]
     ELSE /\ ret' = [x |-> x, c |-> NoBound, v |-> EndOf(x, EdgeBound)]
          /\ UNCHANGED m_triple_j
  /\ mode' = "scan"
  /\ UNCHANGED <<index, m_level, m_state, m_consts, m_intervals, path>>

SeekLastNext ==
  /\ mode = "left"
  /\ IF ret.x = "p"
     THEN /\ m_triple_j' = m_triple_j + 1
          /\ ret' = [ret EXCEPT !.c = @ + 1,
                                !.v = IF m_triple_j' > m_intervals[2].r THEN 0
                                      ELSE LastEdge(m_triple_j')]
     ELSE ret' = [ret EXCEPT !.c = @ + 1, !.v = 0] /\ UNCHANGED m_triple_j
  /\ mode' = "scan"
  /\ UNCHANGED <<index, m_level, m_state, m_consts, m_intervals, path>>

(***************************************************************************)
(* down(var, c) and up(var).                                               *)
(***************************************************************************)
Lower0(x, c) ==
  CASE x = "s" -> IF pat.label = 0 THEN Interval(Block(R.o, c))
                  ELSE Interval(Step(R.s, R.o, <<m_intervals[0].l, m_intervals[0].r>>, c))
    [] x = "p" -> Interval(<<c, c>>)
    [] x = "o" -> IF pat.label = 0 THEN Interval(Block(R.p, c))
                  ELSE DownKept(R.p, m_intervals[0], pat.label, c)

Lower1(x, c) ==
  LET I == m_intervals[1] IN
  CASE x = "p" -> Interval(<<c, c>>)
    [] x # "p" /\ m_state[0] = "p" -> m_intervals[2]
    [] x = "s" /\ m_state[0] # "p" -> IF pat.label = 0 THEN DownKept(R.o, I, m_consts[0], c)
                                      ELSE Interval(Step(R.s, R.o, <<I.l, I.r>>, c))
    [] x = "o" /\ m_state[0] # "p" -> Interval(Step(R.o, R.p, <<I.l, I.r>>, c))

Down ==
  /\ mode \in {"leap", "scan"} /\ ret.v # 0
  /\ LET x == ret.x  c == ret.v IN
     /\ m_intervals' = CASE m_level = 0 -> [m_intervals EXCEPT ![1] = Lower0(x, c)]
                         [] m_level = 1 -> [m_intervals EXCEPT ![2] = Lower1(x, c)]
                         [] OTHER       -> m_intervals
     /\ m_state' = IF m_level < 2 THEN [m_state EXCEPT ![m_level] = x] ELSE m_state
     /\ m_consts' = [m_consts EXCEPT ![m_level] = c]
     /\ m_level' = m_level + 1
     /\ path' = Append(path, [x |-> x, v |-> c])
     /\ ret' = [x |-> x, c |-> c, v |-> 0]
  /\ mode' = IF mode = "scan" THEN "under" ELSE "idle"
  /\ UNCHANGED <<index, m_triple_j>>

Up ==
  /\ path # <<>>
  /\ m_level' = IF m_level = 0 THEN 0 ELSE m_level - 1
  /\ LET last == path[Len(path)] IN
     /\ path' = SubSeq(path, 1, Len(path) - 1)
     /\ ret' = [x |-> last.x, c |-> last.v, v |-> 0]
  /\ mode' = IF mode = "under" THEN "left" ELSE "back"
  /\ UNCHANGED <<index, m_state, m_consts, m_intervals, m_triple_j>>

-----------------------------------------------------------------------------
Init ==
  /\ edges \in Graphs /\ R = Build(edges)
  /\ pat \in Patterns
  /\ LET st == IF pat.label = 0 THEN Start(R, pat) ELSE StartLabel(R, pat) IN
     /\ m_is_empty = st.empty /\ m_level = st.level /\ m_state = st.state
     /\ m_consts = st.consts /\ m_intervals = st.ints
  /\ m_triple_j = 0
  /\ path = <<>> /\ mode = "idle" /\ ret = [x |-> "none", c |-> 0, v |-> 0]

\* Bounds the join can ask for: none or an id.
Asked == {NoBound} \union 1 .. MaxAsked

Next ==
  \/ \E x \in Terms, c \in Asked : Leap(x, c)
  \/ \E x \in Terms : SeekLast(x)
  \/ SeekLastNext \/ Down \/ Up

Spec == Init /\ [][Next]_vars

-----------------------------------------------------------------------------
\* The matches of the pattern in the graph, straight from the edges.
Matching ==
  {e \in edges : /\ pat.s \in {0, e.s} /\ pat.o \in {0, e.o} /\ pat.label \in {0, e.p}}
Term(e) == [s |-> e.s, p |-> EdgeId(edges, e), o |-> e.o]
Matches == {Term(e) : e \in Matching}
Agreeing == {m \in Matches : \A d \in DOMAIN path : m[path[d].x] = path[d].v}

TypeOK ==
  /\ edges \in Graphs /\ pat \in Patterns
  /\ m_is_empty \in BOOLEAN /\ m_level \in 0 .. 3
  /\ m_state \in [0 .. 1 -> Terms \union {"none"}]
  /\ m_consts \in [0 .. 2 -> 0 .. R.n + R.maxSO]
  /\ \A d \in 0 .. 2 : m_intervals[d].l \in 1 .. R.n + 1 /\ m_intervals[d].r \in 0 .. R.n
  /\ mode \in {"idle", "leap", "scan", "under", "left", "back"}
  /\ ret.v \in 0 .. R.n + R.maxSO

\* The constructor reports an empty pattern exactly when no edge matches.
EmptyIffNoMatch == m_is_empty <=> Matches = {}

\* While only ends of the edge are bound, the interval of the current level holds
\* exactly the edges that still match: the length by which the join sorts the
\* iterators, and by which the elimination order weighs variables, is their number.
IntervalHoldsMatches ==
  ~m_is_empty /\ m_level <= 2 /\ (\A d \in DOMAIN path : path[d].x # "p") =>
    Size(m_intervals[m_level]) = Cardinality(Agreeing)

\* Every answer is the least value the matching edges still give.
Contract == INSTANCE IteratorSpec WITH variables <- Variables, matches <- Matches, Bounds <- Asked
AnswersLeastMatch == Contract!Spec
=============================================================================
