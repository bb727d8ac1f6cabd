--------------------------- MODULE EdgeExprIterator ---------------------------
(***************************************************************************)
(* The trie iterator of a triple pattern whose edge has an expression over *)
(* labels (ltj_iterator_edge_expr).  It works like TripleIterator, with a  *)
(* list of ranges at each level instead of one interval: the expression    *)
(* becomes ranges of labels, these become ranges of positions.             *)
(*                                                                         *)
(* An expression is [type, label] for LAB and NEG, [type, args] for OR and *)
(* AND.  A range is <<first, last>>.                                       *)
(***************************************************************************)
EXTENDS Ring, SequencesExt

CONSTANTS
  Graphs,          \* the graphs explored: sets of edges
  Exprs,           \* the expressions explored and their parts
  Patterns,        \* the patterns: [s, o, expr], 0 for a variable
  Strays,          \* what the build may find in a length that nothing set
  EdgeBounds,      \* whether the join asks, with a bound, for the edge of a subject and an object
  MaxAsked         \* no bound is larger

\* The labels are numbered as edges bring them: each number up to the largest has an edge.
ASSUME GraphAssumption ==
  \A E \in Graphs :
    /\ IsGraph(E)
    /\ \A e \in E : \A label \in 1 .. e.p : \E f \in E : f.p = label
    /\ Cardinality(E) < MaxAsked /\ \A e \in E : e.s < MaxAsked /\ e.o < MaxAsked

\* Expressions are trees, over labels that the graphs have.
Parts(e) == IF e.type \in {"OR", "AND"} THEN ToSet(e.args) ELSE {}

ASSUME ExprAssumption ==
  /\ \A e \in Exprs :
       \/ e.type \in {"LAB", "NEG"} /\ e.label \in Nat \ {0}
          /\ \A E \in Graphs : \E f \in E : e.label <= f.p
       \/ e.type \in {"OR", "AND"} /\ e.args \in Seq(Exprs) /\ e.args # <<>>
  /\ \A S \in SUBSET Exprs : S # {} => \E e \in S : Parts(e) \cap S = {}

ASSUME PatternAssumption == Patterns \subseteq [s : Nat, o : Nat, expr : Exprs] /\ MaxAsked \in Nat

Terms == {"s", "p", "o"}

VARIABLES
  edges, R, pat,   \* the graph, the ring over it, m_pattern
  m_is_empty,
  m_ranges_expr,   \* ranges of labels
  m_level,
  m_state,         \* the terms bound at levels 0 and 1
  m_consts,        \* the values bound at levels 0, 1 and 2
  m_ranges_level,  \* ranges of positions
  m_length_level,
  m_range_i_last, m_triple_j,   \* the scan of the last term
  path, mode, ret  \* the protocol with the join: see IteratorSpec

index == <<edges, R, pat, m_is_empty, m_ranges_expr>>
trie == <<m_level, m_state, m_consts, m_ranges_level, m_length_level>>
scan == <<m_range_i_last, m_triple_j>>
vars == <<index, trie, scan, path, mode, ret>>

-----------------------------------------------------------------------------
(***************************************************************************)
(* Ranges of labels (ranges_util, get_ranges_expr).                        *)
(***************************************************************************)
Larger(a, b) == IF a < b THEN b ELSE a
Smaller(a, b) == IF a < b THEN a ELSE b

\* The members of S in the order of their keys, and numbers in theirs.
InOrder(S, K) == [k \in 1 .. Cardinality(S) |-> CHOOSE x \in S : Position(S, K, x) = k]
Rising(S) == InOrder(S, [v \in S |-> <<v>>])

Extended(merged, r) ==
  LET last == merged[Len(merged)] IN
  IF last[2] + 1 >= r[1] THEN [merged EXCEPT ![Len(merged)] = <<last[1], Larger(last[2], r[2])>>]
  ELSE Append(merged, r)

Merge(ranges) ==
  LET sorted == InOrder(ranges, [r \in ranges |-> r])
      merged[k \in 1 .. Cardinality(ranges)] ==
        IF k = 1 THEN <<sorted[1]>> ELSE Extended(merged[k - 1], sorted[k])
  IN IF ranges = {} THEN <<>> ELSE merged[Cardinality(ranges)]

KeepFirstEnd(A, B, t) ==   \* mutant: what two ranges share ends where the first one does
  IF t.a > Len(A) \/ t.b > Len(B) THEN t
  ELSE LET start == Larger(A[t.a][1], B[t.b][1])
           end == A[t.a][2]
           first == A[t.a][2] < B[t.b][2]
       IN [a |-> IF first THEN t.a + 1 ELSE t.a, b |-> IF first THEN t.b ELSE t.b + 1,
           out |-> IF start <= end THEN Append(t.out, <<start, end>>) ELSE t.out]

\* One turn of the loop: the ranges a of A and b of B, and what is shared before them.
Turn(A, B, t) ==
  IF t.a > Len(A) \/ t.b > Len(B) THEN t
  ELSE LET start == Larger(A[t.a][1], B[t.b][1])
           end == Smaller(A[t.a][2], B[t.b][2])
           first == A[t.a][2] < B[t.b][2]
       IN [a |-> IF first THEN t.a + 1 ELSE t.a, b |-> IF first THEN t.b ELSE t.b + 1,
           out |-> IF start <= end THEN Append(t.out, <<start, end>>) ELSE t.out]

Both(A, B) ==
  LET turn[k \in 0 .. Len(A) + Len(B)] ==
        IF k = 0 THEN [a |-> 1, b |-> 1, out |-> <<>>] ELSE Turn(A, B, turn[k - 1])
  IN turn[Len(A) + Len(B)].out

Intersect(all) ==
  LET common[k \in 1 .. Len(all)] == IF k = 1 THEN all[1] ELSE Both(common[k - 1], all[k])
  IN IF all = <<>> THEN <<>> ELSE common[Len(all)]

\* The ranges of e, where of has those of its parts.  Merging sorts: what the parts give
\* is a set.
RangesOf(e, of, max_p) ==
  CASE e.type = "LAB" -> <<<<e.label, e.label>>>>
    [] e.type = "NEG" -> (IF e.label > 1 THEN <<<<1, e.label - 1>>>> ELSE <<>>)
                         \o (IF e.label < max_p THEN <<<<e.label + 1, max_p>>>> ELSE <<>>)
    [] e.type = "OR"  -> Merge(UNION {ToSet(of[e.args[k]]) : k \in DOMAIN e.args})
    [] e.type = "AND" -> Intersect([k \in DOMAIN e.args |-> of[e.args[k]]])

RangesOfExpr(e, max_p) == LET of[x \in Exprs] == RangesOf(x, of, max_p) IN of[e]

-----------------------------------------------------------------------------
(***************************************************************************)
(* Ranges of positions: in POS, SPO and OSP, as the terms bound say.       *)
(***************************************************************************)
\* The ranges that are not sdsl::empty.
NonEmpty(ranges) ==
  LET kept == Rising({k \in DOMAIN ranges : ranges[k][1] # ranges[k][2] + 1})
  IN [k \in DOMAIN kept |-> ranges[kept[k]]]

Covered(ranges) == InRanges(ToSet(ranges))

\* compute_length
LengthOf(ranges) ==
  LET sum[k \in 0 .. Len(ranges)] ==
        IF k = 0 THEN 0 ELSE sum[k - 1] + ranges[k][2] - ranges[k][1] + 1
  IN sum[Len(ranges)]

\* compute_ranges_initial_level
Initial(r, labels) == [k \in DOMAIN labels |-> <<r.s.C[labels[k][1]], r.s.C[labels[k][2] + 1] - 1>>]

\* down_P_to_S, down_PO_to_S, down_PS_to_O
Lowered(B, T, ranges, v) == NonEmpty([k \in DOMAIN ranges |-> Step(B, T, ranges[k], v)])

AnyLabelRanges(r, labels, o) ==   \* mutant: the labels of o are not held against the expression
  LET block == Block(r.p, o)
      ps == Rising({r.p.L[i] : i \in block[1] .. block[2]})
  IN NonEmpty([k \in DOMAIN ps |-> Step(r.p, r.s, block, ps[k])])

\* down_P_to_O: a range for each label of the edges of o
RangesOfObject(r, labels, o) ==
  LET block == Block(r.p, o)
      ps == Rising({r.p.L[i] : i \in block[1] .. block[2]} \intersect Covered(labels))
  IN NonEmpty([k \in DOMAIN ps |-> Step(r.p, r.s, block, ps[k])])

\* The constructor binds the constants of the pattern and computes one length.
Start(r, t, labels) ==
  LET consts == (IF t.s # 0 THEN <<"s">> ELSE <<>>) \o (IF t.o # 0 THEN <<"o">> ELSE <<>>)
      l == Len(consts)
      init == IF consts = <<"o">> THEN <<>> ELSE Initial(r, labels)
      first == IF t.s # 0 THEN Lowered(r.s, r.o, init, t.s)
               ELSE IF t.o # 0 THEN RangesOfObject(r, labels, t.o) ELSE <<>>
      second == IF l = 2 THEN Lowered(r.o, r.p, first, t.o) ELSE <<>>
      ranges == <<init, first, second>>
  IN [empty |-> l > 0 /\ ranges[l + 1] = <<>>,
      level |-> l,
      state |-> [d \in 0 .. 1 |-> IF d < l THEN consts[d + 1] ELSE "none"],
      consts |-> [d \in 0 .. 2 |-> IF d < l THEN t[consts[d + 1]] ELSE 0],
      ranges |-> [d \in 0 .. 2 |-> ranges[d + 1]],
      length |-> LengthOf(ranges[l + 1])]

-----------------------------------------------------------------------------
(***************************************************************************)
(* leap(var) (c = NoBound) and leap(var, c).                               *)
(***************************************************************************)
Least1(c) == IF c = NoBound THEN 1 ELSE c
AtLeast(v, c) == IF v >= c THEN v ELSE 0
Positions(l) == Covered(m_ranges_level[l])

\* min_in_ranges, next_in_ranges
NextInRanges(ranges, c) ==
  LET k == Least({i \in DOMAIN ranges : ranges[i][2] >= c})
  IN IF k = 0 THEN 0 ELSE Larger(ranges[k][1], c)

\* edge_expr_min_O_in_P, edge_expr_next_O_in_P: the block of the first edge with one of the labels
NextOinP(c) ==
  BSearchC(R.p, Least({i \in DOMAIN R.p.L : R.p.C[Least1(c)] <= i /\ R.p.L[i] \in Covered(m_ranges_expr)}))

\* edge_expr_min_E_in_SP, edge_expr_next_E_in_SP
NextEinSP(l, s, c) == IF c > R.n THEN 0 ELSE NextPosition(R.s, s, {i \in Positions(l) : c <= i})

EdgeFrom(label, ranges) ==
  LET w == NextValueRank(R.p, label, Covered(ranges)) IN R.s.C[w[1]] + w[2]

\* edge_expr_min_E_in_OS, edge_expr_next_E_in_OS
NextEinOS(ranges, c) ==
  LET label == BSearchC(R.s, c)
      j == SelectWM(R.p, c - R.s.C[label] + 1, label)
      k == Least({i \in DOMAIN ranges : j <= ranges[i][2]})     \* first range that can cover j
  IN IF c = NoBound THEN EdgeFrom(1, ranges)
     ELSE IF c > R.n THEN 0
     ELSE IF k = 0 THEN EdgeFrom(label + 1, ranges)
     ELSE IF j >= ranges[k][1] THEN c
     ELSE EdgeFrom(label, SubSeq(ranges, k + 1, Len(ranges)))

EdgeBound == m_consts[IF m_state[1] = "p" THEN 1 ELSE 0]
EndOf(x, e) == IF x = "s" THEN GetS(R, e) ELSE GetO(R, e)

Answer(x, c) ==
  CASE m_level = 0 /\ x = "s" -> NextValue(R.s, Least1(c), Positions(0))
    [] m_level = 0 /\ x = "p" -> NextInRanges(m_ranges_level[0], c)
    [] m_level = 0 /\ x = "o" -> NextOinP(c)
    [] m_level = 1 /\ m_state[0] = "s" /\ x = "o" -> NextValue(R.o, Least1(c), Positions(1))
    [] m_level = 1 /\ m_state[0] = "s" /\ x = "p" -> NextEinSP(0, m_consts[0], c)
    [] m_level = 1 /\ m_state[0] = "p" -> AtLeast(EndOf(x, m_consts[0]), c)
    [] m_level = 1 /\ m_state[0] = "o" /\ x = "s" -> NextValue(R.s, Least1(c), Positions(1))
    [] m_level = 1 /\ m_state[0] = "o" /\ x = "p" -> NextInRanges(m_ranges_level[1], c)
    [] m_level = 2 /\ x # "p" -> AtLeast(EndOf(x, EdgeBound), c)
    [] m_level = 2 /\ x = "p" /\ m_state[1] = "s" -> NextEinSP(1, m_consts[1], c)
    [] m_level = 2 /\ x = "p" /\ m_state[1] = "o" -> NextEinOS(m_ranges_level[2], c)

-----------------------------------------------------------------------------
Variables == {"p"} \union {x \in {"s", "o"} : pat[x] = 0}
Free == Variables \ {path[d].x : d \in DOMAIN path}

\* Ids of the term and the one after the last.
Asked(x) == {NoBound} \union 1 .. (IF x = "p" THEN R.n ELSE R.maxSO) + 1

\* min_in_ranges and next_in_ranges read the first of the ranges before they look
\* whether there is one: without one the program ends.
ReadsFirst(x) ==
  x = "p" /\ (m_level = 0 \/ (m_level = 1 /\ m_state[0] = "o")) /\ m_ranges_level[m_level] = <<>>

(***************************************************************************)
(* The join at a node of its search asks for one term, with rising bounds, *)
(* until the answer is 0 or it leaves the node.                            *)
(***************************************************************************)
MayAsk(x, c) ==
  /\ ~m_is_empty /\ ~ReadsFirst(x)
  /\ \/ mode = "idle" /\ x \in Free
     \/ mode = "leap" /\ ret.v # 0 /\ x = ret.x /\ c >= ret.v
     \/ mode = "back" /\ x = ret.x /\ c > ret.c
  /\ m_level = 2 /\ x = "p" /\ m_state[1] = "o" /\ c # NoBound => EdgeBounds

Leap(x, c) ==
  /\ MayAsk(x, c)
  /\ ret' = [x |-> x, c |-> c, v |-> Answer(x, c)] /\ mode' = "leap"
  /\ UNCHANGED <<index, trie, scan, path>>

(***************************************************************************)
(* seek_last and seek_last_next, when one term is left (in_last_level).    *)
(***************************************************************************)
EdgeAt(j) == IF m_state[1] = "o" THEN OSPtoPOS(R, j) ELSE SPOtoPOS(R, j, m_consts[0])

SeekLast(x) ==
  /\ ~m_is_empty /\ mode = "idle" /\ m_level = 2 /\ x \in Free
  /\ IF x = "p"
     THEN /\ m_range_i_last' = 1 /\ m_triple_j' = m_ranges_level[2][1][1]
          /\ ret' = [x |-> x, c |-> NoBound, v |-> EdgeAt(m_triple_j')]
     ELSE ret' = [x |-> x, c |-> NoBound, v |-> EndOf(x, EdgeBound)] /\ UNCHANGED scan
  /\ mode' = "scan"
  /\ UNCHANGED <<index, trie, path>>

FirstRangeOnly ==          \* mutant: the scan ends with its first range
  [k |-> m_range_i_last, j |-> m_triple_j + 1, some |-> m_triple_j < m_ranges_level[2][m_range_i_last][2]]

\* The position after m_triple_j, in this range or the next; none after the last.
NextTriple ==
  LET ranges == m_ranges_level[2]  k == m_range_i_last IN
  IF m_triple_j < ranges[k][2] THEN [k |-> k, j |-> m_triple_j + 1, some |-> TRUE]
  ELSE IF k = Len(ranges) THEN [k |-> k, j |-> m_triple_j + 1, some |-> FALSE]
  ELSE [k |-> k + 1, j |-> ranges[k + 1][1], some |-> TRUE]

SeekLastNext ==
  /\ mode = "left"
  /\ IF ret.x = "p"
     THEN /\ m_range_i_last' = NextTriple.k /\ m_triple_j' = NextTriple.j
          /\ ret' = [ret EXCEPT !.c = @ + 1, !.v = IF NextTriple.some THEN EdgeAt(NextTriple.j) ELSE 0]
     ELSE ret' = [ret EXCEPT !.c = @ + 1, !.v = 0] /\ UNCHANGED scan
  /\ mode' = "scan"
  /\ UNCHANGED <<index, trie, path>>

(***************************************************************************)
(* down(var, c) and up(var).                                               *)
(***************************************************************************)
\* What a down adds to the ranges of the next level.
Pushed(x, c) ==
  CASE x = "p" -> <<<<c, c>>>>
    [] m_level = 0 /\ x = "o" -> RangesOfObject(R, m_ranges_expr, c)
    [] m_level = 1 /\ x # "p" /\ m_state[0] = "p" -> <<>>
    [] m_level = 1 /\ x = "o" /\ m_state[0] = "s" -> Lowered(R.o, R.p, m_ranges_level[1], c)
    [] x = "s" /\ (m_level = 0 \/ m_state[0] = "o") -> Lowered(R.s, R.o, m_ranges_level[m_level], c)

Down ==
  /\ mode \in {"leap", "scan"} /\ ret.v # 0
  /\ LET x == ret.x  c == ret.v IN
     /\ IF m_level < 2
        THEN /\ m_state' = [m_state EXCEPT ![m_level] = x]
             /\ m_ranges_level' = [m_ranges_level EXCEPT ![m_level + 1] = @ \o Pushed(x, c)]
             /\ m_length_level' = [m_length_level EXCEPT ![m_level + 1] = LengthOf(m_ranges_level'[m_level + 1])]
        ELSE UNCHANGED <<m_state, m_ranges_level, m_length_level>>
     /\ m_consts' = [m_consts EXCEPT ![m_level] = c]
     /\ m_level' = m_level + 1
     /\ path' = Append(path, [x |-> x, v |-> c])
     /\ ret' = [x |-> x, c |-> c, v |-> 0]
  /\ mode' = IF mode = "scan" THEN "under" ELSE "idle"
  /\ UNCHANGED <<index, scan>>

ClearedAbove ==            \* mutant: the level is left before its ranges are cleared
  m_ranges_level' = [m_ranges_level EXCEPT ![m_level - 1] = <<>>] /\ UNCHANGED m_length_level

\* There are three lists.  Clearing a fourth writes where the lengths are kept: its
\* begin is that of level 0, its end that of level 1.
Cleared ==
  IF m_level < 3 THEN m_ranges_level' = [m_ranges_level EXCEPT ![m_level] = <<>>] /\ UNCHANGED m_length_level
  ELSE m_length_level' = [m_length_level EXCEPT ![1] = m_length_level[0]] /\ UNCHANGED m_ranges_level

Up ==
  /\ path # <<>>
  /\ Cleared
  /\ m_level' = m_level - 1
  /\ LET last == path[Len(path)] IN
     /\ path' = SubSeq(path, 1, Len(path) - 1)
     /\ ret' = [x |-> last.x, c |-> last.v, v |-> 0]
  /\ mode' = IF mode = "under" THEN "left" ELSE "back"
  /\ UNCHANGED <<index, m_state, m_consts, scan>>

-----------------------------------------------------------------------------
Init ==
  /\ edges \in Graphs /\ R = Build(edges)
  /\ pat \in Patterns /\ pat.s <= R.maxSO /\ pat.o <= R.maxSO
  /\ m_ranges_expr = RangesOfExpr(pat.expr, R.maxP)
  /\ LET st == Start(R, pat, m_ranges_expr) IN
     /\ m_is_empty = st.empty /\ m_level = st.level /\ m_state = st.state
     /\ m_consts = st.consts /\ m_ranges_level = st.ranges
     /\ \E z \in Strays : m_length_level = [d \in 0 .. 2 |-> IF d = st.level THEN st.length ELSE z]
  /\ m_range_i_last = 1 /\ m_triple_j = 0
  /\ path = <<>> /\ mode = "idle" /\ ret = [x |-> "none", c |-> 0, v |-> 0]

Next ==
  \/ \E x \in Terms : \E c \in Asked(x) : Leap(x, c)
  \/ \E x \in Terms : SeekLast(x)
  \/ SeekLastNext \/ Down \/ Up

Spec == Init /\ [][Next]_vars

-----------------------------------------------------------------------------
\* What the expression says of a label.
Says(e, of, label) ==
  CASE e.type = "LAB" -> label = e.label
    [] e.type = "NEG" -> label # e.label
    [] e.type = "OR"  -> \E k \in DOMAIN e.args : of[e.args[k]]
    [] e.type = "AND" -> \A k \in DOMAIN e.args : of[e.args[k]]

Holds(e, label) == LET of[x \in Exprs] == Says(x, of, label) IN of[e]

\* The matches of the pattern in the graph, straight from the edges.
Matching == {e \in edges : pat.s \in {0, e.s} /\ pat.o \in {0, e.o} /\ Holds(pat.expr, e.p)}
Term(e) == [s |-> e.s, p |-> EdgeId(edges, e), o |-> e.o]
Matches == {Term(e) : e \in Matching}
Agreeing == {m \in Matches : \A d \in DOMAIN path : m[path[d].x] = path[d].v}

TypeOK ==
  /\ edges \in Graphs /\ pat \in Patterns
  /\ m_is_empty \in BOOLEAN /\ m_level \in 0 .. 3
  /\ m_state \in [0 .. 1 -> Terms \union {"none"}]
  /\ m_consts \in [0 .. 2 -> 0 .. R.n + R.maxSO]
  /\ \A d \in 0 .. 2 : \A k \in DOMAIN m_ranges_level[d] :
       m_ranges_level[d][k][1] \in 1 .. R.n /\ m_ranges_level[d][k][2] \in 1 .. R.n
  /\ m_range_i_last \in 1 .. R.maxP
  /\ mode \in {"idle", "leap", "scan", "under", "left", "back"}
  /\ ret.v \in 0 .. R.n + R.maxSO

\* The ranges of labels are apart, rising, and hold exactly the labels of the expression:
\* merging and intersecting lose no label at a shared or an adjacent end.
RangesAreExpr ==
  /\ Covered(m_ranges_expr) = {l \in 1 .. R.maxP : Holds(pat.expr, l)}
  /\ \A k \in 1 .. Len(m_ranges_expr) - 1 : m_ranges_expr[k][2] < m_ranges_expr[k + 1][1]

\* A pattern with a constant is reported empty exactly when no edge matches.  (A pattern
\* of variables never is.)
EmptyIffNoMatch == (pat.s # 0 \/ pat.o # 0) => (m_is_empty <=> Matches = {})

\* While only ends of the edge are bound, the ranges hold exactly the edges that still
\* match, and their length, by which the join and the elimination order sort, is their
\* number; after the third down of an iterator only at levels 0 and 2.
LengthCountsMatches ==
  ~m_is_empty /\ m_level <= 2 /\ (\A d \in DOMAIN path : path[d].x # "p") =>
    /\ LengthOf(m_ranges_level[m_level]) = Cardinality(Agreeing)
    /\ \/ m_length_level[m_level] = Cardinality(Agreeing)
       \/ m_level = 1 /\ mode \in {"back", "leap"} /\ m_length_level[1] = m_length_level[0]

\* A leap answers the next value greater or equal than its bound.
LeapIsNext == mode = "leap" => ret.v = LeastFrom({m[ret.x] : m \in Agreeing}, ret.c)

\* Every answer is the least value the matching edges still give.
Contract == INSTANCE IteratorSpec WITH
  variables <- Variables, matches <- Matches, Bounds <- {NoBound} \union 1 .. MaxAsked
AnswersLeastMatch == Contract!Spec
=============================================================================
