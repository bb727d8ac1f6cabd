-------------------------------- MODULE Ring --------------------------------
(***************************************************************************)
(* The ring index over the edges of a property graph (ring_pg, bwt,        *)
(* bwt_interval): three columns, each with the counts C that locate the    *)
(* block of a symbol, and the moves between them.  The wavelet matrix of a *)
(* column belongs to a library and is modelled by what its operations      *)
(* answer; the arithmetic that ties the columns together is the ring's.    *)
(*                                                                         *)
(* An edge is [s, p, o, k]: subject, label, object and a copy number, for  *)
(* parallel edges with the same label.                                     *)
(***************************************************************************)
EXTENDS LeastId, Sequences, FiniteSets

IsGraph(E) ==
  E # {} /\ IsFiniteSet(E) /\ E \subseteq [s : Nat \ {0}, p : Nat \ {0}, o : Nat \ {0}, k : Nat]

Before(a, b) ==
  \E d \in DOMAIN a : a[d] < b[d] /\ \A g \in 1 .. d - 1 : a[g] = b[g]

\* The position of edge e when E is sorted by the keys K.
Position(E, K, e) == Cardinality({f \in E : f = e \/ Before(K[f], K[e])})

SPO(E) == [e \in E |-> <<e.s, e.p, e.o, e.k>>]
OSP(E) == [e \in E |-> <<e.o, e.s, e.p, e.k>>]
POS(E) == [e \in E |-> <<e.p, e.o, e.s, e.k>>]

\* The id of an edge is its position in POS order.
EdgeId(E, e) == Position(E, POS(E), e)

\* A column: the symbol of each edge in the order of K, and for each symbol of
\* the leading field 1 .. top where its block begins.
Column(E, K, symbol, lead, top) ==
  [L |-> [i \in 1 .. Cardinality(E) |-> symbol[CHOOSE e \in E : Position(E, K, e) = i]],
   C |-> [v \in 0 .. top + 1 |->
            IF v = 0 THEN 0 ELSE 1 + Cardinality({e \in E : lead[e] < v})]]

\* build_bwts: nodes share one alphabet, 1 .. the largest id used.
LargestOf(S) == CHOOSE v \in S : \A w \in S : w <= v

Build(E) ==
  LET subj == [e \in E |-> e.s]  pred == [e \in E |-> e.p]  obj == [e \in E |-> e.o]
      maxSO == LargestOf({e.s : e \in E} \union {e.o : e \in E})
      maxP  == LargestOf({e.p : e \in E})
  IN [n |-> Cardinality(E), maxSO |-> maxSO, maxP |-> maxP,
      o |-> Column(E, SPO(E), obj, subj, maxSO),
      p |-> Column(E, OSP(E), pred, obj, maxSO),
      s |-> Column(E, POS(E), subj, pred, maxP)]

-----------------------------------------------------------------------------
(***************************************************************************)
(* The wavelet matrix: positions of a column and the symbols in them.      *)
(***************************************************************************)
Rank(B, i, v) == Cardinality({k \in DOMAIN B.L : k < i /\ B.L[k] = v})
SelectWM(B, r, v) == CHOOSE i \in DOMAIN B.L : B.L[i] = v /\ Rank(B, i, v) = r - 1
InRanges(ranges) == UNION {r[1] .. r[2] : r \in ranges}

\* the least symbol from v on in the positions, 0 if none
NextValue(B, v, positions) == LeastFrom({B.L[i] : i \in positions}, v)

\* the same, with the number of its occurrences before the positions
NextValueRank(B, v, positions) ==
  LET w == NextValue(B, v, positions)
  IN <<w, IF w = 0 THEN 0 ELSE Rank(B, Least({i \in positions : B.L[i] = w}), w)>>

\* the first of the positions that holds v, 0 if none
NextPosition(B, v, positions) == Least({i \in positions : B.L[i] = v})

-----------------------------------------------------------------------------
(***************************************************************************)
(* bwt: blocks of symbols.                                                 *)
(***************************************************************************)
Block(B, v) == <<B.C[v], B.C[v + 1] - 1>>                   \* backward_search_1_interval
BSearchC(B, i) == LargestOf({v \in DOMAIN B.C : B.C[v] <= i})   \* bsearch_C(i) - 1
BlockRank(B, v, w) == Rank(B, B.C[v], w)                    \* rank(v, w)

\* select_next: the first w of block v or a later one, and how many come before.
SelectNext(B, v, w) ==
  LET i == NextPosition(B, w, {k \in DOMAIN B.L : B.C[v] <= k})
  IN <<i, IF i = 0 THEN 0 ELSE Rank(B, i, w)>>

StepPastEnd(B, T, int, v) ==        \* mutant: the end of the range is not moved back by one
  <<Rank(B, int[1], v) + T.C[v], Rank(B, int[2] + 1, v) + T.C[v]>>

\* backward_step from the column B to the column T.
Step(B, T, int, v) ==
  <<Rank(B, int[1], v) + T.C[v], Rank(B, int[2] + 1, v) - 1 + T.C[v]>>

\* A bwt_interval keeps what the last search in it selected: a symbol and its rank.
Unset == -1
Interval(lr) == [l |-> lr[1], r |-> lr[2], val |-> Unset, rank |-> Unset]
Within(I) == I.l .. I.r
Size(I) == I.r - I.l + 1

-----------------------------------------------------------------------------
(***************************************************************************)
(* Searches.  NoBound asks for the least value.                            *)
(***************************************************************************)
NoBound == -1

\* min_S, next_S, min_O, next_O_in_S, next_S_in_P, ...: column B of the interval, up to max
NextIn(B, I, max, c) ==
  IF c > max THEN 0 ELSE NextValue(B, IF c = NoBound THEN 1 ELSE c, Within(I))

KeepFirst(B, I, max, w, c) ==       \* mutant: what a search selects is not kept once something is
  IF c > max THEN [v |-> 0, int |-> I]
  ELSE LET q == SelectNext(B, IF c = NoBound THEN 1 ELSE c, w)
           b == BSearchC(B, q[1])
       IN [v |-> IF q[1] = 0 THEN 0 ELSE b,
           int |-> IF q[1] = 0 \/ I.val # Unset THEN I ELSE [I EXCEPT !.val = b, !.rank = q[2]]]

\* min_S_in_O, next_S_in_O, min_O_in_P, next_O_in_P: the symbol w occurs in block b of
\* column B; the block and rank stay in the interval.
SelectIn(B, I, max, w, c) ==
  IF c > max THEN [v |-> 0, int |-> I]
  ELSE LET q == SelectNext(B, IF c = NoBound THEN 1 ELSE c, w)
           b == BSearchC(B, q[1])
       IN IF q[1] = 0 THEN [v |-> 0, int |-> I]
          ELSE [v |-> b, int |-> [I EXCEPT !.val = b, !.rank = q[2]]]

\* down_O_S, down_P_O: the part of the interval of w that block c holds.
DownKept(B, I, w, c) ==
  LET q == IF I.val = Unset THEN SelectNext(B, c, w) ELSE <<0, I.rank>>
      b == IF I.val = Unset THEN BSearchC(B, q[1]) ELSE I.val
      n == BlockRank(B, b + 1, w) - BlockRank(B, b, w)
  IN Interval(<<I.l + q[2], I.l + q[2] + n - 1>>)

\* edge_expr_get_S, edge_expr_get_O: the ends of an edge, from its id.
GetS(R, e) == R.s.L[e]
GetO(R, e) == R.o.L[R.o.C[R.s.L[e]] + Rank(R.s, e, R.s.L[e])]

\* map_OSP_to_POS, map_SPO_to_POS
OSPtoPOS(R, i) == R.s.C[R.p.L[i]] + Rank(R.p, i, R.p.L[i])
SPOtoPOS(R, i, o) == OSPtoPOS(R, R.p.C[o] + Rank(R.o, i, o))

\* min_E_in_SP, next_E_in_SP: edges of s among the ids of an interval of POS.
NextEofS(R, I, s, c) ==
  IF c > R.n \/ I.r < c THEN 0 ELSE NextPosition(R.s, s, {i \in Within(I) : c <= i})

\* min_E_in_OS: edges of an interval of OSP.
MinEofOS(R, I) ==
  LET w == NextValueRank(R.p, 1, Within(I)) IN R.s.C[w[1]] + w[2]

SameLabelEofO(R, I, c) ==           \* mutant: past the interval, the label is not left for the next
  LET label == BSearchC(R.s, c)
      j     == SelectWM(R.p, c - R.s.C[label] + 1, label)
      w     == NextValueRank(R.p, label, Within(I))
  IN IF c > R.n THEN 0 ELSE IF j \in Within(I) THEN c ELSE R.s.C[w[1]] + w[2]

\* next_E_in_O, next_E_in_OS: c itself when it lies in the interval, else the first
\* edge of the next label that does.
NextEofO(R, I, c) ==
  LET label == BSearchC(R.s, c)
      j     == SelectWM(R.p, c - R.s.C[label] + 1, label)
      w     == NextValueRank(R.p, IF j > I.r THEN label + 1 ELSE label, Within(I))
  IN IF c > R.n THEN 0 ELSE IF j \in Within(I) THEN c ELSE R.s.C[w[1]] + w[2]
=============================================================================
