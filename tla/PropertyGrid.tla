---------------------------- MODULE PropertyGrid ----------------------------
(***************************************************************************)
(* The values of one property (property_grid_v2): a function from the ids  *)
(* of the nodes, or edges, that have the property to its values.  Values   *)
(* are stored from 1 on, less the least value plus one, and a range asked  *)
(* for is shifted in the same way, in unsigned arithmetic.                 *)
(***************************************************************************)
EXTENDS LeastId

CONSTANT W      \* 2^64: how many numbers size_type has

ASSUME WidthAssumption == W \in Nat \ {0}

MinVal(g) == CHOOSE v \in {g[n] : n \in DOMAIN g} : \A n \in DOMAIN g : v <= g[n]
MaxVal(g) == CHOOSE v \in {g[n] : n \in DOMAIN g} : \A n \in DOMAIN g : g[n] <= v

Shifted(g, v) == (v - (MinVal(g) - 1)) % W

\* m_grid_max_val is not below the largest value; what lies between is no value.
GridMax(g) == Shifted(g, MaxVal(g))

None == [id |-> 0, val |-> 0]

\* next: the least id from n on whose value lies in one of the ranges
NextIn(g, n, ranges) ==
  LET w == LeastFrom({m \in DOMAIN g : \E r \in ranges : Shifted(g, g[m]) \in r[1] .. r[2]}, n)
  IN  IF w = 0 THEN None ELSE [id |-> w, val |-> g[w]]

NextGe(g, n, v) == NextIn(g, n, {<<Shifted(g, v), GridMax(g)>>})
NextSe(g, n, v) == NextIn(g, n, {<<1, Shifted(g, v)>>})
NextInRange(g, n, l, r) == NextIn(g, n, {<<Shifted(g, l), Shifted(g, r)>>})
NextEq(g, n, v) == NextInRange(g, n, v, v)

\* The value 0 stands for any value: a constant string that is nowhere has the id 0.
NextNotEq(g, n, v) ==
  IF v = 0 THEN NextIn(g, n, {<<1, GridMax(g)>>})
  ELSE LET aux == Shifted(g, v)
       IN  NextIn(g, n, {<<1, (aux - 1) % W>>, <<(aux + 1) % W, GridMax(g)>>})

\* next_exists, next_is_not_null
NextExists(g, n) ==
  LET w == LeastFrom(DOMAIN g, n) IN IF w = 0 THEN None ELSE [id |-> w, val |-> g[w]]

NextNull(g, maxId, n) == [id |-> LeastFrom(1 .. maxId \ DOMAIN g, n), val |-> 0]

-----------------------------------------------------------------------------
\* ring_pg: next_node_property and next_edge_property
NextProperty(g, maxId, n, v, op) ==
  CASE op = "EQ"  -> NextEq(g, n, v)
    [] op = "NEQ" -> NextNotEq(g, n, v)
    [] op = "ST"  -> NextSe(g, n, v - 1)
    [] op = "SE"  -> NextSe(g, n, v)
    [] op = "GT"  -> NextGe(g, n, v + 1)
    [] op = "GE"  -> NextGe(g, n, v)
    [] op = "ISNULL"    -> NextNull(g, maxId, n)
    [] op = "ISNOTNULL" -> [NextExists(g, n) EXCEPT !.val = 0]
=============================================================================
