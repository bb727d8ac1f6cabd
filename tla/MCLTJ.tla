-------------------------------- MODULE MCLTJ --------------------------------
(***************************************************************************)
(* Small queries for the join: two patterns over three variables, with one *)
(* comparison or with two lonely variables, two patterns over the same     *)
(* variables, and ground ones, over choices of the matches of the patterns.*)
(***************************************************************************)
EXTENDS LTJ, TLC

CONSTANTS vx, vy, vz,     \* variables
          p1, p2, w    \* two patterns and a WHERE comparison

MCVars == {vx, vy, vz}
MCItrs == {p1, p2, w}

Pairs == [{1, 2} -> 1 .. MaxId]
Assign(a, b, f) == [u \in {a, b} |-> IF u = a THEN f[1] ELSE f[2]]

\* What a pattern accepts: the projections of its matches on its variables.
Projections(m) == UNION {{On(s, V) : V \in SUBSET DOMAIN s} : s \in m}

\* What a comparison of two variables accepts: any single value, then the pairs
\* that compare.
Comparison(a, b, rel) ==
  {Nothing} \union {[u \in {a} |-> v] : v \in Ids} \union {[u \in {b} |-> v] : v \in Ids}
    \union {Assign(a, b, f) : f \in {g \in Pairs : <<g[1], g[2]>> \in rel}}

Less == {r \in Ids \X Ids : r[1] < r[2]}
Differ == {r \in Ids \X Ids : r[1] # r[2]}

\* vx - vy, vy - vz and a comparison of vx and vz
Path(m1, m2, rel, limit, timeout) ==
  [vars |-> {vx, vy, vz}, itrs |-> {p1, p2, w}, pattern |-> {p1, p2},
   scope |-> p1 :> {vx, vy} @@ p2 :> {vy, vz} @@ w :> {vx, vz},
   accepts |-> p1 :> Projections({Assign(vx, vy, f) : f \in m1})
            @@ p2 :> Projections({Assign(vy, vz, f) : f \in m2})
            @@ w :> Comparison(vx, vz, rel),
   limit |-> limit, timeout |-> timeout]

\* vx - vy, vy - vz without comparison: once vy is bound, vx and vz are both lonely, and
\* the scan of one goes on after the scans of the other below it
Chain(m1, m2, limit) ==
  [vars |-> {vx, vy, vz}, itrs |-> {p1, p2}, pattern |-> {p1, p2},
   scope |-> p1 :> {vx, vy} @@ p2 :> {vy, vz},
   accepts |-> p1 :> Projections({Assign(vx, vy, f) : f \in m1})
            @@ p2 :> Projections({Assign(vy, vz, f) : f \in m2}),
   limit |-> limit, timeout |-> FALSE]

\* two patterns over the same variables, without comparison
Parallel(m1, m2, limit, timeout) ==
  [vars |-> {vx, vy}, itrs |-> {p1, p2}, pattern |-> {p1, p2},
   scope |-> p1 :> {vx, vy} @@ p2 :> {vx, vy},
   accepts |-> p1 :> Projections({Assign(vx, vy, f) : f \in m1})
            @@ p2 :> Projections({Assign(vx, vy, f) : f \in m2}),
   limit |-> limit, timeout |-> timeout]

\* one pattern without variables: present or not
Ground(m) ==
  [vars |-> {}, itrs |-> {p1}, pattern |-> {p1}, scope |-> p1 :> {},
   accepts |-> p1 :> m, limit |-> 0, timeout |-> FALSE]

\* The queries are numbered; the digits of a number choose the parts of its query.
Digit(d, weight, base) == (d \div weight) % base
PairOf(b) == [u \in {1, 2} |-> IF u = 1 THEN 1 + (b % 2) ELSE 1 + (b \div 2)]
PairsOf(n) == {PairOf(b) : b \in {a \in 0 .. 3 : (n \div 2^a) % 2 = 1}}
Three == <<7, 11, 13, 14>>

PathNames     == 256
ParallelNames == 128
ChainNames    == 128
Names == 1 .. PathNames + ParallelNames + ChainNames + 2

QueryNumber(d) ==
  LET e == d - 1  f == e - PathNames  g == f - ParallelNames
  IN CASE e < PathNames ->
            Path(PairsOf(Digit(e, 1, 16)), PairsOf(Three[1 + Digit(e, 16, 4)]),
                 IF Digit(e, 64, 2) = 0 THEN Less ELSE Differ, 2 * Digit(e, 128, 2), FALSE)
       [] f \in 0 .. ParallelNames - 1 ->
            Parallel(PairsOf(Digit(f, 1, 16)), PairsOf(Three[1 + Digit(f, 16, 4)]),
                     Digit(f, 64, 2), Digit(f, 64, 2) = 0)
       [] g \in 0 .. ChainNames - 1 ->
            Chain(PairsOf(Digit(g, 1, 16)), PairsOf(Three[1 + Digit(g, 16, 4)]), 3 * Digit(g, 64, 2))
       [] OTHER -> Ground(IF g = ChainNames THEN {} ELSE {Nothing})

QueryTable == [d \in Names |-> QueryNumber(d)]
MCQueries == SubSeq(QueryTable, 1, Cardinality(Names))    \* a tuple, which TLC keeps
=============================================================================
