---------------------------- MODULE RingTheorems ----------------------------
(***************************************************************************)
(* For every graph: sorting and counting its edges makes a ring, each move *)
(* from one of its columns to the next leads from an interval of edges to  *)
(* the interval of those with the symbol, and each search answers the      *)
(* least value from its bound on that the edges of the interval have.      *)
(***************************************************************************)
EXTENDS Ring, BasicTheorems, FiniteSetTheorems

-----------------------------------------------------------------------------
(***************************************************************************)
(* Sorting the edges.                                                      *)
(***************************************************************************)
IsOrder(E, K) ==
  /\ \A e \in E : ~Before(K[e], K[e])
  /\ \A e, f \in E : e # f => Before(K[e], K[f]) \/ Before(K[f], K[e])
  /\ \A e, f, g \in E : Before(K[e], K[f]) /\ Before(K[f], K[g]) => Before(K[e], K[g])

\* A key is four integers; the first that differ decide.
IsKey(a) == DOMAIN a = 1 .. 4 /\ \A d \in 1 .. 4 : a[d] \in Int

\* Keys are compared by the first component in which they differ.
LEMMA BeforeIs ==
  ASSUME NEW a, IsKey(a), NEW b
  PROVE  Before(a, b) <=>
           \/ a[1] < b[1]
           \/ a[1] = b[1] /\ a[2] < b[2]
           \/ a[1] = b[1] /\ a[2] = b[2] /\ a[3] < b[3]
           \/ a[1] = b[1] /\ a[2] = b[2] /\ a[3] = b[3] /\ a[4] < b[4]
<1> DEFINE Differ(d) == a[d] < b[d] /\ \A g \in 1 .. d - 1 : a[g] = b[g]
<1>1. Before(a, b) <=> \E d \in 1 .. 4 : Differ(d)
  BY DEF Before, IsKey
<1>2. (\E d \in 1 .. 4 : Differ(d)) <=> Differ(1) \/ Differ(2) \/ Differ(3) \/ Differ(4)
  <2> HIDE DEF Differ
  <2>1. 1 .. 4 = {1, 2, 3, 4}
    OBVIOUS
  <2>2. QED BY <2>1
<1>3. Differ(1) <=> a[1] < b[1]
  OBVIOUS
<1>4. Differ(2) <=> a[1] = b[1] /\ a[2] < b[2]
  <2>1. \A g : g \in 1 .. 2 - 1 <=> g = 1
    OBVIOUS
  <2>2. QED BY <2>1
<1>5. Differ(3) <=> a[1] = b[1] /\ a[2] = b[2] /\ a[3] < b[3]
  <2>1. \A g : g \in 1 .. 3 - 1 <=> g = 1 \/ g = 2
    OBVIOUS
  <2>2. QED BY <2>1
<1>6. Differ(4) <=> a[1] = b[1] /\ a[2] = b[2] /\ a[3] = b[3] /\ a[4] < b[4]
  <2>1. \A g : g \in 1 .. 4 - 1 <=> g = 1 \/ g = 2 \/ g = 3
    OBVIOUS
  <2>2. QED BY <2>1
<1>7. QED BY <1>1, <1>2, <1>3, <1>4, <1>5, <1>6

\* Keys that no two edges share sort them.
LEMMA KeysOrder ==
  ASSUME NEW E, NEW K,
         \A e \in E : IsKey(K[e]),
         \A e, f \in E : (\A d \in 1 .. 4 : K[e][d] = K[f][d]) => e = f
  PROVE  IsOrder(E, K)
<1> DEFINE Lex(a, b) == \/ a[1] < b[1]
                        \/ a[1] = b[1] /\ a[2] < b[2]
                        \/ a[1] = b[1] /\ a[2] = b[2] /\ a[3] < b[3]
                        \/ a[1] = b[1] /\ a[2] = b[2] /\ a[3] = b[3] /\ a[4] < b[4]
<1>1. \A e \in E : K[e][1] \in Int /\ K[e][2] \in Int /\ K[e][3] \in Int /\ K[e][4] \in Int
  BY DEF IsKey
<1>2. \A e, f \in E : Before(K[e], K[f]) <=> Lex(K[e], K[f])
  BY BeforeIs
<1>3. \A e \in E : ~Lex(K[e], K[e])
  BY <1>1
<1>4. ASSUME NEW e \in E, NEW f \in E, ~Lex(K[e], K[f]), ~Lex(K[f], K[e]) PROVE e = f
  <2>1. K[e][1] = K[f][1] /\ K[e][2] = K[f][2] /\ K[e][3] = K[f][3] /\ K[e][4] = K[f][4]
    BY <1>1, <1>4
  <2>2. \A d \in 1 .. 4 : d = 1 \/ d = 2 \/ d = 3 \/ d = 4
    OBVIOUS
  <2>3. QED BY <2>1, <2>2
<1>5. \A e, f, g \in E : Lex(K[e], K[f]) /\ Lex(K[f], K[g]) => Lex(K[e], K[g])
  BY <1>1
<1> HIDE DEF Lex
<1>6. \A e \in E : ~Before(K[e], K[e])
  BY <1>2, <1>3
<1>7. \A e, f \in E : e # f => Before(K[e], K[f]) \/ Before(K[f], K[e])
  BY <1>2, <1>4
<1>8. \A e, f, g \in E : Before(K[e], K[f]) /\ Before(K[f], K[g]) => Before(K[e], K[g])
  BY <1>2, <1>5
<1>9. QED BY <1>6, <1>7, <1>8 DEF IsOrder

\* Numbering: each edge has a place of its own in 1 .. n, and none is empty.
IsNumbering(E, pos) ==
  /\ pos \in [E -> 1 .. Cardinality(E)]
  /\ \A e, f \in E : pos[e] = pos[f] => e = f
  /\ \A i \in 1 .. Cardinality(E) : \E e \in E : pos[e] = i

PositionsOf(E, K) == [e \in E |-> Position(E, K, e)]

\* A position is where an edge lies when the edges are sorted: one edge at each place.
LEMMA PositionsNumber ==
  ASSUME NEW E, IsFiniteSet(E), NEW K, IsOrder(E, K)
  PROVE  /\ IsNumbering(E, PositionsOf(E, K))
         /\ \A e, f \in E : PositionsOf(E, K)[e] < PositionsOf(E, K)[f] <=> Before(K[e], K[f])
<1> DEFINE Upto(e) == {f \in E : f = e \/ Before(K[f], K[e])}
           pos == PositionsOf(E, K)
           n == Cardinality(E)
<1>1. n \in Nat
  BY FS_CardinalityType
<1>2. \A e \in E : pos[e] = Cardinality(Upto(e))
  BY DEF PositionsOf, Position
<1>3. \A e \in E : e \in Upto(e) /\ Upto(e) \in SUBSET E /\ IsFiniteSet(Upto(e))
  BY FS_Subset
<1>4. ASSUME NEW e \in E PROVE pos[e] \in 1 .. n
  <2>1. Cardinality(Upto(e)) \in Nat /\ Cardinality(Upto(e)) <= n
    BY <1>3, FS_Subset, FS_CardinalityType
  <2>2. Cardinality(Upto(e)) # 0
    BY <1>3, FS_EmptySet
  <2>3. QED BY <1>1, <1>2, <2>1, <2>2
<1>5. ASSUME NEW e \in E, NEW f \in E, Before(K[e], K[f]) PROVE pos[e] < pos[f]
  <2>1. Upto(e) \subseteq Upto(f)
    BY <1>5 DEF IsOrder
  <2>2. f \notin Upto(e)
    BY <1>5 DEF IsOrder
  <2>3. f \in Upto(f) /\ IsFiniteSet(Upto(f)) /\ Upto(e) \in SUBSET Upto(f)
    BY <1>3, <2>1
  <2> HIDE DEF Upto
  <2>4. Cardinality(Upto(e)) <= Cardinality(Upto(f)) /\ Cardinality(Upto(e)) # Cardinality(Upto(f))
    BY <2>2, <2>3, FS_Subset
  <2>5. pos[e] <= pos[f] /\ pos[e] # pos[f]
    BY <1>2, <2>4
  <2>6. pos[e] \in Int /\ pos[f] \in Int
    BY <1>4, <1>1
  <2> HIDE DEF pos
  <2>7. QED BY <2>5, <2>6
<1>6. pos \in [E -> 1 .. n]
  BY <1>4 DEF PositionsOf
<1>7. \A e \in E : pos[e] \in Int
  BY <1>4, <1>1
<1>8. ASSUME NEW e \in E, NEW f \in E, pos[e] = pos[f] PROVE e = f
  <2>1. ~Before(K[e], K[f]) /\ ~Before(K[f], K[e])
    <3> HIDE DEF pos
    <3>1. QED BY <1>5, <1>7, <1>8
  <2>2. QED BY <2>1 DEF IsOrder
<1>9. ASSUME NEW e \in E, NEW f \in E, pos[e] < pos[f] PROVE Before(K[e], K[f])
  <2>1. e # f /\ ~Before(K[f], K[e])
    <3> HIDE DEF pos
    <3>1. QED BY <1>5, <1>7, <1>9
  <2>2. QED BY <2>1 DEF IsOrder
<1>10. ASSUME NEW i \in 1 .. n PROVE \E e \in E : pos[e] = i
  <2> HIDE DEF pos
  <2>1. pos \in Injection(E, 1 .. n)
    BY <1>6, <1>8 DEF Injection, IsInjective
  <2>2. IsFiniteSet(1 .. n) /\ Cardinality(1 .. n) = n
    BY <1>1, FS_Interval
  <2>3. pos \in Surjection(E, 1 .. n)
    BY <2>1, <2>2, FS_Injection
  <2>4. QED BY <2>3 DEF Surjection
<1>11. QED BY <1>5, <1>6, <1>8, <1>9, <1>10 DEF IsNumbering

\* Sets of edges are as large as their sets of places.
LEMMA CountByPlace ==
  ASSUME NEW E, IsFiniteSet(E), NEW pos, IsNumbering(E, pos), NEW A \in SUBSET E, NEW P,
         \A e \in A : pos[e] \in P, \A i \in P : \E e \in A : pos[e] = i
  PROVE  /\ IsFiniteSet(A) /\ IsFiniteSet(P)
         /\ Cardinality(A) \in Nat /\ Cardinality(P) = Cardinality(A)
<1> DEFINE f == [e \in A |-> pos[e]]
<1>1. IsFiniteSet(A) /\ Cardinality(A) \in Nat
  BY FS_Subset, FS_CardinalityType
<1>2. f \in Bijection(A, P)
  <2>1. f \in [A -> P]
    OBVIOUS
  <2>2. \A e, g \in A : f[e] = f[g] => e = g
    BY DEF IsNumbering
  <2>3. \A i \in P : \E e \in A : f[e] = i
    OBVIOUS
  <2> HIDE DEF f
  <2>4. QED BY <2>1, <2>2, <2>3 DEF Bijection, Injection, Surjection, IsInjective
<1> HIDE DEF f
<1>3. ExistsBijection(A, P)
  BY <1>2 DEF ExistsBijection
<1>4. QED BY <1>1, <1>3, FS_Bijection

\* As many edges as places.
LEMMA PlacesUpTo ==
  ASSUME NEW E, IsFiniteSet(E), NEW pos, IsNumbering(E, pos), NEW i \in 0 .. Cardinality(E)
  PROVE  Cardinality({f \in E : pos[f] <= i}) = i
<1> DEFINE A == {f \in E : pos[f] <= i}
<1>1. Cardinality(E) \in Nat
  BY FS_CardinalityType
<1>2. A \in SUBSET E /\ (\A e \in A : pos[e] \in 1 .. i)
  BY <1>1 DEF IsNumbering
<1>3. \A j \in 1 .. i : \E e \in A : pos[e] = j
  BY <1>1 DEF IsNumbering
<1> HIDE DEF A
<1>4. Cardinality(1 .. i) = Cardinality(A)
  BY <1>2, <1>3, CountByPlace
<1>5. Cardinality(1 .. i) = i
  BY <1>1, FS_Interval
<1>6. Cardinality(A) = i
  BY <1>4, <1>5
<1>7. QED BY <1>6 DEF A

-----------------------------------------------------------------------------
(***************************************************************************)
(* Columns.                                                                *)
(***************************************************************************)

\* B is a column of the edges numbered by pos: it holds their symbols, and C the places
\* at which the blocks of the leading field begin.
IsColumn(B, E, pos, sym, lead, top) ==
  /\ IsNumbering(E, pos) /\ top \in Nat
  /\ \A e \in E : lead[e] \in 1 .. top /\ sym[e] \in Nat /\ sym[e] # 0
  /\ DOMAIN B.L = 1 .. Cardinality(E)
  /\ \A e \in E : B.L[pos[e]] = sym[e]
  /\ DOMAIN B.C = 0 .. top + 1 /\ B.C[0] = 0
  /\ \A v \in 1 .. top + 1 : /\ B.C[v] \in 1 .. Cardinality(E) + 1
                             /\ B.C[v] = 1 + Cardinality({e \in E : lead[e] < v})
                             /\ \A e \in E : B.C[v] <= pos[e] <=> v <= lead[e]

\* What Column builds is a column: its symbols, and where the block of each value begins.
LEMMA ColumnIs ==
  ASSUME NEW E, IsFiniteSet(E), NEW K, IsOrder(E, K), NEW top \in Nat,
         NEW sym, NEW lead,
         \A e \in E : lead[e] \in 1 .. top /\ sym[e] \in Nat /\ sym[e] # 0,
         \A e, f \in E : lead[e] < lead[f] => Before(K[e], K[f])
  PROVE  IsColumn(Column(E, K, sym, lead, top), E, PositionsOf(E, K), sym, lead, top)
<1> DEFINE B == Column(E, K, sym, lead, top)
           pos == PositionsOf(E, K)
           n == Cardinality(E)
<1>1. n \in Nat
  BY FS_CardinalityType
<1>2. IsNumbering(E, pos) /\ \A e, f \in E : pos[e] < pos[f] <=> Before(K[e], K[f])
  BY PositionsNumber
<1>3. \A e \in E : pos[e] = Position(E, K, e)
  BY DEF PositionsOf
<1>4. DOMAIN B.L = 1 .. n
  BY DEF Column
<1>5. ASSUME NEW e \in E PROVE B.L[pos[e]] = sym[e]
  <2>1. pos[e] \in 1 .. n
    BY <1>2 DEF IsNumbering
  <2>2. B.L[pos[e]] = sym[CHOOSE f \in E : Position(E, K, f) = pos[e]]
    BY <2>1 DEF Column
  <2>3. \A f \in E : Position(E, K, f) = pos[e] => f = e
    BY <1>2, <1>3 DEF IsNumbering
  <2>4. (CHOOSE f \in E : Position(E, K, f) = pos[e]) = e
    BY <1>3, <2>3
  <2>5. QED BY <2>2, <2>4
<1>6. DOMAIN B.C = 0 .. top + 1 /\ B.C[0] = 0
  BY DEF Column
<1>7. ASSUME NEW v \in 1 .. top + 1
      PROVE  /\ B.C[v] \in 1 .. n + 1
             /\ B.C[v] = 1 + Cardinality({e \in E : lead[e] < v})
             /\ \A e \in E : B.C[v] <= pos[e] <=> v <= lead[e]
  <2> DEFINE Low == {e \in E : lead[e] < v}
             c == Cardinality(Low)
  <2>1. B.C[v] = 1 + c
    BY DEF Column
  <2>2. Low \in SUBSET E
    OBVIOUS
  <2> HIDE DEF B
  <2>3. IsFiniteSet(Low) /\ c \in Nat /\ c <= n
    <3> HIDE DEF Low
    <3>1. QED BY <2>2, FS_Subset, FS_CardinalityType
  <2>4. ASSUME NEW e \in E, v <= lead[e] PROVE 1 + c <= pos[e]
    <3> DEFINE U == {f \in E : pos[f] <= pos[e] - 1}
    <3>1. pos[e] \in 1 .. n
      BY <1>2 DEF IsNumbering
    <3>2. Cardinality(U) = pos[e] - 1
      BY <1>1, <1>2, <3>1, PlacesUpTo
    <3>3. ASSUME NEW f \in Low PROVE f \in U
      <4>1. lead[f] < lead[e]
        BY <2>4
      <4>2. pos[f] < pos[e]
        BY <1>2, <4>1
      <4>3. pos[f] \in 1 .. n
        BY <1>2 DEF IsNumbering
      <4> HIDE DEF pos
      <4>4. QED BY <1>1, <3>1, <4>2, <4>3
    <3>4. IsFiniteSet(U)
      BY FS_Subset
    <3> HIDE DEF U, Low
    <3>5. c <= pos[e] - 1
      BY <3>2, <3>3, <3>4, FS_Subset
    <3> HIDE DEF pos, c
    <3>6. QED BY <3>5, <3>1, <2>3, <1>1
  <2>5. ASSUME NEW e \in E, ~(v <= lead[e]) PROVE pos[e] < 1 + c
    <3> DEFINE U == {f \in E : pos[f] <= pos[e]}
    <3>1. pos[e] \in 1 .. n
      BY <1>2 DEF IsNumbering
    <3>2. Cardinality(U) = pos[e]
      BY <1>1, <1>2, <3>1, PlacesUpTo
    <3>3. ASSUME NEW f \in U PROVE f \in Low
      <4>1. ~(pos[e] < pos[f])
        <5>1. pos[f] \in 1 .. n
          BY <1>2 DEF IsNumbering
        <5> HIDE DEF pos
        <5>2. QED BY <1>1, <3>1, <5>1
      <4>2. ~(lead[e] < lead[f])
        BY <1>2, <4>1
      <4>3. QED BY <2>5, <4>2
    <3> HIDE DEF U, Low
    <3>4. pos[e] <= c
      BY <2>3, <3>2, <3>3, FS_Subset
    <3> HIDE DEF pos, c
    <3>5. QED BY <3>4, <3>1, <2>3, <1>1
  <2>6. \A e \in E : pos[e] \in 1 .. n
    BY <1>2 DEF IsNumbering
  <2> HIDE DEF c, pos
  <2>7. \A e \in E : 1 + c <= pos[e] <=> v <= lead[e]
    BY <2>3, <2>4, <2>5, <2>6, <1>1
  <2>8. 1 + c \in 1 .. n + 1
    BY <1>1, <2>3
  <2>9. QED BY <2>1, <2>7, <2>8 DEF c
<1> HIDE DEF B, pos
<1>8. QED BY <1>2, <1>4, <1>5, <1>6, <1>7 DEF IsColumn, B, pos

\* A rank counts edges.
LEMMA RankCounts ==
  ASSUME NEW E, IsFiniteSet(E), NEW B, NEW pos, NEW sym, NEW lead, NEW top,
         IsColumn(B, E, pos, sym, lead, top), NEW i \in 1 .. Cardinality(E) + 1, NEW v
  PROVE  /\ IsFiniteSet({f \in E : sym[f] = v /\ pos[f] < i})
         /\ Rank(B, i, v) = Cardinality({f \in E : sym[f] = v /\ pos[f] < i})
         /\ Rank(B, i, v) \in Nat
<1> DEFINE A == {f \in E : sym[f] = v /\ pos[f] < i}
           P == {k \in DOMAIN B.L : k < i /\ B.L[k] = v}
<1>1. IsNumbering(E, pos) /\ DOMAIN B.L = 1 .. Cardinality(E) /\ \A e \in E : B.L[pos[e]] = sym[e]
  BY DEF IsColumn
<1>2. \A e \in A : pos[e] \in P
  BY <1>1 DEF IsNumbering
<1>3. \A k \in P : \E e \in A : pos[e] = k
  BY <1>1 DEF IsNumbering
<1>4. A \in SUBSET E
  OBVIOUS
<1>5. Rank(B, i, v) = Cardinality(P)
  BY DEF Rank
<1> HIDE DEF A, P
<1>6. IsFiniteSet(A) /\ Cardinality(A) \in Nat /\ Cardinality(P) = Cardinality(A)
  BY <1>1, <1>2, <1>3, <1>4, CountByPlace, SMTT(60)
<1>7. QED BY <1>5, <1>6 DEF A

\* Ranks rise, strictly past an occurrence.
LEMMA RanksRise ==
  ASSUME NEW E, IsFiniteSet(E), NEW B, NEW pos, NEW sym, NEW lead, NEW top,
         IsColumn(B, E, pos, sym, lead, top), NEW v
  PROVE  /\ \A i, j \in 1 .. Cardinality(E) + 1 : i <= j => Rank(B, i, v) <= Rank(B, j, v)
         /\ \A e \in E, i \in 1 .. Cardinality(E) + 1 :
              sym[e] = v => (Rank(B, i, v) <= Rank(B, pos[e], v) <=> i <= pos[e])
<1> DEFINE A(i) == {f \in E : sym[f] = v /\ pos[f] < i}
           n == Cardinality(E)
<1>1. n \in Nat
  BY FS_CardinalityType
<1>2. \A e \in E : pos[e] \in 1 .. n
  BY DEF IsColumn, IsNumbering
<1>3. \A i \in 1 .. n + 1 : IsFiniteSet(A(i)) /\ Rank(B, i, v) = Cardinality(A(i)) /\ Rank(B, i, v) \in Nat
  BY RankCounts
<1>4. ASSUME NEW i \in 1 .. n + 1, NEW j \in 1 .. n + 1, i <= j PROVE Rank(B, i, v) <= Rank(B, j, v)
  <2>1. A(i) \subseteq A(j)
    BY <1>1, <1>2, <1>4
  <2>2. IsFiniteSet(A(j))
    BY <1>3
  <2> HIDE DEF A
  <2>3. Cardinality(A(i)) <= Cardinality(A(j))
    BY <2>1, <2>2, FS_Subset
  <2>4. QED BY <1>3, <2>3
<1>5. ASSUME NEW e \in E, NEW i \in 1 .. n + 1, sym[e] = v, pos[e] < i
      PROVE  Rank(B, pos[e], v) < Rank(B, i, v)
  <2>0. pos[e] \in 1 .. n + 1
    BY <1>1, <1>2
  <2>1. A(pos[e]) \subseteq A(i)
    BY <1>1, <1>2, <1>5
  <2>2. e \in A(i) /\ e \notin A(pos[e])
    BY <1>1, <1>2, <1>5
  <2>3. IsFiniteSet(A(i))
    BY <1>3
  <2> HIDE DEF A
  <2>4. Cardinality(A(pos[e])) <= Cardinality(A(i)) /\ Cardinality(A(pos[e])) # Cardinality(A(i))
    BY <2>1, <2>2, <2>3, FS_Subset
  <2>5. Rank(B, pos[e], v) <= Rank(B, i, v) /\ Rank(B, pos[e], v) # Rank(B, i, v)
    BY <2>0, <1>3, <2>4
  <2>6. Rank(B, pos[e], v) \in Nat /\ Rank(B, i, v) \in Nat
    BY <2>0, <1>3
  <2>7. QED BY <2>5, <2>6
<1>6. ASSUME NEW e \in E, NEW i \in 1 .. n + 1, sym[e] = v
      PROVE  Rank(B, i, v) <= Rank(B, pos[e], v) <=> i <= pos[e]
  <2>1. pos[e] \in 1 .. n + 1 /\ pos[e] \in Int /\ i \in Int
    BY <1>1, <1>2
  <2>2. Rank(B, pos[e], v) \in Nat /\ Rank(B, i, v) \in Nat
    BY <2>1, <1>3
  <2>3. CASE i <= pos[e]
    BY <1>4, <2>1, <2>3
  <2>4. CASE pos[e] < i
    <3>1. Rank(B, pos[e], v) < Rank(B, i, v)
      BY <1>5, <1>6, <2>4
    <3>2. QED BY <3>1, <2>1, <2>2, <2>4
  <2>5. QED BY <2>1, <2>3, <2>4
<1>7. QED BY <1>4, <1>6
-----------------------------------------------------------------------------
(***************************************************************************)
(* From column to column.                                                  *)
(***************************************************************************)

\* The block of a symbol of B lies in T, in the same order.
Turns(B, T, E, posB, posT, sym) ==
  /\ \A e, f \in E : sym[e] = sym[f] => (posB[e] < posB[f] <=> posT[e] < posT[f])
  /\ \A e \in E : posT[e] = T.C[sym[e]] + Rank(B, posB[e], sym[e])
  /\ \A v \in DOMAIN T.C : v # 0 /\ v + 1 \in DOMAIN T.C =>
       T.C[v + 1] = T.C[v] + Rank(B, Cardinality(E) + 1, v)

\* The step that ties the columns of the ring together (the LF mapping).
LEMMA ColumnsTurn ==
  ASSUME NEW E, IsFiniteSet(E), NEW B, NEW posB, NEW symB, NEW leadB, NEW topB,
         IsColumn(B, E, posB, symB, leadB, topB),
         NEW T, NEW posT, NEW symT, NEW leadT, NEW topT,
         IsColumn(T, E, posT, symT, leadT, topT),
         \A e \in E : leadT[e] = symB[e],
         \A e, f \in E : symB[e] = symB[f] => (posB[e] < posB[f] <=> posT[e] < posT[f])
  PROVE  Turns(B, T, E, posB, posT, symB)
<1> DEFINE n == Cardinality(E)
           Low(v) == {f \in E : leadT[f] < v}
           Same(v, i) == {f \in E : symB[f] = v /\ posB[f] < i}
<1>1. n \in Nat
  BY FS_CardinalityType
<1>2. \A e \in E : posB[e] \in 1 .. n /\ posT[e] \in 1 .. n
  BY DEF IsColumn, IsNumbering
<1>3. \A e \in E : leadT[e] \in 1 .. topT /\ topT \in Nat
  BY DEF IsColumn
<1>4. \A v \in 1 .. topT + 1 : T.C[v] = 1 + Cardinality(Low(v)) /\ \A f \in E : T.C[v] <= posT[f] <=> v <= leadT[f]
  BY DEF IsColumn
<1>5. \A v, i : i \in 1 .. n + 1 => Rank(B, i, v) = Cardinality(Same(v, i)) /\ IsFiniteSet(Same(v, i))
  BY RankCounts
<1>6. \A v : IsFiniteSet(Low(v))
  BY FS_Subset
<1>10. \A v \in 1 .. topT + 1 : T.C[v] \in 1 .. n + 1
  BY DEF IsColumn
<1>11. IsNumbering(E, posT)
  BY DEF IsColumn
<1>7. ASSUME NEW e \in E PROVE posT[e] = T.C[symB[e]] + Rank(B, posB[e], symB[e])
  <2> DEFINE v == symB[e]
             U == {f \in E : posT[f] <= posT[e] - 1}
  <2>1. v \in 1 .. topT /\ v = leadT[e]
    BY <1>3
  <2>2. Cardinality(U) = posT[e] - 1
    <3>1. posT[e] - 1 \in 0 .. Cardinality(E)
      BY <1>1, <1>2
    <3>2. QED BY <3>1, <1>11, PlacesUpTo
  <2>3. ASSUME NEW f \in E PROVE posT[f] < posT[e] <=> leadT[f] < v \/ (symB[f] = v /\ posB[f] < posB[e])
    <3>1. /\ leadT[f] \in 1 .. topT /\ topT \in Nat /\ leadT[f] = symB[f] /\ leadT[e] = v
          /\ posT[e] \in Int /\ posT[f] \in Int
          /\ v \in 1 .. topT + 1 /\ leadT[f] \in 1 .. topT + 1
      BY <1>1, <1>2, <1>3
    <3>2. CASE leadT[f] < v
      <4>1. T.C[v] <= posT[e] /\ ~(T.C[v] <= posT[f])
        <5>1. (T.C[v] <= posT[e] <=> v <= leadT[e]) /\ (T.C[v] <= posT[f] <=> v <= leadT[f])
          BY <1>4, <3>1
        <5> HIDE DEF v
        <5>2. QED BY <5>1, <3>1, <3>2
      <4>2. T.C[v] \in 1 .. n + 1
        BY <1>10, <3>1
      <4> HIDE DEF v, n
      <4>3. QED BY <1>1, <4>1, <4>2, <3>2, <3>1 DEF n
    <3>3. CASE leadT[f] = v
      <4>1. symB[f] = symB[e]
        BY <3>1, <3>3
      <4>2. posB[f] < posB[e] <=> posT[f] < posT[e]
        BY <4>1
      <4>3. ~(leadT[f] < v)
        BY <3>1, <3>3
      <4>4. QED BY <4>1, <4>2, <4>3
    <3>4. CASE v < leadT[f]
      <4>1. T.C[leadT[f]] <= posT[f] /\ ~(T.C[leadT[f]] <= posT[e])
        <5>1. (T.C[leadT[f]] <= posT[f] <=> leadT[f] <= leadT[f]) /\ (T.C[leadT[f]] <= posT[e] <=> leadT[f] <= leadT[e])
          BY <1>4, <3>1
        <5> HIDE DEF v
        <5>2. QED BY <5>1, <3>1, <3>4
      <4>2. T.C[leadT[f]] \in 1 .. n + 1
        BY <1>10, <3>1
      <4>3. ~(posT[f] < posT[e])
        BY <1>1, <4>1, <4>2, <3>1
      <4>5. ~(leadT[f] < v) /\ symB[f] # v
        <5> HIDE DEF v
        <5>1. QED BY <3>1, <3>4
      <4>4. QED BY <4>3, <4>5
    <3>5. leadT[f] < v \/ leadT[f] = v \/ v < leadT[f]
      <4> HIDE DEF v
      <4>1. QED BY <3>1
    <3>6. QED BY <3>2, <3>3, <3>4, <3>5
  <2>4. U = Low(v) \union Same(v, posB[e])
    <3>1. \A f \in E : posT[f] <= posT[e] - 1 <=> posT[f] < posT[e]
      BY <1>2
    <3>2. QED BY <2>3, <3>1
  <2>5. Low(v) \intersect Same(v, posB[e]) = {}
    <3>1. \A f \in E : leadT[f] < v => symB[f] # v
      BY <1>3, <2>1
    <3>2. QED BY <3>1
  <2>6. Rank(B, posB[e], v) = Cardinality(Same(v, posB[e])) /\ IsFiniteSet(Same(v, posB[e]))
    BY <1>1, <1>2, <1>5
  <2>7. T.C[v] = 1 + Cardinality(Low(v))
    <3>1. v \in 1 .. topT + 1
      BY <1>3
    <3>2. QED BY <1>4, <3>1
  <2>8. posT[e] \in Int
    BY <1>2
  <2> HIDE DEF Low, Same, U, v
  <2>9. Cardinality(U) = Cardinality(Low(v)) + Cardinality(Same(v, posB[e]))
    <3>1. Cardinality(U) = Cardinality(Low(v)) + Cardinality(Same(v, posB[e])) - Cardinality({})
      BY <2>4, <2>5, <2>6, <1>6, FS_Union
    <3>2. Cardinality({}) = 0 /\ Cardinality(Low(v)) \in Nat /\ Cardinality(Same(v, posB[e])) \in Nat
      BY <2>6, <1>6, FS_EmptySet, FS_CardinalityType
    <3>3. QED BY <3>1, <3>2
  <2>10. Cardinality(Low(v)) \in Nat /\ Cardinality(Same(v, posB[e])) \in Nat
    BY <2>6, <1>6, FS_CardinalityType
  <2>11. posT[e] = T.C[v] + Rank(B, posB[e], v)
    BY <2>2, <2>6, <2>7, <2>8, <2>9, <2>10
  <2>12. QED BY <2>11 DEF v
<1>8. ASSUME NEW v \in DOMAIN T.C, v # 0, v + 1 \in DOMAIN T.C
      PROVE  T.C[v + 1] = T.C[v] + Rank(B, n + 1, v)
  <2>1. DOMAIN T.C = 0 .. topT + 1
    BY DEF IsColumn
  <2>2. v \in 1 .. topT /\ topT \in Nat
    BY <1>8, <2>1 DEF IsColumn
  <2>3. T.C[v] = 1 + Cardinality(Low(v)) /\ T.C[v + 1] = 1 + Cardinality(Low(v + 1))
    BY <1>4, <2>2
  <2>4. Low(v + 1) = Low(v) \union Same(v, n + 1)
    <3>1. \A f \in E : leadT[f] < v + 1 <=> leadT[f] < v \/ leadT[f] = v
      BY <1>3, <2>2
    <3>2. \A f \in E : symB[f] = v <=> symB[f] = v /\ posB[f] < n + 1
      BY <1>1, <1>2
    <3>3. QED BY <3>1, <3>2
  <2>5. Low(v) \intersect Same(v, n + 1) = {}
    BY <1>3, <2>2
  <2>6. Rank(B, n + 1, v) = Cardinality(Same(v, n + 1)) /\ IsFiniteSet(Same(v, n + 1))
    <3>1. n + 1 \in 1 .. n + 1
      BY <1>1
    <3>2. QED BY <3>1, <1>5
  <2> HIDE DEF Low, Same
  <2>7. Cardinality(Low(v + 1)) = Cardinality(Low(v)) + Cardinality(Same(v, n + 1)) - Cardinality({})
    BY <2>4, <2>5, <2>6, <1>6, FS_Union
  <2>8. Cardinality({}) = 0 /\ Cardinality(Low(v)) \in Nat /\ Cardinality(Same(v, n + 1)) \in Nat
    BY <2>6, <1>6, FS_EmptySet, FS_CardinalityType
  <2>9. QED BY <2>3, <2>6, <2>7, <2>8
<1>9. QED BY <1>7, <1>8 DEF Turns

\* l .. r are the places of the edges A.
Spans(l, r, A, E, pos) ==
  /\ l \in 1 .. Cardinality(E) + 1 /\ r \in 0 .. Cardinality(E) /\ l <= r + 1
  /\ A \subseteq E /\ \A e \in E : e \in A <=> l <= pos[e] /\ pos[e] <= r

\* An interval is as long as its set of edges, and has one of them at each place.
LEMMA SpanSize ==
  ASSUME NEW E, IsFiniteSet(E), NEW pos, IsNumbering(E, pos), NEW l, NEW r, NEW A,
         Spans(l, r, A, E, pos)
  PROVE  /\ Cardinality(A) = r - l + 1
         /\ A # {} => l <= r
         /\ \A i \in l .. r : \E e \in A : pos[e] = i
<1> DEFINE n == Cardinality(E)
<1>1. n \in Nat /\ l \in 1 .. n + 1 /\ r \in 0 .. n /\ l <= r + 1
  BY FS_CardinalityType DEF Spans
<1>2. \A e \in A : pos[e] \in l .. r
  BY <1>1 DEF Spans, IsNumbering
<1>3. \A i \in l .. r : \E e \in A : pos[e] = i
  BY <1>1 DEF Spans, IsNumbering
<1>4. A \in SUBSET E
  BY DEF Spans
<1>5. Cardinality(l .. r) = Cardinality(A)
  <2> DEFINE P == l .. r
  <2>1. (\A e \in A : pos[e] \in P) /\ \A i \in P : \E e \in A : pos[e] = i
    BY <1>2, <1>3
  <2> HIDE DEF P
  <2>2. Cardinality(P) = Cardinality(A)
    BY <2>1, <1>4, CountByPlace
  <2>3. QED BY <2>2 DEF P
<1>6. Cardinality(l .. r) = IF l > r THEN 0 ELSE r - l + 1
  BY <1>1, FS_Interval
<1>7. Cardinality(A) = r - l + 1
  BY <1>1, <1>5, <1>6
<1>8. QED BY <1>1, <1>2, <1>3, <1>7

\* backward_step: of the edges A of an interval, those with the symbol v.
LEMMA StepSpans ==
  ASSUME NEW E, IsFiniteSet(E), NEW B, NEW posB, NEW symB, NEW leadB, NEW topB,
         IsColumn(B, E, posB, symB, leadB, topB),
         NEW T, NEW posT, NEW symT, NEW leadT, NEW topT,
         IsColumn(T, E, posT, symT, leadT, topT),
         Turns(B, T, E, posB, posT, symB), \A e \in E : leadT[e] = symB[e],
         NEW l, NEW r, NEW A, Spans(l, r, A, E, posB), NEW v \in 1 .. topT
  PROVE  LET step == Step(B, T, <<l, r>>, v)
         IN  Spans(step[1], step[2], {e \in A : symB[e] = v}, E, posT)
<1> DEFINE n == Cardinality(E)
           ll == Rank(B, l, v) + T.C[v]
           rr == Rank(B, r + 1, v) - 1 + T.C[v]
<1>1. n \in Nat /\ l \in 1 .. n + 1 /\ r \in 0 .. n /\ l <= r + 1
  BY FS_CardinalityType DEF Spans
<1>2. \A e \in E : posB[e] \in 1 .. n /\ posT[e] \in 1 .. n
  BY DEF IsColumn, IsNumbering
<1>3. \A i \in 1 .. n + 1 : Rank(B, i, v) \in Nat
  BY RankCounts
<1>4. Rank(B, l, v) <= Rank(B, r + 1, v) /\ Rank(B, r + 1, v) <= Rank(B, n + 1, v)
  <2>1. l \in 1 .. n + 1 /\ r + 1 \in 1 .. n + 1 /\ n + 1 \in 1 .. n + 1 /\ l <= r + 1 /\ r + 1 <= n + 1
    BY <1>1
  <2>2. \A i, j \in 1 .. n + 1 : i <= j => Rank(B, i, v) <= Rank(B, j, v)
    BY RanksRise
  <2>3. QED BY <2>1, <2>2
<1>5. /\ T.C[v] \in 1 .. n + 1 /\ T.C[v + 1] \in 1 .. n + 1
      /\ \A f \in E : T.C[v] <= posT[f] <=> v <= leadT[f]
      /\ \A f \in E : T.C[v + 1] <= posT[f] <=> v + 1 <= leadT[f]
      /\ \A f \in E : leadT[f] \in Nat
  <2>1. topT \in Nat
    BY DEF IsColumn
  <2>2. v \in 1 .. topT + 1 /\ v + 1 \in 1 .. topT + 1
    BY <2>1
  <2>3. QED BY <2>1, <2>2 DEF IsColumn
<1>6. T.C[v + 1] = T.C[v] + Rank(B, n + 1, v)
  <2>1. topT \in Nat /\ DOMAIN T.C = 0 .. topT + 1
    BY DEF IsColumn
  <2>2. v \in DOMAIN T.C /\ v + 1 \in DOMAIN T.C /\ v # 0
    BY <2>1
  <2>3. QED BY <2>2 DEF Turns
<1>7. Step(B, T, <<l, r>>, v)[1] = ll /\ Step(B, T, <<l, r>>, v)[2] = rr
  BY DEF Step
<1>8. ll \in 1 .. n + 1 /\ rr \in 0 .. n /\ ll <= rr + 1
  <2>1. Rank(B, l, v) \in Nat /\ Rank(B, r + 1, v) \in Nat /\ Rank(B, n + 1, v) \in Nat
    BY <1>1, <1>3
  <2>2. QED BY <2>1, <1>1, <1>4, <1>5, <1>6
<1>9. ASSUME NEW e \in E PROVE symB[e] = v /\ e \in A <=> ll <= posT[e] /\ posT[e] <= rr
  <2>1. Rank(B, l, v) \in Nat /\ Rank(B, r + 1, v) \in Nat /\ Rank(B, n + 1, v) \in Nat
    BY <1>1, <1>3
  <2>2. CASE symB[e] = v
    <3>1. posT[e] = T.C[v] + Rank(B, posB[e], v) /\ Rank(B, posB[e], v) \in Nat
      BY <1>1, <1>2, <1>3, <2>2 DEF Turns
    <3>2. /\ Rank(B, l, v) <= Rank(B, posB[e], v) <=> l <= posB[e]
          /\ Rank(B, r + 1, v) <= Rank(B, posB[e], v) <=> r + 1 <= posB[e]
      BY <1>1, <2>2, RanksRise
    <3>3. e \in A <=> l <= posB[e] /\ posB[e] <= r
      BY DEF Spans
    <3>4. QED BY <1>1, <1>2, <1>5, <2>1, <2>2, <3>1, <3>2, <3>3
  <2>3. CASE symB[e] # v
    <3>1. leadT[e] < v \/ v + 1 <= leadT[e]
      BY <1>5, <2>3
    <3>2. posT[e] < T.C[v] \/ T.C[v + 1] <= posT[e]
      BY <1>2, <1>5, <3>1
    <3>3. T.C[v] <= ll /\ rr < T.C[v + 1]
      BY <1>4, <1>5, <1>6, <2>1
    <3>4. QED BY <1>2, <1>5, <1>8, <2>3, <3>2, <3>3
  <2>4. QED BY <2>2, <2>3
<1>10. A \subseteq E
  BY DEF Spans
<1> HIDE DEF ll, rr
<1>11. QED BY <1>7, <1>8, <1>9, <1>10 DEF Spans

\* The block of a symbol.
LEMMA BlockSpans ==
  ASSUME NEW E, IsFiniteSet(E), NEW B, NEW pos, NEW sym, NEW lead, NEW top,
         IsColumn(B, E, pos, sym, lead, top), NEW v \in 1 .. top
  PROVE  Spans(Block(B, v)[1], Block(B, v)[2], {e \in E : lead[e] = v}, E, pos)
<1>1. Cardinality(E) \in Nat /\ top \in Nat
  BY FS_CardinalityType DEF IsColumn
<1>2. /\ B.C[v] \in 1 .. Cardinality(E) + 1 /\ B.C[v + 1] \in 1 .. Cardinality(E) + 1
      /\ B.C[v] = 1 + Cardinality({e \in E : lead[e] < v})
      /\ B.C[v + 1] = 1 + Cardinality({e \in E : lead[e] < v + 1})
      /\ \A f \in E : B.C[v] <= pos[f] <=> v <= lead[f]
      /\ \A f \in E : B.C[v + 1] <= pos[f] <=> v + 1 <= lead[f]
  <2>1. v \in 1 .. top + 1 /\ v + 1 \in 1 .. top + 1
    BY <1>1
  <2>2. QED BY <2>1 DEF IsColumn
<1>3. \A f \in E : lead[f] \in Nat /\ pos[f] \in Nat
  BY DEF IsColumn, IsNumbering
<1>4. B.C[v] <= B.C[v + 1]
  <2> DEFINE S == {e \in E : lead[e] < v}
             T == {e \in E : lead[e] < v + 1}
  <2>1. S \subseteq T
    BY <1>3
  <2>2. IsFiniteSet(T) /\ IsFiniteSet(S)
    BY FS_Subset
  <2> HIDE DEF S, T
  <2>3. Cardinality(S) <= Cardinality(T) /\ Cardinality(S) \in Nat /\ Cardinality(T) \in Nat
    BY <2>1, <2>2, FS_Subset, FS_CardinalityType
  <2>4. QED BY <1>2, <2>3 DEF S, T
<1>5. Block(B, v)[1] = B.C[v] /\ Block(B, v)[2] = B.C[v + 1] - 1
  BY DEF Block
<1>6. ASSUME NEW e \in E PROVE lead[e] = v <=> B.C[v] <= pos[e] /\ pos[e] <= B.C[v + 1] - 1
  <2>1. (B.C[v] <= pos[e] <=> v <= lead[e]) /\ (B.C[v + 1] <= pos[e] <=> v + 1 <= lead[e])
    BY <1>2
  <2>2. B.C[v + 1] \in Int /\ lead[e] \in Nat /\ pos[e] \in Int /\ v \in Int
    BY <1>1, <1>2, <1>3
  <2>3. QED BY <2>1, <2>2
<1>7. /\ B.C[v] \in 1 .. Cardinality(E) + 1 /\ B.C[v + 1] - 1 \in 0 .. Cardinality(E)
      /\ B.C[v] <= (B.C[v + 1] - 1) + 1
  BY <1>1, <1>2, <1>4
<1>8. QED BY <1>5, <1>6, <1>7 DEF Spans

-----------------------------------------------------------------------------
(***************************************************************************)
(* The ring that is built.                                                 *)
(***************************************************************************)

\* A finite set of numbers has a greatest.
LEMMA GreatestExists ==
  ASSUME NEW S \in SUBSET Nat, IsFiniteSet(S), S # {}
  PROVE  \E x \in S : \A y \in S : y <= x
<1> DEFINE Greatest(T) == \E x \in T : \A y \in T : y <= x
           Bad == {T \in SUBSET S : T # {} /\ ~Greatest(T)}
           Sizes == {Cardinality(T) : T \in Bad}
<1> SUFFICES ASSUME Bad # {} PROVE FALSE
  OBVIOUS
<1>1. \A T \in Bad : IsFiniteSet(T) /\ Cardinality(T) \in Nat
  BY FS_Subset, FS_CardinalityType
<1>2. Sizes \in SUBSET Nat /\ Sizes # {}
  BY <1>1
<1>3. PICK m \in Sizes : \A k \in Sizes : m <= k
  <2> HIDE DEF Sizes
  <2>1. QED BY <1>2, NatHasLeast
<1>4. PICK T \in Bad : Cardinality(T) = m
  OBVIOUS
<1>5. PICK x \in T : TRUE
  OBVIOUS
<1>6. IsFiniteSet(T) /\ m \in Nat
  BY <1>1, <1>4
<1>7. Cardinality(T \ {x}) = m - 1
  <2> HIDE DEF Bad
  <2>1. QED BY <1>4, <1>5, <1>6, FS_RemoveElement
<1>8. T \ {x} \notin Bad
  <2>1. T \ {x} \in Bad => m - 1 \in Sizes
    BY <1>7
  <2>2. ~(m <= m - 1)
    BY <1>6
  <2>3. QED BY <2>1, <2>2, <1>3
<1>9. T \in SUBSET Nat /\ ~Greatest(T) /\ T # {}
  OBVIOUS
<1>10. T \ {x} # {}
  BY <1>9
<1>11. PICK y \in T \ {x} : \A z \in T \ {x} : z <= y
  BY <1>8, <1>9, <1>10
<1>12. x \in Nat /\ y \in Nat
  BY <1>9
<1>13. CASE x <= y
  <2>1. \A z \in T : z <= y
    BY <1>11, <1>13
  <2>2. QED BY <2>1, <1>9
<1>14. CASE y <= x
  <2>1. \A z \in T : z <= x
    BY <1>9, <1>11, <1>12, <1>14
  <2>2. QED BY <2>1, <1>9
<1>15. QED BY <1>12, <1>13, <1>14

\* LargestOf is that greatest number.
LEMMA LargestIs ==
  ASSUME NEW S \in SUBSET Nat, IsFiniteSet(S), S # {}
  PROVE  LargestOf(S) \in S /\ \A v \in S : v <= LargestOf(S)
BY GreatestExists DEF LargestOf

\* There is only one.
LEMMA LargestUnique ==
  ASSUME NEW S \in SUBSET Nat, NEW v \in S, \A w \in S : w <= v
  PROVE  LargestOf(S) = v
<1>1. LargestOf(S) \in S /\ \A w \in S : w <= LargestOf(S)
  BY DEF LargestOf
<1>2. LargestOf(S) \in Nat /\ v \in Nat
  BY <1>1
<1>3. QED BY <1>1, <1>2

Subj(E) == [e \in E |-> e.s]
Pred(E) == [e \in E |-> e.p]
Obj(E) == [e \in E |-> e.o]

Spo(E) == PositionsOf(E, SPO(E))
Osp(E) == PositionsOf(E, OSP(E))
Pos(E) == PositionsOf(E, POS(E))

\* The first of four fields that differ decides.
Lex(a1, b1, a2, b2, a3, b3, a4, b4) ==
  \/ a1 < b1
  \/ a1 = b1 /\ a2 < b2
  \/ a1 = b1 /\ a2 = b2 /\ a3 < b3
  \/ a1 = b1 /\ a2 = b2 /\ a3 = b3 /\ a4 < b4

\* The three orders are total, and compare the fields of the edges.
LEMMA Orders ==
  ASSUME NEW E, IsGraph(E)
  PROVE  /\ IsOrder(E, SPO(E)) /\ IsOrder(E, OSP(E)) /\ IsOrder(E, POS(E))
         /\ \A e, f \in E :
              /\ Before(SPO(E)[e], SPO(E)[f]) <=> Lex(e.s, f.s, e.p, f.p, e.o, f.o, e.k, f.k)
              /\ Before(OSP(E)[e], OSP(E)[f]) <=> Lex(e.o, f.o, e.s, f.s, e.p, f.p, e.k, f.k)
              /\ Before(POS(E)[e], POS(E)[f]) <=> Lex(e.p, f.p, e.o, f.o, e.s, f.s, e.k, f.k)
<1>1. \A e \in E : e.s \in Int /\ e.p \in Int /\ e.o \in Int /\ e.k \in Int
  BY DEF IsGraph
<1>2. \A e, f \in E : e.s = f.s /\ e.p = f.p /\ e.o = f.o /\ e.k = f.k => e = f
  BY DEF IsGraph
<1>3. \A a, b, c, d \in Int : IsKey(<<a, b, c, d>>)
  <2> SUFFICES ASSUME NEW a \in Int, NEW b \in Int, NEW c \in Int, NEW d \in Int
               PROVE  IsKey(<<a, b, c, d>>)
    OBVIOUS
  <2> DEFINE k == <<a, b, c, d>>
  <2>1. DOMAIN k = 1 .. 4
    OBVIOUS
  <2>2. \A g \in 1 .. 4 : g = 1 \/ g = 2 \/ g = 3 \/ g = 4
    OBVIOUS
  <2>3. k[1] \in Int /\ k[2] \in Int /\ k[3] \in Int /\ k[4] \in Int
    OBVIOUS
  <2> HIDE DEF k
  <2>4. IsKey(k)
    BY <2>1, <2>2, <2>3 DEF IsKey
  <2>5. QED BY <2>4 DEF k
<1>4. /\ \A e \in E : SPO(E)[e] = <<e.s, e.p, e.o, e.k>>
      /\ \A e \in E : OSP(E)[e] = <<e.o, e.s, e.p, e.k>>
      /\ \A e \in E : POS(E)[e] = <<e.p, e.o, e.s, e.k>>
  BY DEF SPO, OSP, POS
<1>5. \A e \in E : IsKey(SPO(E)[e]) /\ IsKey(OSP(E)[e]) /\ IsKey(POS(E)[e])
  BY <1>1, <1>3, <1>4
<1>6. 1 \in 1 .. 4 /\ 2 \in 1 .. 4 /\ 3 \in 1 .. 4 /\ 4 \in 1 .. 4
  OBVIOUS
<1>7. IsOrder(E, SPO(E))
  <2>1. \A e, f \in E : (\A d \in 1 .. 4 : SPO(E)[e][d] = SPO(E)[f][d]) => e = f
    BY <1>2, <1>4, <1>6
  <2>2. QED BY <1>5, <2>1, KeysOrder
<1>8. IsOrder(E, OSP(E))
  <2>1. \A e, f \in E : (\A d \in 1 .. 4 : OSP(E)[e][d] = OSP(E)[f][d]) => e = f
    BY <1>2, <1>4, <1>6
  <2>2. QED BY <1>5, <2>1, KeysOrder
<1>9. IsOrder(E, POS(E))
  <2>1. \A e, f \in E : (\A d \in 1 .. 4 : POS(E)[e][d] = POS(E)[f][d]) => e = f
    BY <1>2, <1>4, <1>6
  <2>2. QED BY <1>5, <2>1, KeysOrder
<1>10. ASSUME NEW e \in E, NEW f \in E
       PROVE  /\ Before(SPO(E)[e], SPO(E)[f]) <=> Lex(e.s, f.s, e.p, f.p, e.o, f.o, e.k, f.k)
              /\ Before(OSP(E)[e], OSP(E)[f]) <=> Lex(e.o, f.o, e.s, f.s, e.p, f.p, e.k, f.k)
              /\ Before(POS(E)[e], POS(E)[f]) <=> Lex(e.p, f.p, e.o, f.o, e.s, f.s, e.k, f.k)
  BY <1>4, <1>5, BeforeIs DEF Lex
<1>11. QED BY <1>7, <1>8, <1>9, <1>10

\* What the ring R over the edges E is: three columns that turn into each other.
IsRing(R, E) ==
  /\ R.n = Cardinality(E) /\ R.n \in Nat /\ R.n # 0
  /\ R.maxSO \in Nat /\ R.maxP \in Nat
  /\ IsColumn(R.o, E, Spo(E), Obj(E), Subj(E), R.maxSO)
  /\ IsColumn(R.p, E, Osp(E), Pred(E), Obj(E), R.maxSO)
  /\ IsColumn(R.s, E, Pos(E), Subj(E), Pred(E), R.maxP)
  /\ Turns(R.o, R.p, E, Spo(E), Osp(E), Obj(E))
  /\ Turns(R.p, R.s, E, Osp(E), Pos(E), Pred(E))
  /\ Turns(R.s, R.o, E, Pos(E), Spo(E), Subj(E))

\* The columns that build_bwts makes of any graph are a ring: each holds the symbols of the
\* edges in its order, and a step from one leads to the next.
THEOREM BuildIsRing ==
  ASSUME NEW E, IsGraph(E)
  PROVE  IsRing(Build(E), E)
<1> DEFINE R == Build(E)
           S == {e.s : e \in E} \union {e.o : e \in E}
           P == {e.p : e \in E}
<1>1. IsFiniteSet(E) /\ E # {} /\ R.n = Cardinality(E) /\ R.n \in Nat /\ R.n # 0
  BY FS_CardinalityType, FS_EmptySet DEF IsGraph, Build
<1>2. S \in SUBSET Nat /\ P \in SUBSET Nat /\ S # {} /\ P # {}
  BY DEF IsGraph
<1>3. IsFiniteSet(S) /\ IsFiniteSet(P)
  <2>1. IsFiniteSet({e.s : e \in E}) /\ IsFiniteSet({e.o : e \in E}) /\ IsFiniteSet(P)
    <3>1. /\ \A v \in {e.s : e \in E} : \E e \in E : Subj(E)[e] = v
          /\ \A v \in {e.o : e \in E} : \E e \in E : Obj(E)[e] = v
          /\ \A v \in P : \E e \in E : Pred(E)[e] = v
      BY DEF Subj, Pred, Obj
    <3>2. /\ Subj(E) \in [E -> {e.s : e \in E}] /\ Obj(E) \in [E -> {e.o : e \in E}]
          /\ Pred(E) \in [E -> P]
      BY DEF Subj, Pred, Obj
    <3>3. /\ Subj(E) \in Surjection(E, {e.s : e \in E}) /\ Obj(E) \in Surjection(E, {e.o : e \in E})
          /\ Pred(E) \in Surjection(E, P)
      BY <3>1, <3>2 DEF Surjection
    <3>4. QED BY <1>1, <3>3, FS_Surjection
  <2>2. QED BY <2>1, FS_Union
<1>4. R.maxSO = LargestOf(S) /\ R.maxP = LargestOf(P)
  BY DEF Build
<1>5. /\ R.maxSO \in Nat /\ \A v \in S : v <= R.maxSO
      /\ R.maxP \in Nat /\ \A v \in P : v <= R.maxP
  <2> HIDE DEF S, P, R
  <2>1. QED BY <1>2, <1>3, <1>4, LargestIs
<1>6. \A e \in E : /\ e.s \in 1 .. R.maxSO /\ e.o \in 1 .. R.maxSO /\ e.p \in 1 .. R.maxP
                   /\ Subj(E)[e] = e.s /\ Pred(E)[e] = e.p /\ Obj(E)[e] = e.o
  <2>1. \A e \in E : /\ e.s \in Nat /\ e.s # 0 /\ e.o \in Nat /\ e.o # 0 /\ e.p \in Nat /\ e.p # 0
                     /\ Subj(E)[e] = e.s /\ Pred(E)[e] = e.p /\ Obj(E)[e] = e.o
    BY DEF IsGraph, Subj, Pred, Obj
  <2>2. \A e \in E : e.s \in S /\ e.o \in S /\ e.p \in P
    OBVIOUS
  <2> HIDE DEF S, P, R
  <2>3. QED BY <1>5, <2>1, <2>2
<1>7. /\ R.o = Column(E, SPO(E), Obj(E), Subj(E), R.maxSO)
      /\ R.p = Column(E, OSP(E), Pred(E), Obj(E), R.maxSO)
      /\ R.s = Column(E, POS(E), Subj(E), Pred(E), R.maxP)
  BY DEF Build, Subj, Pred, Obj
<1> HIDE DEF R, S, P
<1>8. /\ \A e, f \in E : Spo(E)[e] < Spo(E)[f] <=> Lex(e.s, f.s, e.p, f.p, e.o, f.o, e.k, f.k)
      /\ \A e, f \in E : Osp(E)[e] < Osp(E)[f] <=> Lex(e.o, f.o, e.s, f.s, e.p, f.p, e.k, f.k)
      /\ \A e, f \in E : Pos(E)[e] < Pos(E)[f] <=> Lex(e.p, f.p, e.o, f.o, e.s, f.s, e.k, f.k)
  BY <1>1, Orders, PositionsNumber DEF Spo, Osp, Pos
<1>9. /\ \A e, f \in E : Subj(E)[e] < Subj(E)[f] => Before(SPO(E)[e], SPO(E)[f])
      /\ \A e, f \in E : Obj(E)[e] < Obj(E)[f] => Before(OSP(E)[e], OSP(E)[f])
      /\ \A e, f \in E : Pred(E)[e] < Pred(E)[f] => Before(POS(E)[e], POS(E)[f])
  BY <1>6, Orders DEF Lex
<1>10. IsColumn(R.o, E, Spo(E), Obj(E), Subj(E), R.maxSO)
  BY <1>1, <1>5, <1>6, <1>7, <1>9, Orders, ColumnIs DEF Spo
<1>11. IsColumn(R.p, E, Osp(E), Pred(E), Obj(E), R.maxSO)
  BY <1>1, <1>5, <1>6, <1>7, <1>9, Orders, ColumnIs DEF Osp
<1>12. IsColumn(R.s, E, Pos(E), Subj(E), Pred(E), R.maxP)
  BY <1>1, <1>5, <1>6, <1>7, <1>9, Orders, ColumnIs DEF Pos
<1>13. Turns(R.o, R.p, E, Spo(E), Osp(E), Obj(E))
  <2>1. \A e, f \in E : Obj(E)[e] = Obj(E)[f] => (Spo(E)[e] < Spo(E)[f] <=> Osp(E)[e] < Osp(E)[f])
    BY <1>6, <1>8 DEF Lex
  <2>2. QED BY <1>1, <1>10, <1>11, <2>1, ColumnsTurn
<1>14. Turns(R.p, R.s, E, Osp(E), Pos(E), Pred(E))
  <2>1. \A e, f \in E : Pred(E)[e] = Pred(E)[f] => (Osp(E)[e] < Osp(E)[f] <=> Pos(E)[e] < Pos(E)[f])
    BY <1>6, <1>8 DEF Lex
  <2>2. QED BY <1>1, <1>11, <1>12, <2>1, ColumnsTurn
<1>15. Turns(R.s, R.o, E, Pos(E), Spo(E), Subj(E))
  <2>1. \A e, f \in E : Subj(E)[e] = Subj(E)[f] => (Pos(E)[e] < Pos(E)[f] <=> Spo(E)[e] < Spo(E)[f])
    BY <1>6, <1>8 DEF Lex
  <2>2. QED BY <1>1, <1>10, <1>12, <2>1, ColumnsTurn
<1>16. QED BY <1>1, <1>5, <1>10, <1>11, <1>12, <1>13, <1>14, <1>15 DEF IsRing, R

\* What the ring has of every edge.
LEMMA EdgeFacts ==
  ASSUME NEW E, IsGraph(E), NEW R, IsRing(R, E)
  PROVE  /\ IsFiniteSet(E) /\ Cardinality(E) = R.n
         /\ IsNumbering(E, Spo(E)) /\ IsNumbering(E, Osp(E)) /\ IsNumbering(E, Pos(E))
         /\ \A e \in E :
              /\ e.s \in 1 .. R.maxSO /\ e.o \in 1 .. R.maxSO /\ e.p \in 1 .. R.maxP
              /\ Subj(E)[e] = e.s /\ Pred(E)[e] = e.p /\ Obj(E)[e] = e.o
              /\ Spo(E)[e] \in 1 .. R.n /\ Osp(E)[e] \in 1 .. R.n /\ Pos(E)[e] \in 1 .. R.n
              /\ EdgeId(E, e) = Pos(E)[e]
<1>1. IsNumbering(E, Spo(E)) /\ IsNumbering(E, Osp(E)) /\ IsNumbering(E, Pos(E))
  BY DEF IsRing, IsColumn
<1>2. IsFiniteSet(E) /\ Cardinality(E) = R.n
  BY DEF IsGraph, IsRing
<1>3. ASSUME NEW e \in E
      PROVE  /\ Subj(E)[e] \in 1 .. R.maxSO /\ Obj(E)[e] \in 1 .. R.maxSO /\ Pred(E)[e] \in 1 .. R.maxP
             /\ Subj(E)[e] = e.s /\ Pred(E)[e] = e.p /\ Obj(E)[e] = e.o
  <2>1. Subj(E)[e] \in 1 .. R.maxSO /\ Obj(E)[e] \in 1 .. R.maxSO /\ Pred(E)[e] \in 1 .. R.maxP
    BY DEF IsRing, IsColumn
  <2>2. QED BY <2>1 DEF Subj, Pred, Obj
<1>4. \A e \in E : Spo(E)[e] \in 1 .. R.n /\ Osp(E)[e] \in 1 .. R.n /\ Pos(E)[e] \in 1 .. R.n
  BY <1>1, <1>2 DEF IsNumbering
<1>5. \A e \in E : EdgeId(E, e) = Pos(E)[e]
  BY DEF EdgeId, Pos, PositionsOf
<1>6. QED BY <1>1, <1>2, <1>3, <1>4, <1>5

\* The orders of the columns compare the fields of the edges.
LEMMA EdgeOrders ==
  ASSUME NEW E, IsGraph(E)
  PROVE  \A e, f \in E :
           /\ Spo(E)[e] < Spo(E)[f] <=> Lex(e.s, f.s, e.p, f.p, e.o, f.o, e.k, f.k)
           /\ Osp(E)[e] < Osp(E)[f] <=> Lex(e.o, f.o, e.s, f.s, e.p, f.p, e.k, f.k)
           /\ Pos(E)[e] < Pos(E)[f] <=> Lex(e.p, f.p, e.o, f.o, e.s, f.s, e.k, f.k)
<1>1. IsFiniteSet(E)
  BY DEF IsGraph
<1>2. QED BY <1>1, Orders, PositionsNumber DEF Spo, Osp, Pos

-----------------------------------------------------------------------------
(***************************************************************************)
(* Intervals.                                                              *)
(***************************************************************************)

\* All places hold all edges.
LEMMA SpansAll ==
  ASSUME NEW E, IsFiniteSet(E), NEW pos, IsNumbering(E, pos)
  PROVE  Spans(1, Cardinality(E), E, E, pos)
<1>1. Cardinality(E) \in Nat
  BY FS_CardinalityType
<1>2. \A e \in E : pos[e] \in 1 .. Cardinality(E)
  BY DEF IsNumbering
<1>3. QED BY <1>1, <1>2 DEF Spans

\* Two intervals of the same edges are the same.
LEMMA SpansUnique ==
  ASSUME NEW E, IsFiniteSet(E), NEW pos, IsNumbering(E, pos), NEW A, A # {},
         NEW l, NEW r, Spans(l, r, A, E, pos), NEW k, NEW t, Spans(k, t, A, E, pos)
  PROVE  l = k /\ r = t
<1>1. Cardinality(E) \in Nat
  BY FS_CardinalityType
<1>2. l \in Int /\ r \in Int /\ k \in Int /\ t \in Int
  BY <1>1 DEF Spans
<1>3. l <= r /\ k <= t
  <2>1. l <= r
    BY SpanSize
  <2>2. k <= t
    BY SpanSize
  <2>3. QED BY <2>1, <2>2
<1>4. l \in l .. r /\ r \in l .. r /\ k \in k .. t /\ t \in k .. t
  BY <1>2, <1>3
<1>5. PICK e1, e2, e3, e4 \in A : pos[e1] = l /\ pos[e2] = r /\ pos[e3] = k /\ pos[e4] = t
  <2>1. (\E e \in A : pos[e] = l) /\ (\E e \in A : pos[e] = r)
    BY <1>4, SpanSize
  <2>2. (\E e \in A : pos[e] = k) /\ (\E e \in A : pos[e] = t)
    BY <1>4, SpanSize
  <2>3. QED BY <2>1, <2>2
<1>6. k <= l /\ r <= t /\ l <= k /\ t <= r
  BY <1>5 DEF Spans
<1>7. QED BY <1>2, <1>6

\* No bound and the bound 1 ask for the same.
LEMMA LeastUnbounded ==
  ASSUME NEW S \in SUBSET (Nat \ {0})
  PROVE  LeastFrom(S, NoBound) = LeastFrom(S, 1)
<1>1. \A v \in S : v \in Nat /\ v # 0 /\ (NoBound <= v) /\ 1 <= v
  BY DEF NoBound
<1>2. NoBound \in Int
  BY DEF NoBound
<1>3. CASE S = {}
  BY <1>2, <1>3, LeastFromNone
<1>4. CASE S # {}
  <2>1. PICK v \in S : \A w \in S : v <= w
    BY <1>4, NatHasLeast
  <2>2. LeastFrom(S, NoBound) = v /\ LeastFrom(S, 1) = v
    BY <1>1, <1>2, <2>1, LeastFromIs
  <2>3. QED BY <2>2
<1>5. QED BY <1>3, <1>4

\* What can be asked for.
IsBound(c) == c = NoBound \/ c \in Nat \ {0}

\* The symbols in an interval are those of its edges.
LEMMA SymbolsOfSpan ==
  ASSUME NEW E, IsFiniteSet(E), NEW B, NEW pos, NEW sym, NEW lead, NEW top,
         IsColumn(B, E, pos, sym, lead, top), NEW l, NEW r, NEW A, Spans(l, r, A, E, pos)
  PROVE  /\ {B.L[i] : i \in l .. r} = {sym[e] : e \in A}
         /\ {sym[e] : e \in A} \in SUBSET (Nat \ {0})
<1>1. \A e \in E : B.L[pos[e]] = sym[e] /\ sym[e] \in Nat /\ sym[e] # 0 /\ pos[e] \in Int
  <2>1. Cardinality(E) \in Nat
    BY FS_CardinalityType
  <2>2. QED BY <2>1 DEF IsColumn, IsNumbering
<1>2. \A i \in l .. r : \E e \in A : pos[e] = i
  BY SpanSize DEF IsColumn
<1>3. A \subseteq E /\ \A e \in A : pos[e] \in l .. r
  BY <1>1 DEF Spans
<1>4. QED BY <1>1, <1>2, <1>3

\* min and next in an interval answer the least symbol, from the bound on, of its edges.
LEMMA NextInAnswers ==
  ASSUME NEW E, IsFiniteSet(E), NEW B, NEW pos, NEW sym, NEW lead, NEW top,
         IsColumn(B, E, pos, sym, lead, top), NEW I, NEW A, Spans(I.l, I.r, A, E, pos),
         NEW max \in Nat, \A e \in E : sym[e] <= max, NEW c, IsBound(c)
  PROVE  NextIn(B, I, max, c) = LeastFrom({sym[e] : e \in A}, c)
<1> DEFINE S == {sym[e] : e \in A}
<1>1. {B.L[i] : i \in Within(I)} = S /\ S \in SUBSET (Nat \ {0})
  BY SymbolsOfSpan DEF Within
<1>2. \A v \in S : v <= max
  BY DEF Spans
<1>3. NextIn(B, I, max, c) = IF c > max THEN 0 ELSE LeastFrom(S, IF c = NoBound THEN 1 ELSE c)
  BY <1>1 DEF NextIn, NextValue
<1> HIDE DEF S
<1>4. CASE c > max
  <2>1. c \in Int /\ \A v \in S : v < c
    BY <1>1, <1>2, <1>4 DEF IsBound, NoBound
  <2>2. QED BY <1>1, <1>3, <1>4, <2>1, LeastFromNone DEF S
<1>5. CASE ~(c > max)
  BY <1>1, <1>3, <1>5, LeastUnbounded DEF S
<1>6. QED BY <1>4, <1>5

\* The block of a position.
LEMMA BSearchIs ==
  ASSUME NEW E, IsFiniteSet(E), NEW B, NEW pos, NEW sym, NEW lead, NEW top,
         IsColumn(B, E, pos, sym, lead, top), NEW e \in E
  PROVE  BSearchC(B, pos[e]) = lead[e]
<1> DEFINE S == {v \in DOMAIN B.C : B.C[v] <= pos[e]}
<1>1. /\ DOMAIN B.C = 0 .. top + 1 /\ top \in Nat /\ B.C[0] = 0 /\ lead[e] \in 1 .. top
      /\ Cardinality(E) \in Nat /\ pos[e] \in 1 .. Cardinality(E)
      /\ \A v \in 1 .. top + 1 : B.C[v] <= pos[e] <=> v <= lead[e]
  BY FS_CardinalityType DEF IsColumn, IsNumbering
<1>2. S \in SUBSET Nat
  BY <1>1
<1>3. lead[e] \in S
  BY <1>1
<1>4. ASSUME NEW v \in S PROVE v <= lead[e]
  <2>1. v \in 0 .. top + 1 /\ B.C[v] <= pos[e]
    BY <1>1
  <2>2. v = 0 \/ v \in 1 .. top + 1
    BY <1>1, <2>1
  <2>3. CASE v = 0
    BY <1>1, <2>3
  <2>4. CASE v \in 1 .. top + 1
    BY <1>1, <2>1, <2>4
  <2>5. QED BY <2>2, <2>3, <2>4
<1> HIDE DEF S
<1>5. LargestOf(S) = lead[e]
  BY <1>2, <1>3, <1>4, LargestUnique
<1>6. QED BY <1>5 DEF S, BSearchC

\* Blocks follow each other.
LEMMA BlocksRise ==
  ASSUME NEW E, IsFiniteSet(E), NEW B, NEW pos, NEW sym, NEW lead, NEW top,
         IsColumn(B, E, pos, sym, lead, top), NEW e \in E, NEW f \in E, pos[e] <= pos[f]
  PROVE  lead[e] <= lead[f]
<1>1. /\ top \in Nat /\ lead[e] \in 1 .. top /\ Cardinality(E) \in Nat
      /\ pos[e] \in 1 .. Cardinality(E) /\ pos[f] \in 1 .. Cardinality(E)
  BY FS_CardinalityType DEF IsColumn, IsNumbering
<1>2. lead[e] \in 1 .. top + 1
  BY <1>1
<1>3. /\ B.C[lead[e]] \in 1 .. Cardinality(E) + 1
      /\ B.C[lead[e]] <= pos[e] <=> lead[e] <= lead[e]
      /\ B.C[lead[e]] <= pos[f] <=> lead[e] <= lead[f]
  BY <1>2 DEF IsColumn
<1>4. QED BY <1>1, <1>3

IsInterval(I) == I \in [l : Int, r : Int, val : Int, rank : Int]

\* min_O_in_P and its kin answer the least block, from the bound on, that has the symbol, and
\* keep its block and rank.
LEMMA SelectInAnswers ==
  ASSUME NEW E, IsFiniteSet(E), NEW B, NEW pos, NEW sym, NEW lead, NEW top,
         IsColumn(B, E, pos, sym, lead, top),
         NEW I, IsInterval(I), NEW w, NEW c, IsBound(c),
         NEW found, found = SelectIn(B, I, top, w, c)
  PROVE  /\ found.v = LeastFrom({lead[e] : e \in {f \in E : sym[f] = w}}, c)
         /\ found.v = 0 => found.int = I
         /\ found.v # 0 => /\ IsInterval(found.int) /\ found.int.l = I.l /\ found.int.r = I.r
                           /\ found.int.val = found.v /\ found.int.rank = BlockRank(B, found.v, w)
<1> DEFINE S == {lead[e] : e \in {f \in E : sym[f] = w}}
           v == IF c = NoBound THEN 1 ELSE c
           At == {k \in DOMAIN B.L : B.C[v] <= k}
           P == {i \in At : B.L[i] = w}
           i == Least(P)
<1>1. /\ \A e \in E : /\ lead[e] \in 1 .. top /\ pos[e] \in 1 .. Cardinality(E) /\ B.L[pos[e]] = sym[e]
      /\ Cardinality(E) \in Nat /\ top \in Nat /\ DOMAIN B.L = 1 .. Cardinality(E)
      /\ \A k \in 1 .. Cardinality(E) : \E e \in E : pos[e] = k
      /\ \A u \in 1 .. top + 1 : B.C[u] \in 1 .. Cardinality(E) + 1 /\ \A e \in E : B.C[u] <= pos[e] <=> u <= lead[e]
  BY FS_CardinalityType DEF IsColumn, IsNumbering
<1>2. S \in SUBSET (Nat \ {0})
  BY <1>1
<1>3. v \in Nat \ {0} /\ c \in Int /\ (c > top => v = c) /\ (v > top => c > top \/ top = 0)
  BY <1>1 DEF IsBound, NoBound
<1>4. LeastFrom(S, c) = LeastFrom(S, v)
  <2> HIDE DEF S
  <2>1. QED BY <1>2, LeastUnbounded
<1>5. CASE c > top
  <2>1. found.v = 0 /\ found.int = I
    BY <1>5 DEF SelectIn
  <2>2. \A u \in S : u < c
    BY <1>1, <1>3, <1>5
  <2>3. LeastFrom(S, c) = 0
    <3> HIDE DEF S
    <3>1. QED BY <1>2, <1>3, <2>2, LeastFromNone
  <2>4. QED BY <2>1, <2>3
<1>6. CASE ~(c > top)
  <2>1. SelectNext(B, v, w) = <<i, IF i = 0 THEN 0 ELSE Rank(B, i, w)>>
    BY DEF SelectNext, NextPosition
  <2>2. found = IF i = 0 THEN [v |-> 0, int |-> I]
                ELSE [v |-> BSearchC(B, i), int |-> [I EXCEPT !.val = BSearchC(B, i), !.rank = Rank(B, i, w)]]
    <3> DEFINE q == SelectNext(B, v, w)
    <3>1. found = IF q[1] = 0 THEN [v |-> 0, int |-> I]
                  ELSE [v |-> BSearchC(B, q[1]), int |-> [I EXCEPT !.val = BSearchC(B, q[1]), !.rank = q[2]]]
      BY <1>6 DEF SelectIn
    <3>2. q[1] = i /\ q[2] = IF i = 0 THEN 0 ELSE Rank(B, i, w)
      BY <2>1
    <3> HIDE DEF q, i
    <3>3. QED BY <3>1, <3>2
  <2>3. P \in SUBSET (Nat \ {0})
    BY <1>1
  <2>4. v \in 1 .. top + 1
    <3>1. CASE c = NoBound
      BY <1>1, <3>1
    <3>2. CASE c # NoBound
      BY <1>1, <1>3, <1>6, <3>2
    <3>3. QED BY <3>1, <3>2
  <2>5. \A e \in E : pos[e] \in P <=> sym[e] = w /\ v <= lead[e]
    <3> HIDE DEF v
    <3>1. QED BY <1>1, <2>4
  <2>6. CASE i = 0
    <3>1. P = {}
      <4>1. \A k \in P : k < 1
        <5> HIDE DEF P
        <5>1. QED BY <2>3, <2>6, LeastFromCorrect DEF Least
      <4>2. \A k \in P : k \in Nat /\ k # 0
        BY <2>3
      <4> HIDE DEF P
      <4>3. QED BY <4>1, <4>2
    <3>2. \A u \in S : u < v
      <4> HIDE DEF v, P
      <4>1. QED BY <1>1, <1>3, <2>5, <3>1
    <3>3. LeastFrom(S, v) = 0
      <4> HIDE DEF S, v
      <4>1. QED BY <1>2, <1>3, <3>2, LeastFromNone
    <3>4. found.v = 0 /\ found.int = I
      <4> HIDE DEF i
      <4>1. QED BY <2>2, <2>6
    <3>5. QED BY <1>4, <3>3, <3>4
  <2>7. CASE i # 0
    <3>1. i \in P /\ \A k \in P : i <= k
      <4>1. LeastFrom(P, 1) # 0
        BY <2>7 DEF Least
      <4> HIDE DEF P
      <4>2. LeastFrom(P, 1) \in P /\ \A k \in P : 1 <= k => LeastFrom(P, 1) <= k
        BY <2>3, <4>1, LeastFromCorrect
      <4>3. \A k \in P : 1 <= k
        BY <2>3
      <4>4. QED BY <4>2, <4>3 DEF Least
    <3>2. PICK e \in E : pos[e] = i
      <4>1. i \in 1 .. Cardinality(E)
        <5> HIDE DEF i
        <5>1. QED BY <1>1, <3>1
      <4> HIDE DEF i
      <4>2. QED BY <1>1, <4>1
    <3>3. sym[e] = w /\ v <= lead[e]
      BY <2>5, <3>1, <3>2
    <3>4. BSearchC(B, i) = lead[e]
      <4>1. BSearchC(B, pos[e]) = lead[e]
        BY BSearchIs
      <4>2. QED BY <3>2, <4>1
    <3> HIDE DEF i, P, At
    <3>5. ASSUME NEW u \in S, v <= u PROVE lead[e] <= u
      <4>1. PICK f \in E : sym[f] = w /\ u = lead[f]
        OBVIOUS
      <4>2. pos[e] <= pos[f]
        BY <2>5, <3>1, <3>2, <3>5, <4>1
      <4>3. QED BY <4>1, <4>2, BlocksRise
    <3>6. lead[e] \in S
      BY <3>3
    <3>7. LeastFrom(S, v) = lead[e]
      <4>1. v \in Int /\ v <= lead[e] /\ \A u \in S : v <= u => lead[e] <= u
        BY <1>3, <3>3, <3>5
      <4> HIDE DEF S, v
      <4>2. QED BY <1>2, <4>1, <3>6, LeastFromIs
    <3>8. found = [v |-> lead[e], int |-> [I EXCEPT !.val = lead[e], !.rank = Rank(B, i, w)]]
      BY <2>2, <2>7, <3>4
    <3>10. Rank(B, i, w) = BlockRank(B, lead[e], w) /\ BlockRank(B, lead[e], w) \in Nat
      <4> DEFINE b == B.C[lead[e]]
      <4>1. b \in 1 .. Cardinality(E) + 1 /\ i \in 1 .. Cardinality(E) + 1 /\ b <= i
        <5>1. lead[e] \in 1 .. top + 1 /\ lead[e] <= lead[e]
          BY <1>1
        <5>2. QED BY <1>1, <3>2, <5>1
      <4>2. {f \in E : sym[f] = w /\ pos[f] < i} = {f \in E : sym[f] = w /\ pos[f] < b}
        <5>1. ASSUME NEW f \in E, sym[f] = w, pos[f] < i PROVE pos[f] < b
          <6>1. SUFFICES ASSUME ~(pos[f] < b) PROVE FALSE
            OBVIOUS
          <6>2. b <= pos[f]
            <7> HIDE DEF b
            <7>1. QED BY <1>1, <4>1, <6>1
          <6>3. lead[e] <= lead[f]
            <7>1. lead[e] \in 1 .. top + 1
              BY <1>1
            <7>2. QED BY <1>1, <6>2, <7>1
          <6>4. v <= lead[f]
            <7> HIDE DEF v
            <7>1. QED BY <1>1, <1>3, <3>3, <6>3
          <6>5. i <= pos[f]
            BY <2>5, <3>1, <5>1, <6>4
          <6>6. QED BY <1>1, <4>1, <5>1, <6>5
        <5>2. ASSUME NEW f \in E, pos[f] < b PROVE pos[f] < i
          <6> HIDE DEF b
          <6>1. QED BY <1>1, <4>1, <5>2
        <5>3. QED BY <5>1, <5>2
      <4>3. Rank(B, i, w) = Cardinality({f \in E : sym[f] = w /\ pos[f] < i})
        BY <4>1, RankCounts
      <4>4. /\ Rank(B, b, w) = Cardinality({f \in E : sym[f] = w /\ pos[f] < b})
            /\ Rank(B, b, w) \in Nat
        <5> HIDE DEF b
        <5>1. QED BY <4>1, RankCounts
      <4>5. QED BY <4>2, <4>3, <4>4 DEF BlockRank
    <3>9. lead[e] \in Int /\ Rank(B, i, w) \in Int
      BY <1>1, <3>10
    <3>11. /\ found.v = lead[e] /\ found.v # 0
           /\ IsInterval(found.int) /\ found.int.l = I.l /\ found.int.r = I.r
           /\ found.int.val = lead[e] /\ found.int.rank = Rank(B, i, w)
      <4> DEFINE rank == Rank(B, i, w)
                 J == [I EXCEPT !.val = lead[e], !.rank = rank]
      <4>1. found.v = lead[e] /\ found.int = J
        BY <3>8
      <4>2. lead[e] # 0
        BY <1>1
      <4>3. IsInterval(J) /\ J.l = I.l /\ J.r = I.r /\ J.val = lead[e] /\ J.rank = rank
        <5>1. lead[e] \in Int /\ rank \in Int
          BY <3>9
        <5> HIDE DEF rank
        <5>2. QED BY <5>1 DEF IsInterval
      <4> HIDE DEF J
      <4>4. QED BY <4>1, <4>2, <4>3
    <3>12. found.v = LeastFrom(S, c)
      BY <1>4, <3>7, <3>11
    <3>13. QED BY <3>10, <3>11, <3>12
  <2>8. QED BY <2>6, <2>7
<1>7. QED BY <1>5, <1>6

\* The part of the interval of w in block c, from what the search kept, is a step back
\* from that block.
LEMMA DownKeptSpans ==
  ASSUME NEW E, IsFiniteSet(E), NEW B, NEW posB, NEW symB, NEW leadB, NEW topB,
         IsColumn(B, E, posB, symB, leadB, topB),
         NEW T, NEW posT, NEW symT, NEW leadT, NEW topT,
         IsColumn(T, E, posT, symT, leadT, topT),
         Turns(B, T, E, posB, posT, symB), \A e \in E : leadT[e] = symB[e],
         NEW w \in 1 .. topT, NEW c \in 1 .. topB,
         NEW I, I.l = T.C[w], I.val = c, I.rank = BlockRank(B, c, w),
         NEW J, J = DownKept(B, I, w, c)
  PROVE  IsInterval(J) /\ Spans(J.l, J.r, {e \in E : leadB[e] = c /\ symB[e] = w}, E, posT)
<1> DEFINE block == Block(B, c)
           step == Step(B, T, block, w)
           A == {e \in E : leadB[e] = c}
           n == Cardinality(E)
<1>1. /\ n \in Nat /\ topB \in Nat /\ topT \in Nat
      /\ c \in 1 .. topB + 1 /\ c + 1 \in 1 .. topB + 1 /\ w \in 1 .. topT + 1
  BY FS_CardinalityType DEF IsColumn
<1>2. B.C[c] \in 1 .. n + 1 /\ B.C[c + 1] \in 1 .. n + 1 /\ T.C[w] \in 1 .. n + 1
  BY <1>1 DEF IsColumn
<1>3. Rank(B, B.C[c], w) \in Nat /\ Rank(B, B.C[c + 1], w) \in Nat
  BY <1>2, RankCounts
<1>4. Spans(block[1], block[2], A, E, posB)
  BY BlockSpans
<1>5. Spans(step[1], step[2], {e \in A : symB[e] = w}, E, posT)
  <2> HIDE DEF block, A
  <2>1. Spans(Step(B, T, <<block[1], block[2]>>, w)[1], Step(B, T, <<block[1], block[2]>>, w)[2],
              {e \in A : symB[e] = w}, E, posT)
    BY <1>4, StepSpans, SMTT(60)
  <2>2. <<block[1], block[2]>> = block
    BY DEF block, Block
  <2>3. QED BY <2>1, <2>2
<1>6. block[1] = B.C[c] /\ block[2] + 1 = B.C[c + 1]
  BY <1>2 DEF Block
<1>7. step[1] = Rank(B, B.C[c], w) + T.C[w] /\ step[2] = Rank(B, B.C[c + 1], w) - 1 + T.C[w]
  <2> HIDE DEF block
  <2>1. QED BY <1>6 DEF Step
<1>8. I.val # Unset
  BY DEF Unset
<1>9. J = Interval(<<I.l + BlockRank(B, c, w),
                     I.l + BlockRank(B, c, w) + (BlockRank(B, c + 1, w) - BlockRank(B, c, w)) - 1>>)
  BY <1>8 DEF DownKept
<1>10. J.l = I.l + BlockRank(B, c, w) /\ J.r = I.l + BlockRank(B, c, w) + (BlockRank(B, c + 1, w) - BlockRank(B, c, w)) - 1
  BY <1>9 DEF Interval
<1>11. J.l = step[1] /\ J.r = step[2] /\ J.l \in Int /\ J.r \in Int
  <2> HIDE DEF step
  <2>1. QED BY <1>2, <1>3, <1>7, <1>10 DEF BlockRank
<1>12. IsInterval(J)
  <2>1. Interval(<<J.l, J.r>>) = J
    BY <1>9 DEF Interval
  <2>2. J = [l |-> J.l, r |-> J.r, val |-> -1, rank |-> -1]
    BY <1>9 DEF Interval, Unset
  <2>3. QED BY <1>11, <2>2 DEF IsInterval
<1>13. {e \in A : symB[e] = w} = {e \in E : leadB[e] = c /\ symB[e] = w}
  OBVIOUS
<1>14. QED
  <2> HIDE DEF step, A
  <2>1. QED BY <1>5, <1>11, <1>12, <1>13

\* The ends of an edge and its id, from a place in any of the columns.
LEMMA Ends ==
  ASSUME NEW E, IsGraph(E), NEW R, IsRing(R, E), NEW e \in E
  PROVE  /\ GetS(R, Pos(E)[e]) = e.s /\ GetO(R, Pos(E)[e]) = e.o
         /\ OSPtoPOS(R, Osp(E)[e]) = Pos(E)[e]
         /\ SPOtoPOS(R, Spo(E)[e], e.o) = Pos(E)[e]
<1>1. Subj(E)[e] = e.s /\ Pred(E)[e] = e.p /\ Obj(E)[e] = e.o
  BY EdgeFacts
<1>2. R.s.L[Pos(E)[e]] = e.s /\ R.p.L[Osp(E)[e]] = e.p /\ R.o.L[Spo(E)[e]] = e.o
  BY <1>1 DEF IsRing, IsColumn
<1>3. /\ Spo(E)[e] = R.o.C[e.s] + Rank(R.s, Pos(E)[e], e.s)
      /\ Osp(E)[e] = R.p.C[e.o] + Rank(R.o, Spo(E)[e], e.o)
      /\ Pos(E)[e] = R.s.C[e.p] + Rank(R.p, Osp(E)[e], e.p)
  BY <1>1 DEF IsRing, Turns
<1>4. QED BY <1>2, <1>3 DEF GetS, GetO, OSPtoPOS, SPOtoPOS

Ids(E, A) == {Pos(E)[e] : e \in A}

\* Ids are the numbers from 1 to that of the edges.
LEMMA IdsAre ==
  ASSUME NEW E, IsGraph(E), NEW R, IsRing(R, E), NEW A \in SUBSET E
  PROVE  Ids(E, A) \in SUBSET (Nat \ {0}) /\ Ids(E, A) \in SUBSET (1 .. R.n)
<1>1. \A e \in E : Pos(E)[e] \in 1 .. R.n
  BY EdgeFacts
<1>2. R.n \in Nat
  BY DEF IsRing
<1>3. QED BY <1>1, <1>2 DEF Ids

\* The ids of an interval of POS are its places.
LEMMA InIntervalAnswers ==
  ASSUME NEW E, IsGraph(E), NEW R, IsRing(R, E), NEW l, NEW r, NEW A, A # {},
         Spans(l, r, A, E, Pos(E)), NEW c, IsBound(c)
  PROVE  (IF c <= l THEN l ELSE IF c > r THEN 0 ELSE c) = LeastFrom(Ids(E, A), c)
<1>1. A \in SUBSET E /\ IsNumbering(E, Pos(E)) /\ IsFiniteSet(E) /\ Cardinality(E) = R.n /\ R.n \in Nat
  BY EdgeFacts DEF Spans, IsRing
<1>2. l \in 1 .. R.n + 1 /\ r \in 0 .. R.n /\ l <= r
  BY <1>1, SpanSize DEF Spans
<1>3. \A i \in l .. r : i \in Ids(E, A)
  BY <1>1, SpanSize DEF Ids
<1>4. \A i \in Ids(E, A) : l <= i /\ i <= r /\ i \in Int
  <2>1. \A e \in E : Pos(E)[e] \in Int
    BY <1>1, EdgeFacts
  <2>2. QED BY <2>1 DEF Ids, Spans
<1>5. c \in Int
  BY DEF IsBound, NoBound
<1>6. Ids(E, A) \in SUBSET (Nat \ {0})
  BY <1>1, IdsAre
<1>7. CASE c <= l
  <2>1. l \in Ids(E, A)
    BY <1>2, <1>3
  <2>2. LeastFrom(Ids(E, A), c) = l
    BY <1>4, <1>5, <1>6, <1>7, <2>1, LeastFromIs
  <2>3. QED BY <1>7, <2>2
<1>8. CASE c > r
  <2>1. \A i \in Ids(E, A) : i < c
    BY <1>2, <1>4, <1>5, <1>8
  <2>2. LeastFrom(Ids(E, A), c) = 0
    BY <1>5, <1>6, <2>1, LeastFromNone
  <2>3. ~(c <= l)
    BY <1>2, <1>5, <1>8
  <2>4. QED BY <1>8, <2>2, <2>3
<1>9. CASE ~(c <= l) /\ ~(c > r)
  <2>1. c \in Ids(E, A)
    BY <1>2, <1>3, <1>5, <1>9
  <2>2. LeastFrom(Ids(E, A), c) = c
    BY <1>5, <1>6, <2>1, LeastFromIs
  <2>3. QED BY <1>9, <2>2
<1>10. QED BY <1>7, <1>8, <1>9

OfSubject(A, s) == {e \in A : e.s = s}
OfObject(A, o) == {e \in A : e.o = o}
OfLabel(A, p) == {e \in A : e.p = p}

\* Edges of s among the ids of an interval of POS.
LEMMA NextEofSAnswers ==
  ASSUME NEW E, IsGraph(E), NEW R, IsRing(R, E), NEW I, NEW A,
         Spans(I.l, I.r, A, E, Pos(E)), NEW s, NEW c, IsBound(c)
  PROVE  NextEofS(R, I, s, c) = LeastFrom(Ids(E, OfSubject(A, s)), c)
<1> SUFFICES NextEofS(R, I, s, c) = LeastFrom(Ids(E, {e \in A : e.s = s}), c)
  BY DEF OfSubject
<1> DEFINE S == Ids(E, {e \in A : e.s = s})
           P == {i \in {k \in Within(I) : c <= k} : R.s.L[i] = s}
<1>1. A \in SUBSET E /\ IsNumbering(E, Pos(E)) /\ IsFiniteSet(E) /\ Cardinality(E) = R.n /\ R.n \in Nat
  BY EdgeFacts DEF Spans, IsRing
<1>2. I.l \in 1 .. R.n + 1 /\ I.r \in 0 .. R.n
  BY <1>1 DEF Spans
<1>3. c \in Int
  BY DEF IsBound, NoBound
<1>4. \A e \in E : Pos(E)[e] \in 1 .. R.n /\ R.s.L[Pos(E)[e]] = e.s
  BY EdgeFacts, Ends DEF GetS
<1>5. \A i \in Within(I) : \E e \in A : Pos(E)[e] = i
  BY <1>1, SpanSize DEF Within
<1>6. \A e \in A : Pos(E)[e] \in Within(I)
  BY <1>1, <1>2, <1>4 DEF Spans, Within
<1>7. P = {i \in S : c <= i}
  <2>1. ASSUME NEW i \in P PROVE i \in S /\ c <= i
    <3>1. PICK e \in A : Pos(E)[e] = i
      BY <1>5
    <3>2. e.s = s
      BY <1>1, <1>4, <3>1
    <3>3. QED BY <3>1, <3>2 DEF Ids
  <2>2. ASSUME NEW i \in S, c <= i PROVE i \in P
    <3>1. PICK e \in A : Pos(E)[e] = i /\ e.s = s
      BY DEF Ids
    <3>2. i \in Within(I) /\ R.s.L[i] = s
      BY <1>1, <1>4, <1>6, <3>1
    <3>3. QED BY <2>2, <3>2
  <2>3. QED BY <2>1, <2>2
<1>8. S \in SUBSET (Nat \ {0}) /\ S \in SUBSET (1 .. R.n)
  <2>1. {e \in A : e.s = s} \in SUBSET E
    BY <1>1
  <2>2. QED BY <2>1, IdsAre
<1>9. \A i \in S : i <= I.r
  <2>1. S \subseteq {Pos(E)[e] : e \in A}
    BY DEF Ids
  <2>2. QED BY <2>1 DEF Spans
<1> HIDE DEF S
<1>10. CASE c > R.n \/ I.r < c
  <2>1. NextEofS(R, I, s, c) = 0
    BY <1>10 DEF NextEofS
  <2>2. \A i \in S : i < c
    BY <1>1, <1>2, <1>3, <1>8, <1>9, <1>10
  <2>3. LeastFrom(S, c) = 0
    BY <1>3, <1>8, <2>2, LeastFromNone
  <2>4. QED BY <2>1, <2>3 DEF S
<1>11. CASE ~(c > R.n \/ I.r < c)
  <2>1. NextEofS(R, I, s, c) = Least(P)
    BY <1>11 DEF NextEofS, NextPosition
  <2>2. P \in SUBSET (Nat \ {0})
    BY <1>7, <1>8
  <2> HIDE DEF P
  <2>3. Least(P) = LeastFrom(P, 1)
    BY DEF Least
  <2>4. CASE P = {}
    <3>1. LeastFrom(P, 1) = 0
      BY <2>2, <2>4, LeastFromNone
    <3>2. \A i \in S : i < c
      BY <1>3, <1>7, <1>8, <2>4
    <3>3. LeastFrom(S, c) = 0
      BY <1>3, <1>8, <3>2, LeastFromNone
    <3>4. QED BY <2>1, <2>3, <3>1, <3>3 DEF S
  <2>5. CASE P # {}
    <3>1. PICK i \in P : \A k \in P : i <= k
      BY <2>2, <2>5, NatHasLeast
    <3>2. i \in Nat \ {0} /\ i \in S /\ c <= i
      BY <1>7, <2>2
    <3>3. LeastFrom(P, 1) = i
      BY <2>2, <3>1, <3>2, LeastFromIs
    <3>4. \A k \in S : c <= k => i <= k
      BY <1>7, <3>1
    <3>5. LeastFrom(S, c) = i
      BY <1>3, <1>8, <3>2, <3>4, LeastFromIs
    <3>6. QED BY <2>1, <2>3, <3>3, <3>5 DEF S
  <2>6. QED BY <2>4, <2>5
<1>12. QED BY <1>10, <1>11

\* i is the first id of an edge of A with a label from v on, 0 when there is none.
FirstFrom(E, A, v, i) ==
  \/ i = 0 /\ \A e \in A : e.p < v
  \/ \E e \in A : /\ v <= e.p /\ i = Pos(E)[e]
                  /\ \A f \in A : v <= f.p => Pos(E)[e] <= Pos(E)[f]

\* The first edge, in the order of ids, of the least label from v on in an interval of OSP.
LEMMA FirstOfLabel ==
  ASSUME NEW E, IsGraph(E), NEW R, IsRing(R, E), NEW I, NEW A,
         Spans(I.l, I.r, A, E, Osp(E)), NEW v \in Nat \ {0},
         NEW q, q = NextValueRank(R.p, v, Within(I))
  PROVE  FirstFrom(E, A, v, R.s.C[q[1]] + q[2])
<1> DEFINE S == {e.p : e \in A}
           w == LeastFrom(S, v)
           At == {i \in Within(I) : R.p.L[i] = w}
<1>1. A \in SUBSET E /\ IsNumbering(E, Osp(E)) /\ IsFiniteSet(E) /\ Cardinality(E) = R.n /\ R.n \in Nat
  BY EdgeFacts DEF Spans, IsRing
<1>2. I.l \in 1 .. R.n + 1 /\ I.r \in 0 .. R.n
  BY <1>1 DEF Spans
<1>3. \A e \in E : /\ Osp(E)[e] \in 1 .. R.n /\ Pos(E)[e] \in 1 .. R.n
                   /\ e.p \in Nat /\ e.p # 0 /\ Pred(E)[e] = e.p
  BY EdgeFacts
<1>4. \A e \in E : R.p.L[Osp(E)[e]] = e.p
  BY <1>3 DEF IsRing, IsColumn
<1>5. IsColumn(R.p, E, Osp(E), Pred(E), Obj(E), R.maxSO)
  BY DEF IsRing
<1>6. {R.p.L[i] : i \in Within(I)} = S
  <2>1. {R.p.L[i] : i \in I.l .. I.r} = {Pred(E)[e] : e \in A}
    BY <1>1, <1>5, SymbolsOfSpan
  <2>2. {Pred(E)[e] : e \in A} = S
    BY <1>1, <1>3
  <2>3. QED BY <2>1, <2>2 DEF Within
<1>7. q[1] = w /\ q[2] = IF w = 0 THEN 0 ELSE Rank(R.p, Least(At), w)
  BY <1>6 DEF NextValueRank, NextValue
<1>8. S \in SUBSET (Nat \ {0})
  BY <1>1, <1>3
<1> HIDE DEF S
<1>9. CASE w = 0
  <2>1. \A u \in S : u < v
    BY <1>8, <1>9, LeastFromCorrect
  <2>2. R.s.C[0] = 0
    BY DEF IsRing, IsColumn
  <2> HIDE DEF w
  <2>3. R.s.C[q[1]] + q[2] = 0
    BY <1>7, <1>9, <2>2
  <2>4. QED BY <2>1, <2>3 DEF S, FirstFrom
<1>10. CASE w # 0
  <2>1. w \in S /\ v <= w /\ \A u \in S : v <= u => w <= u
    BY <1>8, <1>10, LeastFromCorrect
  <2> HIDE DEF w
  <2>2. At \in SUBSET (Nat \ {0})
    BY <1>1, <1>2 DEF Within
  <2>3. PICK g \in A : g.p = w
    BY <2>1 DEF S
  <2>4. Osp(E)[g] \in At
    BY <1>1, <1>2, <1>3, <1>4, <2>3 DEF Spans, Within
  <2>5. PICK i \in At : \A k \in At : i <= k
    <3> HIDE DEF At
    <3>1. QED BY <2>2, <2>4, NatHasLeast
  <2>6. Least(At) = i
    <3>1. i \in Nat /\ i # 0 /\ 1 <= i
      BY <2>2
    <3> HIDE DEF At
    <3>2. QED BY <2>2, <2>5, <3>1, LeastFromIs DEF Least
  <2>7. PICK e \in A : Osp(E)[e] = i
    <3>1. i \in I.l .. I.r
      BY DEF Within
    <3>2. QED BY <1>1, <3>1, SpanSize
  <2>8. e \in E /\ e.p = w
    BY <1>1, <1>4, <2>7
  <2>9. Pos(E)[e] = R.s.C[w] + Rank(R.p, Osp(E)[e], w)
    <3>1. Pos(E)[e] = R.s.C[Pred(E)[e]] + Rank(R.p, Osp(E)[e], Pred(E)[e])
      BY <2>8 DEF IsRing, Turns
    <3>2. QED BY <1>3, <2>8, <3>1
  <2>10. R.s.C[q[1]] + q[2] = Pos(E)[e]
    BY <1>7, <1>10, <2>6, <2>7, <2>9
  <2>11. ASSUME NEW f \in A, v <= f.p PROVE Pos(E)[e] <= Pos(E)[f]
    <3>1. f \in E /\ f.p \in S /\ w <= f.p
      BY <1>1, <2>1, <2>11 DEF S
    <3>2. /\ Osp(E)[f] < Osp(E)[e] <=> Lex(f.o, e.o, f.s, e.s, f.p, e.p, f.k, e.k)
          /\ Pos(E)[f] < Pos(E)[e] <=> Lex(f.p, e.p, f.o, e.o, f.s, e.s, f.k, e.k)
      BY <2>8, <3>1, EdgeOrders
    <3>3. CASE f.p = w
      <4>1. Osp(E)[f] \in At
        BY <1>1, <1>2, <1>3, <1>4, <3>1, <3>3 DEF Spans, Within
      <4>2. ~(Osp(E)[f] < Osp(E)[e])
        BY <1>1, <1>3, <2>5, <2>7, <3>1, <2>8, <4>1
      <4>3. ~(Pos(E)[f] < Pos(E)[e])
        <5>1. e.p \in Int
          BY <1>3, <2>8
        <5>2. QED BY <3>2, <3>3, <4>2, <2>8, <5>1 DEF Lex
      <4>4. QED BY <1>1, <1>3, <2>8, <3>1, <4>3
    <3>4. CASE f.p # w
      <4>1. f.p \in Int /\ w \in Int
        BY <1>3, <2>8, <3>1
      <4>2. ~Lex(f.p, e.p, f.o, e.o, f.s, e.s, f.k, e.k)
        BY <2>8, <3>1, <3>4, <4>1 DEF Lex
      <4>3. QED BY <1>1, <1>3, <2>8, <3>1, <3>2, <4>2
    <3>5. QED BY <3>3, <3>4
  <2>12. v <= e.p
    BY <2>1, <2>8
  <2>13. QED BY <2>10, <2>11, <2>12 DEF FirstFrom
<1>11. QED BY <1>9, <1>10

\* min_E_in_OS answers the least id in an interval of OSP.
LEMMA MinEofOSAnswers ==
  ASSUME NEW E, IsGraph(E), NEW R, IsRing(R, E), NEW I, NEW A, A # {},
         Spans(I.l, I.r, A, E, Osp(E))
  PROVE  MinEofOS(R, I) = LeastFrom(Ids(E, A), NoBound)
<1> DEFINE q == NextValueRank(R.p, 1, Within(I))
<1>1. A \in SUBSET E /\ \A e \in E : e.p \in Nat /\ e.p # 0 /\ Pos(E)[e] \in 1 .. R.n /\ R.n \in Nat
  BY EdgeFacts DEF Spans, IsRing
<1>2. MinEofOS(R, I) = R.s.C[q[1]] + q[2]
  BY DEF MinEofOS
<1>3. \/ (\A e \in A : e.p < 1) /\ R.s.C[q[1]] + q[2] = 0
      \/ \E e \in A : /\ 1 <= e.p /\ R.s.C[q[1]] + q[2] = Pos(E)[e]
                      /\ \A f \in A : 1 <= f.p => Pos(E)[e] <= Pos(E)[f]
  <2> HIDE DEF q
  <2>1. 1 \in Nat \ {0} /\ q = NextValueRank(R.p, 1, Within(I))
    BY DEF q
  <2>2. QED BY <2>1, FirstOfLabel DEF FirstFrom
<1>4. ~(\A e \in A : e.p < 1)
  BY <1>1
<1>5. PICK e \in A : MinEofOS(R, I) = Pos(E)[e] /\ \A f \in A : Pos(E)[e] <= Pos(E)[f]
  <2> HIDE DEF q
  <2>1. \A f \in A : 1 <= f.p
    BY <1>1
  <2>2. QED BY <1>2, <1>3, <1>4, <2>1
<1>6. Ids(E, A) \in SUBSET (Nat \ {0}) /\ NoBound \in Int
  BY <1>1, IdsAre DEF NoBound
<1>7. Pos(E)[e] \in Ids(E, A) /\ NoBound <= Pos(E)[e] /\ \A i \in Ids(E, A) : Pos(E)[e] <= i
  BY <1>1, <1>5 DEF Ids, NoBound
<1>8. LeastFrom(Ids(E, A), NoBound) = Pos(E)[e]
  BY <1>6, <1>7, LeastFromIs
<1>9. QED BY <1>5, <1>8

\* The label and the place in OSP that an id leads to.
LEMMA PlaceOfId ==
  ASSUME NEW E, IsGraph(E), NEW R, IsRing(R, E), NEW g \in E
  PROVE  LET label == BSearchC(R.s, Pos(E)[g]) IN
         /\ label = g.p
         /\ SelectWM(R.p, Pos(E)[g] - R.s.C[label] + 1, label) = Osp(E)[g]
<1> DEFINE c == Pos(E)[g]
           label == BSearchC(R.s, c)
           j == SelectWM(R.p, c - R.s.C[label] + 1, label)
<1>1. /\ IsNumbering(E, Osp(E)) /\ IsNumbering(E, Pos(E)) /\ IsFiniteSet(E)
      /\ Cardinality(E) = R.n /\ R.n \in Nat
  BY EdgeFacts DEF IsRing
<1>2. \A e \in E : /\ Osp(E)[e] \in 1 .. R.n /\ Pos(E)[e] \in 1 .. R.n
                   /\ e.p \in Nat /\ e.p # 0 /\ Pred(E)[e] = e.p
  BY EdgeFacts
<1>3. label = g.p
  <2>1. BSearchC(R.s, Pos(E)[g]) = Pred(E)[g]
    BY <1>1, BSearchIs DEF IsRing
  <2>2. QED BY <1>2, <2>1
<1>4. c = R.s.C[g.p] + Rank(R.p, Osp(E)[g], g.p)
  <2>1. Pos(E)[g] = R.s.C[Pred(E)[g]] + Rank(R.p, Osp(E)[g], Pred(E)[g])
    BY DEF IsRing, Turns
  <2>2. QED BY <1>2, <2>1
<1>5. R.s.C[g.p] \in Int
  <2>1. Pred(E)[g] \in 1 .. R.maxP /\ R.maxP \in Nat
    BY DEF IsRing, IsColumn
  <2>2. R.s.C[Pred(E)[g]] \in 1 .. R.n + 1
    <3>1. Pred(E)[g] \in 1 .. R.maxP + 1
      BY <2>1
    <3>2. QED BY <1>1, <3>1 DEF IsRing, IsColumn
  <2>3. QED BY <1>1, <1>2, <2>2
<1>6. IsColumn(R.p, E, Osp(E), Pred(E), Obj(E), R.maxSO)
  BY DEF IsRing
<1>7. DOMAIN R.p.L = 1 .. R.n /\ \A e \in E : R.p.L[Osp(E)[e]] = e.p
  BY <1>1, <1>2, <1>6 DEF IsColumn
<1>8. \A i \in 1 .. R.n : Rank(R.p, i, g.p) \in Nat
  <2>1. \A i \in 1 .. R.n : i \in 1 .. Cardinality(E) + 1
    BY <1>1
  <2>2. QED BY <1>1, <1>6, <2>1, RankCounts
<1>9. ASSUME NEW i \in DOMAIN R.p.L, R.p.L[i] = g.p, Rank(R.p, i, g.p) = (c - R.s.C[g.p] + 1) - 1
      PROVE  i = Osp(E)[g]
  <2>1. PICK f \in E : Osp(E)[f] = i
    BY <1>1, <1>7 DEF IsNumbering
  <2>2. f.p = g.p
    BY <1>7, <1>9, <2>1
  <2>3. /\ Rank(R.p, Osp(E)[f], g.p) <= Rank(R.p, Osp(E)[g], g.p) <=> Osp(E)[f] <= Osp(E)[g]
        /\ Rank(R.p, Osp(E)[g], g.p) <= Rank(R.p, Osp(E)[f], g.p) <=> Osp(E)[g] <= Osp(E)[f]
    <3>1. \A e \in E, k \in 1 .. Cardinality(E) + 1 :
            Pred(E)[e] = g.p => (Rank(R.p, k, g.p) <= Rank(R.p, Osp(E)[e], g.p) <=> k <= Osp(E)[e])
      BY <1>1, <1>6, RanksRise
    <3>2. Osp(E)[f] \in 1 .. Cardinality(E) + 1 /\ Osp(E)[g] \in 1 .. Cardinality(E) + 1
      BY <1>1, <1>2
    <3>3. Pred(E)[f] = g.p /\ Pred(E)[g] = g.p
      BY <1>2, <2>2
    <3>4. QED BY <3>1, <3>2, <3>3
  <2>4. Rank(R.p, Osp(E)[f], g.p) = Rank(R.p, Osp(E)[g], g.p)
    BY <1>2, <1>4, <1>5, <1>8, <1>9, <2>1
  <2>5. Osp(E)[f] \in Int /\ Osp(E)[g] \in Int /\ Rank(R.p, Osp(E)[g], g.p) \in Int
    BY <1>1, <1>2, <1>8
  <2>6. QED BY <2>1, <2>3, <2>4, <2>5
<1>10. /\ Osp(E)[g] \in DOMAIN R.p.L /\ R.p.L[Osp(E)[g]] = g.p
      /\ Rank(R.p, Osp(E)[g], g.p) = (c - R.s.C[g.p] + 1) - 1
  BY <1>2, <1>4, <1>5, <1>7, <1>8
<1>11. j = Osp(E)[g]
  BY <1>3, <1>9, <1>10 DEF SelectWM
<1>12. QED BY <1>3, <1>11

\* next_E_in_O finds the next id by the place of the bound itself in OSP.
THEOREM NextEofOAnswers ==
  ASSUME NEW E, IsGraph(E), NEW R, IsRing(R, E), NEW I, NEW A,
         Spans(I.l, I.r, A, E, Osp(E)), NEW c \in Nat \ {0}
  PROVE  NextEofO(R, I, c) = LeastFrom(Ids(E, A), c)
<1>1. /\ A \in SUBSET E /\ IsNumbering(E, Osp(E)) /\ IsNumbering(E, Pos(E)) /\ IsFiniteSet(E)
      /\ Cardinality(E) = R.n /\ R.n \in Nat
      /\ I.l \in Int /\ I.r \in Int
  <2>1. IsFiniteSet(E) /\ Cardinality(E) = R.n /\ R.n \in Nat
    BY EdgeFacts DEF IsRing
  <2>2. QED BY <2>1, EdgeFacts DEF Spans
<1>2. \A e \in E : /\ Osp(E)[e] \in 1 .. R.n /\ Pos(E)[e] \in 1 .. R.n
                   /\ e.p \in Nat /\ e.p # 0 /\ Pred(E)[e] = e.p
  BY EdgeFacts
<1>3. Ids(E, A) \in SUBSET (Nat \ {0}) /\ Ids(E, A) \in SUBSET (1 .. R.n)
  BY <1>1, IdsAre
<1>4. CASE c > R.n
  <2>1. NextEofO(R, I, c) = 0
    BY <1>4 DEF NextEofO
  <2>2. \A i \in Ids(E, A) : i < c
    BY <1>1, <1>3, <1>4
  <2>3. QED BY <1>3, <2>1, <2>2, LeastFromNone
<1>5. CASE ~(c > R.n)
  <2>1. PICK g \in E : Pos(E)[g] = c
    BY <1>1, <1>5 DEF IsNumbering
  <2> DEFINE label == BSearchC(R.s, c)
             j == SelectWM(R.p, c - R.s.C[label] + 1, label)
             v == IF j > I.r THEN label + 1 ELSE label
             q == NextValueRank(R.p, v, Within(I))
  <2>2. label = g.p /\ j = Osp(E)[g]
    BY <2>1, PlaceOfId
  <2>3. NextEofO(R, I, c) = IF j \in Within(I) THEN c ELSE R.s.C[q[1]] + q[2]
    BY <1>5 DEF NextEofO
  <2>4. j \in Within(I) <=> g \in A
    <3>1. Osp(E)[g] \in Int
      BY <1>1, <1>2
    <3> HIDE DEF j
    <3>2. QED BY <1>1, <2>2, <3>1 DEF Spans, Within
  <2> HIDE DEF label, j
  <2>5. CASE g \in A
    <3>1. c \in Ids(E, A)
      BY <2>1, <2>5 DEF Ids
    <3>2. LeastFrom(Ids(E, A), c) = c
      BY <1>3, <3>1, LeastFromIs
    <3>3. QED BY <2>3, <2>4, <2>5, <3>2
  <2>6. CASE g \notin A
    <3>1. NextEofO(R, I, c) = R.s.C[q[1]] + q[2]
      BY <2>3, <2>4, <2>6
    <3>2. v \in Nat \ {0} /\ j \in Int /\ g.p \in Nat
      BY <1>1, <1>2, <2>2
    <3>3. ASSUME NEW f \in A PROVE v <= f.p <=> c <= Pos(E)[f]
      <4>1. f \in E /\ I.l <= Osp(E)[f] /\ Osp(E)[f] <= I.r
        BY <1>1 DEF Spans
      <4>2. /\ Osp(E)[f] \in Int /\ Osp(E)[g] \in Int /\ Pos(E)[f] \in Int /\ Pos(E)[g] \in Int
            /\ f.p \in Int /\ g.p \in Int
        BY <1>1, <1>2, <4>1
      <4>3. /\ Osp(E)[f] < Osp(E)[g] <=> Lex(f.o, g.o, f.s, g.s, f.p, g.p, f.k, g.k)
            /\ Pos(E)[f] < Pos(E)[g] <=> Lex(f.p, g.p, f.o, g.o, f.s, g.s, f.k, g.k)
        BY <4>1, EdgeOrders
      <4>4. f.p = g.p => (Osp(E)[f] < Osp(E)[g] <=> Pos(E)[f] < Pos(E)[g])
        BY <4>2, <4>3 DEF Lex
      <4>5. f.p < g.p => Pos(E)[f] < Pos(E)[g]
        BY <4>3 DEF Lex
      <4>6. g.p < f.p => ~(Pos(E)[f] < Pos(E)[g])
        BY <4>2, <4>3 DEF Lex
      <4>7. CASE j > I.r
        <5>1. v = g.p + 1
          BY <2>2, <4>7
        <5>2. Osp(E)[f] < Osp(E)[g]
          BY <2>2, <4>1, <4>2, <4>7, <1>1
        <5> HIDE DEF v
        <5>3. QED BY <2>1, <4>2, <4>4, <4>5, <4>6, <5>1, <5>2
      <4>8. CASE ~(j > I.r)
        <5>1. v = g.p
          BY <2>2, <4>8
        <5>2. ~(Osp(E)[f] < Osp(E)[g])
          <6>1. ~(I.l <= Osp(E)[g] /\ Osp(E)[g] <= I.r)
            BY <2>6 DEF Spans
          <6>2. Osp(E)[g] < I.l
            BY <1>1, <2>2, <4>2, <4>8, <6>1
          <6>3. QED BY <1>1, <4>1, <4>2, <6>2
        <5> HIDE DEF v
        <5>3. QED BY <2>1, <4>2, <4>4, <4>5, <4>6, <5>1, <5>2
      <4>9. QED BY <4>7, <4>8
    <3> HIDE DEF v
    <3>4. FirstFrom(E, A, v, R.s.C[q[1]] + q[2])
      <4> HIDE DEF q
      <4>1. q = NextValueRank(R.p, v, Within(I))
        BY DEF q
      <4>2. QED BY <3>2, <4>1, FirstOfLabel
    <3> HIDE DEF q
    <3>5. CASE (\A e \in A : e.p < v) /\ R.s.C[q[1]] + q[2] = 0
      <4>1. \A e \in A : e.p \in Int /\ Pos(E)[e] \in Int
        BY <1>1, <1>2
      <4>2. \A e \in A : Pos(E)[e] < c
        BY <3>2, <3>3, <3>5, <4>1
      <4>3. LeastFrom(Ids(E, A), c) = 0
        BY <1>3, <4>2, LeastFromNone DEF Ids
      <4>4. QED BY <3>1, <3>5, <4>3
    <3>6. CASE \E e \in A : /\ v <= e.p /\ R.s.C[q[1]] + q[2] = Pos(E)[e]
                            /\ \A f \in A : v <= f.p => Pos(E)[e] <= Pos(E)[f]
      <4>1. PICK e \in A : /\ v <= e.p /\ R.s.C[q[1]] + q[2] = Pos(E)[e]
                           /\ \A f \in A : v <= f.p => Pos(E)[e] <= Pos(E)[f]
        BY <3>6
      <4>2. /\ Pos(E)[e] \in Ids(E, A) /\ c <= Pos(E)[e]
            /\ \A i \in Ids(E, A) : c <= i => Pos(E)[e] <= i
        BY <3>3, <4>1 DEF Ids
      <4>3. LeastFrom(Ids(E, A), c) = Pos(E)[e]
        BY <1>3, <4>2, LeastFromIs
      <4>4. QED BY <3>1, <4>1, <4>3
    <3>7. QED BY <3>4, <3>5, <3>6 DEF FirstFrom
  <2>7. QED BY <2>5, <2>6
<1>6. QED BY <1>4, <1>5

\* Along an interval whose order is that of the ids, each edge has the next id.
LEMMA NextInSpan ==
  ASSUME NEW E, IsGraph(E), NEW R, IsRing(R, E), NEW pos, IsNumbering(E, pos),
         NEW l, NEW r, NEW A, Spans(l, r, A, E, pos),
         \A e, f \in A : pos[e] < pos[f] <=> Pos(E)[e] < Pos(E)[f], NEW e \in A
  PROVE  /\ pos[e] = l => LeastFrom(Ids(E, A), NoBound) = Pos(E)[e]
         /\ pos[e] = r => LeastFrom(Ids(E, A), Pos(E)[e] + 1) = 0
         /\ \A f \in A : pos[f] = pos[e] + 1 => LeastFrom(Ids(E, A), Pos(E)[e] + 1) = Pos(E)[f]
<1>1. A \in SUBSET E /\ IsFiniteSet(E) /\ Cardinality(E) = R.n /\ R.n \in Nat
  BY EdgeFacts DEF Spans, IsRing
<1>2. \A g \in A : pos[g] \in Int /\ Pos(E)[g] \in Nat \ {0} /\ l <= pos[g] /\ pos[g] <= r
  <2>1. \A g \in E : pos[g] \in 1 .. R.n /\ Pos(E)[g] \in 1 .. R.n
    BY <1>1, EdgeFacts DEF IsNumbering
  <2>2. QED BY <1>1, <2>1 DEF Spans
<1>3. Ids(E, A) \in SUBSET (Nat \ {0})
  BY <1>1, IdsAre
<1>4. l \in Int /\ r \in Int
  BY <1>1 DEF Spans
<1>5. ASSUME pos[e] = l PROVE LeastFrom(Ids(E, A), NoBound) = Pos(E)[e]
  <2>1. \A f \in A : Pos(E)[e] <= Pos(E)[f]
    <3>1. \A f \in A : ~(pos[f] < pos[e])
      BY <1>2, <1>4, <1>5
    <3>2. \A f \in A : ~(Pos(E)[f] < Pos(E)[e])
      BY <3>1
    <3>3. QED BY <1>2, <3>2
  <2>2. Pos(E)[e] \in Ids(E, A) /\ NoBound \in Int /\ NoBound <= Pos(E)[e] /\ \A i \in Ids(E, A) : Pos(E)[e] <= i
    BY <1>2, <2>1 DEF Ids, NoBound
  <2>3. QED BY <1>3, <2>2, LeastFromIs
<1>6. ASSUME pos[e] = r PROVE LeastFrom(Ids(E, A), Pos(E)[e] + 1) = 0
  <2>1. \A f \in A : ~(Pos(E)[e] < Pos(E)[f])
    <3>1. \A f \in A : ~(pos[e] < pos[f])
      BY <1>2, <1>4, <1>6
    <3>2. QED BY <3>1
  <2>2. \A i \in Ids(E, A) : i < Pos(E)[e] + 1
    BY <1>2, <2>1 DEF Ids
  <2>3. Pos(E)[e] + 1 \in Int
    BY <1>2
  <2>4. QED BY <1>3, <2>2, <2>3, LeastFromNone
<1>7. ASSUME NEW f \in A, pos[f] = pos[e] + 1 PROVE LeastFrom(Ids(E, A), Pos(E)[e] + 1) = Pos(E)[f]
  <2>1. Pos(E)[e] + 1 <= Pos(E)[f]
    <3>1. pos[e] < pos[f]
      BY <1>2, <1>7
    <3>2. Pos(E)[e] < Pos(E)[f]
      BY <3>1
    <3>3. QED BY <1>2, <3>2
  <2>2. ASSUME NEW g \in A, Pos(E)[e] + 1 <= Pos(E)[g] PROVE Pos(E)[f] <= Pos(E)[g]
    <3>1. Pos(E)[e] < Pos(E)[g]
      BY <1>2, <2>2
    <3>2. pos[e] < pos[g]
      BY <3>1
    <3>3. ~(pos[g] < pos[f])
      BY <1>2, <1>7, <3>2
    <3>4. ~(Pos(E)[g] < Pos(E)[f])
      BY <3>3
    <3>5. QED BY <1>2, <3>4
  <2>3. /\ Pos(E)[f] \in Ids(E, A) /\ Pos(E)[e] + 1 \in Int
        /\ \A i \in Ids(E, A) : Pos(E)[e] + 1 <= i => Pos(E)[f] <= i
    BY <1>2, <2>2 DEF Ids
  <2>4. QED BY <1>3, <2>1, <2>3, LeastFromIs
<1>8. QED BY <1>5, <1>6, <1>7

Parallel(E, s, p, o) == {e \in E : e.s = s /\ e.p = p /\ e.o = o}

\* The ids of parallel edges of one label follow each other.
LEMMA ParallelIds ==
  ASSUME NEW E, IsGraph(E), NEW R, IsRing(R, E), NEW s, NEW p, NEW o, NEW A,
         A = Parallel(E, s, p, o), NEW e \in A, NEW f \in A, NEW c \in Int, Pos(E)[e] <= c, c <= Pos(E)[f]
  PROVE  c \in Ids(E, A)
<1>0. A = {g \in E : g.s = s /\ g.p = p /\ g.o = o}
  BY DEF Parallel
<1>1. R.n \in Nat /\ \A g \in E : Pos(E)[g] \in 1 .. R.n
  BY EdgeFacts DEF IsRing
<1>2. c \in 1 .. R.n
  BY <1>0, <1>1
<1>3. PICK g \in E : Pos(E)[g] = c
  BY <1>2, EdgeFacts DEF IsNumbering
<1>4. /\ ~(Pos(E)[g] < Pos(E)[e]) /\ ~(Pos(E)[f] < Pos(E)[g])
  BY <1>0, <1>1, <1>3
<1>5. /\ ~Lex(g.p, p, g.o, o, g.s, s, g.k, e.k)
      /\ ~Lex(p, g.p, o, g.o, s, g.s, f.k, g.k)
  BY <1>0, <1>4, EdgeOrders
<1>6. g.s \in Int /\ g.p \in Int /\ g.o \in Int /\ s \in Int /\ p \in Int /\ o \in Int
  <2>1. \A h \in E : h.s \in Int /\ h.p \in Int /\ h.o \in Int
    BY DEF IsGraph
  <2>2. QED BY <1>0, <2>1
<1>7. g.s = s /\ g.p = p /\ g.o = o
  BY <1>5, <1>6 DEF Lex
<1>8. QED BY <1>0, <1>3, <1>7 DEF Ids
=============================================================================
