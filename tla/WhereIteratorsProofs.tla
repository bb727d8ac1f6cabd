------------------------ MODULE WhereIteratorsProofs ------------------------
(***************************************************************************)
(* What the iterators of the WHERE clause answer, for every clause and     *)
(* every property.  First what the searches of a property answer; then     *)
(* that an iterator holds the values of the path, and answers the least id *)
(* that its comparisons allow.                                             *)
(***************************************************************************)
EXTENDS WhereIterators, BasicTheorems, FiniteSetTheorems, SequenceTheorems

\* A property of some ids, whose values, and the place below them, the width can tell apart.
IsGrid(g) ==
  /\ \A n \in DOMAIN g : g[n] \in Int
  /\ \E a, b \in DOMAIN g : /\ \A n \in DOMAIN g : g[a] <= g[n] /\ g[n] <= g[b]
                            /\ g[b] - g[a] + 1 < W

\* Bounds that unsigned arithmetic does not turn round.
Distant(g, v) == v \in Int /\ MinVal(g) - 1 <= v /\ v < MinVal(g) - 1 + W

\* The least and the greatest value exist, and no other value leaves them.
LEMMA Extremes ==
  ASSUME NEW g, IsGrid(g)
  PROVE  /\ MinVal(g) \in Int /\ MaxVal(g) \in Int
         /\ \A n \in DOMAIN g : MinVal(g) <= g[n] /\ g[n] <= MaxVal(g)
         /\ MinVal(g) <= MaxVal(g) /\ MaxVal(g) - MinVal(g) + 1 < W
<1> DEFINE Vals == {g[n] : n \in DOMAIN g}
<1>1. PICK a, b \in DOMAIN g : /\ \A n \in DOMAIN g : g[a] <= g[n] /\ g[n] <= g[b]
                               /\ g[b] - g[a] + 1 < W
  BY DEF IsGrid
<1>2. \A n \in DOMAIN g : g[n] \in Int
  BY DEF IsGrid
<1>3. MinVal(g) \in Vals /\ \A n \in DOMAIN g : MinVal(g) <= g[n]
  <2>1. g[a] \in Vals /\ \A n \in DOMAIN g : g[a] <= g[n]
    BY <1>1
  <2> QED
    BY <2>1 DEF MinVal
<1>4. MaxVal(g) \in Vals /\ \A n \in DOMAIN g : g[n] <= MaxVal(g)
  <2>1. g[b] \in Vals /\ \A n \in DOMAIN g : g[n] <= g[b]
    BY <1>1
  <2> QED
    BY <2>1 DEF MaxVal
<1>5. MinVal(g) = g[a] /\ MaxVal(g) = g[b]
  BY <1>1, <1>2, <1>3, <1>4
<1> QED
  BY <1>1, <1>2, <1>3, <1>4, <1>5

\* A number of the width is its own remainder.
LEMMA SmallMod ==
  ASSUME NEW k \in Nat, k < W
  PROVE  k % W = k
BY WidthAssumption

\* A small negative number turns round.
LEMMA NegativeMod ==
  ASSUME NEW k \in Int, k < 0, 0 <= k + W
  PROVE  k % W = k + W
BY WidthAssumption

\* Up to the width, shifting is subtraction.
LEMMA ShiftedDistance ==
  ASSUME NEW g, IsGrid(g), NEW v, Distant(g, v)
  PROVE  Shifted(g, v) = v - (MinVal(g) - 1)
<1>1. MinVal(g) \in Int
  BY Extremes
<1>2. v - (MinVal(g) - 1) \in Nat /\ v - (MinVal(g) - 1) < W
  BY <1>1, WidthAssumption DEF Distant
<1> QED
  BY <1>2, SmallMod DEF Shifted

\* Values are stored from 1 on, up to m_grid_max_val.
LEMMA ShiftedValue ==
  ASSUME NEW g, IsGrid(g), NEW n \in DOMAIN g
  PROVE  /\ Shifted(g, g[n]) = g[n] - (MinVal(g) - 1)
         /\ GridMax(g) = MaxVal(g) - (MinVal(g) - 1)
         /\ g[n] \in Int /\ MinVal(g) \in Int /\ MaxVal(g) \in Int
         /\ MinVal(g) <= g[n] /\ g[n] <= MaxVal(g)
<1>1. /\ g[n] \in Int /\ MinVal(g) \in Int /\ MaxVal(g) \in Int
      /\ MinVal(g) <= g[n] /\ g[n] <= MaxVal(g) /\ MaxVal(g) - MinVal(g) + 1 < W
  BY Extremes DEF IsGrid
<1>2. Distant(g, g[n]) /\ Distant(g, MaxVal(g))
  BY <1>1, WidthAssumption DEF Distant
<1> QED
  BY <1>1, <1>2, ShiftedDistance DEF GridMax

-----------------------------------------------------------------------------
\* next answers the least of the ids whose value it seeks.
LEMMA NextInAnswers ==
  ASSUME NEW g, IsGrid(g), NEW n, NEW spans
  PROVE  NextIn(g, n, spans).id =
           LeastFrom({m \in DOMAIN g : \E r \in spans : Shifted(g, g[m]) \in r[1] .. r[2]}, n)
<1> DEFINE w == LeastFrom({m \in DOMAIN g :
                             \E r \in spans : Shifted(g, g[m]) \in r[1] .. r[2]}, n)
<1>1. CASE w = 0
  BY <1>1 DEF NextIn, None
<1>2. CASE w # 0
  BY <1>2 DEF NextIn
<1> QED
  BY <1>1, <1>2

\* property_grid_v2::next_ge finds the least id with a value of v or more, unless v lies more
\* than one below the least value.
THEOREM NextGeAnswers ==
  ASSUME NEW g, IsGrid(g), NEW n, NEW v, Distant(g, v)
  PROVE  NextGe(g, n, v).id = LeastFrom({m \in DOMAIN g : g[m] >= v}, n)
<1> DEFINE spans == {<<Shifted(g, v), GridMax(g)>>}
<1>1. ASSUME NEW m \in DOMAIN g
      PROVE  (\E r \in spans : Shifted(g, g[m]) \in r[1] .. r[2]) <=> g[m] >= v
  <2>1. (\E r \in spans : Shifted(g, g[m]) \in r[1] .. r[2])
          <=> Shifted(g, g[m]) \in Shifted(g, v) .. GridMax(g)
    OBVIOUS
  <2>2. Shifted(g, v) = v - (MinVal(g) - 1) /\ v \in Int
    BY ShiftedDistance DEF Distant
  <2> QED
    BY <2>1, <2>2, ShiftedValue
<1>2. {m \in DOMAIN g : \E r \in spans : Shifted(g, g[m]) \in r[1] .. r[2]}
        = {m \in DOMAIN g : g[m] >= v}
  BY <1>1
<1>3. NextIn(g, n, spans).id
        = LeastFrom({m \in DOMAIN g : \E r \in spans : Shifted(g, g[m]) \in r[1] .. r[2]}, n)
  <2> HIDE DEF spans
  <2> QED
    BY NextInAnswers
<1>4. NextGe(g, n, v) = NextIn(g, n, spans)
  BY DEF NextGe
<1> QED
  BY <1>2, <1>3, <1>4

\* property_grid_v2::next_se finds the least id with a value of v or less, unless v lies more
\* than one below the least value, where the shifted bound is above every value.
THEOREM NextSeAnswers ==
  ASSUME NEW g, IsGrid(g), NEW n, NEW v, Distant(g, v)
  PROVE  NextSe(g, n, v).id = LeastFrom({m \in DOMAIN g : g[m] <= v}, n)
<1> DEFINE spans == {<<1, Shifted(g, v)>>}
<1>1. ASSUME NEW m \in DOMAIN g
      PROVE  (\E r \in spans : Shifted(g, g[m]) \in r[1] .. r[2]) <=> g[m] <= v
  <2>1. (\E r \in spans : Shifted(g, g[m]) \in r[1] .. r[2])
          <=> Shifted(g, g[m]) \in 1 .. Shifted(g, v)
    OBVIOUS
  <2>2. Shifted(g, v) = v - (MinVal(g) - 1) /\ v \in Int
    BY ShiftedDistance DEF Distant
  <2> QED
    BY <2>1, <2>2, ShiftedValue
<1>2. {m \in DOMAIN g : \E r \in spans : Shifted(g, g[m]) \in r[1] .. r[2]}
        = {m \in DOMAIN g : g[m] <= v}
  BY <1>1
<1>3. NextIn(g, n, spans).id
        = LeastFrom({m \in DOMAIN g : \E r \in spans : Shifted(g, g[m]) \in r[1] .. r[2]}, n)
  <2> HIDE DEF spans
  <2> QED
    BY NextInAnswers
<1>4. NextSe(g, n, v) = NextIn(g, n, spans)
  BY DEF NextSe
<1> QED
  BY <1>2, <1>3, <1>4

\* Further below the least value, the bound of next_se wraps around: it finds an id whatever
\* its value, where no value is v or less.
THEOREM NextSeWraps ==
  ASSUME NEW g, IsGrid(g), NEW n, NEW v \in Int,
         v < MinVal(g) - 1, MaxVal(g) - W <= v
  PROVE  /\ {m \in DOMAIN g : g[m] <= v} = {}
         /\ NextSe(g, n, v).id = LeastFrom(DOMAIN g, n)
<1> DEFINE spans == {<<1, Shifted(g, v)>>}
<1>1. /\ MinVal(g) \in Int /\ MaxVal(g) \in Int /\ W \in Nat
      /\ \A m \in DOMAIN g : MinVal(g) <= g[m] /\ g[m] <= MaxVal(g) /\ g[m] \in Int
  BY Extremes, WidthAssumption DEF IsGrid
<1>2. Shifted(g, v) = v - (MinVal(g) - 1) + W
  <2>1. v - (MinVal(g) - 1) + W \in Nat /\ v - (MinVal(g) - 1) + W < W
    BY <1>1, Extremes
  <2>2. v - (MinVal(g) - 1) \in Int /\ v - (MinVal(g) - 1) < 0
    BY <1>1
  <2> QED
    BY <2>1, <2>2, NegativeMod DEF Shifted
<1>3. ASSUME NEW m \in DOMAIN g
      PROVE  \E r \in spans : Shifted(g, g[m]) \in r[1] .. r[2]
  <2>1. Shifted(g, g[m]) \in 1 .. Shifted(g, v)
    BY <1>1, <1>2, ShiftedValue
  <2> QED
    BY <2>1
<1>4. {m \in DOMAIN g : \E r \in spans : Shifted(g, g[m]) \in r[1] .. r[2]} = DOMAIN g
  BY <1>3
<1>5. NextIn(g, n, spans).id
        = LeastFrom({m \in DOMAIN g : \E r \in spans : Shifted(g, g[m]) \in r[1] .. r[2]}, n)
  <2> HIDE DEF spans
  <2> QED
    BY NextInAnswers
<1>6. NextSe(g, n, v) = NextIn(g, n, spans)
  BY DEF NextSe
<1>7. {m \in DOMAIN g : g[m] <= v} = {}
  BY <1>1
<1> QED
  BY <1>4, <1>5, <1>6, <1>7

\* property_grid_v2::next_not_eq finds the least id with another value than v, unless v is 0
\* or its neighbours are out of reach.
THEOREM NextNotEqAnswers ==
  ASSUME NEW g, IsGrid(g), NEW n, NEW v, Distant(g, v), Distant(g, v + 1), v # 0
  PROVE  NextNotEq(g, n, v).id = LeastFrom({m \in DOMAIN g : g[m] # v}, n)
<1> DEFINE aux == Shifted(g, v)
           spans == {<<1, (aux - 1) % W>>, <<(aux + 1) % W, GridMax(g)>>}
<1>1. aux = v - (MinVal(g) - 1) /\ aux \in Nat /\ aux + 1 < W /\ v \in Int /\ W \in Nat \ {0}
  BY ShiftedDistance, Extremes, WidthAssumption DEF Distant
<1>2. (aux - 1) % W = IF aux = 0 THEN W - 1 ELSE aux - 1
  <2>1. CASE aux = 0
    BY <1>1, <2>1
  <2>2. CASE aux # 0
    BY <1>1, <2>2, SmallMod
  <2> QED
    BY <2>1, <2>2
<1>3. (aux + 1) % W = aux + 1
  BY <1>1, SmallMod
<1>4. ASSUME NEW m \in DOMAIN g
      PROVE  (\E r \in spans : Shifted(g, g[m]) \in r[1] .. r[2]) <=> g[m] # v
  <2>1. (\E r \in spans : Shifted(g, g[m]) \in r[1] .. r[2])
          <=> \/ Shifted(g, g[m]) \in 1 .. ((aux - 1) % W)
              \/ Shifted(g, g[m]) \in ((aux + 1) % W) .. GridMax(g)
    <3> HIDE DEF aux
    <3> QED
      OBVIOUS
  <2>2. /\ Shifted(g, g[m]) = g[m] - (MinVal(g) - 1)
        /\ GridMax(g) = MaxVal(g) - (MinVal(g) - 1)
        /\ g[m] \in Int /\ MinVal(g) \in Int /\ MaxVal(g) \in Int
        /\ MinVal(g) <= g[m] /\ g[m] <= MaxVal(g) /\ MaxVal(g) - MinVal(g) + 1 < W
    BY ShiftedValue, Extremes
  <2>3. Shifted(g, g[m]) \in 1 .. ((aux - 1) % W) <=> aux = 0 \/ g[m] < v
    <3> HIDE DEF aux
    <3> QED
      BY <1>1, <1>2, <2>2
  <2>4. Shifted(g, g[m]) \in ((aux + 1) % W) .. GridMax(g) <=> g[m] > v
    <3> HIDE DEF aux
    <3> QED
      BY <1>1, <1>3, <2>2
  <2>5. aux = 0 => g[m] # v
    <3> HIDE DEF aux
    <3> QED
      BY <1>1, <2>2
  <2>6. g[m] # v <=> g[m] < v \/ g[m] > v
    BY <1>1, <2>2
  <2> QED
    <3> HIDE DEF aux, spans
    <3> QED
      BY <2>1, <2>3, <2>4, <2>5, <2>6
<1>5. {m \in DOMAIN g : \E r \in spans : Shifted(g, g[m]) \in r[1] .. r[2]}
        = {m \in DOMAIN g : g[m] # v}
  BY <1>4
<1>6. NextIn(g, n, spans).id
        = LeastFrom({m \in DOMAIN g : \E r \in spans : Shifted(g, g[m]) \in r[1] .. r[2]}, n)
  <2> HIDE DEF spans
  <2> QED
    BY NextInAnswers
<1>7. NextNotEq(g, n, v) = NextIn(g, n, spans)
  BY DEF NextNotEq
<1> QED
  BY <1>5, <1>6, <1>7

\* Below the reach of the previous theorem the excluded value is no value, and none is missed.
LEMMA NextNotEqBelow ==
  ASSUME NEW g, IsGrid(g), NEW n, NEW v \in Int, v < MinVal(g) - 1, MaxVal(g) - W < v, v # 0
  PROVE  NextNotEq(g, n, v).id = LeastFrom({m \in DOMAIN g : g[m] # v}, n)
<1> DEFINE aux == Shifted(g, v)
           spans == {<<1, (aux - 1) % W>>, <<(aux + 1) % W, GridMax(g)>>}
<1>1. /\ MinVal(g) \in Int /\ MaxVal(g) \in Int /\ W \in Nat \ {0} /\ MinVal(g) <= MaxVal(g)
      /\ \A m \in DOMAIN g : MinVal(g) <= g[m] /\ g[m] <= MaxVal(g) /\ g[m] \in Int
  BY Extremes, WidthAssumption DEF IsGrid
<1>2. aux = v - (MinVal(g) - 1) + W
  <2>1. v - (MinVal(g) - 1) + W \in Nat /\ v - (MinVal(g) - 1) + W < W
    BY <1>1
  <2>2. v - (MinVal(g) - 1) \in Int /\ v - (MinVal(g) - 1) < 0
    BY <1>1
  <2> QED
    BY <2>1, <2>2, NegativeMod DEF Shifted
<1>3. (aux - 1) % W = aux - 1
  <2>1. aux - 1 \in Nat /\ aux - 1 < W
    BY <1>1, <1>2
  <2> QED
    BY <2>1, SmallMod
<1>4. ASSUME NEW m \in DOMAIN g
      PROVE  \E r \in spans : Shifted(g, g[m]) \in r[1] .. r[2]
  <2>1. Shifted(g, g[m]) \in 1 .. ((aux - 1) % W)
    <3>1. Shifted(g, g[m]) = g[m] - (MinVal(g) - 1) /\ g[m] \in Int
      BY ShiftedValue
    <3> QED
      BY <1>1, <1>2, <1>3, <3>1
  <2> QED
    BY <2>1
<1>5. {m \in DOMAIN g : \E r \in spans : Shifted(g, g[m]) \in r[1] .. r[2]} = DOMAIN g
  BY <1>4
<1>6. NextIn(g, n, spans).id
        = LeastFrom({m \in DOMAIN g : \E r \in spans : Shifted(g, g[m]) \in r[1] .. r[2]}, n)
  <2> HIDE DEF spans
  <2> QED
    BY NextInAnswers
<1>7. NextNotEq(g, n, v) = NextIn(g, n, spans)
  BY DEF NextNotEq
<1>8. {m \in DOMAIN g : g[m] # v} = DOMAIN g
  BY <1>1
<1> QED
  BY <1>5, <1>6, <1>7, <1>8

\* The value 0 excludes nothing.
LEMMA NextNotEqNone ==
  ASSUME NEW g, IsGrid(g), NEW n
  PROVE  NextNotEq(g, n, 0).id = LeastFrom(DOMAIN g, n)
<1> DEFINE spans == {<<1, GridMax(g)>>}
<1>1. ASSUME NEW m \in DOMAIN g
      PROVE  \E r \in spans : Shifted(g, g[m]) \in r[1] .. r[2]
  <2>1. Shifted(g, g[m]) \in 1 .. GridMax(g)
    BY ShiftedValue
  <2> QED
    BY <2>1
<1>2. {m \in DOMAIN g : \E r \in spans : Shifted(g, g[m]) \in r[1] .. r[2]} = DOMAIN g
  BY <1>1
<1>3. NextIn(g, n, spans).id
        = LeastFrom({m \in DOMAIN g : \E r \in spans : Shifted(g, g[m]) \in r[1] .. r[2]}, n)
  <2> HIDE DEF spans
  <2> QED
    BY NextInAnswers
<1>4. NextNotEq(g, n, 0) = NextIn(g, n, spans)
  BY DEF NextNotEq
<1> QED
  BY <1>2, <1>3, <1>4

\* property_grid_v2::next in a range finds the least id with a value between two bounds that
\* the width can tell from the values.
LEMMA NextInRangeAnswers ==
  ASSUME NEW g, IsGrid(g), NEW n, NEW l, NEW r, Distant(g, l), Distant(g, r)
  PROVE  NextInRange(g, n, l, r).id = LeastFrom({m \in DOMAIN g : l <= g[m] /\ g[m] <= r}, n)
<1> DEFINE spans == {<<Shifted(g, l), Shifted(g, r)>>}
<1>1. ASSUME NEW m \in DOMAIN g
      PROVE  (\E s \in spans : Shifted(g, g[m]) \in s[1] .. s[2]) <=> l <= g[m] /\ g[m] <= r
  <2>1. (\E s \in spans : Shifted(g, g[m]) \in s[1] .. s[2])
          <=> Shifted(g, g[m]) \in Shifted(g, l) .. Shifted(g, r)
    OBVIOUS
  <2>2. /\ Shifted(g, l) = l - (MinVal(g) - 1) /\ l \in Int
        /\ Shifted(g, r) = r - (MinVal(g) - 1) /\ r \in Int
    BY ShiftedDistance DEF Distant
  <2> QED
    BY <2>1, <2>2, ShiftedValue
<1>2. {m \in DOMAIN g : \E s \in spans : Shifted(g, g[m]) \in s[1] .. s[2]}
        = {m \in DOMAIN g : l <= g[m] /\ g[m] <= r}
  BY <1>1
<1>3. NextIn(g, n, spans).id
        = LeastFrom({m \in DOMAIN g : \E s \in spans : Shifted(g, g[m]) \in s[1] .. s[2]}, n)
  <2> HIDE DEF spans
  <2> QED
    BY NextInAnswers
<1>4. NextInRange(g, n, l, r) = NextIn(g, n, spans)
  BY DEF NextInRange
<1> QED
  BY <1>2, <1>3, <1>4

\* A value that the width can tell from the others is found exactly, above, among or below them.
LEMMA NextEqAnswers ==
  ASSUME NEW g, IsGrid(g), NEW n, NEW v \in Int, MaxVal(g) - W < v, v < MinVal(g) - 1 + W
  PROVE  NextEq(g, n, v).id = LeastFrom({m \in DOMAIN g : g[m] = v}, n)
<1> DEFINE spans == {<<Shifted(g, v), Shifted(g, v)>>}
<1>1. ASSUME NEW m \in DOMAIN g
      PROVE  (\E s \in spans : Shifted(g, g[m]) \in s[1] .. s[2]) <=> g[m] = v
  <2>0. /\ MinVal(g) \in Int /\ MaxVal(g) \in Int /\ W \in Nat \ {0}
        /\ MinVal(g) <= g[m] /\ g[m] <= MaxVal(g) /\ g[m] \in Int
    BY Extremes, WidthAssumption DEF IsGrid
  <2>1. (\E s \in spans : Shifted(g, g[m]) \in s[1] .. s[2])
          <=> Shifted(g, g[m]) \in Shifted(g, v) .. Shifted(g, v)
    <3>1. \A s \in spans : s[1] = Shifted(g, v) /\ s[2] = Shifted(g, v)
      OBVIOUS
    <3>2. \E s \in spans : TRUE
      OBVIOUS
    <3> HIDE DEF spans
    <3> QED
      BY <3>1, <3>2
  <2>2. Shifted(g, g[m]) = g[m] - (MinVal(g) - 1)
    BY ShiftedValue
  <2>3. CASE v >= MinVal(g) - 1
    <3>1. Distant(g, v)
      BY <2>0, <2>3 DEF Distant
    <3>2. Shifted(g, v) = v - (MinVal(g) - 1)
      BY <3>1, ShiftedDistance
    <3> QED
      BY <2>0, <2>1, <2>2, <3>2
  <2>4. CASE v < MinVal(g) - 1
    <3>1. v - (MinVal(g) - 1) \in Int /\ v - (MinVal(g) - 1) < 0 /\ 0 <= v - (MinVal(g) - 1) + W
      BY <2>0, <2>4
    <3>2. Shifted(g, v) = v - (MinVal(g) - 1) + W
      BY <3>1, NegativeMod DEF Shifted
    <3> QED
      BY <2>0, <2>1, <2>2, <2>4, <3>2
  <2> QED
    BY <2>0, <2>3, <2>4
<1>2. {m \in DOMAIN g : \E s \in spans : Shifted(g, g[m]) \in s[1] .. s[2]}
        = {m \in DOMAIN g : g[m] = v}
  BY <1>1
<1>3. NextIn(g, n, spans).id
        = LeastFrom({m \in DOMAIN g : \E s \in spans : Shifted(g, g[m]) \in s[1] .. s[2]}, n)
  <2> HIDE DEF spans
  <2> QED
    BY NextInAnswers
<1>4. NextEq(g, n, v) = NextIn(g, n, spans)
  BY DEF NextEq, NextInRange
<1> QED
  BY <1>2, <1>3, <1>4

-----------------------------------------------------------------------------
(***************************************************************************)
(* The properties of the index                                             *)
(***************************************************************************)
\* The values of a property of the index have a least and a greatest one.
LEMMA PropertyIsGrid ==
  ASSUME NEW g, NEW M \in Nat, IsProperty(g, M)
  PROVE  /\ IsGrid(g) /\ DOMAIN g \in SUBSET (Nat \ {0}) /\ DOMAIN g \subseteq 1 .. M
         /\ \E a, b \in DOMAIN g : MinVal(g) = g[a] /\ MaxVal(g) = g[b]
         /\ \A n \in DOMAIN g : MinVal(g) <= g[n] /\ g[n] <= MaxVal(g) /\ g[n] \in Int
         /\ Small(MinVal(g)) /\ Small(MaxVal(g))
<1> DEFINE U == {g[n] + W : n \in DOMAIN g}
           D == {W - g[n] : n \in DOMAIN g}
<1>1. \A n \in DOMAIN g : /\ g[n] \in Int /\ 4 - W <= 2 * g[n] /\ 2 * g[n] <= W - 4
                          /\ g[n] + W \in Nat /\ W - g[n] \in Nat
  BY WidthAssumption DEF IsProperty, Small
<1>2. U \in SUBSET Nat /\ U # {} /\ D \in SUBSET Nat /\ D # {}
  BY <1>1 DEF IsProperty
<1>3. PICK u \in U : \A y \in U : u <= y
  <2> HIDE DEF U
  <2> QED
    BY <1>2, NatHasLeast
<1>4. PICK d \in D : \A y \in D : d <= y
  <2> HIDE DEF D
  <2> QED
    BY <1>2, NatHasLeast
<1>5. PICK a \in DOMAIN g : u = g[a] + W
  BY <1>3
<1>6. PICK b \in DOMAIN g : d = W - g[b]
  BY <1>4
<1>7. \A n \in DOMAIN g : g[a] <= g[n]
  <2> TAKE n \in DOMAIN g
  <2>1. g[a] + W <= g[n] + W
    BY <1>3, <1>5
  <2> QED
    BY <2>1, <1>1, WidthAssumption
<1>8. \A n \in DOMAIN g : g[n] <= g[b]
  <2> TAKE n \in DOMAIN g
  <2>1. W - g[b] <= W - g[n]
    BY <1>4, <1>6
  <2> QED
    BY <2>1, <1>1, WidthAssumption
<1>9. g[b] - g[a] + 1 < W
  BY <1>1, WidthAssumption
<1>10. IsGrid(g)
  BY <1>1, <1>7, <1>8, <1>9 DEF IsGrid
<1>11. MinVal(g) = g[a]
  <2>1. MinVal(g) \in Int /\ \A n \in DOMAIN g : MinVal(g) <= g[n]
    BY <1>10, Extremes
  <2>2. MinVal(g) \in {g[n] : n \in DOMAIN g}
    <3>1. g[a] \in {g[n] : n \in DOMAIN g} /\ \A n \in DOMAIN g : g[a] <= g[n]
      BY <1>7
    <3> QED
      BY <3>1 DEF MinVal
  <2> QED
    BY <2>1, <2>2, <1>1, <1>7
<1>12. MaxVal(g) = g[b]
  <2>1. MaxVal(g) \in Int /\ \A n \in DOMAIN g : g[n] <= MaxVal(g)
    BY <1>10, Extremes
  <2>2. MaxVal(g) \in {g[n] : n \in DOMAIN g}
    <3>1. g[b] \in {g[n] : n \in DOMAIN g} /\ \A n \in DOMAIN g : g[n] <= g[b]
      BY <1>8
    <3> QED
      BY <3>1 DEF MaxVal
  <2> QED
    BY <2>1, <2>2, <1>1, <1>8
<1> QED
  BY <1>1, <1>7, <1>8, <1>10, <1>11, <1>12 DEF IsProperty, Small

\* What a search for values answers is an id with its value, or none.
LEMMA NextInHoldsValue ==
  ASSUME NEW g, NEW M \in Nat, IsProperty(g, M), NEW n \in Int, NEW spans
  PROVE  /\ NextIn(g, n, spans) \in [id : Int, val : Int]
         /\ NextIn(g, n, spans).id # 0 =>
              /\ NextIn(g, n, spans).id \in DOMAIN g
              /\ NextIn(g, n, spans).val = g[NextIn(g, n, spans).id]
<1> DEFINE S == {m \in DOMAIN g : \E r \in spans : Shifted(g, g[m]) \in r[1] .. r[2]}
           w == LeastFrom(S, n)
<1>1. S \in SUBSET (Nat \ {0}) /\ S \subseteq DOMAIN g
  BY DEF IsProperty
<1>2. w # 0 => w \in S
  <2> HIDE DEF S
  <2> QED
    BY <1>1, LeastFromCorrect
<1>3. NextIn(g, n, spans) = IF w = 0 THEN None ELSE [id |-> w, val |-> g[w]]
  BY DEF NextIn
<1>4. \A m \in DOMAIN g : m \in Int /\ g[m] \in Int
  BY DEF IsProperty, Small
<1> HIDE DEF w, S
<1>5. CASE w = 0
  BY <1>3, <1>5 DEF None
<1>6. CASE w # 0
  <2>1. w \in DOMAIN g /\ w \in Int /\ g[w] \in Int
    BY <1>1, <1>2, <1>4, <1>6
  <2>2. NextIn(g, n, spans) = [id |-> w, val |-> g[w]]
    BY <1>3, <1>6
  <2>3. NextIn(g, n, spans).id = w /\ NextIn(g, n, spans).val = g[w]
    BY <2>2
  <2> QED
    BY <2>1, <2>2, <2>3
<1> QED
  BY <1>5, <1>6

\* next_exists answers the least id with the property, and its value.
LEMMA NextExistsHoldsValue ==
  ASSUME NEW g, NEW M \in Nat, IsProperty(g, M), NEW n \in Int
  PROVE  /\ NextExists(g, n) \in [id : Int, val : Int]
         /\ NextExists(g, n).id = LeastFrom(DOMAIN g, n)
         /\ NextExists(g, n).id # 0 =>
              /\ NextExists(g, n).id \in DOMAIN g
              /\ NextExists(g, n).val = g[NextExists(g, n).id]
<1> DEFINE w == LeastFrom(DOMAIN g, n)
<1>1. DOMAIN g \in SUBSET (Nat \ {0})
  BY DEF IsProperty
<1>2. w # 0 => w \in DOMAIN g
  BY <1>1, LeastFromCorrect
<1>3. NextExists(g, n) = IF w = 0 THEN None ELSE [id |-> w, val |-> g[w]]
  BY DEF NextExists
<1>4. \A m \in DOMAIN g : m \in Int /\ g[m] \in Int
  BY DEF IsProperty, Small
<1> HIDE DEF w
<1>5. CASE w = 0
  BY <1>3, <1>5 DEF None, w
<1>6. CASE w # 0
  <2>1. w \in DOMAIN g /\ w \in Int /\ g[w] \in Int
    BY <1>2, <1>4, <1>6
  <2>2. NextExists(g, n) = [id |-> w, val |-> g[w]]
    BY <1>3, <1>6
  <2>3. NextExists(g, n).id = w /\ NextExists(g, n).val = g[w]
    BY <2>2
  <2>4. w = LeastFrom(DOMAIN g, n)
    BY DEF w
  <2> QED
    BY <2>1, <2>2, <2>3, <2>4
<1> QED
  BY <1>5, <1>6

Comparators == {"EQ", "NEQ", "ST", "GT", "SE", "GE"}

\* Every comparison is a search for values.
LEMMA NextPropertyHoldsValue ==
  ASSUME NEW g, NEW M \in Nat, IsProperty(g, M), NEW n \in Int, NEW v,
         NEW op \in Comparators
  PROVE  /\ NextProperty(g, M, n, v, op) \in [id : Int, val : Int]
         /\ NextProperty(g, M, n, v, op).id # 0 =>
              /\ NextProperty(g, M, n, v, op).id \in DOMAIN g
              /\ NextProperty(g, M, n, v, op).val = g[NextProperty(g, M, n, v, op).id]
<1>1. \E spans : NextProperty(g, M, n, v, op) = NextIn(g, n, spans)
  <2>1. CASE op \in {"EQ", "NEQ"}
    <3>1. NextEq(g, n, v) = NextIn(g, n, {<<Shifted(g, v), Shifted(g, v)>>})
      BY DEF NextEq, NextInRange
    <3>2. \E spans : NextNotEq(g, n, v) = NextIn(g, n, spans)
      BY DEF NextNotEq
    <3> QED
      BY <2>1, <3>1, <3>2 DEF NextProperty
  <2>2. CASE op \in {"ST", "SE"}
    <3>1. \A u : NextSe(g, n, u) = NextIn(g, n, {<<1, Shifted(g, u)>>})
      BY DEF NextSe
    <3> QED
      BY <2>2, <3>1 DEF NextProperty
  <2>3. CASE op \in {"GT", "GE"}
    <3>1. \A u : NextGe(g, n, u) = NextIn(g, n, {<<Shifted(g, u), GridMax(g)>>})
      BY DEF NextGe
    <3> QED
      BY <2>3, <3>1 DEF NextProperty
  <2> QED
    BY <2>1, <2>2, <2>3 DEF Comparators
<1> QED
  BY <1>1, NextInHoldsValue

\* A search answers the least id whose value compares, where the limits of the index allow.
LEMMA NextPropertyAnswers ==
  ASSUME NEW g, NEW M \in Nat, IsProperty(g, M), NEW n \in Int, NEW v, Small(v),
         NEW op \in Comparators, Reaches(g, v, op),
         op = "NEQ" => v # 0 \/ \A m \in DOMAIN g : g[m] > 0
  PROVE  NextProperty(g, M, n, v, op).id = LeastFrom({m \in DOMAIN g : Compare(op, g[m], v)}, n)
<1>1. /\ IsGrid(g) /\ MinVal(g) \in Int /\ MaxVal(g) \in Int /\ v \in Int /\ W \in Nat
      /\ 4 - W <= 2 * MinVal(g) /\ 2 * MaxVal(g) <= W - 4 /\ 4 - W <= 2 * MaxVal(g)
      /\ 4 - W <= 2 * v /\ 2 * v <= W - 4 /\ 2 * MinVal(g) <= W - 4
      /\ \A m \in DOMAIN g : g[m] \in Int
  BY PropertyIsGrid, WidthAssumption DEF Small
<1>2. MaxVal(g) - W < v /\ v < MinVal(g) - 1 + W /\ v + 1 < MinVal(g) - 1 + W
      /\ v - 1 < MinVal(g) - 1 + W
  BY <1>1
<1>3. CASE op = "EQ"
  BY <1>1, <1>2, <1>3, NextEqAnswers DEF NextProperty, Compare
<1>4. CASE op = "NEQ"
  <2>1. NextProperty(g, M, n, v, op).id = NextNotEq(g, n, v).id
    BY <1>4 DEF NextProperty
  <2>2. {m \in DOMAIN g : Compare(op, g[m], v)} = {m \in DOMAIN g : g[m] # v}
    BY <1>4 DEF Compare
  <2>3. NextNotEq(g, n, v).id = LeastFrom({m \in DOMAIN g : g[m] # v}, n)
    <3>1. CASE v = 0
      <4>1. {m \in DOMAIN g : g[m] # v} = DOMAIN g
        BY <1>1, <1>4, <3>1
      <4>2. NextNotEq(g, n, 0).id = LeastFrom(DOMAIN g, n)
        BY <1>1, NextNotEqNone
      <4> QED
        BY <3>1, <4>1, <4>2
    <3>2. CASE v # 0 /\ v < MinVal(g) - 1
      BY <1>1, <1>2, <3>2, NextNotEqBelow
    <3>3. CASE v # 0 /\ v >= MinVal(g) - 1
      <4>1. Distant(g, v) /\ Distant(g, v + 1)
        BY <1>1, <1>2, <3>3 DEF Distant
      <4> QED
        BY <1>1, <3>3, <4>1, NextNotEqAnswers
    <3> QED
      BY <1>1, <3>1, <3>2, <3>3
  <2> QED
    BY <2>1, <2>2, <2>3
<1>5. CASE op = "ST"
  <2>1. Distant(g, v - 1)
    BY <1>1, <1>2, <1>5 DEF Distant, Reaches
  <2>2. NextProperty(g, M, n, v, op).id = LeastFrom({m \in DOMAIN g : g[m] <= v - 1}, n)
    BY <1>1, <1>5, <2>1, NextSeAnswers DEF NextProperty
  <2>3. {m \in DOMAIN g : g[m] <= v - 1} = {m \in DOMAIN g : Compare(op, g[m], v)}
    BY <1>1, <1>5 DEF Compare
  <2> QED
    BY <2>2, <2>3
<1>6. CASE op = "SE"
  <2>1. Distant(g, v)
    BY <1>1, <1>2, <1>6 DEF Distant, Reaches
  <2> QED
    BY <1>1, <1>6, <2>1, NextSeAnswers DEF NextProperty, Compare
<1>7. CASE op = "GT"
  <2>1. Distant(g, v + 1)
    BY <1>1, <1>2, <1>7 DEF Distant, Reaches
  <2>2. NextProperty(g, M, n, v, op).id = LeastFrom({m \in DOMAIN g : g[m] >= v + 1}, n)
    BY <1>1, <1>7, <2>1, NextGeAnswers DEF NextProperty
  <2>3. {m \in DOMAIN g : g[m] >= v + 1} = {m \in DOMAIN g : Compare(op, g[m], v)}
    BY <1>1, <1>7 DEF Compare
  <2> QED
    BY <2>2, <2>3
<1>8. CASE op = "GE"
  <2>1. Distant(g, v)
    BY <1>1, <1>2, <1>8 DEF Distant, Reaches
  <2> QED
    BY <1>1, <1>8, <2>1, NextGeAnswers DEF NextProperty, Compare
<1> QED
  BY <1>3, <1>4, <1>5, <1>6, <1>7, <1>8 DEF Comparators

-----------------------------------------------------------------------------
(***************************************************************************)
(* Two properties of one variable                                          *)
(***************************************************************************)
\* The ids whose values of the two properties compare.
Agreeing(g, h, op) == {m \in DOMAIN g \cap DOMAIN h : Compare(op, g[m], h[m])}

PairAt(g, h, w) ==
  IF w = 0 THEN <<None, None>> ELSE <<[id |-> w, val |-> g[w]], [id |-> w, val |-> h[w]]>>

LoopBody(g, h, op, both, n) ==
  LET a == NextExists(g, n)
      b == NextExists(h, a.id)
  IN  IF a.id = 0 \/ b.id = 0 THEN <<None, None>>
      ELSE IF a.id # b.id THEN both[b.id]
      ELSE IF Compare(op, a.val, b.val) THEN <<a, b>>
      ELSE both[b.id + 1]

\* The least element is found from any bound that skips none.
LEMMA LeastFromLater ==
  ASSUME NEW S \in SUBSET (Nat \ {0}), NEW n \in Int, NEW c \in Int, n <= c,
         \A m \in S : n <= m => c <= m
  PROVE  LeastFrom(S, c) = LeastFrom(S, n)
<1>1. \A m \in S : m \in Int
  OBVIOUS
<1>2. \A m \in S : c <= m <=> n <= m
  BY <1>1
<1>3. {m \in S : c <= m} = {m \in S : n <= m}
  BY <1>2
<1> DEFINE LeastOf(A) == IF A = {} THEN 0 ELSE CHOOSE v \in A : \A w \in A : v <= w
<1>4. LeastFrom(S, c) = LeastOf({m \in S : c <= m}) /\ LeastFrom(S, n) = LeastOf({m \in S : n <= m})
  BY DEF LeastFrom
<1> HIDE DEF LeastOf
<1> QED
  BY <1>3, <1>4

\* An element that is the bound itself is the least.
LEMMA LeastFromHere ==
  ASSUME NEW S \in SUBSET (Nat \ {0}), NEW n \in S
  PROVE  LeastFrom(S, n) = n
<1>1. n \in Int /\ ~ (n < n)
  OBVIOUS
<1>2. LeastFrom(S, n) # 0 /\ LeastFrom(S, n) \in S /\ n <= LeastFrom(S, n) /\ LeastFrom(S, n) <= n
  BY <1>1, LeastFromCorrect
<1>3. LeastFrom(S, n) \in Int
  <2>1. \A m \in S : m \in Int
    OBVIOUS
  <2> QED
    BY <1>2, <2>1
<1> QED
  BY <1>1, <1>2, <1>3

\* One turn of the loop finds what the loop finds, if the turns after it do.
LEMMA LoopBodyAnswers ==
  ASSUME NEW M \in Nat, NEW g, IsProperty(g, M), NEW h, IsProperty(h, M), NEW op,
         NEW n \in 1 .. M + 1, NEW both,
         \A m \in n + 1 .. M + 1 : both[m] = PairAt(g, h, LeastFrom(Agreeing(g, h, op), m))
  PROVE  LoopBody(g, h, op, both, n) = PairAt(g, h, LeastFrom(Agreeing(g, h, op), n))
<1> DEFINE S == Agreeing(g, h, op)
           a == NextExists(g, n)
           b == NextExists(h, a.id)
<1>1. /\ S \in SUBSET (Nat \ {0})
      /\ DOMAIN g \in SUBSET (Nat \ {0}) /\ DOMAIN h \in SUBSET (Nat \ {0})
      /\ \A m \in S : m \in DOMAIN g /\ m \in DOMAIN h
      /\ \A m \in DOMAIN g \union DOMAIN h : m \in 1 .. M
  BY DEF Agreeing, IsProperty
<1>2. a.id = LeastFrom(DOMAIN g, n) /\ (a.id # 0 => a.val = g[a.id]) /\ a \in [id : Int, val : Int]
  BY NextExistsHoldsValue
<1>3. /\ b.id = LeastFrom(DOMAIN h, a.id) /\ (b.id # 0 => b.val = h[b.id])
      /\ b \in [id : Int, val : Int]
  BY <1>2, NextExistsHoldsValue
<1>4. LoopBody(g, h, op, both, n) =
        IF a.id = 0 \/ b.id = 0 THEN <<None, None>>
        ELSE IF a.id # b.id THEN both[b.id]
        ELSE IF Compare(op, a.val, b.val) THEN <<a, b>>
        ELSE both[b.id + 1]
  BY DEF LoopBody
<1>5. \A m \in S : m \in Int
  BY <1>1
<1>6. a.id \in Int /\ n \in Int
  BY <1>2
<1>7. \A m \in S : n <= m => a.id # 0 /\ a.id <= m
  BY <1>1, <1>2, LeastFromCorrect
<1>8. a.id # 0 => a.id \in DOMAIN g /\ n <= a.id
  BY <1>1, <1>2, LeastFromCorrect
<1>9. \A m \in S : a.id <= m => b.id # 0 /\ b.id <= m
  BY <1>1, <1>3, <1>6, LeastFromCorrect
<1>10. b.id # 0 => b.id \in DOMAIN h /\ a.id <= b.id
  BY <1>1, <1>3, <1>6, LeastFromCorrect
<1>11. a.id = b.id /\ a.id # 0 => (a.id \in S <=> Compare(op, a.val, b.val))
  BY <1>2, <1>3, <1>8, <1>10 DEF Agreeing
<1>12. \A r, q \in [id : Int, val : Int] : r.id = q.id /\ r.val = q.val => r = q
  OBVIOUS
<1> HIDE DEF S, a, b
<1>13. CASE a.id = 0 \/ b.id = 0
  <2>1. \A m \in S : m < n
    BY <1>5, <1>6, <1>7, <1>9, <1>13
  <2>2. LeastFrom(S, n) = 0
    BY <1>1, <1>6, <2>1, LeastFromCorrect
  <2> QED
    BY <1>4, <1>13, <2>2 DEF PairAt, S
<1>14. CASE a.id # 0 /\ b.id # 0 /\ a.id # b.id
  <2>1. b.id \in n + 1 .. M + 1 /\ b.id \in Int
    BY <1>1, <1>6, <1>8, <1>10, <1>14
  <2>2. \A m \in S : n <= m => b.id <= m
    BY <1>7, <1>9
  <2>3. LeastFrom(S, b.id) = LeastFrom(S, n)
    BY <1>1, <1>6, <2>1, <2>2, LeastFromLater
  <2> QED
    BY <1>4, <1>14, <2>1, <2>3 DEF S
<1>15. CASE a.id # 0 /\ a.id = b.id /\ Compare(op, a.val, b.val)
  <2>1. a.id \in S
    BY <1>11, <1>15
  <2>2. LeastFrom(S, a.id) = a.id
    BY <1>1, <2>1, LeastFromHere
  <2>3. LeastFrom(S, a.id) = LeastFrom(S, n)
    BY <1>1, <1>6, <1>7, <1>8, <1>15, LeastFromLater
  <2>4. [id |-> a.id, val |-> g[a.id]] = a /\ [id |-> a.id, val |-> h[a.id]] = b
    <3>1. a.val \in Int /\ b.val \in Int /\ a.val = g[a.id] /\ b.val = h[a.id]
      BY <1>2, <1>3, <1>15
    <3>2. [id |-> a.id, val |-> a.val] = a /\ [id |-> b.id, val |-> b.val] = b
      BY <1>2, <1>3
    <3> QED
      BY <1>15, <3>1, <3>2
  <2>5. PairAt(g, h, a.id) = <<a, b>>
    BY <1>15, <2>4 DEF PairAt
  <2> QED
    BY <1>4, <1>15, <2>2, <2>3, <2>5 DEF S
<1>16. CASE a.id # 0 /\ a.id = b.id /\ ~Compare(op, a.val, b.val)
  <2>1. b.id + 1 \in n + 1 .. M + 1 /\ b.id + 1 \in Int
    BY <1>1, <1>6, <1>8, <1>16
  <2>2. a.id \notin S
    BY <1>11, <1>16
  <2>3. \A m \in S : n <= m => b.id + 1 <= m
    BY <1>5, <1>6, <1>7, <1>16, <2>2
  <2>4. LeastFrom(S, b.id + 1) = LeastFrom(S, n)
    BY <1>1, <1>6, <2>1, <2>3, LeastFromLater
  <2> QED
    BY <1>4, <1>16, <2>1, <2>4 DEF S
<1> QED
  BY <1>13, <1>14, <1>15, <1>16

\* ltj_iterator_comp::leap for two properties of one variable: the loop ends at the least id
\* that has both properties and whose values compare, and keeps both values.
THEOREM BothFromAnswers ==
  ASSUME NEW e, IsProperty(Grid(e.o[1]), MaxId(e.o[1].x)),
         IsProperty(Grid(e.o[2]), MaxId(e.o[1].x)),
         MaxId(e.o[1].x) \in Nat, NEW from \in 1 .. MaxId(e.o[1].x) + 1
  PROVE  BothFrom(e, from) =
           PairAt(Grid(e.o[1]), Grid(e.o[2]),
                  LeastFrom(Agreeing(Grid(e.o[1]), Grid(e.o[2]), e.type), from))
<1> DEFINE g == Grid(e.o[1])
           h == Grid(e.o[2])
           M == MaxId(e.o[1].x)
           Dom == 1 .. M + 1
           Found(n) == PairAt(g, h, LeastFrom(Agreeing(g, h, e.type), n))
           f == [n \in Dom |-> Found(n)]
           both == CHOOSE b : b = [n \in Dom |-> LoopBody(g, h, e.type, b, n)]
<1>1. BothFrom(e, from) = both[from]
  BY DEF BothFrom, LoopBody
<1>2. f = [n \in Dom |-> LoopBody(g, h, e.type, f, n)]
  <2>1. ASSUME NEW n \in Dom PROVE LoopBody(g, h, e.type, f, n) = Found(n)
    <3>1. \A m \in n + 1 .. M + 1 : f[m] = Found(m)
      OBVIOUS
    <3> HIDE DEF f, g, h, M
    <3> QED
      BY <3>1, LoopBodyAnswers DEF g, h, M
  <2> HIDE DEF Found
  <2> QED
    BY <2>1
<1>3. both = [n \in Dom |-> LoopBody(g, h, e.type, both, n)]
  <2> HIDE DEF f, Dom, g, h
  <2> QED
    BY <1>2
<1> HIDE DEF both, f
<1> DEFINE Wrong == {k \in Nat : \E n \in Dom : k = M + 1 - n /\ both[n] # Found(n)}
<1>4. Wrong = {}
  <2> SUFFICES ASSUME Wrong # {} PROVE FALSE
    OBVIOUS
  <2>1. PICK k \in Wrong : \A j \in Wrong : k <= j
    <3> HIDE DEF g, h
    <3>1. Wrong \in SUBSET Nat
      OBVIOUS
    <3> HIDE DEF Wrong
    <3> QED
      BY <3>1, NatHasLeast
  <2>2. PICK n \in Dom : k = M + 1 - n /\ both[n] # Found(n)
    BY DEF Wrong
  <2>3. \A m \in n + 1 .. M + 1 : both[m] = Found(m)
    <3> HIDE DEF Found
    <3> SUFFICES ASSUME NEW m \in n + 1 .. M + 1, both[m] # Found(m) PROVE FALSE
      OBVIOUS
    <3>1. m \in Dom /\ M + 1 - m \in Nat /\ M + 1 - m < k
      BY <2>2
    <3>2. M + 1 - m \in Wrong
      BY <3>1
    <3>3. k \in Nat
      OBVIOUS
    <3> HIDE DEF Wrong, g, h, M
    <3> QED
      BY <2>1, <3>1, <3>2, <3>3
  <2>4. LoopBody(g, h, e.type, both, n) = Found(n)
    <3> HIDE DEF g, h, M
    <3> QED
      BY <2>3, LoopBodyAnswers DEF g, h, M
  <2>5. both[n] = LoopBody(g, h, e.type, both, n)
    <3> DEFINE Loop(j) == LoopBody(g, h, e.type, both, j)
    <3>1. both = [j \in Dom |-> Loop(j)] /\ n \in Dom
      BY <1>3
    <3> HIDE DEF Loop, Dom
    <3>2. both[n] = Loop(n)
      BY <3>1
    <3> QED
      BY <3>2 DEF Loop
  <2> QED
    BY <2>2, <2>4, <2>5
<1>5. both[from] = Found(from)
  <2>1. M + 1 - from \in Nat /\ from \in Dom
    OBVIOUS
  <2> QED
    BY <1>4, <2>1
<1> QED
  BY <1>1, <1>5

-----------------------------------------------------------------------------
(***************************************************************************)
(* The inductive invariant                                                 *)
(***************************************************************************)
AllVars == NodeVars \union EdgeVars
Comps(w) == IF w.type = "WAND" THEN ToSet(w.args) ELSE {w}
NullTests == {"ISNULL", "ISNOTNULL"}

On(p, x) == \E d \in DOMAIN p : p[d].x = x
IdOn(p, x) == p[CHOOSE d \in DOMAIN p : p[d].x = x].n

\* The operands that an iterator holds: constants, and those of variables on the path, of which
\* the ids of one variable twice count once.
HoldsOperand(it, p, k) ==
  ~IsVar(it.e.o[k]) \/ (On(p, it.e.o[k].x) /\ ~(it.kind = "compId" /\ k = 2 /\ SameVar(it)))

\* What it holds for them.
HeldValue(it, ix, p, k) ==
  LET o == it.e.o[k]
      id == IdOn(p, o.x)
  IN  IF ~IsVar(o) THEN it.fixed[k] = FixedByConst(it.e, k)
      ELSE IF it.kind = "compId" THEN it.fixed[k] = id
      ELSE it.e.type \notin NullTests =>
             id \in DOMAIN GridIn(ix, o) /\ it.fixed[k] = GridIn(ix, o)[id]

Pair == [id : Int, val : Int]
Individuals(cs) ==
  [kind : {"comp", "compId"}, e : cs, fixed : [1 .. 2 -> Int], idval : [1 .. 2 -> Pair],
   state : [1 .. 2 -> BOOLEAN], nfixed : Int, elements : Nat]
One(b) == IF b THEN 1 ELSE 0

IndividualOK(it, ix, cs, p) ==
  /\ it \in Individuals(cs)
  /\ it.kind = "comp" <=> HasProperty(it.e)
  /\ it.elements = MaxId(it.e.o[1].x)
  /\ \A k \in 1 .. 2 : /\ it.state[k] <=> HoldsOperand(it, p, k)
                       /\ it.state[k] => HeldValue(it, ix, p, k)
  /\ it.nfixed = One(it.state[1]) + One(it.state[2])

\* A range holds the greatest of the lower bounds, and the least of the upper ones.
RangesOn(cs, key) == {e \in cs : IsRange(e) /\ KeyOf(e) = key}
IsLower(e) == OpOf(e, Operand(e)) \in {"GT", "GE"}
BoundOf(e) ==
  LET op == OpOf(e, Operand(e))
      v == ValueOf(e.o[3 - Operand(e)])
  IN  IF op = "GT" THEN (v + 1) % W ELSE IF op = "ST" THEN (v - 1) % W ELSE v

RangeRecords == [lo : 0 .. W - 1, hi : 0 .. W - 1, hasLo : BOOLEAN, hasHi : BOOLEAN]
RangeOf(r, es) ==
  /\ r \in RangeRecords
  /\ r.hasLo <=> \E e \in es : IsLower(e)
  /\ r.hasHi <=> \E e \in es : ~IsLower(e)
  /\ r.hasLo => \E e \in es : IsLower(e) /\ r.lo = BoundOf(e)
  /\ r.hasHi => \E e \in es : ~IsLower(e) /\ r.hi = BoundOf(e)
  /\ \A e \in es : IF IsLower(e) THEN BoundOf(e) <= r.lo ELSE r.hi <= BoundOf(e)

LowEnd(ix, key, r) ==
  IF r.hasLo THEN r.lo ELSE IF key.p = 0 THEN 1 ELSE MinVal(GridIn(ix, key))
HighEnd(ix, key, r) ==
  IF r.hasHi THEN r.hi ELSE IF key.p = 0 THEN MaxId(key.x) ELSE MaxVal(GridIn(ix, key))

RangeItOK(it, ix, cs) ==
  /\ it.kind = IF it.key.p = 0 THEN "idRange" ELSE "range"
  /\ it.elements = MaxId(it.key.x)
  /\ RangesOn(cs, it.key) # {}
  /\ \E r \in RangeRecords : /\ RangeOf(r, RangesOn(cs, it.key)) /\ IsValid(r)
                             /\ it.lo = LowEnd(ix, it.key, r) /\ it.hi = HighEnd(ix, it.key, r)

IterOK(it, ix, cs, p) == IndividualOK(it, ix, cs, p) \/ RangeItOK(it, ix, cs)

\* The ranges collected are those of the comparisons processed.
Collected(rs, w, todo) ==
  \E done \in SUBSET Comps(w) :
    /\ Comps(w) = done \union ToSet(todo)
    /\ DOMAIN rs = {KeyOf(e) : e \in {f \in done : IsRange(f)}}
    /\ \A key \in DOMAIN rs : RangeOf(rs[key], RangesOn(done, key))

Building ==
  /\ path = <<>> /\ ret = NoQuestion /\ ~isEmpty
  /\ args \in Seq(Comps(where)) /\ IsFiniteSet(DOMAIN ranges)
  /\ IF where.type = "WAND" THEN Collected(ranges, where, args) ELSE ranges = <<>>

\* A clause is given up for a range that holds no value.
GivenUp(w) ==
  \E key \in {KeyOf(e) : e \in {f \in Comps(w) : IsRange(f)}} : \E r \in RangeRecords :
    RangeOf(r, RangesOn(Comps(w), key)) /\ ~IsValid(r)

PathOK(p) ==
  /\ p \in Seq([x : AllVars, n : Nat \ {0}])
  /\ \A d, c \in DOMAIN p : p[d].x = p[c].x => d = c
  /\ \A d \in DOMAIN p : p[d].n <= MaxId(p[d].x)

\* The values kept beside an id that was answered.
KeepsPairs(it, ix, x, n) ==
  it.kind = "comp" /\ it.e.type \notin NullTests =>
    \A k \in 1 .. 2 : it.e.o[k].x = x =>
      n \in DOMAIN GridIn(ix, it.e.o[k]) /\ it.idval[k].val = GridIn(ix, it.e.o[k])[n]

Asking ==
  /\ pc = "join" /\ ret.x \in AllVars /\ ret.n \in Nat \ {0} /\ ~On(path, ret.x)
  /\ DOMAIN ret.ans = {j \in DOMAIN iters : ret.x \in VarsOf(iters[j])}
  /\ \A j \in DOMAIN ret.ans : ret.ans[j] = ret.n => KeepsPairs(iters[j], index, ret.x, ret.n)

IInv ==
  /\ index \in Indexes /\ where \in Wheres /\ pc \in {"build", "join"} /\ isEmpty \in BOOLEAN
  /\ IF pc = "build" THEN Building ELSE ranges = <<>>
  /\ iters \in Seq(ToSet(iters))
  /\ \A j \in DOMAIN iters : IterOK(iters[j], index, Comps(where), path)
  /\ isEmpty => GivenUp(where)
  /\ PathOK(path)
  /\ ret = NoQuestion \/ Asking
  /\ AnswersLeastAllowed

-----------------------------------------------------------------------------
(***************************************************************************)
(* Comparisons and their operands                                          *)
(***************************************************************************)
\* There are nodes, and edges.
LEMMA MaxIdIsNat ==
  ASSUME NEW x
  PROVE  MaxId(x) \in Nat \ {0}
BY WhereAssumption DEF MaxId

\* The clauses explored are made of comparisons of the index.
LEMMA ClauseOfComparisons ==
  ASSUME NEW ix \in Indexes, NEW w \in Wheres
  PROVE  /\ \A e \in Comps(w) : IsComparison(e, ix) /\ e.type # "WAND"
         /\ w.type = "WAND" => w.args \in Seq(Comps(w))
<1>1. \A e : IsComparison(e, ix) => e.type # "WAND"
  BY DEF IsComparison, Opposite
<1>2. CASE w.type = "WAND"
  <2>1. w.args \in Seq(ToSet(w.args)) /\ \A e \in ToSet(w.args) : IsComparison(e, ix)
    BY <1>2, ComparisonAssumption
  <2> QED
    BY <1>1, <1>2, <2>1 DEF Comps
<1>3. CASE w.type # "WAND"
  BY <1>1, <1>3, ComparisonAssumption DEF Comps
<1> QED
  BY <1>2, <1>3

\* A comparison is one of six, or a test for a property.
LEMMA TypesOfComparison ==
  ASSUME NEW ix, NEW e, IsComparison(e, ix)
  PROVE  /\ e.type \in Comparators \union NullTests
         /\ \A k \in 1 .. 2 : OpOf(e, k) \in Comparators \union NullTests
         /\ \A k \in 1 .. 2 : OpOf(e, k) \in NullTests <=> e.type \in NullTests
         /\ e.type \in NullTests => IsVar(e.o[1]) /\ e.o[1].p # 0 /\ ~IsVar(e.o[2])
<1>1. e.type \in Comparators \union NullTests
  BY DEF IsComparison, Opposite, Comparators, NullTests
<1>2. OpOf(e, 1) = e.type
  BY DEF OpOf
<1>3. /\ OpOf(e, 2) \in Comparators \union NullTests
      /\ OpOf(e, 2) \in NullTests <=> e.type \in NullTests
  BY <1>1 DEF OpOf, Opposite, Comparators, NullTests
<1>4. e.type \in NullTests => IsVar(e.o[1]) /\ e.o[1].p # 0 /\ ~IsVar(e.o[2])
  BY DEF IsComparison, NullTests
<1> QED
  BY <1>1, <1>2, <1>3, <1>4

\* The operator read from the other side compares the operands the other way round.
LEMMA OppositeCompares ==
  ASSUME NEW op \in Comparators, NEW a \in Int, NEW b \in Int
  PROVE  Compare(Opposite[op], b, a) <=> Compare(op, a, b)
<1>1. CASE op \in {"EQ", "NEQ"}
  <2>1. Opposite[op] = op
    BY <1>1 DEF Opposite
  <2> QED
    BY <1>1, <2>1 DEF Compare
<1>2. CASE op = "ST"
  <2>1. Opposite[op] = "GT"
    BY <1>2 DEF Opposite
  <2> QED
    BY <1>2, <2>1 DEF Compare
<1>3. CASE op = "GT"
  <2>1. Opposite[op] = "ST"
    BY <1>3 DEF Opposite
  <2> QED
    BY <1>3, <2>1 DEF Compare
<1>4. CASE op = "SE"
  <2>1. Opposite[op] = "GE"
    BY <1>4 DEF Opposite
  <2> QED
    BY <1>4, <2>1 DEF Compare
<1>5. CASE op = "GE"
  <2>1. Opposite[op] = "SE"
    BY <1>5 DEF Opposite
  <2> QED
    BY <1>5, <2>1 DEF Compare
<1> QED
  BY <1>1, <1>2, <1>3, <1>4, <1>5 DEF Comparators

\* A variable operand is a property of the index when the comparison has one.
LEMMA PropertyOperand ==
  ASSUME NEW ix \in Indexes, NEW e, IsComparison(e, ix), HasProperty(e),
         NEW k \in 1 .. 2, IsVar(e.o[k])
  PROVE  /\ e.o[k].p # 0 /\ e.o[k].x \in AllVars
         /\ IsProperty(GridIn(ix, e.o[k]), MaxId(e.o[k].x))
<1>1. e.o[k].p # 0
  <2>1. PICK j \in 1 .. 2 : IsVar(e.o[j]) /\ e.o[j].p # 0
    BY DEF HasProperty
  <2>2. CASE j = k
    BY <2>1, <2>2
  <2>3. CASE j # k
    <3>1. j = 3 - k
      BY <2>3
    <3> QED
      BY <2>1, <3>1 DEF IsComparison, MayMeet
  <2> QED
    BY <2>2, <2>3
<1>2. IsOperand(e.o[k], ix)
  BY DEF IsComparison
<1>3. CASE e.o[k].x \in NodeVars
  <2>1. e.o[k].p \in DOMAIN ix.node /\ ~IsEdge(e.o[k].x)
    BY <1>1, <1>2, <1>3, WhereAssumption DEF IsOperand, IsVar, IsEdge
  <2>2. IsProperty(ix.node[e.o[k].p], MaxS)
    BY <2>1, WhereAssumption
  <2> QED
    BY <1>1, <1>3, <2>1, <2>2 DEF GridIn, MaxId, AllVars
<1>4. CASE e.o[k].x \in EdgeVars
  <2>1. e.o[k].p \in DOMAIN ix.edge /\ IsEdge(e.o[k].x)
    BY <1>1, <1>2, <1>4, WhereAssumption DEF IsOperand, IsVar, IsEdge
  <2>2. IsProperty(ix.edge[e.o[k].p], NTriples)
    BY <2>1, WhereAssumption
  <2> QED
    BY <1>1, <1>4, <2>1, <2>2 DEF GridIn, MaxId, AllVars
<1> QED
  BY <1>2, <1>3, <1>4 DEF IsOperand, IsVar

\* Of two ids, none is a property; and their constants are numbers from 1 on.
LEMMA IdOperand ==
  ASSUME NEW ix \in Indexes, NEW e, IsComparison(e, ix), ~HasProperty(e)
  PROVE  /\ e.type \in Comparators
         /\ \A k \in 1 .. 2 :
              IF IsVar(e.o[k]) THEN e.o[k].p = 0 /\ e.o[k].x \in AllVars
              ELSE e.o[k].at = "num" /\ e.o[k].k \in Nat \ {0} /\ Small(e.o[k].k)
<1>1. e.type \in Comparators
  BY TypesOfComparison DEF HasProperty
<1>2. \A k \in 1 .. 2 : IsVar(e.o[k]) => e.o[k].p = 0
  BY DEF HasProperty
<1>3. \A k \in 1 .. 2 : IsVar(e.o[k]) => e.o[k].x \in AllVars
  BY DEF IsComparison, IsOperand, IsVar, AllVars
<1>4. ASSUME NEW k \in 1 .. 2, ~IsVar(e.o[k])
      PROVE  e.o[k].at = "num" /\ e.o[k].k \in Nat \ {0} /\ Small(e.o[k].k)
  <2>1. IsVar(e.o[3 - k]) /\ 3 - k \in 1 .. 2 /\ 3 - (3 - k) = k
    BY <1>4 DEF IsComparison
  <2>2. MayMeet(e.o[3 - k], e.o[k], ix)
    BY <2>1 DEF IsComparison
  <2>3. Small(e.o[k].k)
    BY <1>4, <2>1, WhereAssumption DEF IsComparison, IsOperand, IsVar
  <2> QED
    BY <1>2, <1>4, <2>1, <2>2, <2>3 DEF MayMeet, Small
<1> QED
  BY <1>1, <1>2, <1>3, <1>4

\* What the constructor keeps of a constant is a number.
LEMMA ConstantIsFixed ==
  ASSUME NEW ix \in Indexes, NEW e, IsComparison(e, ix), NEW k \in 1 .. 2
  PROVE  FixedByConst(e, k) \in Int
<1>1. CASE IsVar(e.o[k]) \/ ~IsVar(e.o[3 - k])
  BY <1>1 DEF FixedByConst
<1>2. CASE ~IsVar(e.o[k]) /\ IsVar(e.o[3 - k])
  <2>1. e.o[k].k \in Int /\ e.o[k].at \in {"num", "in", "gap"}
    BY <1>2, WhereAssumption DEF IsComparison, IsOperand, IsVar, Small
  <2>2. CASE e.o[k].at = "num"
    <3>1. e.o[k].k % W \in Int
      BY <2>1, WidthAssumption
    <3> QED
      BY <1>2, <2>1, <2>2, <3>1 DEF FixedByConst
  <2>3. CASE e.o[k].at # "num"
    <3>1. e.type \notin NullTests /\ HasProperty(e)
      <4>1. e.type \in NullTests => k = 2
        BY <1>2, TypesOfComparison
      <4>2. e.type \notin NullTests
        BY <2>3, <4>1 DEF IsComparison, NullTests
      <4> QED
        BY <1>2, <2>3, <4>2, IdOperand
    <3>2. OpOf(e, k) \in Comparators
      BY <3>1, TypesOfComparison
    <3>3. GetId(e.o[k], OpOf(e, k)) \in Int
      BY <2>1, <3>2 DEF GetId, Comparators
    <3> QED
      BY <1>2, <2>3, <3>1, <3>3 DEF FixedByConst
  <2> QED
    BY <2>2, <2>3
<1> QED
  BY <1>1, <1>2

\* Two places are counted one by one.
LEMMA TwoCounted ==
  ASSUME NEW S \in SUBSET (1 .. 2)
  PROVE  Cardinality(S) = One(1 \in S) + One(2 \in S) /\ IsFiniteSet(S)
<1>1. S = {} \/ S = {1} \/ S = {2} \/ S = {1, 2}
  <2>1. \A k \in S : k = 1 \/ k = 2
    OBVIOUS
  <2> QED
    BY <2>1
<1>2. /\ Cardinality({}) = 0 /\ Cardinality({1}) = 1 /\ Cardinality({2}) = 1
      /\ IsFiniteSet({}) /\ IsFiniteSet({1}) /\ IsFiniteSet({2})
  BY FS_EmptySet, FS_Singleton
<1>3. Cardinality({1, 2}) = 2 /\ IsFiniteSet({1, 2})
  <2>1. {1, 2} = {1} \union {2}
    OBVIOUS
  <2>2. 2 \notin {1}
    OBVIOUS
  <2>3. IsFiniteSet({1} \union {2}) /\ Cardinality({1} \union {2}) = Cardinality({1}) + 1
    BY <1>2, <2>2, FS_AddElement
  <2> QED
    BY <1>2, <2>1, <2>3
<1>4. IsFiniteSet(S)
  BY <1>1, <1>2, <1>3
<1>5. CASE S = {}
  BY <1>2, <1>4, <1>5 DEF One
<1>6. CASE S = {1}
  BY <1>2, <1>4, <1>6 DEF One
<1>7. CASE S = {2}
  BY <1>2, <1>4, <1>7 DEF One
<1>8. CASE S = {1, 2}
  BY <1>3, <1>4, <1>8 DEF One
<1> QED
  BY <1>1, <1>5, <1>6, <1>7, <1>8

-----------------------------------------------------------------------------
(***************************************************************************)
(* The path                                                                *)
(***************************************************************************)
\* A variable is bound once.
LEMMA IdOnPath ==
  ASSUME NEW p, PathOK(p), NEW d \in DOMAIN p
  PROVE  IdOn(p, p[d].x) = p[d].n
<1> DEFINE c == CHOOSE c \in DOMAIN p : p[c].x = p[d].x
<1>1. c \in DOMAIN p /\ p[c].x = p[d].x
  OBVIOUS
<1>2. c = d
  BY <1>1 DEF PathOK
<1> QED
  BY <1>2 DEF IdOn

\* What down and up make of the path.
Grown(p, x, n) == Append(p, [x |-> x, n |-> n])
Shrunk(p) == SubSeq(p, 1, Len(p) - 1)

\* Going down binds one variable more.
LEMMA PathGrows ==
  ASSUME NEW p, PathOK(p), NEW x \in AllVars, ~On(p, x), NEW n \in 1 .. MaxId(x),
         NEW q, q = Grown(p, x, n)
  PROVE  /\ PathOK(q)
         /\ \A y : On(q, y) <=> On(p, y) \/ y = x
         /\ IdOn(q, x) = n
         /\ \A y : On(p, y) => IdOn(q, y) = IdOn(p, y)
<1>0. MaxId(x) \in Nat /\ n \in Nat \ {0}
  BY MaxIdIsNat
<1> DEFINE a == [x |-> x, n |-> n]
           T == [x : AllVars, n : Nat \ {0}]
<1>1. a \in T /\ a.x = x /\ a.n = n
  BY <1>0
<1>2. p \in Seq(T)
  BY DEF PathOK
<1>3. q = Append(p, a)
  BY DEF Grown
<1> HIDE DEF a, T
<1>4. /\ q \in Seq(T) /\ Len(q) = Len(p) + 1 /\ DOMAIN q = 1 .. Len(p) + 1 /\ Len(p) \in Nat
      /\ DOMAIN p = 1 .. Len(p) /\ q[Len(p) + 1] = a
      /\ \A d \in DOMAIN p : q[d] = p[d] /\ d \in DOMAIN q
  BY <1>1, <1>2, <1>3
<1>5. \A d \in DOMAIN q : d \in DOMAIN p \/ d = Len(p) + 1
  BY <1>4
<1>6. \A d \in DOMAIN p : p[d].x # x
  BY DEF On
<1>7. \A d, c \in DOMAIN q : q[d].x = q[c].x => d = c
  <2> TAKE d, c \in DOMAIN q
  <2>1. CASE d \in DOMAIN p /\ c \in DOMAIN p
    BY <1>4, <2>1 DEF PathOK
  <2>2. CASE d = Len(p) + 1 /\ c \in DOMAIN p
    BY <1>1, <1>4, <1>6, <2>2
  <2>3. CASE d \in DOMAIN p /\ c = Len(p) + 1
    BY <1>1, <1>4, <1>6, <2>3
  <2> QED
    BY <1>5, <2>1, <2>2, <2>3
<1>8. \A d \in DOMAIN q : q[d].n <= MaxId(q[d].x)
  <2> TAKE d \in DOMAIN q
  <2>1. CASE d \in DOMAIN p
    BY <1>4, <2>1 DEF PathOK
  <2>2. CASE d = Len(p) + 1
    BY <1>0, <1>1, <1>4, <2>2
  <2> QED
    BY <1>5, <2>1, <2>2
<1>9. PathOK(q)
  BY <1>4, <1>7, <1>8 DEF PathOK, T
<1>10. \A y : On(q, y) <=> On(p, y) \/ y = x
  <2> TAKE y
  <2>1. On(p, y) => On(q, y)
    BY <1>4 DEF On
  <2>2. On(q, x)
    BY <1>1, <1>4 DEF On
  <2>3. On(q, y) => On(p, y) \/ y = x
    BY <1>1, <1>4, <1>5 DEF On
  <2> QED
    BY <2>1, <2>2, <2>3
<1>11. IdOn(q, x) = n
  <2>1. Len(p) + 1 \in DOMAIN q
    BY <1>4
  <2>2. IdOn(q, q[Len(p) + 1].x) = q[Len(p) + 1].n
    BY <1>9, <2>1, IdOnPath
  <2> QED
    BY <1>1, <1>4, <2>2
<1>12. ASSUME NEW y, On(p, y) PROVE IdOn(q, y) = IdOn(p, y)
  <2>1. PICK d \in DOMAIN p : p[d].x = y
    BY <1>12 DEF On
  <2>2. IdOn(p, p[d].x) = p[d].n
    BY IdOnPath
  <2>3. IdOn(q, q[d].x) = q[d].n
    BY <1>4, <1>9, IdOnPath
  <2> QED
    BY <1>4, <2>1, <2>2, <2>3
<1> QED
  BY <1>9, <1>10, <1>11, <1>12

\* Going up frees the variable bound last.
LEMMA PathShrinks ==
  ASSUME NEW p, PathOK(p), p # <<>>, NEW q, q = Shrunk(p),
         NEW x, x = p[Len(p)].x
  PROVE  /\ PathOK(q) /\ On(p, x) /\ x \in AllVars
         /\ \A y : On(q, y) <=> On(p, y) /\ y # x
         /\ \A y : On(q, y) => IdOn(q, y) = IdOn(p, y)
<1> DEFINE T == [x : AllVars, n : Nat \ {0}]
<1>1. p \in Seq(T)
  BY DEF PathOK
<1>2. \A t \in T : t.x \in AllVars
  OBVIOUS
<1> HIDE DEF T
<1>3. Len(p) \in Nat \ {0} /\ DOMAIN p = 1 .. Len(p) /\ Len(p) \in DOMAIN p /\ p[Len(p)] \in T
  BY <1>1
<1>4. /\ q \in Seq(T) /\ DOMAIN q = 1 .. Len(p) - 1
      /\ \A d \in DOMAIN q : q[d] = p[d] /\ d \in DOMAIN p /\ d # Len(p)
  <2>1. q \in Seq(T) /\ Len(q) = Len(p) - 1 /\ \A d \in 1 .. Len(p) - 1 : q[d] = p[d]
    BY <1>1, <1>3 DEF Shrunk
  <2>2. DOMAIN q = 1 .. Len(p) - 1
    BY <2>1
  <2> QED
    BY <1>3, <2>1, <2>2
<1>5. \A d \in DOMAIN p : d \in DOMAIN q \/ d = Len(p)
  BY <1>3, <1>4
<1>6. PathOK(q)
  <2>1. \A d, c \in DOMAIN q : q[d].x = q[c].x => d = c
    BY <1>4 DEF PathOK
  <2>2. \A d \in DOMAIN q : q[d].n <= MaxId(q[d].x)
    BY <1>4 DEF PathOK
  <2> QED
    BY <1>4, <2>1, <2>2 DEF PathOK, T
<1>7. On(p, x) /\ x \in AllVars
  BY <1>2, <1>3 DEF On
<1>8. \A d \in DOMAIN q : q[d].x # x
  BY <1>3, <1>4 DEF PathOK
<1>9. \A y : On(q, y) <=> On(p, y) /\ y # x
  <2> TAKE y
  <2>1. On(q, y) => On(p, y) /\ y # x
    BY <1>4, <1>8 DEF On
  <2>2. On(p, y) /\ y # x => On(q, y)
    BY <1>4, <1>5 DEF On
  <2> QED
    BY <2>1, <2>2
<1>10. ASSUME NEW y, On(q, y) PROVE IdOn(q, y) = IdOn(p, y)
  <2>1. PICK d \in DOMAIN q : q[d].x = y
    BY <1>10 DEF On
  <2>2. IdOn(q, q[d].x) = q[d].n
    BY <1>6, IdOnPath
  <2>3. IdOn(p, p[d].x) = p[d].n
    BY <1>4, IdOnPath
  <2> QED
    BY <1>4, <2>1, <2>2, <2>3
<1> QED
  BY <1>6, <1>7, <1>9, <1>10

\* Nothing is bound on the empty path.
LEMMA PathStarts ==
  PathOK(<<>>) /\ \A x : ~On(<<>>, x)
BY DEF PathOK, On

-----------------------------------------------------------------------------
(***************************************************************************)
(* What the iterators hold                                                 *)
(***************************************************************************)
\* Two marks, for two operands.
LEMMA TwoMarks ==
  ASSUME NEW a \in BOOLEAN, NEW b \in BOOLEAN
  PROVE  <<a, b>> \in [1 .. 2 -> BOOLEAN] /\ (<<a, b>>[1] <=> a) /\ (<<a, b>>[2] <=> b)
OBVIOUS

\* The constructor of an iterator holds the constants.
LEMMA IndividualStarts ==
  ASSUME NEW ix \in Indexes, NEW cs, NEW e \in cs, IsComparison(e, ix)
  PROVE  IndividualOK(Individual(e), ix, cs, <<>>)
<1> DEFINE it == Individual(e)
           fixed == {k \in 1 .. 2 : ~IsVar(e.o[k])}
<1>1. /\ it.kind = (IF HasProperty(e) THEN "comp" ELSE "compId") /\ it.e = e
      /\ it.fixed = <<FixedByConst(e, 1), FixedByConst(e, 2)>>
      /\ it.idval = <<None, None>> /\ it.state = <<~IsVar(e.o[1]), ~IsVar(e.o[2])>>
      /\ it.nfixed = Cardinality(fixed) /\ it.elements = MaxId(e.o[1].x)
  BY DEF Individual
<1>0. (~IsVar(e.o[1])) \in BOOLEAN /\ (~IsVar(e.o[2])) \in BOOLEAN
  BY DEF IsVar
<1>2. FixedByConst(e, 1) \in Int /\ FixedByConst(e, 2) \in Int
  BY ConstantIsFixed
<1>3. Cardinality(fixed) = One(1 \in fixed) + One(2 \in fixed)
  <2>1. fixed \in SUBSET (1 .. 2)
    OBVIOUS
  <2> HIDE DEF fixed
  <2> QED
    BY <2>1, TwoCounted
<1>4. it.nfixed = One(it.state[1]) + One(it.state[2])
  <2>1. it.state[1] = (1 \in fixed) /\ it.state[2] = (2 \in fixed)
    BY <1>1
  <2> HIDE DEF it, fixed
  <2> QED
    BY <1>1, <1>3, <2>1
<1>5. it.state[1] \in BOOLEAN /\ it.state[2] \in BOOLEAN
  BY <1>1 DEF IsVar
<1>6. it \in Individuals(cs)
  <2>1. MaxId(e.o[1].x) \in Nat
    BY MaxIdIsNat
  <2>2. it.nfixed \in Int
    BY <1>4 DEF One
  <2>3. <<FixedByConst(e, 1), FixedByConst(e, 2)>> \in [1 .. 2 -> Int]
    BY <1>2
  <2>4. <<None, None>> \in [1 .. 2 -> Pair]
    BY DEF None, Pair
  <2>5. <<~IsVar(e.o[1]), ~IsVar(e.o[2])>> \in [1 .. 2 -> BOOLEAN]
    BY <1>0, TwoMarks
  <2> QED
    BY <1>1, <2>1, <2>2, <2>3, <2>4, <2>5 DEF Individual, Individuals
<1>7. ASSUME NEW k \in 1 .. 2
      PROVE  /\ it.state[k] <=> HoldsOperand(it, <<>>, k)
             /\ it.state[k] => HeldValue(it, ix, <<>>, k)
  <2>1. ~On(<<>>, e.o[k].x)
    BY PathStarts
  <2>2. it.state[k] <=> ~IsVar(e.o[k])
    <3>1. it.state = <<~IsVar(e.o[1]), ~IsVar(e.o[2])>>
      BY <1>1
    <3>2. (it.state[1] <=> ~IsVar(e.o[1])) /\ (it.state[2] <=> ~IsVar(e.o[2]))
      BY <1>0, <3>1, TwoMarks
    <3>3. k = 1 \/ k = 2
      BY <1>7
    <3> QED
      BY <3>2, <3>3
  <2>3. it.fixed[k] = FixedByConst(e, k)
    BY <1>1, <1>7
  <2> HIDE DEF it
  <2> QED
    BY <1>1, <2>1, <2>2, <2>3 DEF HoldsOperand, HeldValue
<1>8. it.kind = "comp" <=> HasProperty(it.e)
  BY <1>1
<1>9. IndividualOK(it, ix, cs, <<>>)
  <2> HIDE DEF it
  <2> QED
    BY <1>1, <1>4, <1>6, <1>7, <1>8 DEF IndividualOK
<1> QED
  BY <1>9

\* The kind of an iterator says how it was made.
LEMMA KindsOf ==
  ASSUME NEW it, NEW ix, NEW cs, NEW p, IterOK(it, ix, cs, p)
  PROVE  /\ it.kind \in {"comp", "compId"} => IndividualOK(it, ix, cs, p)
         /\ it.kind \notin {"comp", "compId"} => RangeItOK(it, ix, cs)
         /\ it.kind \in {"comp", "compId", "range", "idRange"}
<1>1. IndividualOK(it, ix, cs, p) => it.kind \in {"comp", "compId"}
  BY DEF IndividualOK, Individuals
<1>2. RangeItOK(it, ix, cs) => it.kind \in {"range", "idRange"}
  BY DEF RangeItOK
<1> QED
  BY <1>1, <1>2 DEF IterOK

\* An iterator that the variable does not concern holds the same under the new path.
LEMMA UntouchedStays ==
  ASSUME NEW it, NEW ix, NEW cs, NEW p, IterOK(it, ix, cs, p), NEW q, NEW x, x \notin VarsOf(it),
         x # "const",
         \A y : y # x => /\ On(q, y) <=> On(p, y)
                         /\ On(q, y) => IdOn(q, y) = IdOn(p, y)
  PROVE  IterOK(it, ix, cs, q)
<1>1. CASE it.kind \notin {"comp", "compId"}
  BY <1>1, KindsOf DEF IterOK
<1>2. CASE it.kind \in {"comp", "compId"}
  <2>1. IndividualOK(it, ix, cs, p)
    BY <1>2, KindsOf
  <2>2. \A k \in 1 .. 2 : it.e.o[k].x # x
    BY <1>2 DEF VarsOf
  <2>3. ASSUME NEW k \in 1 .. 2
        PROVE  /\ HoldsOperand(it, q, k) <=> HoldsOperand(it, p, k)
               /\ HoldsOperand(it, p, k) => (HeldValue(it, ix, p, k) <=> HeldValue(it, ix, q, k))
    <3>1. /\ On(q, it.e.o[k].x) <=> On(p, it.e.o[k].x)
          /\ On(q, it.e.o[k].x) => IdOn(q, it.e.o[k].x) = IdOn(p, it.e.o[k].x)
      BY <2>2
    <3> QED
      BY <3>1 DEF HoldsOperand, HeldValue
  <2>4. IndividualOK(it, ix, cs, q)
    BY <2>1, <2>3 DEF IndividualOK
  <2> QED
    BY <2>4 DEF IterOK
<1> QED
  BY <1>1, <1>2

\* The operands that a variable moves.
LEMMA SidesOf ==
  ASSUME NEW it, NEW x, NEW k \in 1 .. 2
  PROVE  k \in Sides(it, x) <=>
           it.e.o[k].x = x /\ ~(it.kind = "compId" /\ k = 2 /\ it.e.o[1].x = x)
<1> DEFINE of == {j \in 1 .. 2 : it.e.o[j].x = x}
<1>1. Sides(it, x) = IF it.kind = "compId" /\ 1 \in of THEN {1} ELSE of
  BY DEF Sides
<1>2. 1 \in of <=> it.e.o[1].x = x
  OBVIOUS
<1>3. k \in of <=> it.e.o[k].x = x
  OBVIOUS
<1>4. k = 1 \/ k = 2
  OBVIOUS
<1> HIDE DEF of
<1> QED
  BY <1>1, <1>2, <1>3, <1>4

\* down of an individual iterator, field by field.
LEMMA DownFields ==
  ASSUME NEW cs, NEW it \in Individuals(cs), NEW x, NEW n \in Int, NEW r, r = AfterDown(it, x, n)
  PROVE  /\ r \in Individuals(cs) /\ r.kind = it.kind /\ r.e = it.e /\ r.elements = it.elements
         /\ r.nfixed = it.nfixed + Cardinality(Sides(it, x))
         /\ \A k \in 1 .. 2 :
              /\ r.state[k] <=> it.state[k] \/ k \in Sides(it, x)
              /\ r.fixed[k] = IF k \notin Sides(it, x) THEN it.fixed[k]
                              ELSE IF it.kind = "comp" THEN it.idval[k].val ELSE n
<1> DEFINE st == [k \in 1 .. 2 |-> it.state[k] \/ k \in Sides(it, x)]
           fx == [k \in 1 .. 2 |-> IF k \notin Sides(it, x) THEN it.fixed[k]
                                   ELSE IF it.kind = "comp" THEN it.idval[k].val ELSE n]
           nf == it.nfixed + Cardinality(Sides(it, x))
<1>1. /\ it.kind \in {"comp", "compId"} /\ it.e \in cs /\ it.fixed \in [1 .. 2 -> Int]
      /\ it.idval \in [1 .. 2 -> Pair] /\ it.state \in [1 .. 2 -> BOOLEAN]
      /\ it.nfixed \in Int /\ it.elements \in Nat
  BY DEF Individuals
<1>2. Sides(it, x) \in SUBSET (1 .. 2)
  BY DEF Sides
<1>3. Cardinality(Sides(it, x)) \in Int
  BY <1>2, TwoCounted DEF One
<1>4. st \in [1 .. 2 -> BOOLEAN]
  OBVIOUS
<1>5. fx \in [1 .. 2 -> Int]
  <2>1. \A k \in 1 .. 2 : it.fixed[k] \in Int /\ it.idval[k].val \in Int
    BY <1>1 DEF Pair
  <2> QED
    BY <2>1
<1>6. r = [it EXCEPT !.state = st, !.fixed = fx, !.nfixed = nf]
  BY <1>1 DEF AfterDown
<1>7. \A k \in 1 .. 2 : st[k] <=> it.state[k] \/ k \in Sides(it, x)
  BY DEF st
<1>8. \A k \in 1 .. 2 : fx[k] = IF k \notin Sides(it, x) THEN it.fixed[k]
                                ELSE IF it.kind = "comp" THEN it.idval[k].val ELSE n
  BY DEF fx
<1>9. nf \in Int
  BY <1>1, <1>3
<1>10. nf = it.nfixed + Cardinality(Sides(it, x))
  OBVIOUS
<1> HIDE DEF st, fx, nf
<1>11. /\ r.kind = it.kind /\ r.e = it.e /\ r.elements = it.elements /\ r.idval = it.idval
       /\ r.state = st /\ r.fixed = fx /\ r.nfixed = nf
  BY <1>6 DEF Individuals
<1>12. r \in Individuals(cs)
  BY <1>1, <1>4, <1>5, <1>6, <1>9 DEF Individuals
<1> QED
  BY <1>7, <1>8, <1>10, <1>11, <1>12

\* down holds the values of the id that the path goes down by.
LEMMA DownHolds ==
  ASSUME NEW it, NEW ix, NEW cs, NEW p, IterOK(it, ix, cs, p), NEW x, x # "const",
         NEW n \in Nat \ {0}, ~On(p, x), KeepsPairs(it, ix, x, n), NEW q,
         \A y : On(q, y) <=> On(p, y) \/ y = x,
         IdOn(q, x) = n, \A y : On(p, y) => IdOn(q, y) = IdOn(p, y)
  PROVE  IterOK(AfterDown(it, x, n), ix, cs, q)
<1>1. CASE it.kind \notin {"comp", "compId"}
  <2>1. it.kind \in {"range", "idRange"} /\ RangeItOK(it, ix, cs)
    BY <1>1, KindsOf
  <2>2. AfterDown(it, x, n) = it
    BY <2>1 DEF AfterDown
  <2> QED
    BY <2>1, <2>2 DEF IterOK
<1>2. CASE it.kind \in {"comp", "compId"}
  <2> DEFINE r == AfterDown(it, x, n)
  <2>1. IndividualOK(it, ix, cs, p)
    BY <1>2, KindsOf
  <2>2. it \in Individuals(cs)
    BY <2>1 DEF IndividualOK
  <2>3. /\ r \in Individuals(cs) /\ r.kind = it.kind /\ r.e = it.e /\ r.elements = it.elements
        /\ r.nfixed = it.nfixed + Cardinality(Sides(it, x))
        /\ \A k \in 1 .. 2 :
             /\ r.state[k] <=> it.state[k] \/ k \in Sides(it, x)
             /\ r.fixed[k] = IF k \notin Sides(it, x) THEN it.fixed[k]
                             ELSE IF it.kind = "comp" THEN it.idval[k].val ELSE n
    BY <2>2, DownFields
  <2> HIDE DEF r
  <2>4. SameVar(r) <=> SameVar(it)
    BY <2>3 DEF SameVar
  <2>5. ASSUME NEW k \in 1 .. 2
        PROVE  /\ r.state[k] <=> HoldsOperand(r, q, k)
               /\ r.state[k] => HeldValue(r, ix, q, k)
               /\ k \in Sides(it, x) => ~it.state[k]
    <3> DEFINE o == it.e.o[k]
    <3>1. /\ it.state[k] <=> HoldsOperand(it, p, k)
          /\ it.state[k] => HeldValue(it, ix, p, k)
      BY <2>1, <2>5 DEF IndividualOK
    <3>2. k \in Sides(it, x) <=> o.x = x /\ ~(it.kind = "compId" /\ k = 2 /\ it.e.o[1].x = x)
      BY <2>5, SidesOf
    <3>3. r.state[k] <=> it.state[k] \/ k \in Sides(it, x)
      BY <2>3, <2>5
    <3>4. r.fixed[k] = IF k \notin Sides(it, x) THEN it.fixed[k]
                       ELSE IF it.kind = "comp" THEN it.idval[k].val ELSE n
      BY <2>3, <2>5
    <3>5. CASE k \in Sides(it, x)
      <4>1. o.x = x /\ IsVar(o) /\ ~(it.kind = "compId" /\ k = 2 /\ SameVar(it))
        BY <3>2, <3>5 DEF IsVar, SameVar
      <4>2. ~HoldsOperand(it, p, k)
        BY <4>1 DEF HoldsOperand
      <4>3. HoldsOperand(r, q, k)
        BY <2>3, <2>4, <4>1 DEF HoldsOperand
      <4>4. HeldValue(r, ix, q, k)
        <5>1. CASE it.kind = "compId"
          BY <2>3, <3>4, <3>5, <4>1, <5>1 DEF HeldValue
        <5>2. CASE it.kind = "comp"
          <6>1. it.e.type \notin NullTests =>
                  n \in DOMAIN GridIn(ix, o) /\ it.idval[k].val = GridIn(ix, o)[n]
            BY <2>5, <4>1, <5>2 DEF KeepsPairs
          <6> QED
            BY <2>3, <3>4, <3>5, <4>1, <5>2, <6>1 DEF HeldValue
        <5> QED
          BY <1>2, <5>1, <5>2
      <4> QED
        BY <3>1, <3>3, <3>5, <4>2, <4>3, <4>4
    <3>6. CASE k \notin Sides(it, x)
      <4>1. HoldsOperand(r, q, k) <=> HoldsOperand(it, p, k)
        <5>1. CASE o.x # x
          BY <2>3, <2>4, <5>1 DEF HoldsOperand
        <5>2. CASE o.x = x
          <6>1. it.kind = "compId" /\ k = 2 /\ SameVar(it) /\ IsVar(o)
            BY <3>2, <3>6, <5>2 DEF SameVar, IsVar
          <6> QED
            BY <2>3, <2>4, <6>1 DEF HoldsOperand
        <5> QED
          BY <5>1, <5>2
      <4>2. it.state[k] => HeldValue(r, ix, q, k)
        <5> SUFFICES ASSUME it.state[k] PROVE HeldValue(r, ix, q, k)
          OBVIOUS
        <5>1. HeldValue(it, ix, p, k) /\ HoldsOperand(it, p, k)
          BY <3>1
        <5>2. IsVar(o) => IdOn(q, o.x) = IdOn(p, o.x)
          BY <5>1 DEF HoldsOperand
        <5> QED
          BY <2>3, <3>4, <3>6, <5>1, <5>2 DEF HeldValue
      <4> QED
        BY <3>1, <3>3, <3>6, <4>1, <4>2
    <3> QED
      BY <3>5, <3>6
  <2>6. r.nfixed = One(r.state[1]) + One(r.state[2])
    <3>1. Sides(it, x) \in SUBSET (1 .. 2)
      BY DEF Sides
    <3>2. Cardinality(Sides(it, x)) = One(1 \in Sides(it, x)) + One(2 \in Sides(it, x))
      BY <3>1, TwoCounted
    <3>3. it.nfixed = One(it.state[1]) + One(it.state[2])
      BY <2>1 DEF IndividualOK
    <3>4. ASSUME NEW k \in 1 .. 2
          PROVE  One(r.state[k]) = One(it.state[k]) + One(k \in Sides(it, x))
      BY <2>3, <2>5, <3>4 DEF One
    <3>5. /\ One(it.state[1]) \in Int /\ One(it.state[2]) \in Int
          /\ One(1 \in Sides(it, x)) \in Int /\ One(2 \in Sides(it, x)) \in Int
      BY DEF One
    <3> QED
      BY <2>3, <3>2, <3>3, <3>4, <3>5
  <2>7. IndividualOK(r, ix, cs, q)
    BY <2>1, <2>3, <2>5, <2>6 DEF IndividualOK
  <2> QED
    BY <2>7 DEF IterOK, r
<1> QED
  BY <1>1, <1>2

\* up of an individual iterator, field by field.
LEMMA UpFields ==
  ASSUME NEW cs, NEW it \in Individuals(cs), NEW x, NEW r, r = AfterUp(it, x),
         NEW left, left = {k \in 1 .. 2 : it.e.o[k].x = x /\ it.state[k]}
  PROVE  /\ r \in Individuals(cs) /\ r.kind = it.kind /\ r.e = it.e /\ r.elements = it.elements
         /\ r.nfixed = it.nfixed - Cardinality(left)
         /\ \A k \in 1 .. 2 :
              /\ r.state[k] <=> it.state[k] /\ k \notin left
              /\ r.fixed[k] = IF k \in left THEN 0 ELSE it.fixed[k]
<1> DEFINE st == [k \in 1 .. 2 |-> it.state[k] /\ k \notin left]
           fx == [k \in 1 .. 2 |-> IF k \in left THEN 0 ELSE it.fixed[k]]
           iv == [k \in 1 .. 2 |-> IF k \in left THEN None ELSE it.idval[k]]
           nf == it.nfixed - Cardinality(left)
<1>1. /\ it.kind \in {"comp", "compId"} /\ it.e \in cs /\ it.fixed \in [1 .. 2 -> Int]
      /\ it.idval \in [1 .. 2 -> Pair] /\ it.state \in [1 .. 2 -> BOOLEAN]
      /\ it.nfixed \in Int /\ it.elements \in Nat
  BY DEF Individuals
<1>2. left \in SUBSET (1 .. 2)
  OBVIOUS
<1>3. Cardinality(left) \in Int
  BY <1>2, TwoCounted DEF One
<1>4. st \in [1 .. 2 -> BOOLEAN]
  OBVIOUS
<1>5. fx \in [1 .. 2 -> Int]
  BY <1>1
<1>6. iv \in [1 .. 2 -> Pair]
  <2>1. None \in Pair
    BY DEF None, Pair
  <2> QED
    BY <1>1, <2>1
<1>7. r = [it EXCEPT !.state = st, !.fixed = fx, !.idval = iv, !.nfixed = nf]
  <2>1. it.kind \notin {"range", "idRange"}
    BY <1>1
  <2> QED
    BY <2>1 DEF AfterUp
<1>8. \A k \in 1 .. 2 : st[k] <=> it.state[k] /\ k \notin left
  BY DEF st
<1>9. \A k \in 1 .. 2 : fx[k] = IF k \in left THEN 0 ELSE it.fixed[k]
  BY DEF fx
<1>10. nf \in Int /\ nf = it.nfixed - Cardinality(left)
  BY <1>1, <1>3
<1> HIDE DEF st, fx, iv, nf
<1>11. /\ r.kind = it.kind /\ r.e = it.e /\ r.elements = it.elements
       /\ r.state = st /\ r.fixed = fx /\ r.nfixed = nf
  BY <1>7 DEF Individuals
<1>12. r \in Individuals(cs)
  BY <1>1, <1>4, <1>5, <1>6, <1>7, <1>10 DEF Individuals
<1> QED
  BY <1>8, <1>9, <1>10, <1>11, <1>12

\* up lets go of the variable that leaves the path, and of no other.
LEMMA UpHolds ==
  ASSUME NEW it, NEW ix, NEW cs, NEW p, IterOK(it, ix, cs, p), NEW x, x # "const", NEW q,
         \A y : On(q, y) <=> On(p, y) /\ y # x,
         \A y : On(q, y) => IdOn(q, y) = IdOn(p, y)
  PROVE  IterOK(AfterUp(it, x), ix, cs, q)
<1>1. CASE it.kind \notin {"comp", "compId"}
  <2>1. it.kind \in {"range", "idRange"} /\ RangeItOK(it, ix, cs)
    BY <1>1, KindsOf
  <2>2. AfterUp(it, x) = it
    BY <2>1 DEF AfterUp
  <2> QED
    BY <2>1, <2>2 DEF IterOK
<1>2. CASE it.kind \in {"comp", "compId"}
  <2> DEFINE r == AfterUp(it, x)
             left == {k \in 1 .. 2 : it.e.o[k].x = x /\ it.state[k]}
  <2>1. IndividualOK(it, ix, cs, p)
    BY <1>2, KindsOf
  <2>2. it \in Individuals(cs)
    BY <2>1 DEF IndividualOK
  <2>3. /\ r \in Individuals(cs) /\ r.kind = it.kind /\ r.e = it.e /\ r.elements = it.elements
        /\ r.nfixed = it.nfixed - Cardinality(left)
        /\ \A k \in 1 .. 2 :
             /\ r.state[k] <=> it.state[k] /\ k \notin left
             /\ r.fixed[k] = IF k \in left THEN 0 ELSE it.fixed[k]
    BY <2>2, UpFields
  <2>4. left \in SUBSET (1 .. 2) /\ \A k \in 1 .. 2 : k \in left <=> it.e.o[k].x = x /\ it.state[k]
    OBVIOUS
  <2> HIDE DEF r, left
  <2>5. SameVar(r) <=> SameVar(it)
    BY <2>3 DEF SameVar
  <2>6. ASSUME NEW k \in 1 .. 2
        PROVE  /\ r.state[k] <=> HoldsOperand(r, q, k)
               /\ r.state[k] => HeldValue(r, ix, q, k)
    <3> DEFINE o == it.e.o[k]
    <3>1. /\ it.state[k] <=> HoldsOperand(it, p, k)
          /\ it.state[k] => HeldValue(it, ix, p, k)
      BY <2>1, <2>6 DEF IndividualOK
    <3>2. /\ r.state[k] <=> it.state[k] /\ k \notin left
          /\ r.fixed[k] = IF k \in left THEN 0 ELSE it.fixed[k]
          /\ k \in left <=> o.x = x /\ it.state[k]
      BY <2>3, <2>4, <2>6
    <3>3. CASE o.x = x
      <4>1. ~HoldsOperand(r, q, k)
        BY <2>3, <3>3 DEF HoldsOperand, IsVar
      <4> QED
        BY <3>2, <3>3, <4>1
    <3>4. CASE o.x # x
      <4>1. HoldsOperand(r, q, k) <=> HoldsOperand(it, p, k)
        BY <2>3, <2>5, <3>4 DEF HoldsOperand
      <4>2. HoldsOperand(r, q, k) /\ IsVar(o) => IdOn(q, o.x) = IdOn(p, o.x)
        BY <2>3, <3>4 DEF HoldsOperand
      <4>3. HoldsOperand(r, q, k) => HeldValue(r, ix, q, k)
        BY <2>3, <3>1, <3>2, <3>4, <4>1, <4>2 DEF HeldValue
      <4> QED
        BY <3>1, <3>2, <3>4, <4>1, <4>3
    <3> QED
      BY <3>3, <3>4
  <2>7. r.nfixed = One(r.state[1]) + One(r.state[2])
    <3>1. Cardinality(left) = One(1 \in left) + One(2 \in left)
      BY <2>4, TwoCounted
    <3>2. it.nfixed = One(it.state[1]) + One(it.state[2])
      BY <2>1 DEF IndividualOK
    <3>3. ASSUME NEW k \in 1 .. 2
          PROVE  One(r.state[k]) = One(it.state[k]) - One(k \in left)
      BY <2>3, <2>4, <3>3 DEF One
    <3>4. /\ One(it.state[1]) \in Int /\ One(it.state[2]) \in Int
          /\ One(1 \in left) \in Int /\ One(2 \in left) \in Int
      BY DEF One
    <3> QED
      BY <2>3, <3>1, <3>2, <3>3, <3>4
  <2>8. IndividualOK(r, ix, cs, q)
    BY <2>1, <2>3, <2>6, <2>7 DEF IndividualOK
  <2> QED
    BY <2>8 DEF IterOK, r
<1> QED
  BY <1>1, <1>2

-----------------------------------------------------------------------------
(***************************************************************************)
(* leap                                                                    *)
(***************************************************************************)
\* What an answer is, is an id.
LEMMA LeastFromIsInt ==
  ASSUME NEW S \in SUBSET (Nat \ {0}), NEW n \in Int
  PROVE  LeastFrom(S, n) \in Nat
<1>1. LeastFrom(S, n) = 0 \/ LeastFrom(S, n) \in S
  BY LeastFromCorrect
<1>2. \A m \in S : m \in Nat
  OBVIOUS
<1>3. CASE LeastFrom(S, n) = 0
  BY <1>3
<1>4. CASE LeastFrom(S, n) \in S
  BY <1>2, <1>4
<1> QED
  BY <1>1, <1>3, <1>4

\* Every search of a property, tests for it included, answers an id and a value.
LEMMA NextPropertyIsPair ==
  ASSUME NEW g, NEW M \in Nat, IsProperty(g, M), NEW n \in Int, NEW v,
         NEW op \in Comparators \union NullTests
  PROVE  NextProperty(g, M, n, v, op) \in Pair
<1>1. CASE op \in Comparators
  BY <1>1, NextPropertyHoldsValue DEF Pair
<1>2. CASE op = "ISNULL"
  <2>1. (1 .. M) \ DOMAIN g \in SUBSET (Nat \ {0})
    OBVIOUS
  <2>2. LeastFrom((1 .. M) \ DOMAIN g, n) \in Int
    BY <2>1, LeastFromIsInt
  <2>3. NextProperty(g, M, n, v, op) = NextNull(g, M, n)
    BY <1>2 DEF NextProperty
  <2> QED
    BY <2>2, <2>3 DEF NextNull, Pair
<1>3. CASE op = "ISNOTNULL"
  <2>1. NextProperty(g, M, n, v, op) = [NextExists(g, n) EXCEPT !.val = 0]
    BY <1>3 DEF NextProperty
  <2>2. NextExists(g, n) \in Pair
    BY NextExistsHoldsValue DEF Pair
  <2> QED
    BY <2>1, <2>2 DEF Pair
<1> QED
  BY <1>1, <1>2, <1>3 DEF NullTests

\* The operands of an iterator of properties are properties of the index.
LEMMA CompOperands ==
  ASSUME index \in Indexes, NEW cs, \A e \in cs : IsComparison(e, index), NEW p,
         NEW it, IndividualOK(it, index, cs, p), it.kind = "comp"
  PROVE  /\ HasProperty(it.e) /\ IsComparison(it.e, index)
         /\ \A k \in 1 .. 2 : IsVar(it.e.o[k]) =>
              /\ it.e.o[k].p # 0 /\ it.e.o[k].x \in AllVars
              /\ IsProperty(Grid(it.e.o[k]), MaxId(it.e.o[k].x))
<1>1. HasProperty(it.e) /\ it.e \in cs
  BY DEF IndividualOK, Individuals
<1>2. IsComparison(it.e, index)
  BY <1>1
<1> QED
  BY <1>1, <1>2, PropertyOperand DEF Grid

\* Two properties of one variable are compared, by none of the tests.
LEMMA SameVarOperands ==
  ASSUME index \in Indexes, NEW cs, \A e \in cs : IsComparison(e, index), NEW p,
         NEW it, IndividualOK(it, index, cs, p), it.kind = "comp", SameVar(it)
  PROVE  /\ it.e.type \in Comparators /\ it.e.o[2].x = it.e.o[1].x
         /\ IsVar(it.e.o[1]) /\ IsVar(it.e.o[2])
         /\ IsProperty(Grid(it.e.o[1]), MaxId(it.e.o[1].x))
         /\ IsProperty(Grid(it.e.o[2]), MaxId(it.e.o[1].x))
<1>1. IsVar(it.e.o[1]) /\ IsVar(it.e.o[2]) /\ it.e.o[2].x = it.e.o[1].x
  BY DEF SameVar, IsVar
<1>2. it.e.type \in Comparators
  BY <1>1, CompOperands, TypesOfComparison
<1>3. /\ IsProperty(Grid(it.e.o[1]), MaxId(it.e.o[1].x))
      /\ IsProperty(Grid(it.e.o[2]), MaxId(it.e.o[2].x))
  BY <1>1, CompOperands
<1> QED
  BY <1>1, <1>2, <1>3

\* What a leap keeps: pairs; and where it answers the bound itself, the values of that id.
LEMMA SoughtHolds ==
  ASSUME index \in Indexes, NEW cs, \A e \in cs : IsComparison(e, index), NEW p,
         NEW it, IndividualOK(it, index, cs, p), it.kind = "comp",
         NEW x \in VarsOf(it), NEW n \in Nat \ {0}
  PROVE  /\ Sought(it, x, n) \in [1 .. 2 -> Pair]
         /\ n <= it.elements /\ Sought(it, x, n)[Side(it, x)].id = n
            /\ it.e.type \notin NullTests =>
              \A k \in 1 .. 2 : it.e.o[k].x = x =>
                n \in DOMAIN Grid(it.e.o[k]) /\ Sought(it, x, n)[k].val = Grid(it.e.o[k])[n]
<1> DEFINE s == Side(it, x)
           o == it.e.o[s]
           found == IF it.nfixed = 0 THEN NextExists(Grid(o), n)
                    ELSE NextProperty(Grid(o), MaxId(x), n, it.fixed[3 - s], OpOf(it.e, s))
<1>1. /\ it.idval \in [1 .. 2 -> Pair] /\ it.elements = MaxId(it.e.o[1].x)
      /\ MaxId(it.e.o[1].x) \in Nat /\ MaxId(x) \in Nat /\ n \in Int
  BY MaxIdIsNat DEF IndividualOK, Individuals
<1>2. s \in 1 .. 2 /\ o.x = x /\ IsVar(o)
  BY DEF VarsOf, Side, IsVar
<1>3. /\ Sought(it, x, n) = IF n > it.elements THEN it.idval
                            ELSE IF SameVar(it) THEN BothFrom(it.e, n)
                            ELSE [it.idval EXCEPT ![s] = found]
  BY DEF Sought
<1>4. CASE n > it.elements
  BY <1>1, <1>3, <1>4
<1>5. CASE n <= it.elements /\ SameVar(it)
  <2> DEFINE g == Grid(it.e.o[1])
             h == Grid(it.e.o[2])
             M == MaxId(it.e.o[1].x)
             w == LeastFrom(Agreeing(g, h, it.e.type), n)
  <2>1. IsProperty(g, M) /\ IsProperty(h, M)
    BY <1>5, SameVarOperands
  <2>2. BothFrom(it.e, n) = PairAt(g, h, w)
    <3>1. n \in 1 .. M + 1
      BY <1>1, <1>5
    <3> QED
      BY <1>1, <2>1, <3>1, BothFromAnswers
  <2>3. Agreeing(g, h, it.e.type) \in SUBSET (Nat \ {0})
    BY <2>1 DEF Agreeing, IsProperty
  <2>4. w # 0 => w \in DOMAIN g /\ w \in DOMAIN h /\ w \in Int /\ g[w] \in Int /\ h[w] \in Int
    <3>1. w # 0 => w \in Agreeing(g, h, it.e.type)
      BY <1>1, <2>3, LeastFromCorrect
    <3>2. \A m \in DOMAIN g : m \in Int /\ g[m] \in Int
      BY <2>1 DEF IsProperty, Small
    <3>3. \A m \in DOMAIN h : h[m] \in Int
      BY <2>1 DEF IsProperty, Small
    <3> QED
      BY <3>1, <3>2, <3>3 DEF Agreeing
  <2>5. Sought(it, x, n) = PairAt(g, h, w)
    BY <1>1, <1>3, <1>5, <2>2
  <2> HIDE DEF w, g, h
  <2>6. CASE w = 0
    <3>1. Sought(it, x, n) = <<None, None>>
      BY <2>5, <2>6 DEF PairAt
    <3>2. <<None, None>> \in [1 .. 2 -> Pair] /\ <<None, None>>[s].id = 0
      BY <1>2 DEF None, Pair
    <3> QED
      BY <3>1, <3>2
  <2>7. CASE w # 0
    <3> DEFINE a == [id |-> w, val |-> g[w]]
               b == [id |-> w, val |-> h[w]]
    <3>1. a \in Pair /\ b \in Pair /\ a.id = w /\ b.id = w /\ a.val = g[w] /\ b.val = h[w]
      BY <2>4, <2>7 DEF Pair
    <3>2. Sought(it, x, n) = <<a, b>>
      BY <2>5, <2>7 DEF PairAt
    <3> HIDE DEF a, b
    <3>3. <<a, b>> \in [1 .. 2 -> Pair] /\ <<a, b>>[1] = a /\ <<a, b>>[2] = b
      BY <3>1
    <3>4. Sought(it, x, n)[s].id = w
      BY <1>2, <3>1, <3>2, <3>3
    <3>5. ASSUME NEW k \in 1 .. 2, w = n
          PROVE  n \in DOMAIN Grid(it.e.o[k]) /\ Sought(it, x, n)[k].val = Grid(it.e.o[k])[n]
      <4>1. CASE k = 1
        BY <2>4, <2>7, <3>1, <3>2, <3>3, <3>5, <4>1 DEF g
      <4>2. CASE k = 2
        BY <2>4, <2>7, <3>1, <3>2, <3>3, <3>5, <4>2 DEF h
      <4> QED
        BY <3>5, <4>1, <4>2
    <3> QED
      BY <3>2, <3>3, <3>4, <3>5
  <2> QED
    BY <2>6, <2>7
<1>6. CASE n <= it.elements /\ ~SameVar(it)
  <2>1. IsProperty(Grid(o), MaxId(x)) /\ IsComparison(it.e, index)
    BY <1>2, CompOperands
  <2>2. OpOf(it.e, s) \in Comparators \union NullTests
        /\ (OpOf(it.e, s) \in NullTests <=> it.e.type \in NullTests)
    BY <1>2, <2>1, TypesOfComparison
  <2>3. found \in Pair
    <3>1. NextExists(Grid(o), n) \in Pair
      BY <1>1, <2>1, NextExistsHoldsValue DEF Pair
    <3>2. NextProperty(Grid(o), MaxId(x), n, it.fixed[3 - s], OpOf(it.e, s)) \in Pair
      BY <1>1, <2>1, <2>2, NextPropertyIsPair
    <3> QED
      BY <3>1, <3>2
  <2>4. it.e.type \notin NullTests /\ found.id # 0 =>
          found.id \in DOMAIN Grid(o) /\ found.val = Grid(o)[found.id]
    <3> SUFFICES ASSUME it.e.type \notin NullTests, found.id # 0
                 PROVE  found.id \in DOMAIN Grid(o) /\ found.val = Grid(o)[found.id]
      OBVIOUS
    <3>1. CASE it.nfixed = 0
      <4>1. found = NextExists(Grid(o), n)
        BY <3>1
      <4> QED
        BY <1>1, <2>1, <4>1, NextExistsHoldsValue
    <3>2. CASE it.nfixed # 0
      <4> DEFINE v == it.fixed[3 - s]
                 op == OpOf(it.e, s)
      <4>1. found = NextProperty(Grid(o), MaxId(x), n, v, op) /\ op \in Comparators
        BY <2>2, <3>2
      <4> HIDE DEF v, op, found
      <4> QED
        BY <1>1, <2>1, <4>1, NextPropertyHoldsValue
    <3> QED
      BY <3>1, <3>2
  <2>5. Sought(it, x, n) = [it.idval EXCEPT ![s] = found]
    BY <1>1, <1>3, <1>6
  <2>6. \A k \in 1 .. 2 : it.e.o[k].x = x => k = s
    <3>1. \A k \in 1 .. 2 : k = 1 \/ k = 2
      OBVIOUS
    <3> QED
      BY <1>2, <1>6, <3>1 DEF SameVar, IsVar, Side
  <2> HIDE DEF found, s
  <2>7. Sought(it, x, n) \in [1 .. 2 -> Pair] /\ Sought(it, x, n)[s] = found
    BY <1>1, <1>2, <2>3, <2>5
  <2> QED
    BY <2>4, <2>6, <2>7 DEF s
<1> QED
  BY <1>1, <1>4, <1>5, <1>6

\* leap writes the pairs only.
LEMMA LeapHolds ==
  ASSUME index \in Indexes, NEW cs, \A e \in cs : IsComparison(e, index), NEW p,
         NEW it, IterOK(it, index, cs, p), NEW x \in VarsOf(it), NEW n \in Nat \ {0}
  PROVE  /\ IterOK(AfterLeap(it, x, n), index, cs, p)
         /\ VarsOf(AfterLeap(it, x, n)) = VarsOf(it)
         /\ Answer(it, x, n) = n => KeepsPairs(AfterLeap(it, x, n), index, x, n)
<1>1. CASE it.kind # "comp"
  <2>1. AfterLeap(it, x, n) = it
    BY <1>1 DEF AfterLeap
  <2> QED
    BY <1>1, <2>1 DEF KeepsPairs
<1>2. CASE it.kind = "comp"
  <2> DEFINE r == AfterLeap(it, x, n)
             sought == Sought(it, x, n)
  <2>1. IndividualOK(it, index, cs, p) /\ it \in Individuals(cs)
    BY <1>2, KindsOf DEF IndividualOK
  <2>2. /\ sought \in [1 .. 2 -> Pair]
        /\ n <= it.elements /\ sought[Side(it, x)].id = n /\ it.e.type \notin NullTests =>
             \A k \in 1 .. 2 : it.e.o[k].x = x =>
               n \in DOMAIN Grid(it.e.o[k]) /\ sought[k].val = Grid(it.e.o[k])[n]
    BY <1>2, <2>1, SoughtHolds
  <2>3. r = [it EXCEPT !.idval = sought]
    BY <1>2 DEF AfterLeap
  <2>4. Answer(it, x, n) = IF n > it.elements THEN 0 ELSE sought[Side(it, x)].id
    BY <1>2 DEF Answer
  <2> HIDE DEF r, sought
  <2>5. /\ r \in Individuals(cs) /\ r.kind = it.kind /\ r.e = it.e /\ r.fixed = it.fixed
        /\ r.idval = sought /\ r.state = it.state /\ r.nfixed = it.nfixed
        /\ r.elements = it.elements
    BY <2>1, <2>2, <2>3 DEF Individuals
  <2>6. SameVar(r) <=> SameVar(it)
    BY <2>5 DEF SameVar
  <2>7. \A k \in 1 .. 2 : /\ HoldsOperand(r, p, k) <=> HoldsOperand(it, p, k)
                          /\ HeldValue(r, index, p, k) <=> HeldValue(it, index, p, k)
    BY <2>5, <2>6 DEF HoldsOperand, HeldValue
  <2>8. IndividualOK(r, index, cs, p)
    BY <2>1, <2>5, <2>7 DEF IndividualOK
  <2>9. VarsOf(r) = VarsOf(it)
    BY <1>2, <2>5 DEF VarsOf
  <2>10. Answer(it, x, n) = n => KeepsPairs(r, index, x, n)
    <3>1. it.elements \in Nat
      BY <2>1 DEF Individuals
    <3>2. Answer(it, x, n) = n => n <= it.elements /\ sought[Side(it, x)].id = n
      BY <2>4, <3>1
    <3> QED
      BY <2>2, <2>5, <3>2 DEF KeepsPairs, Grid
  <2> QED
    BY <2>8, <2>9, <2>10 DEF IterOK, r
<1> QED
  BY <1>1, <1>2

-----------------------------------------------------------------------------
(***************************************************************************)
(* What a leap should answer                                               *)
(***************************************************************************)
RightSet(it, x) == {m \in 1 .. MaxId(x) : \A e \in Meaning(it) : Allows(e, x, m)}

\* Doubling keeps the order.
LEMMA DoubledCompares ==
  ASSUME NEW op \in Comparators, NEW a \in Int, NEW b \in Int
  PROVE  Compare(op, 2 * a, 2 * b) <=> Compare(op, a, b)
<1>1. CASE op \in {"EQ", "NEQ"}
  BY <1>1 DEF Compare
<1>2. CASE op \in {"ST", "GT"}
  BY <1>2 DEF Compare
<1>3. CASE op \in {"SE", "GE"}
  BY <1>3 DEF Compare
<1> QED
  BY <1>1, <1>2, <1>3 DEF Comparators

\* The ids of the path, and that of the variable asked for.
LEMMA AssignedIds ==
  ASSUME NEW x, NEW m, NEW b, b = Assigned(x, m)
  PROVE  /\ \A y : y \in DOMAIN b <=> On(path, y) \/ y = x
         /\ b[x] = m
         /\ \A y : On(path, y) /\ y # x => b[y] = IdOn(path, y)
<1>1. b = [y \in Bound \union {x} |-> IF y = x THEN m ELSE PathId(y)]
  BY DEF Assigned
<1>2. \A y : y \in Bound <=> On(path, y)
  BY DEF Bound, On
<1>3. \A y : PathId(y) = IdOn(path, y)
  BY DEF PathId, IdOn
<1> QED
  BY <1>1, <1>2, <1>3

\* An answer is the right one when the search and the comparisons agree on the ids.
LEMMA RightWhenEqual ==
  ASSUME NEW it, NEW x, NEW n \in Nat \ {0}, NEW a, a = LeastFrom(RightSet(it, x), n)
  PROVE  InRange(x, a) = RightAnswer(it, x, n)
<1>1. RightAnswer(it, x, n) = a
  BY DEF RightAnswer, RightSet
<1>2. /\ RightSet(it, x) \in SUBSET (Nat \ {0}) /\ RightSet(it, x) \subseteq 1 .. MaxId(x)
      /\ MaxId(x) \in Nat
  BY MaxIdIsNat DEF RightSet
<1>3. a = 0 \/ a \in RightSet(it, x)
  BY <1>2, LeastFromCorrect
<1>4. ~ (a > MaxId(x))
  BY <1>2, <1>3
<1> QED
  BY <1>1, <1>4 DEF InRange

\* Beyond the ids nothing is right.
LEMMA RightBeyond ==
  ASSUME NEW it, NEW x, NEW n \in Nat \ {0}, n > MaxId(x)
  PROVE  LeastFrom(RightSet(it, x), n) = 0
<1>1. RightSet(it, x) \in SUBSET (Nat \ {0}) /\ \A m \in RightSet(it, x) : m < n
  BY MaxIdIsNat DEF RightSet
<1> QED
  BY <1>1, LeastFromCorrect

\* A comparison of a bound operand with the id asked for is one of its value.
LEMMA HoldsOfValue ==
  ASSUME NEW e, NEW s \in 1 .. 2, e.type \in Comparators, OpOf(e, s) \in Comparators, NEW b,
         HasOperand(e.o[3 - s], b),
         IsVar(e.o[s]), e.o[s].p # 0, Grid(e.o[s])[b[e.o[s].x]] \in Int,
         Doubled(e.o[3 - s], b) \in Int
  PROVE  Holds(e, b) <=>
           /\ b[e.o[s].x] \in DOMAIN Grid(e.o[s])
           /\ Compare(OpOf(e, s), 2 * Grid(e.o[s])[b[e.o[s].x]], Doubled(e.o[3 - s], b))
<1>1. Holds(e, b) <=> /\ HasOperand(e.o[1], b) /\ HasOperand(e.o[2], b)
                      /\ Compare(e.type, Doubled(e.o[1], b), Doubled(e.o[2], b))
  BY DEF Holds, Comparators
<1>2. /\ HasOperand(e.o[s], b) <=> b[e.o[s].x] \in DOMAIN Grid(e.o[s])
      /\ Doubled(e.o[s], b) = 2 * Grid(e.o[s])[b[e.o[s].x]]
  BY DEF HasOperand, Doubled
<1>3. CASE s = 1
  <2>1. OpOf(e, s) = e.type /\ 3 - s = 2
    BY <1>3 DEF OpOf
  <2> QED
    BY <1>1, <1>2, <1>3, <2>1
<1>4. CASE s = 2
  <2>1. OpOf(e, s) = Opposite[e.type] /\ 3 - s = 1
    BY <1>4 DEF OpOf
  <2>2. Doubled(e.o[2], b) \in Int /\ Doubled(e.o[1], b) \in Int
    BY <1>2, <1>4, <2>1
  <2>3. Compare(OpOf(e, s), Doubled(e.o[2], b), Doubled(e.o[1], b))
          <=> Compare(e.type, Doubled(e.o[1], b), Doubled(e.o[2], b))
    BY <2>1, <2>2, OppositeCompares
  <2> QED
    BY <1>1, <1>2, <1>4, <2>1, <2>3
<1> QED
  BY <1>3, <1>4

\* The bound operand of an iterator of properties: what it keeps of it tells the ids whose
\* value compares with it.
LEMMA HeldCompares ==
  ASSUME index \in Indexes, NEW cs, \A e \in cs : IsComparison(e, index), PathOK(path),
         NEW it, IndividualOK(it, index, cs, path), it.kind = "comp",
         NEW x \in VarsOf(it), ~On(path, x), NEW s, s = Side(it, x), Within(it, x),
         ~SameVar(it), it.nfixed # 0, it.e.type \notin NullTests
  PROVE  /\ Small(it.fixed[3 - s]) /\ OpOf(it.e, s) \in Comparators
         /\ Reaches(Grid(it.e.o[s]), it.fixed[3 - s], OpOf(it.e, s))
         /\ OpOf(it.e, s) = "NEQ" =>
              \/ it.fixed[3 - s] # 0
              \/ \A m \in DOMAIN Grid(it.e.o[s]) : Grid(it.e.o[s])[m] > 0
         /\ \A m \in 1 .. MaxId(x) :
              Allows(it.e, x, m) <=>
                /\ m \in DOMAIN Grid(it.e.o[s])
                /\ Compare(OpOf(it.e, s), Grid(it.e.o[s])[m], it.fixed[3 - s])
<1> DEFINE e == it.e
           t == 3 - s
           g == Grid(e.o[s])
           v == it.fixed[t]
           op == OpOf(e, s)
<1>1. s \in 1 .. 2 /\ t \in 1 .. 2 /\ 3 - t = s /\ e.o[s].x = x /\ IsVar(e.o[s]) /\ x # "const"
  BY DEF VarsOf, Side, IsVar
<1>2. HasProperty(e) /\ IsComparison(e, index) /\ e.o[s].p # 0 /\ IsProperty(g, MaxId(x))
  BY <1>1, CompOperands
<1>3. e.type \in Comparators /\ op \in Comparators /\ (op = "NEQ" <=> e.type = "NEQ")
  <2>1. e.type \in Comparators /\ op \in Comparators
    BY <1>1, <1>2, TypesOfComparison
  <2> QED
    BY <2>1 DEF OpOf, Opposite, Comparators
<1>4. e.o[t].x # x
  BY <1>1 DEF SameVar, IsVar, Side
<1>5. /\ it.state[s] <=> HoldsOperand(it, path, s)
      /\ it.state[t] <=> HoldsOperand(it, path, t)
      /\ it.state[t] => HeldValue(it, index, path, t)
      /\ it.nfixed = One(it.state[1]) + One(it.state[2])
  BY <1>1 DEF IndividualOK
<1>6. ~it.state[s]
  BY <1>1, <1>5 DEF HoldsOperand
<1>7. it.state[t]
  <2>1. CASE ~it.state[t]
    <3>1. ~it.state[1] /\ ~it.state[2]
      BY <1>1, <1>6, <2>1
    <3>2. it.nfixed = 0
      BY <1>5, <3>1 DEF One
    <3> QED
      BY <3>2
  <2> QED
    BY <2>1
<1>8. HeldValue(it, index, path, t) /\ (~IsVar(e.o[t]) \/ On(path, e.o[t].x))
  BY <1>5, <1>7 DEF HoldsOperand
<1>9. /\ e.type = "NEQ" => v # 0 \/ e.o[t].at = "gap"
      /\ ~IsVar(e.o[t]) /\ e.o[t].at = "gap" => e.type \in {"EQ", "NEQ"}
      /\ Reaches(g, v, op)
  <2>1. it.nfixed \in Int /\ it.nfixed > 0
    BY <1>5 DEF One
  <2> QED
    BY <2>1 DEF Within
<1>10. \A m \in DOMAIN g : g[m] \in Int /\ Small(g[m])
  BY <1>2 DEF IsProperty, Small
<1>11. \E m \in DOMAIN g : TRUE
  BY <1>2 DEF IsProperty
<1>12. Small(0)
  BY <1>10, <1>11, WidthAssumption DEF Small
<1>13. ASSUME NEW m \in 1 .. MaxId(x), NEW b, b = Assigned(x, m)
       PROVE  Allows(e, x, m) <=> Holds(e, b)
  <2>1. VarsIn(e) \subseteq DOMAIN b
    <3>1. \A y \in VarsIn(e) : y = x \/ (y = e.o[t].x /\ IsVar(e.o[t]))
      BY <1>1 DEF VarsIn, IsVar
    <3> QED
      BY <1>8, <1>13, <3>1, AssignedIds
  <2> QED
    BY <1>13, <2>1 DEF Allows
\* The other operand is a variable of the path.
<1>14. CASE IsVar(e.o[t])
  <2> DEFINE h == Grid(e.o[t])
             id == IdOn(path, e.o[t].x)
  <2>1. id \in DOMAIN h /\ v = h[id] /\ On(path, e.o[t].x)
    BY <1>8, <1>14 DEF HeldValue, Grid
  <2>2. e.o[t].p # 0 /\ Small(h[id])
    <3>1. IsProperty(h, MaxId(e.o[t].x)) /\ e.o[t].p # 0
      BY <1>1, <1>14, CompOperands
    <3> QED
      BY <2>1, <3>1 DEF IsProperty
  <2>3. Small(v)
    BY <2>1, <2>2
  <2>4. ASSUME NEW m \in 1 .. MaxId(x)
        PROVE  Allows(e, x, m) <=> m \in DOMAIN g /\ Compare(op, g[m], v)
    <3> DEFINE b == Assigned(x, m)
    <3>1. b[x] = m /\ b[e.o[t].x] = id
      BY <1>4, <2>1, AssignedIds
    <3>2. Allows(e, x, m) <=> Holds(e, b)
      BY <1>13
    <3> HIDE DEF b
    <3>3. HasOperand(e.o[t], b) /\ Doubled(e.o[t], b) = 2 * v
      BY <1>14, <2>1, <2>2, <3>1 DEF HasOperand, Doubled
    <3>4. v \in Int /\ 2 * v \in Int
      BY <2>3 DEF Small
    <3>5. CASE m \in DOMAIN g
      <4>1. Grid(e.o[s])[b[e.o[s].x]] = g[m] /\ g[m] \in Int
        BY <1>1, <1>10, <3>1, <3>5
      <4>2. Holds(e, b) <=> Compare(op, 2 * g[m], 2 * v)
        BY <1>1, <1>2, <1>3, <3>1, <3>3, <3>4, <3>5, <4>1, HoldsOfValue
      <4> QED
        BY <1>3, <3>2, <3>4, <3>5, <4>1, <4>2, DoubledCompares
    <3>6. CASE m \notin DOMAIN g
      <4>1. ~HasOperand(e.o[s], b)
        BY <1>1, <1>2, <3>1, <3>6 DEF HasOperand
      <4>2. ~Holds(e, b)
        BY <1>1, <1>3, <4>1 DEF Holds, Comparators
      <4> QED
        BY <3>2, <3>6, <4>2
    <3> QED
      BY <3>5, <3>6
  <2>5. e.type = "NEQ" => v # 0 \/ \A m \in DOMAIN g : g[m] > 0
    <3>1. e.o[t].at = "var"
      BY <1>1, <1>2, <1>14 DEF IsComparison, IsOperand, IsVar
    <3> QED
      BY <1>9, <3>1
  <2> QED
    BY <1>3, <1>9, <2>3, <2>4, <2>5
\* It is a constant: a number, or the place of a string.
<1>15. CASE ~IsVar(e.o[t])
  <2> DEFINE c == e.o[t]
  <2>1. c.at \in {"num", "in", "gap"} /\ Small(c.k) /\ c.k \in Int
    BY <1>1, <1>2, <1>15, WhereAssumption DEF IsComparison, IsOperand, IsVar, Small
  <2>2. v = IF c.at = "num" THEN c.k ELSE GetId(c, OpOf(e, t))
    <3>1. v = FixedByConst(e, t)
      BY <1>8, <1>15 DEF HeldValue
    <3>2. ~(IsVar(e.o[t]) \/ ~IsVar(e.o[3 - t]))
      BY <1>1, <1>15
    <3> QED
      BY <1>2, <3>1, <3>2 DEF FixedByConst
  <2>3. OpOf(e, t) \in Comparators /\ (OpOf(e, t) \in {"EQ", "NEQ"} <=> e.type \in {"EQ", "NEQ"})
    <3>1. OpOf(e, t) \in Comparators
      BY <1>1, <1>2, <1>3, TypesOfComparison
    <3> QED
      BY <1>3, <3>1 DEF OpOf, Opposite, Comparators
  <2>4. c.at # "num" => \A m \in DOMAIN g : g[m] > 0
    <3>1. MayMeet(e.o[s], e.o[3 - s], index)
      BY <1>1, <1>2 DEF IsComparison
    <3> QED
      BY <1>2, <1>15, <3>1 DEF MayMeet, Grid
  <2>5. CASE c.at # "gap"
    <3>1. v = c.k
      BY <2>1, <2>2, <2>3, <2>5 DEF GetId, Comparators
    <3>2. Small(v) /\ v \in Int
      BY <2>1, <3>1
    <3>3. ASSUME NEW m \in 1 .. MaxId(x)
          PROVE  Allows(e, x, m) <=> m \in DOMAIN g /\ Compare(op, g[m], v)
      <4> DEFINE b == Assigned(x, m)
      <4>1. b[x] = m
        BY AssignedIds
      <4>2. Allows(e, x, m) <=> Holds(e, b)
        BY <1>13
      <4> HIDE DEF b
      <4>3. HasOperand(e.o[t], b) /\ Doubled(e.o[t], b) = 2 * v
        BY <1>15, <2>5, <3>1 DEF HasOperand, Doubled
      <4>4. CASE m \in DOMAIN g
        <5>1. Grid(e.o[s])[b[e.o[s].x]] = g[m] /\ g[m] \in Int
          BY <1>1, <1>10, <4>1, <4>4
        <5>2. Holds(e, b) <=> Compare(op, 2 * g[m], 2 * v)
          BY <1>1, <1>2, <1>3, <3>2, <4>1, <4>3, <4>4, <5>1, HoldsOfValue
        <5> QED
          BY <1>3, <3>2, <4>2, <4>4, <5>1, <5>2, DoubledCompares
      <4>5. CASE m \notin DOMAIN g
        <5>1. ~HasOperand(e.o[s], b)
          BY <1>1, <1>2, <4>1, <4>5 DEF HasOperand
        <5>2. ~Holds(e, b)
          BY <1>1, <1>3, <5>1 DEF Holds, Comparators
        <5> QED
          BY <4>2, <4>5, <5>2
      <4> QED
        BY <4>4, <4>5
    <3>4. e.type = "NEQ" => v # 0
      BY <1>9, <2>5
    <3> QED
      BY <1>3, <1>9, <3>2, <3>3, <3>4
  <2>6. CASE c.at = "gap"
    <3>1. e.type \in {"EQ", "NEQ"} /\ op \in {"EQ", "NEQ"} /\ OpOf(e, t) \in {"EQ", "NEQ"}
      BY <1>3, <1>9, <1>15, <2>3, <2>6 DEF OpOf, Opposite
    <3>2. v = 0
      BY <2>2, <2>6, <3>1 DEF GetId
    <3>3. \A m \in DOMAIN g : g[m] > 0
      BY <2>4, <2>6
    <3>4. ASSUME NEW m \in 1 .. MaxId(x)
          PROVE  Allows(e, x, m) <=> m \in DOMAIN g /\ Compare(op, g[m], v)
      <4> DEFINE b == Assigned(x, m)
      <4>1. b[x] = m
        BY AssignedIds
      <4>2. Allows(e, x, m) <=> Holds(e, b)
        BY <1>13
      <4> HIDE DEF b
      <4>3. HasOperand(e.o[t], b) /\ Doubled(e.o[t], b) = 2 * c.k + 1
        BY <1>15, <2>6 DEF HasOperand, Doubled
      <4>4. CASE m \in DOMAIN g
        <5>1. Grid(e.o[s])[b[e.o[s].x]] = g[m] /\ g[m] \in Int
          BY <1>1, <1>10, <4>1, <4>4
        <5>2. 2 * c.k + 1 \in Int
          BY <2>1
        <5>3. Holds(e, b) <=> Compare(op, 2 * g[m], 2 * c.k + 1)
          BY <1>1, <1>2, <1>3, <4>1, <4>3, <4>4, <5>1, <5>2, HoldsOfValue
        <5>4. 2 * g[m] # 2 * c.k + 1 /\ g[m] # 0
          BY <2>1, <3>3, <4>4, <5>1
        <5> HIDE DEF c
        <5> QED
          BY <3>1, <3>2, <4>2, <4>4, <5>3, <5>4 DEF Compare
      <4>5. CASE m \notin DOMAIN g
        <5>1. ~HasOperand(e.o[s], b)
          BY <1>1, <1>2, <4>1, <4>5 DEF HasOperand
        <5>2. ~Holds(e, b)
          BY <1>1, <1>3, <5>1 DEF Holds, Comparators
        <5> QED
          BY <4>2, <4>5, <5>2
      <4> QED
        BY <4>4, <4>5
    <3> QED
      BY <1>3, <1>9, <1>12, <3>2, <3>3, <3>4
  <2> QED
    BY <2>5, <2>6
<1> QED
  BY <1>14, <1>15

\* An iterator of properties answers the least id that its comparison allows.
LEMMA CompAnswers ==
  ASSUME index \in Indexes, NEW cs, \A e \in cs : IsComparison(e, index), PathOK(path),
         NEW it, IndividualOK(it, index, cs, path), it.kind = "comp",
         NEW x \in VarsOf(it), ~On(path, x), NEW n \in Nat \ {0}, Within(it, x)
  PROVE  InRange(x, Answer(it, x, n)) = RightAnswer(it, x, n)
<1> DEFINE e == it.e
           s == Side(it, x)
           g == Grid(e.o[s])
           M == MaxId(x)
           S == RightSet(it, x)
<1>1. s \in 1 .. 2 /\ 3 - s \in 1 .. 2 /\ e.o[s].x = x /\ IsVar(e.o[s]) /\ x # "const"
  BY DEF VarsOf, Side, IsVar
<1>2. HasProperty(e) /\ IsComparison(e, index) /\ e.o[s].p # 0 /\ IsProperty(g, M)
  BY <1>1, CompOperands
<1>3. it.elements = M /\ M \in Nat /\ n \in Int
  BY MaxIdIsNat DEF Within
<1>4. S = {m \in 1 .. M : Allows(e, x, m)}
  BY DEF RightSet, Meaning
<1>5. DOMAIN g \in SUBSET (1 .. M)
  BY <1>2 DEF IsProperty
<1>6. Answer(it, x, n) = LeastFrom(S, n)
  <2>1. CASE n > M
    <3>1. Answer(it, x, n) = 0
      BY <1>3, <2>1 DEF Answer
    <3> QED
      BY <2>1, <3>1, RightBeyond
  <2>2. CASE ~(n > M) /\ SameVar(it)
    <3> DEFINE h == Grid(e.o[2])
               T == Agreeing(Grid(e.o[1]), h, e.type)
    <3>1. /\ e.type \in Comparators /\ e.o[1].x = x /\ e.o[2].x = x /\ s = 1
          /\ IsVar(e.o[1]) /\ IsVar(e.o[2])
          /\ IsProperty(Grid(e.o[1]), M) /\ IsProperty(h, M)
      BY <1>1, <2>2, SameVarOperands DEF Side
    <3>2. e.o[1].p # 0 /\ e.o[2].p # 0
      BY <3>1, CompOperands
    <3>3. ASSUME NEW m \in 1 .. M PROVE Allows(e, x, m) <=> m \in T
      <4> DEFINE b == Assigned(x, m)
      <4>1. b[x] = m /\ x \in DOMAIN b
        BY AssignedIds
      <4>2. VarsIn(e) \subseteq DOMAIN b
        BY <3>1, <4>1 DEF VarsIn
      <4>3. Allows(e, x, m) <=> Holds(e, b)
        BY <4>2 DEF Allows
      <4> HIDE DEF b
      <4>4. /\ HasOperand(e.o[1], b) <=> m \in DOMAIN g
            /\ HasOperand(e.o[2], b) <=> m \in DOMAIN h
            /\ Doubled(e.o[1], b) = 2 * g[m] /\ Doubled(e.o[2], b) = 2 * h[m]
        BY <3>1, <3>2, <4>1 DEF HasOperand, Doubled
      <4>5. Holds(e, b) <=> m \in DOMAIN g /\ m \in DOMAIN h /\ Compare(e.type, 2 * g[m], 2 * h[m])
        BY <3>1, <4>4 DEF Holds, Comparators
      <4>6. m \in DOMAIN g /\ m \in DOMAIN h =>
              (Compare(e.type, 2 * g[m], 2 * h[m]) <=> Compare(e.type, g[m], h[m]))
        <5>1. \A a, c \in Int : Compare(e.type, 2 * a, 2 * c) <=> Compare(e.type, a, c)
          BY <3>1, DoubledCompares
        <5>2. m \in DOMAIN g /\ m \in DOMAIN h => g[m] \in Int /\ h[m] \in Int
          BY <1>2, <3>1 DEF IsProperty, Small
        <5> QED
          BY <5>1, <5>2
      <4>7. m \in T <=> m \in DOMAIN g /\ m \in DOMAIN h /\ Compare(e.type, g[m], h[m])
        BY <3>1 DEF Agreeing
      <4> QED
        BY <4>3, <4>5, <4>6, <4>7
    <3>4. T \subseteq 1 .. M
      BY <3>1 DEF Agreeing, IsProperty
    <3>5. S = T
      <4> HIDE DEF T, S
      <4> QED
        BY <1>4, <3>3, <3>4
    <3>6. n \in 1 .. M + 1 /\ MaxId(e.o[1].x) = M
      BY <1>3, <2>2, <3>1
    <3>7. BothFrom(e, n) = PairAt(Grid(e.o[1]), h, LeastFrom(T, n))
      BY <1>3, <3>1, <3>6, BothFromAnswers
    <3>8. Answer(it, x, n) = BothFrom(e, n)[1].id
      BY <1>3, <2>2, <3>1 DEF Answer, Sought
    <3>9. \A w : PairAt(Grid(e.o[1]), h, w)[1].id = w
      BY DEF PairAt, None
    <3> HIDE DEF T, S, h
    <3> QED
      BY <3>5, <3>7, <3>8, <3>9
  <2>3. CASE ~(n > M) /\ ~SameVar(it)
    <3> DEFINE found == IF it.nfixed = 0 THEN NextExists(g, n)
                        ELSE NextProperty(g, M, n, it.fixed[3 - s], OpOf(e, s))
    <3>1. Answer(it, x, n) = found.id
      <4>1. Sought(it, x, n) = [it.idval EXCEPT ![s] = found]
        BY <1>3, <2>3 DEF Sought
      <4>2. it.idval \in [1 .. 2 -> Pair]
        BY DEF IndividualOK, Individuals
      <4> HIDE DEF found, s
      <4>3. Sought(it, x, n)[s] = found
        BY <1>1, <4>1, <4>2
      <4> QED
        BY <1>3, <2>3, <4>3 DEF Answer, s
    <3>2. e.o[3 - s].x # x
      BY <1>1, <2>3 DEF SameVar, IsVar, Side
\* No operand is bound yet: the ids that have the property.
    <3>3. CASE it.nfixed = 0
      <4>1. ~it.state[1] /\ ~it.state[2]
        BY <3>3 DEF IndividualOK, One
      <4>2. IsVar(e.o[3 - s]) /\ ~On(path, e.o[3 - s].x)
        <5>1. ~HoldsOperand(it, path, 3 - s)
          BY <1>1, <4>1 DEF IndividualOK
        <5> QED
          BY <5>1 DEF HoldsOperand
      <4>3. ASSUME NEW m \in 1 .. M PROVE Allows(e, x, m) <=> m \in DOMAIN g
        <5> DEFINE b == Assigned(x, m)
        <5>1. b[x] = m /\ e.o[3 - s].x \notin DOMAIN b
          BY <3>2, <4>2, AssignedIds
        <5>2. e.o[3 - s].x \in VarsIn(e)
          BY <1>1, <4>2 DEF VarsIn, IsVar
        <5>3. Allows(e, x, m) <=> \A k \in 1 .. 2 : e.o[k].x = x => HasOperand(e.o[k], b)
          BY <5>1, <5>2 DEF Allows
        <5> HIDE DEF b
        <5>4. \A k \in 1 .. 2 : e.o[k].x = x <=> k = s
          <6>1. \A k \in 1 .. 2 : k = s \/ k = 3 - s
            BY <1>1
          <6> QED
            BY <1>1, <3>2, <6>1
        <5>5. HasOperand(e.o[s], b) <=> m \in DOMAIN g
          BY <1>1, <1>2, <5>1 DEF HasOperand
        <5> HIDE DEF s
        <5> QED
          BY <1>1, <5>3, <5>4, <5>5
      <4>4. S = DOMAIN g
        <5> HIDE DEF S, g
        <5> QED
          BY <1>4, <1>5, <4>3
      <4>5. found.id = LeastFrom(DOMAIN g, n)
        BY <1>2, <1>3, <3>3, NextExistsHoldsValue
      <4> QED
        BY <3>1, <4>4, <4>5
    <3>4. CASE it.nfixed # 0 /\ e.type \notin NullTests
      <4> DEFINE v == it.fixed[3 - s]
                 op == OpOf(e, s)
                 T == {m \in DOMAIN g : Compare(op, g[m], v)}
      <4>1. /\ Small(v) /\ op \in Comparators /\ Reaches(g, v, op)
            /\ op = "NEQ" => v # 0 \/ \A m \in DOMAIN g : g[m] > 0
            /\ \A m \in 1 .. M : Allows(e, x, m) <=> m \in DOMAIN g /\ Compare(op, g[m], v)
        BY <2>3, <3>4, HeldCompares
      <4>2. found = NextProperty(g, M, n, v, op)
        BY <3>4
      <4> HIDE DEF found, v, op, g
      <4>3. NextProperty(g, M, n, v, op).id = LeastFrom(T, n)
        BY <1>2, <1>3, <4>1, NextPropertyAnswers
      <4>4. S = T
        <5> HIDE DEF S
        <5> QED
          BY <1>4, <1>5, <4>1
      <4> QED
        BY <3>1, <4>2, <4>3, <4>4
\* The tests for a property have a constant beside it.
    <3>5. CASE it.nfixed # 0 /\ e.type \in NullTests
      <4>1. IsVar(e.o[1]) /\ ~IsVar(e.o[2])
        BY <1>2, <3>5, TypesOfComparison
      <4>2. s = 1 /\ OpOf(e, s) = e.type
        BY <1>1, <4>1 DEF IsVar, OpOf
      <4>3. ASSUME NEW m \in 1 .. M
            PROVE  Allows(e, x, m)
                     <=> IF e.type = "ISNULL" THEN m \notin DOMAIN g ELSE m \in DOMAIN g
        <5> DEFINE b == Assigned(x, m)
        <5>1. b[x] = m /\ x \in DOMAIN b
          BY AssignedIds
        <5>2. VarsIn(e) \subseteq DOMAIN b
          BY <1>1, <4>1, <4>2, <5>1 DEF VarsIn, IsVar
        <5>3. Allows(e, x, m) <=> Holds(e, b)
          BY <5>2 DEF Allows
        <5> HIDE DEF b
        <5>4. HasOperand(e.o[1], b) <=> m \in DOMAIN g
          BY <1>1, <1>2, <4>2, <5>1 DEF HasOperand
        <5> QED
          BY <3>5, <5>3, <5>4 DEF Holds, NullTests
      <4>4. CASE e.type = "ISNULL"
        <5>1. found.id = LeastFrom((1 .. M) \ DOMAIN g, n)
          BY <3>5, <4>2, <4>4 DEF NextProperty, NextNull
        <5>2. S = (1 .. M) \ DOMAIN g
          <6> HIDE DEF S, g
          <6> QED
            BY <1>4, <4>3, <4>4
        <5> QED
          BY <3>1, <5>1, <5>2
      <4>5. CASE e.type = "ISNOTNULL"
        <5>1. found = [NextExists(g, n) EXCEPT !.val = 0]
          BY <3>5, <4>2, <4>5 DEF NextProperty
        <5>2. /\ NextExists(g, n) \in [id : Int, val : Int]
              /\ NextExists(g, n).id = LeastFrom(DOMAIN g, n)
          BY <1>2, <1>3, NextExistsHoldsValue
        <5>3. S = DOMAIN g
          <6> HIDE DEF S, g
          <6> QED
            BY <1>4, <1>5, <4>3, <4>5
        <5> HIDE DEF found, S, g
        <5>4. found.id = LeastFrom(DOMAIN g, n)
          BY <5>1, <5>2
        <5> QED
          BY <3>1, <5>3, <5>4
      <4> QED
        BY <3>5, <4>4, <4>5 DEF NullTests
    <3> QED
      BY <3>3, <3>4, <3>5
  <2> QED
    BY <2>1, <2>2, <2>3
<1> QED
  BY <1>6, RightWhenEqual

-----------------------------------------------------------------------------
(***************************************************************************)
(* Ids                                                                     *)
(***************************************************************************)
\* The least element, by what it is.
LEMMA LeastIs ==
  ASSUME NEW S \in SUBSET (Nat \ {0}), NEW n \in Int
  PROVE  /\ \A w \in S : n <= w /\ (\A m \in S : n <= m => w <= m) => LeastFrom(S, n) = w
         /\ (\A m \in S : ~(n <= m)) => LeastFrom(S, n) = 0
<1>0. \A m \in S : m \in Nat \ {0} /\ m \in Int
  OBVIOUS
<1> DEFINE least == LeastFrom(S, n)
<1>1. /\ least = 0 <=> \A v \in S : v < n
      /\ least # 0 => least \in S /\ n <= least /\ \A v \in S : n <= v => least <= v
  BY LeastFromCorrect
<1> HIDE DEF least
<1>2. ASSUME NEW w \in S, n <= w, \A m \in S : n <= m => w <= m
      PROVE  least = w
  <2>1. least # 0
    BY <1>0, <1>1, <1>2
  <2>2. least \in S /\ least <= w /\ w <= least
    BY <1>1, <1>2, <2>1
  <2> QED
    BY <1>0, <2>2
<1>3. (\A m \in S : ~(n <= m)) => least = 0
  BY <1>0, <1>1
<1> QED
  BY <1>2, <1>3 DEF least

\* A comparison of a bound operand with the id asked for.
LEMMA HoldsOfId ==
  ASSUME NEW e, NEW s \in 1 .. 2, e.type \in Comparators, NEW b,
         HasOperand(e.o[3 - s], b), IsVar(e.o[s]), e.o[s].p = 0,
         b[e.o[s].x] \in Int, Doubled(e.o[3 - s], b) \in Int
  PROVE  Holds(e, b) <=> Compare(OpOf(e, s), 2 * b[e.o[s].x], Doubled(e.o[3 - s], b))
<1>1. Holds(e, b) <=> /\ HasOperand(e.o[1], b) /\ HasOperand(e.o[2], b)
                      /\ Compare(e.type, Doubled(e.o[1], b), Doubled(e.o[2], b))
  BY DEF Holds, Comparators
<1>2. HasOperand(e.o[s], b) /\ Doubled(e.o[s], b) = 2 * b[e.o[s].x]
  BY DEF HasOperand, Doubled
<1>3. CASE s = 1
  <2>1. OpOf(e, s) = e.type /\ 3 - s = 2
    BY <1>3 DEF OpOf
  <2> QED
    BY <1>1, <1>2, <1>3, <2>1
<1>4. CASE s = 2
  <2>1. OpOf(e, s) = Opposite[e.type] /\ 3 - s = 1
    BY <1>4 DEF OpOf
  <2>2. Doubled(e.o[2], b) \in Int /\ Doubled(e.o[1], b) \in Int
    BY <1>2, <1>4, <2>1
  <2>3. Compare(OpOf(e, s), Doubled(e.o[2], b), Doubled(e.o[1], b))
          <=> Compare(e.type, Doubled(e.o[1], b), Doubled(e.o[2], b))
    BY <2>1, <2>2, OppositeCompares
  <2> QED
    BY <1>1, <1>2, <1>4, <2>1, <2>3
<1> QED
  BY <1>3, <1>4

\* ltj_iterator_comp_id::next finds the least id that compares with the other one.
LEMMA NextIdAnswers ==
  ASSUME NEW M \in Nat, NEW op \in Comparators, NEW n \in 1 .. M, NEW v \in Nat \ {0},
         NEW S, S = {m \in 1 .. M : Compare(op, m, v)}, NEW w, w = NextId(n, v, op)
  PROVE  LeastFrom(S, n) = IF w > M THEN 0 ELSE w
<1>0. M \in Int /\ n \in Int /\ v \in Int /\ 1 <= n /\ n <= M /\ 1 <= v
  OBVIOUS
<1>1. S \in SUBSET (Nat \ {0}) /\ \A m : m \in S <=> m \in 1 .. M /\ Compare(op, m, v)
  OBVIOUS
<1>2. n \in Int /\ \A m \in S : m \in 1 .. M /\ m \in Int
  BY <1>1
<1>3. CASE op = "EQ"
  <2>1. w = IF n <= v THEN v ELSE 0
    BY <1>3 DEF NextId
  <2>2. \A m : m \in S <=> m \in 1 .. M /\ m = v
    BY <1>1, <1>3 DEF Compare
  <2>3. CASE w = 0 \/ w > M
    <3>1. \A m \in S : ~(n <= m)
      BY <1>0, <1>1, <2>1, <2>2, <2>3
    <3> QED
      BY <1>0, <1>1, <1>2, <2>3, <3>1, LeastIs
  <2>4. CASE ~(w = 0 \/ w > M)
    <3>1. w \in 1 .. M
      BY <1>0, <2>1, <2>4
    <3>2. w \in S /\ n <= w
      BY <1>0, <2>1, <2>2, <2>4, <3>1
    <3>3. \A m \in S : n <= m => w <= m
      BY <1>0, <1>1, <2>1, <2>2, <2>4
    <3> QED
      BY <1>0, <1>1, <1>2, <2>4, <3>1, <3>2, <3>3, LeastIs
  <2> QED
    BY <2>3, <2>4
<1>4. CASE op = "NEQ"
  <2>1. w = IF n = v THEN v + 1 ELSE n
    BY <1>4 DEF NextId
  <2>2. \A m : m \in S <=> m \in 1 .. M /\ m # v
    BY <1>1, <1>4 DEF Compare
  <2>3. CASE w = 0 \/ w > M
    <3>1. \A m \in S : ~(n <= m)
      BY <1>0, <1>1, <2>1, <2>2, <2>3
    <3> QED
      BY <1>0, <1>1, <1>2, <2>3, <3>1, LeastIs
  <2>4. CASE ~(w = 0 \/ w > M)
    <3>1. w \in 1 .. M
      BY <1>0, <2>1, <2>4
    <3>2. w \in S /\ n <= w
      BY <1>0, <2>1, <2>2, <2>4, <3>1
    <3>3. \A m \in S : n <= m => w <= m
      BY <1>0, <1>1, <2>1, <2>2, <2>4
    <3> QED
      BY <1>0, <1>1, <1>2, <2>4, <3>1, <3>2, <3>3, LeastIs
  <2> QED
    BY <2>3, <2>4
<1>5. CASE op = "ST"
  <2>1. w = IF n < v THEN n ELSE 0
    BY <1>5 DEF NextId
  <2>2. \A m : m \in S <=> m \in 1 .. M /\ m < v
    BY <1>1, <1>5 DEF Compare
  <2>3. CASE w = 0 \/ w > M
    <3>1. \A m \in S : ~(n <= m)
      BY <1>0, <1>1, <2>1, <2>2, <2>3
    <3> QED
      BY <1>0, <1>1, <1>2, <2>3, <3>1, LeastIs
  <2>4. CASE ~(w = 0 \/ w > M)
    <3>1. w \in 1 .. M
      BY <1>0, <2>1, <2>4
    <3>2. w \in S /\ n <= w
      BY <1>0, <2>1, <2>2, <2>4, <3>1
    <3>3. \A m \in S : n <= m => w <= m
      BY <1>0, <1>1, <2>1, <2>2, <2>4
    <3> QED
      BY <1>0, <1>1, <1>2, <2>4, <3>1, <3>2, <3>3, LeastIs
  <2> QED
    BY <2>3, <2>4
<1>6. CASE op = "GT"
  <2>1. w = IF n > v THEN n ELSE v + 1
    BY <1>6 DEF NextId
  <2>2. \A m : m \in S <=> m \in 1 .. M /\ m > v
    BY <1>1, <1>6 DEF Compare
  <2>3. CASE w = 0 \/ w > M
    <3>1. \A m \in S : ~(n <= m)
      BY <1>0, <1>1, <2>1, <2>2, <2>3
    <3> QED
      BY <1>0, <1>1, <1>2, <2>3, <3>1, LeastIs
  <2>4. CASE ~(w = 0 \/ w > M)
    <3>1. w \in 1 .. M
      BY <1>0, <2>1, <2>4
    <3>2. w \in S /\ n <= w
      BY <1>0, <2>1, <2>2, <2>4, <3>1
    <3>3. \A m \in S : n <= m => w <= m
      BY <1>0, <1>1, <2>1, <2>2, <2>4
    <3> QED
      BY <1>0, <1>1, <1>2, <2>4, <3>1, <3>2, <3>3, LeastIs
  <2> QED
    BY <2>3, <2>4
<1>7. CASE op = "SE"
  <2>1. w = IF n <= v THEN n ELSE 0
    BY <1>7 DEF NextId
  <2>2. \A m : m \in S <=> m \in 1 .. M /\ m <= v
    BY <1>1, <1>7 DEF Compare
  <2>3. CASE w = 0 \/ w > M
    <3>1. \A m \in S : ~(n <= m)
      BY <1>0, <1>1, <2>1, <2>2, <2>3
    <3> QED
      BY <1>0, <1>1, <1>2, <2>3, <3>1, LeastIs
  <2>4. CASE ~(w = 0 \/ w > M)
    <3>1. w \in 1 .. M
      BY <1>0, <2>1, <2>4
    <3>2. w \in S /\ n <= w
      BY <1>0, <2>1, <2>2, <2>4, <3>1
    <3>3. \A m \in S : n <= m => w <= m
      BY <1>0, <1>1, <2>1, <2>2, <2>4
    <3> QED
      BY <1>0, <1>1, <1>2, <2>4, <3>1, <3>2, <3>3, LeastIs
  <2> QED
    BY <2>3, <2>4
<1>8. CASE op = "GE"
  <2>1. w = IF n >= v THEN n ELSE v
    BY <1>8 DEF NextId
  <2>2. \A m : m \in S <=> m \in 1 .. M /\ m >= v
    BY <1>1, <1>8 DEF Compare
  <2>3. CASE w = 0 \/ w > M
    <3>1. \A m \in S : ~(n <= m)
      BY <1>0, <1>1, <2>1, <2>2, <2>3
    <3> QED
      BY <1>0, <1>1, <1>2, <2>3, <3>1, LeastIs
  <2>4. CASE ~(w = 0 \/ w > M)
    <3>1. w \in 1 .. M
      BY <1>0, <2>1, <2>4
    <3>2. w \in S /\ n <= w
      BY <1>0, <2>1, <2>2, <2>4, <3>1
    <3>3. \A m \in S : n <= m => w <= m
      BY <1>0, <1>1, <2>1, <2>2, <2>4
    <3> QED
      BY <1>0, <1>1, <1>2, <2>4, <3>1, <3>2, <3>3, LeastIs
  <2> QED
    BY <2>3, <2>4
<1> QED
  BY <1>3, <1>4, <1>5, <1>6, <1>7, <1>8 DEF Comparators

\* The id of a variable of the path is one.
LEMMA IdOnPathIsId ==
  ASSUME PathOK(path), NEW y, On(path, y)
  PROVE  IdOn(path, y) \in Nat \ {0}
<1>1. PICK d \in DOMAIN path : path[d].x = y
  BY DEF On
<1>2. IdOn(path, y) = path[d].n
  BY <1>1, IdOnPath
<1>3. path \in Seq([x : AllVars, n : Nat \ {0}])
  BY DEF PathOK
<1>4. path[d] \in [x : AllVars, n : Nat \ {0}]
  <2> DEFINE T == [x : AllVars, n : Nat \ {0}]
  <2>1. path \in Seq(T)
    BY <1>3
  <2> HIDE DEF T
  <2>2. path[d] \in T
    BY <1>1, <2>1
  <2> QED
    BY <2>2 DEF T
<1> QED
  BY <1>2, <1>4

\* An iterator of ids answers the least id that its comparison allows.
LEMMA CompIdAnswers ==
  ASSUME index \in Indexes, NEW cs, \A e \in cs : IsComparison(e, index), PathOK(path),
         NEW it, IndividualOK(it, index, cs, path), it.kind = "compId",
         NEW x \in VarsOf(it), ~On(path, x), NEW n \in Nat \ {0}, Within(it, x)
  PROVE  InRange(x, Answer(it, x, n)) = RightAnswer(it, x, n)
<1> DEFINE e == it.e
           s == Side(it, x)
           t == 3 - s
           v == it.fixed[t]
           op == OpOf(e, s)
           M == MaxId(x)
           S == RightSet(it, x)
           a == Answer(it, x, n)
<1>1. s \in 1 .. 2 /\ t \in 1 .. 2 /\ 3 - t = s /\ e.o[s].x = x /\ IsVar(e.o[s]) /\ x # "const"
  BY DEF VarsOf, Side, IsVar
<1>2. e \in cs /\ ~HasProperty(e) /\ IsComparison(e, index)
  BY DEF IndividualOK, Individuals
<1>3. /\ e.type \in Comparators
      /\ \A k \in 1 .. 2 :
           IF IsVar(e.o[k]) THEN e.o[k].p = 0 /\ e.o[k].x \in AllVars
           ELSE e.o[k].at = "num" /\ e.o[k].k \in Nat \ {0} /\ Small(e.o[k].k)
  BY <1>2, IdOperand
<1>4. op \in Comparators
  BY <1>1, <1>2, <1>3, TypesOfComparison
<1>5. /\ it.elements = M /\ M \in Nat /\ n \in Int
      /\ SameVar(it) => e.type \in {"EQ", "SE", "GE"}
  BY <1>3, MaxIdIsNat DEF Within, Comparators
<1>6. S = {m \in 1 .. M : Allows(e, x, m)}
  BY DEF RightSet, Meaning
<1>7. a = IF n > M THEN 0 ELSE IF it.nfixed = 0 THEN n ELSE NextId(n, v, op)
  BY <1>5 DEF Answer
<1>8. S \in SUBSET (Nat \ {0}) /\ \A k \in 1 .. 2 : ~IsVar(e.o[k]) \/ e.o[k].p = 0
  BY <1>3, <1>6
<1>9. RightAnswer(it, x, n) = LeastFrom(S, n)
  BY DEF RightAnswer, RightSet
<1>10. CASE n > M
  <2>1. a = 0 /\ InRange(x, 0) = 0
    BY <1>5, <1>7, <1>10 DEF InRange
  <2> QED
    BY <1>9, <1>10, <2>1, RightBeyond
\* No operand is bound: any id may do.
<1>11. CASE ~(n > M) /\ it.nfixed = 0
  <2>1. ~it.state[1] /\ ~it.state[2]
    BY <1>11 DEF IndividualOK, One
  <2>2. \A k \in 1 .. 2 : IsVar(e.o[k]) /\ ~HoldsOperand(it, path, k)
    BY <2>1 DEF IndividualOK, HoldsOperand
  <2>3. ASSUME NEW m \in 1 .. M PROVE Allows(e, x, m)
    <3> DEFINE b == Assigned(x, m)
    <3>1. b[x] = m /\ x \in DOMAIN b /\ \A y : y \in DOMAIN b <=> On(path, y) \/ y = x
      BY AssignedIds
    <3>2. \A k \in 1 .. 2 : HasOperand(e.o[k], b)
      BY <1>8 DEF HasOperand
    <3>3. CASE SameVar(it)
      <4>1. e.o[1].x = x /\ e.o[2].x = x
        BY <1>1, <3>3 DEF SameVar
      <4>2. VarsIn(e) \subseteq DOMAIN b
        BY <3>1, <4>1 DEF VarsIn
      <4>3. Allows(e, x, m) <=> Holds(e, b)
        BY <4>2 DEF Allows
      <4> HIDE DEF b
      <4>4. Doubled(e.o[1], b) = 2 * m /\ Doubled(e.o[2], b) = 2 * m
        BY <1>8, <2>2, <3>1, <4>1 DEF Doubled
      <4>5. Compare(e.type, 2 * m, 2 * m)
        <5>1. 2 * m \in Int /\ 2 * m <= 2 * m /\ 2 * m >= 2 * m
          OBVIOUS
        <5>2. e.type = "EQ" \/ e.type = "SE" \/ e.type = "GE"
          BY <1>5, <3>3
        <5> DEFINE z == 2 * m
        <5> HIDE DEF z, e
        <5>3. CASE e.type = "EQ"
          BY <5>3 DEF Compare
        <5>4. CASE e.type = "SE"
          BY <5>1, <5>4 DEF Compare
        <5>5. CASE e.type = "GE"
          BY <5>1, <5>5 DEF Compare
        <5> QED
          BY <5>2, <5>3, <5>4, <5>5
      <4>6. Holds(e, b)
        BY <1>3, <3>2, <4>4, <4>5 DEF Holds, Comparators
      <4> QED
        BY <4>3, <4>6
    <3>4. CASE ~SameVar(it)
      <4>1. e.o[t].x # x
        BY <1>1, <3>4 DEF SameVar, IsVar, Side
      <4>2. ~On(path, e.o[t].x)
        BY <1>1, <2>2, <3>4 DEF HoldsOperand
      <4>3. e.o[t].x \in VarsIn(e) /\ e.o[t].x \notin DOMAIN b
        BY <1>1, <2>2, <3>1, <4>1, <4>2 DEF VarsIn, IsVar
      <4> QED
        BY <3>2, <4>3 DEF Allows
    <3> QED
      BY <3>3, <3>4
  <2>4. S = 1 .. M
    <3> HIDE DEF S
    <3> QED
      BY <1>6, <2>3
  <2>5. n \in S /\ a = n
    BY <1>5, <1>7, <1>11, <2>4
  <2>6. LeastFrom(S, n) = n
    BY <1>8, <2>5, LeastFromHere
  <2> QED
    BY <1>5, <1>9, <1>11, <2>5, <2>6 DEF InRange
\* The other operand is bound.
<1>12. CASE ~(n > M) /\ it.nfixed # 0
  <2>1. /\ it.state[s] <=> HoldsOperand(it, path, s)
        /\ it.state[t] <=> HoldsOperand(it, path, t)
        /\ it.state[t] => HeldValue(it, index, path, t)
        /\ it.nfixed = One(it.state[1]) + One(it.state[2])
    BY <1>1 DEF IndividualOK
  <2>2. ~it.state[s]
    BY <1>1, <2>1 DEF HoldsOperand
  <2>3. it.state[t]
    <3>1. CASE ~it.state[t]
      <4>1. ~it.state[1] /\ ~it.state[2]
        BY <1>1, <2>2, <3>1
      <4>2. it.nfixed = 0
        BY <2>1, <4>1 DEF One
      <4> QED
        BY <1>12, <4>2
    <3> QED
      BY <3>1
  <2>4. HeldValue(it, index, path, t) /\ HoldsOperand(it, path, t)
    BY <2>1, <2>3
  <2>5. ~SameVar(it)
    <3>1. SameVar(it) => e.o[1].x = x /\ e.o[2].x = x
      BY <1>1 DEF SameVar
    <3>2. SameVar(it) => ~HoldsOperand(it, path, t)
      BY <1>1, <3>1 DEF HoldsOperand, IsVar
    <3> QED
      BY <2>4, <3>2
  <2>6. e.o[t].x # x
    BY <1>1, <2>5 DEF SameVar, IsVar, Side
  <2>7. v \in Nat \ {0} /\ (IF IsVar(e.o[t]) THEN On(path, e.o[t].x) /\ v = IdOn(path, e.o[t].x)
                            ELSE v = e.o[t].k)
    <3>1. CASE IsVar(e.o[t])
      <4>1. On(path, e.o[t].x)
        BY <2>4, <3>1 DEF HoldsOperand
      <4>2. v = IdOn(path, e.o[t].x)
        BY <2>4, <3>1 DEF HeldValue
      <4> QED
        BY <3>1, <4>1, <4>2, IdOnPathIsId
    <3>2. CASE ~IsVar(e.o[t])
      <4>1. v = FixedByConst(e, t)
        BY <2>4, <3>2 DEF HeldValue
      <4>2. FixedByConst(e, t) = e.o[t].k % W
        BY <1>1, <1>2, <3>2 DEF FixedByConst
      <4>3. e.o[t].k \in Nat \ {0} /\ Small(e.o[t].k)
        BY <1>1, <1>3, <3>2
      <4>4. e.o[t].k < W
        BY <4>3, WidthAssumption DEF Small
      <4>5. e.o[t].k % W = e.o[t].k
        BY <4>3, <4>4, SmallMod
      <4> QED
        BY <3>2, <4>1, <4>2, <4>3, <4>5
    <3> QED
      BY <3>1, <3>2
  <2>8. ASSUME NEW m \in 1 .. M PROVE Allows(e, x, m) <=> Compare(op, m, v)
    <3> DEFINE b == Assigned(x, m)
    <3>1. /\ b[x] = m /\ \A y : y \in DOMAIN b <=> On(path, y) \/ y = x
          /\ IsVar(e.o[t]) => b[e.o[t].x] = v
      BY <2>6, <2>7, AssignedIds
    <3>2. VarsIn(e) \subseteq DOMAIN b
      <4>1. \A y \in VarsIn(e) : y = x \/ (y = e.o[t].x /\ IsVar(e.o[t]))
        BY <1>1 DEF VarsIn, IsVar
      <4> QED
        BY <2>7, <3>1, <4>1
    <3>3. Allows(e, x, m) <=> Holds(e, b)
      BY <3>2 DEF Allows
    <3> HIDE DEF b
    <3>4. HasOperand(e.o[t], b)
      BY <1>1, <1>8 DEF HasOperand
    <3>5. Doubled(e.o[t], b) = 2 * v
      BY <1>1, <1>3, <2>7, <3>1 DEF Doubled
    <3>6. m \in Int /\ v \in Int /\ 2 * v \in Int
      BY <2>7
    <3>7. Holds(e, b) <=> Compare(op, 2 * m, 2 * v)
      <4>1. e.o[s].p = 0
        BY <1>1, <1>3
      <4> QED
        BY <1>1, <1>3, <3>1, <3>4, <3>5, <3>6, <4>1, HoldsOfId
    <3>8. Compare(op, 2 * m, 2 * v) <=> Compare(op, m, v)
      BY <1>4, <3>6, DoubledCompares
    <3> QED
      BY <3>3, <3>7, <3>8
  <2>9. S = {m \in 1 .. M : Compare(op, m, v)}
    <3> HIDE DEF S, v, op
    <3> QED
      BY <1>6, <2>8
  <2>10. n \in 1 .. M /\ a = NextId(n, v, op)
    BY <1>5, <1>7, <1>12
  <2> HIDE DEF S, v, op, a
  <2>11. LeastFrom(S, n) = IF a > M THEN 0 ELSE a
    BY <1>4, <1>5, <2>7, <2>9, <2>10, NextIdAnswers
  <2> QED
    BY <1>9, <2>11 DEF InRange, a
<1> QED
  BY <1>10, <1>11, <1>12

-----------------------------------------------------------------------------
(***************************************************************************)
(* Ranges                                                                  *)
(***************************************************************************)
Bounds == {"GT", "GE", "ST", "SE"}
BoundOp(e) == OpOf(e, Operand(e))
Limit(e) == e.o[3 - Operand(e)]
IsNumber(o) == o.at = "num" /\ o.k \in Nat \ {0} /\ Small(o.k)
InBounds(r, a) == (r.hasLo => r.lo <= a) /\ (r.hasHi => a <= r.hi)

\* A comparison that goes to a range has a variable on one side, and a constant on the other.
LEMMA RangeOperands ==
  ASSUME NEW ix \in Indexes, NEW e, IsComparison(e, ix), IsRange(e)
  PROVE  /\ Operand(e) \in 1 .. 2 /\ 3 - Operand(e) \in 1 .. 2
         /\ 3 - (3 - Operand(e)) = Operand(e)
         /\ IsVar(e.o[Operand(e)]) /\ ~IsVar(Limit(e))
         /\ BoundOp(e) \in Bounds /\ BoundOp(e) \in Comparators /\ e.type \in Comparators
         /\ KeyOf(e).x = e.o[Operand(e)].x /\ KeyOf(e).p = e.o[Operand(e)].p
         /\ KeyOf(e).x \in AllVars
         /\ Limit(e).k \in Int /\ Small(Limit(e).k)
         /\ KeyOf(e).p = 0 => IsNumber(Limit(e))
         /\ KeyOf(e).p # 0 => IsProperty(GridIn(ix, KeyOf(e)), MaxId(KeyOf(e).x))
<1> DEFINE V == {k \in 1 .. 2 : IsVar(e.o[k])}
           s == Operand(e)
<1>1. Cardinality(V) = 1 /\ e.type \in Bounds
  BY DEF IsRange, Bounds
<1>2. Cardinality(V) = One(1 \in V) + One(2 \in V)
  BY TwoCounted
<1>3. (1 \in V <=> IsVar(e.o[1])) /\ (2 \in V <=> IsVar(e.o[2]))
  OBVIOUS
<1> HIDE DEF V
<1>4. IsVar(e.o[1]) <=> ~IsVar(e.o[2])
  BY <1>1, <1>2, <1>3 DEF One
<1>5. s \in 1 .. 2 /\ 3 - s \in 1 .. 2 /\ 3 - (3 - s) = s /\ IsVar(e.o[s]) /\ ~IsVar(e.o[3 - s])
  <2>1. CASE IsVar(e.o[1])
    <3>1. s = 1
      BY <2>1 DEF Operand
    <3> QED
      BY <1>4, <2>1, <3>1
  <2>2. CASE ~IsVar(e.o[1])
    <3>1. s = 2
      BY <2>2 DEF Operand
    <3> QED
      BY <1>4, <2>2, <3>1
  <2> QED
    BY <2>1, <2>2
<1>6. BoundOp(e) \in Bounds /\ BoundOp(e) \in Comparators /\ e.type \in Comparators
  BY <1>1 DEF BoundOp, OpOf, Opposite, Bounds, Comparators
<1>7. KeyOf(e).x = e.o[s].x /\ KeyOf(e).p = e.o[s].p
  BY DEF KeyOf
<1>8. Limit(e).k \in Int /\ Small(Limit(e).k)
  BY <1>5, WhereAssumption DEF IsComparison, IsOperand, IsVar, Small, Limit
<1>9. e.o[s].x \in AllVars
  BY <1>5 DEF IsComparison, IsOperand, IsVar, AllVars
<1>10. ASSUME e.o[s].p = 0 PROVE IsNumber(Limit(e))
  <2>1. MayMeet(e.o[s], e.o[3 - s], ix)
    BY <1>5 DEF IsComparison
  <2> QED
    BY <1>5, <1>8, <1>10, <2>1 DEF MayMeet, IsNumber, Limit
<1>11. ASSUME e.o[s].p # 0 PROVE IsProperty(GridIn(ix, KeyOf(e)), MaxId(KeyOf(e).x))
  <2>1. HasProperty(e)
    BY <1>5, <1>11 DEF HasProperty
  <2>2. IsProperty(GridIn(ix, e.o[s]), MaxId(e.o[s].x))
    BY <1>5, <2>1, PropertyOperand
  <2> QED
    BY <1>7, <2>2 DEF GridIn
<1> HIDE DEF s
<1> QED
  BY <1>5, <1>6, <1>7, <1>8, <1>9, <1>10, <1>11 DEF Limit, s

\* The bounds of a range are unsigned numbers of the width.
LEMMA BoundInWidth ==
  ASSUME NEW ix \in Indexes, NEW e, IsComparison(e, ix), IsRange(e)
  PROVE  BoundOf(e) \in 0 .. W - 1
<1>1. Limit(e).k \in Int
  BY RangeOperands
<1> DEFINE v == ValueOf(Limit(e))
<1>2. v \in 0 .. W - 1
  <2>1. Limit(e).k % W \in 0 .. W - 1 /\ 0 % W \in 0 .. W - 1
    BY <1>1, WidthAssumption
  <2> QED
    BY <2>1 DEF ValueOf
<1> HIDE DEF v
<1>3. (v + 1) % W \in 0 .. W - 1 /\ (v - 1) % W \in 0 .. W - 1
  BY <1>2, WidthAssumption
<1> QED
  BY <1>2, <1>3 DEF BoundOf, v, Limit

\* A number bounds the others as its comparison says.
LEMMA BoundMeans ==
  ASSUME NEW e, BoundOp(e) \in Bounds, IsNumber(Limit(e))
  PROVE  /\ BoundOf(e) = IF BoundOp(e) = "GT" THEN Limit(e).k + 1
                         ELSE IF BoundOp(e) = "ST" THEN Limit(e).k - 1 ELSE Limit(e).k
         /\ BoundOf(e) \in Nat
         /\ \A a \in Int : Compare(BoundOp(e), a, Limit(e).k)
                             <=> IF IsLower(e) THEN BoundOf(e) <= a ELSE a <= BoundOf(e)
<1> DEFINE k == Limit(e).k
<1>1. k \in Nat /\ k >= 1 /\ k + 1 < W /\ k - 1 \in Nat
  BY WidthAssumption DEF IsNumber, Small
<1>2. ValueOf(Limit(e)) = k
  <2>1. ValueOf(Limit(e)) = k % W
    BY DEF ValueOf, IsNumber
  <2> HIDE DEF k
  <2>2. k < W
    BY <1>1, WidthAssumption
  <2> QED
    BY <1>1, <2>1, <2>2, SmallMod
<1>3. (k + 1) % W = k + 1 /\ (k - 1) % W = k - 1
  <2> HIDE DEF k
  <2>1. k + 1 \in Nat /\ k + 1 < W /\ k - 1 \in Nat /\ k - 1 < W
    BY <1>1, WidthAssumption
  <2> QED
    BY <2>1, SmallMod
<1>4. BoundOf(e) = IF BoundOp(e) = "GT" THEN k + 1 ELSE IF BoundOp(e) = "ST" THEN k - 1 ELSE k
  BY <1>2, <1>3 DEF BoundOf, BoundOp, Limit
<1>5. IsLower(e) <=> BoundOp(e) \in {"GT", "GE"}
  BY DEF IsLower, BoundOp
<1>6. ASSUME NEW a \in Int
      PROVE  Compare(BoundOp(e), a, k)
               <=> IF IsLower(e) THEN BoundOf(e) <= a ELSE a <= BoundOf(e)
  <2> HIDE DEF k
  <2>1. CASE BoundOp(e) = "GT"
    BY <1>1, <1>4, <1>5, <2>1 DEF Compare
  <2>2. CASE BoundOp(e) = "GE"
    BY <1>1, <1>4, <1>5, <2>2 DEF Compare
  <2>3. CASE BoundOp(e) = "ST"
    BY <1>1, <1>4, <1>5, <2>3 DEF Compare
  <2>4. CASE BoundOp(e) = "SE"
    BY <1>1, <1>4, <1>5, <2>4 DEF Compare
  <2> QED
    BY <2>1, <2>2, <2>3, <2>4 DEF Bounds
<1>7. BoundOf(e) \in Nat
  <2> HIDE DEF k
  <2> QED
    BY <1>1, <1>4
<1> QED
  BY <1>4, <1>6, <1>7

\* What keeps a range keeps all its comparisons.
LEMMA RangeMeans ==
  ASSUME NEW es, \A e \in es : BoundOp(e) \in Bounds /\ IsNumber(Limit(e)),
         NEW r, RangeOf(r, es), NEW a \in Int
  PROVE  (\A e \in es : Compare(BoundOp(e), a, Limit(e).k)) <=> InBounds(r, a)
<1>1. \A e \in es : /\ BoundOf(e) \in Int
                    /\ Compare(BoundOp(e), a, Limit(e).k)
                         <=> IF IsLower(e) THEN BoundOf(e) <= a ELSE a <= BoundOf(e)
  BY BoundMeans
<1>2. r.lo \in Int /\ r.hi \in Int
  BY WidthAssumption DEF RangeOf, RangeRecords
<1>3. ASSUME \A e \in es : Compare(BoundOp(e), a, Limit(e).k) PROVE InBounds(r, a)
  <2>1. r.hasLo => r.lo <= a
    BY <1>1, <1>3 DEF RangeOf
  <2>2. r.hasHi => a <= r.hi
    BY <1>1, <1>3 DEF RangeOf
  <2> QED
    BY <2>1, <2>2 DEF InBounds
<1>4. ASSUME InBounds(r, a), NEW e \in es PROVE Compare(BoundOp(e), a, Limit(e).k)
  <2>1. CASE IsLower(e)
    <3>1. r.hasLo /\ BoundOf(e) <= r.lo
      BY <2>1 DEF RangeOf
    <3>2. r.lo <= a
      BY <1>4, <3>1 DEF InBounds
    <3> QED
      BY <1>1, <1>2, <2>1, <3>1, <3>2
  <2>2. CASE ~IsLower(e)
    <3>1. r.hasHi /\ r.hi <= BoundOf(e)
      BY <2>2 DEF RangeOf
    <3>2. a <= r.hi
      BY <1>4, <3>1 DEF InBounds
    <3> QED
      BY <1>1, <1>2, <2>2, <3>1, <3>2
  <2> QED
    BY <2>1, <2>2
<1> QED
  BY <1>3, <1>4

\* The ids that a comparison with a number allows.
LEMMA RangeAllows ==
  ASSUME index \in Indexes, NEW e, IsComparison(e, index), IsRange(e), IsNumber(Limit(e)),
         NEW x, x = KeyOf(e).x, NEW m \in 1 .. MaxId(x), NEW g, g = Grid(KeyOf(e))
  PROVE  IF KeyOf(e).p = 0 THEN Allows(e, x, m) <=> Compare(BoundOp(e), m, Limit(e).k)
         ELSE Allows(e, x, m) <=> m \in DOMAIN g /\ Compare(BoundOp(e), g[m], Limit(e).k)
<1> DEFINE s == Operand(e)
           t == 3 - s
           b == Assigned(x, m)
           k == Limit(e).k
<1>1. /\ s \in 1 .. 2 /\ t \in 1 .. 2 /\ 3 - t = s /\ IsVar(e.o[s]) /\ ~IsVar(e.o[t])
      /\ BoundOp(e) \in Comparators /\ e.type \in Comparators /\ Limit(e) = e.o[t]
      /\ x = e.o[s].x /\ KeyOf(e).p = e.o[s].p /\ BoundOp(e) = OpOf(e, s)
      /\ KeyOf(e).p # 0 => IsProperty(g, MaxId(x))
  BY RangeOperands DEF Limit, BoundOp, Grid
<1>2. k \in Int /\ m \in Int
  BY DEF IsNumber
<1>3. b[x] = m /\ x \in DOMAIN b
  BY AssignedIds
<1>4. VarsIn(e) \subseteq DOMAIN b
  <2>1. \A y \in VarsIn(e) : y = x
    BY <1>1 DEF VarsIn, IsVar
  <2> QED
    BY <1>3, <2>1
<1>5. Allows(e, x, m) <=> Holds(e, b)
  BY <1>4 DEF Allows
<1> HIDE DEF b
<1>6. HasOperand(e.o[t], b) /\ Doubled(e.o[t], b) = 2 * k
  BY <1>1 DEF HasOperand, Doubled, IsNumber
<1>7. CASE KeyOf(e).p = 0
  <2>1. 2 * k \in Int
    BY <1>2
  <2>2. Holds(e, b) <=> Compare(BoundOp(e), 2 * m, 2 * k)
    BY <1>1, <1>2, <1>3, <1>6, <1>7, <2>1, HoldsOfId
  <2>3. Compare(BoundOp(e), 2 * m, 2 * k) <=> Compare(BoundOp(e), m, k)
    BY <1>1, <1>2, DoubledCompares
  <2> QED
    BY <1>5, <1>7, <2>2, <2>3
<1>8. CASE KeyOf(e).p # 0
  <2>1. g = Grid(e.o[s])
    BY <1>1 DEF Grid, GridIn
  <2>2. Allows(e, x, m) => m \in DOMAIN g
    <3>1. Holds(e, b) => HasOperand(e.o[s], b)
      BY <1>1 DEF Holds, Comparators
    <3>2. HasOperand(e.o[s], b) => m \in DOMAIN g
      BY <1>1, <1>3, <1>8, <2>1 DEF HasOperand
    <3> QED
      BY <1>5, <3>1, <3>2
  <2>3. ASSUME m \in DOMAIN g PROVE Allows(e, x, m) <=> Compare(BoundOp(e), g[m], k)
    <3>1. g[m] \in Int
      BY <1>1, <1>8, <2>3 DEF IsProperty, Small
    <3>2. 2 * k \in Int
      BY <1>2
    <3>3. Holds(e, b) <=> m \in DOMAIN g /\ Compare(BoundOp(e), 2 * g[m], 2 * k)
      BY <1>1, <1>3, <1>6, <1>8, <2>1, <3>1, <3>2, HoldsOfValue
    <3>4. Compare(BoundOp(e), 2 * g[m], 2 * k) <=> Compare(BoundOp(e), g[m], k)
      BY <1>1, <1>2, <3>1, DoubledCompares
    <3> QED
      BY <1>5, <2>3, <3>3, <3>4
  <2> QED
    BY <1>8, <2>2, <2>3
<1> QED
  BY <1>7, <1>8

\* A range of ids answers the least id within its bounds.
LEMMA IdRangeAnswers ==
  ASSUME index \in Indexes, NEW it, RangeItOK(it, index, Comparisons), it.key.p = 0,
         \A e \in Comparisons : IsComparison(e, index),
         NEW x, x = it.key.x, NEW n \in Nat \ {0}
  PROVE  InRange(x, Answer(it, x, n)) = RightAnswer(it, x, n)
<1> DEFINE M == MaxId(x)
           S == RightSet(it, x)
           es == RangesOn(Comparisons, it.key)
           a == Answer(it, x, n)
<1>1. it.kind = "idRange" /\ Meaning(it) = es
  BY DEF RangeItOK, Meaning, RangesOn
<1>2. PICK r \in RangeRecords :
        /\ RangeOf(r, es) /\ IsValid(r)
        /\ it.lo = LowEnd(index, it.key, r) /\ it.hi = HighEnd(index, it.key, r)
  BY DEF RangeItOK
<1>3. M \in Nat /\ n \in Nat /\ n >= 1
  BY MaxIdIsNat
<1>4. r.lo \in Int /\ r.hi \in Int /\ r.hasLo \in BOOLEAN /\ r.hasHi \in BOOLEAN
  BY WidthAssumption DEF RangeRecords
<1>5. /\ it.lo = IF r.hasLo THEN r.lo ELSE 1
      /\ it.hi = IF r.hasHi THEN r.hi ELSE M
  BY <1>2 DEF LowEnd, HighEnd
<1>6. \A e \in es : /\ IsComparison(e, index) /\ IsRange(e) /\ KeyOf(e).p = 0 /\ KeyOf(e).x = x
                    /\ BoundOp(e) \in Bounds /\ IsNumber(Limit(e))
  BY RangeOperands DEF RangesOn
<1>7. ASSUME NEW m \in 1 .. M PROVE m \in S <=> it.lo <= m /\ m <= it.hi
  <2>1. \A e \in es : Allows(e, x, m) <=> Compare(BoundOp(e), m, Limit(e).k)
    BY <1>6, RangeAllows
  <2>2. m \in S <=> \A e \in es : Compare(BoundOp(e), m, Limit(e).k)
    BY <1>1, <2>1 DEF RightSet
  <2> HIDE DEF S, es
  <2>3. m \in S <=> InBounds(r, m)
    BY <1>2, <1>6, <2>2, RangeMeans
  <2> QED
    BY <1>3, <1>4, <1>5, <2>3 DEF InBounds
<1>8. S \in SUBSET (Nat \ {0}) /\ S \subseteq 1 .. M
  BY DEF RightSet
<1>9. RightAnswer(it, x, n) = LeastFrom(S, n)
  BY DEF RightAnswer, RightSet
<1>10. a = IF n < it.lo THEN it.lo ELSE IF n > it.hi THEN 0 ELSE n
  BY <1>1 DEF Answer
<1>11. it.lo \in Int /\ it.hi \in Int
  BY <1>3, <1>4, <1>5
<1>12. n < it.lo => it.lo <= it.hi \/ it.hi = M
  BY <1>2, <1>3, <1>5 DEF IsValid
<1>13. InRange(x, a) = IF a > M THEN 0 ELSE a
  BY DEF InRange
<1>14. \A m \in S : m \in 1 .. M /\ m \in Int /\ it.lo <= m /\ m <= it.hi
  BY <1>7, <1>8
<1> HIDE DEF S, M, a
<1>15. CASE n < it.lo /\ it.lo <= M
  <2>1. it.lo \in 1 .. M /\ it.lo <= it.hi
    BY <1>3, <1>11, <1>12, <1>15
  <2>2. it.lo \in S
    BY <1>7, <1>11, <2>1
  <2>3. LeastFrom(S, n) = it.lo
    BY <1>3, <1>8, <1>11, <1>14, <1>15, <2>2, LeastIs
  <2> QED
    BY <1>3, <1>9, <1>10, <1>11, <1>13, <1>15, <2>3 DEF a
<1>16. CASE n < it.lo /\ ~(it.lo <= M)
  <2>1. \A m \in S : FALSE
    BY <1>3, <1>11, <1>14, <1>16
  <2>2. LeastFrom(S, n) = 0
    BY <1>3, <1>8, <2>1, LeastIs
  <2> QED
    BY <1>3, <1>9, <1>10, <1>11, <1>13, <1>16, <2>2 DEF a
<1>17. CASE ~(n < it.lo) /\ (n > it.hi \/ n > M)
  <2>1. \A m \in S : ~(n <= m)
    BY <1>3, <1>11, <1>14, <1>17
  <2>2. LeastFrom(S, n) = 0
    BY <1>3, <1>8, <2>1, LeastIs
  <2> QED
    BY <1>3, <1>9, <1>10, <1>11, <1>13, <1>17, <2>2 DEF a
<1>18. CASE ~(n < it.lo) /\ ~(n > it.hi \/ n > M)
  <2>1. n \in 1 .. M /\ it.lo <= n /\ n <= it.hi
    BY <1>3, <1>11, <1>18
  <2>2. n \in S
    BY <1>7, <2>1
  <2>3. LeastFrom(S, n) = n
    BY <1>8, <2>2, LeastFromHere
  <2> QED
    BY <1>3, <1>9, <1>10, <1>11, <1>13, <1>18, <2>3 DEF a
<1> QED
  BY <1>15, <1>16, <1>17, <1>18

\* The ends of a range of values are such that the width can tell from the values.
LEMMA EndsAreDistant ==
  ASSUME NEW g, NEW M \in Nat, IsProperty(g, M), NEW es,
         \A e \in es : /\ BoundOp(e) \in Bounds /\ IsNumber(Limit(e))
                       /\ Reaches(g, Limit(e).k, BoundOp(e)),
         NEW r, RangeOf(r, es)
  PROVE  /\ Distant(g, IF r.hasLo THEN r.lo ELSE MinVal(g))
         /\ Distant(g, IF r.hasHi THEN r.hi ELSE MaxVal(g))
<1>1. /\ MinVal(g) \in Int /\ MaxVal(g) \in Int /\ Small(MinVal(g)) /\ Small(MaxVal(g))
      /\ MinVal(g) <= MaxVal(g) /\ MaxVal(g) - MinVal(g) + 1 < W
  BY PropertyIsGrid, Extremes
<1>2. Distant(g, MinVal(g)) /\ Distant(g, MaxVal(g))
  BY <1>1, WidthAssumption DEF Distant
<1>3. ASSUME NEW e \in es PROVE Distant(g, BoundOf(e))
  <2> DEFINE k == Limit(e).k
  <2>1. k \in Nat \ {0} /\ 2 * k <= W - 4 /\ BoundOp(e) \in Bounds /\ Reaches(g, k, BoundOp(e))
    BY <1>3 DEF IsNumber, Small
  <2>2. BoundOf(e) = IF BoundOp(e) = "GT" THEN k + 1 ELSE IF BoundOp(e) = "ST" THEN k - 1 ELSE k
    BY <1>3, BoundMeans
  <2>3. 4 - W <= 2 * MinVal(g)
    BY <1>1 DEF Small
  <2> HIDE DEF k
  <2>4. k \in Int /\ k + 1 < MinVal(g) - 1 + W /\ k < MinVal(g) - 1 + W /\ k - 1 < MinVal(g) - 1 + W
    BY <1>1, <2>1, <2>3, WidthAssumption
  <2>5. CASE BoundOp(e) = "GT"
    BY <1>1, <2>1, <2>2, <2>4, <2>5 DEF Reaches, Distant
  <2>6. CASE BoundOp(e) = "GE"
    BY <1>1, <2>1, <2>2, <2>4, <2>6 DEF Reaches, Distant
  <2>7. CASE BoundOp(e) = "ST"
    BY <1>1, <2>1, <2>2, <2>4, <2>7 DEF Reaches, Distant
  <2>8. CASE BoundOp(e) = "SE"
    BY <1>1, <2>1, <2>2, <2>4, <2>8 DEF Reaches, Distant
  <2> QED
    BY <2>1, <2>5, <2>6, <2>7, <2>8 DEF Bounds
<1>4. r.hasLo => Distant(g, r.lo)
  BY <1>3 DEF RangeOf
<1>5. r.hasHi => Distant(g, r.hi)
  BY <1>3 DEF RangeOf
<1> QED
  BY <1>2, <1>4, <1>5

\* A range of values answers the least id whose value is within its bounds.
LEMMA RangeAnswers ==
  ASSUME index \in Indexes, NEW it, RangeItOK(it, index, Comparisons), it.key.p # 0,
         \A e \in Comparisons : IsComparison(e, index),
         NEW x, x = it.key.x, NEW n \in Nat \ {0}, Within(it, x)
  PROVE  InRange(x, Answer(it, x, n)) = RightAnswer(it, x, n)
<1> DEFINE M == MaxId(x)
           S == RightSet(it, x)
           es == RangesOn(Comparisons, it.key)
           a == Answer(it, x, n)
           g == Grid(it.key)
<1>1. it.kind = "range" /\ Meaning(it) = es /\ it.elements = M
  BY DEF RangeItOK, Meaning, RangesOn
<1>2. PICK r \in RangeRecords :
        RangeOf(r, es) /\ it.lo = LowEnd(index, it.key, r) /\ it.hi = HighEnd(index, it.key, r)
  BY DEF RangeItOK
<1>3. M \in Nat /\ n \in Int
  BY MaxIdIsNat
<1>4. r.lo \in Int /\ r.hi \in Int /\ r.hasLo \in BOOLEAN /\ r.hasHi \in BOOLEAN
  BY WidthAssumption DEF RangeRecords
<1>5. /\ it.lo = IF r.hasLo THEN r.lo ELSE MinVal(g)
      /\ it.hi = IF r.hasHi THEN r.hi ELSE MaxVal(g)
  BY <1>2 DEF LowEnd, HighEnd, Grid
<1>6. \A e \in es : /\ IsComparison(e, index) /\ IsRange(e) /\ KeyOf(e) = it.key /\ KeyOf(e).x = x
                    /\ KeyOf(e).p # 0 /\ BoundOp(e) \in Bounds /\ IsProperty(g, M)
                    /\ Limit(e).k \in Int /\ Small(Limit(e).k)
  BY RangeOperands DEF RangesOn, Grid
<1>7. \A e \in es : IsNumber(Limit(e)) /\ Reaches(g, Limit(e).k, BoundOp(e))
  <2>1. \A e \in es : Limit(e).at = "num" /\ Limit(e).k > 0 /\ Reaches(g, Limit(e).k, BoundOp(e))
    BY <1>1 DEF Within, Limit, BoundOp
  <2> QED
    BY <1>6, <2>1 DEF IsNumber
<1>8. IsProperty(g, M) /\ \E e \in es : TRUE
  <2>1. es # {}
    BY DEF RangeItOK
  <2> QED
    BY <1>6, <2>1
<1>9. /\ IsGrid(g) /\ DOMAIN g \subseteq 1 .. M
      /\ \A m \in DOMAIN g : g[m] \in Int /\ MinVal(g) <= g[m] /\ g[m] <= MaxVal(g)
  BY <1>3, <1>8, PropertyIsGrid
<1>10. Distant(g, it.lo) /\ Distant(g, it.hi)
  <2> HIDE DEF g, es, M
  <2> QED
    BY <1>2, <1>3, <1>5, <1>6, <1>7, <1>8, EndsAreDistant
<1>11. ASSUME NEW m \in 1 .. M PROVE m \in S <=> m \in DOMAIN g /\ it.lo <= g[m] /\ g[m] <= it.hi
  <2>1. \A e \in es : Allows(e, x, m) <=> m \in DOMAIN g /\ Compare(BoundOp(e), g[m], Limit(e).k)
    BY <1>6, <1>7, RangeAllows
  <2>2. m \in S <=> \A e \in es : m \in DOMAIN g /\ Compare(BoundOp(e), g[m], Limit(e).k)
    BY <1>1, <2>1 DEF RightSet
  <2> HIDE DEF S, es, g
  <2>3. m \in S <=> m \in DOMAIN g /\ \A e \in es : Compare(BoundOp(e), g[m], Limit(e).k)
    BY <1>8, <2>2
  <2>4. CASE m \in DOMAIN g
    <3>1. m \in S <=> InBounds(r, g[m])
      BY <1>2, <1>6, <1>7, <1>9, <2>3, <2>4, RangeMeans
    <3> QED
      BY <1>4, <1>5, <1>9, <2>4, <3>1 DEF InBounds
  <2> QED
    BY <2>3, <2>4
<1>12. S = {m \in DOMAIN g : it.lo <= g[m] /\ g[m] <= it.hi}
  <2>1. S \subseteq 1 .. M
    BY DEF RightSet
  <2> HIDE DEF S, g, M
  <2> QED
    BY <1>9, <1>11, <2>1
<1>13. NextInRange(g, n, it.lo, it.hi).id = LeastFrom(S, n)
  <2> HIDE DEF S, g
  <2> QED
    BY <1>9, <1>10, <1>12, NextInRangeAnswers
<1>14. a = LeastFrom(S, n)
  <2>1. a = IF n > M THEN 0 ELSE NextInRange(g, n, it.lo, it.hi).id
    BY <1>1 DEF Answer
  <2>2. n > M => LeastFrom(S, n) = 0
    BY RightBeyond
  <2> QED
    BY <1>13, <2>1, <2>2
<1> QED
  BY <1>14, RightWhenEqual

\* Whatever the iterator, a leap answers the least id that its comparisons allow.
LEMMA IteratorAnswers ==
  ASSUME index \in Indexes, \A e \in Comparisons : IsComparison(e, index), PathOK(path),
         NEW it, IterOK(it, index, Comparisons, path),
         NEW x \in VarsOf(it), ~On(path, x), NEW n \in Nat \ {0}, Within(it, x)
  PROVE  InRange(x, Answer(it, x, n)) = RightAnswer(it, x, n)
<1>1. CASE RangeItOK(it, index, Comparisons)
  <2>1. x = it.key.x
    BY <1>1 DEF VarsOf, RangeItOK
  <2> QED
    BY <1>1, <2>1, IdRangeAnswers, RangeAnswers
<1>2. CASE IndividualOK(it, index, Comparisons, path)
  <2>1. it.kind = "comp" \/ it.kind = "compId"
    BY <1>2 DEF IndividualOK, Individuals
  <2> QED
    BY <1>2, <2>1, CompAnswers, CompIdAnswers
<1> QED
  BY <1>1, <1>2 DEF IterOK

-----------------------------------------------------------------------------
(***************************************************************************)
(* Sequences of iterators                                                  *)
(***************************************************************************)
\* A function on 1 .. n is a sequence of its own values.
LEMMA OwnSeq ==
  ASSUME NEW f, NEW n \in Nat, DOMAIN f = 1 .. n, f = [k \in 1 .. n |-> f[k]]
  PROVE  f \in Seq(ToSet(f))
<1>1. \A k \in 1 .. n : f[k] \in ToSet(f)
  BY DEF ToSet
<1> DEFINE T == ToSet(f)
<1> HIDE DEF T
<1>2. f \in [1 .. n -> T]
  BY <1>1 DEF T
<1>3. f \in Seq(T)
  BY <1>2
<1> QED
  BY <1>3 DEF T

\* Where the elements of a sequence are.
LEMMA SeqShape ==
  ASSUME NEW f, f \in Seq(ToSet(f))
  PROVE  Len(f) \in Nat /\ DOMAIN f = 1 .. Len(f)
<1> DEFINE T == ToSet(f)
<1> HIDE DEF T
<1>1. f \in Seq(T)
  BY DEF T
<1> QED
  BY <1>1

\* A sequence of elements of a set is one of its own values.
LEMMA SeqIsOwn ==
  ASSUME NEW T, NEW f \in Seq(T)
  PROVE  f \in Seq(ToSet(f))
<1>1. Len(f) \in Nat /\ DOMAIN f = 1 .. Len(f) /\ f = [k \in 1 .. Len(f) |-> f[k]]
  OBVIOUS
<1> QED
  BY <1>1, OwnSeq

\* One iterator more.
WithLast(f, a) == Append(f, a)

\* Appending an element adds it to the values.
LEMMA AppendOwn ==
  ASSUME NEW f, f \in Seq(ToSet(f)), NEW a, NEW g, g = WithLast(f, a)
  PROVE  /\ g \in Seq(ToSet(g))
         /\ \A k \in DOMAIN g : (k \in DOMAIN f /\ g[k] = f[k]) \/ g[k] = a
<1> DEFINE T == ToSet(f) \union {a}
<1>1. ToSet(f) \subseteq T /\ a \in T
  OBVIOUS
<1> HIDE DEF T
<1>2. f \in Seq(T)
  BY <1>1, SeqMonotonic
<1>3. g \in Seq(T) /\ Len(g) = Len(f) + 1 /\ Len(f) \in Nat /\ DOMAIN f = 1 .. Len(f)
      /\ DOMAIN g = 1 .. Len(f) + 1 /\ g[Len(f) + 1] = a /\ \A k \in 1 .. Len(f) : g[k] = f[k]
  BY <1>1, <1>2 DEF WithLast
<1>4. g \in Seq(ToSet(g))
  BY <1>3, SeqIsOwn
<1>5. \A k \in DOMAIN g : (k \in DOMAIN f /\ g[k] = f[k]) \/ g[k] = a
  <2> TAKE k \in DOMAIN g
  <2>1. k \in 1 .. Len(f) \/ k = Len(f) + 1
    BY <1>3
  <2> QED
    BY <1>3, <2>1
<1> QED
  BY <1>4, <1>5

\* The iterators of the ranges come after the others.
Joined(f, h) == f \o h

\* A concatenation has the values of both.
LEMMA ConcatOwn ==
  ASSUME NEW f, f \in Seq(ToSet(f)), NEW T, NEW h \in Seq(T), NEW g, g = Joined(f, h)
  PROVE  /\ g \in Seq(ToSet(g))
         /\ \A k \in DOMAIN g : (k \in DOMAIN f /\ g[k] = f[k]) \/ g[k] \in T
<1> DEFINE U == ToSet(f) \union T
<1>1. ToSet(f) \subseteq U /\ T \subseteq U
  OBVIOUS
<1> HIDE DEF U
<1>2. f \in Seq(U) /\ h \in Seq(U)
  BY <1>1, SeqMonotonic
<1>3. /\ g \in Seq(U) /\ Len(g) = Len(f) + Len(h) /\ Len(f) \in Nat /\ Len(h) \in Nat
      /\ DOMAIN f = 1 .. Len(f) /\ DOMAIN g = 1 .. Len(f) + Len(h) /\ DOMAIN h = 1 .. Len(h)
      /\ \A k \in 1 .. Len(f) + Len(h) : g[k] = IF k <= Len(f) THEN f[k] ELSE h[k - Len(f)]
  BY <1>2, ConcatProperties DEF Joined
<1>4. g \in Seq(ToSet(g))
  BY <1>3, SeqIsOwn
<1>5. \A k \in DOMAIN g : (k \in DOMAIN f /\ g[k] = f[k]) \/ g[k] \in T
  <2> TAKE k \in DOMAIN g
  <2>1. CASE k <= Len(f)
    BY <1>3, <2>1
  <2>2. CASE ~(k <= Len(f))
    <3>1. k - Len(f) \in 1 .. Len(h)
      BY <1>3, <2>2
    <3>2. h[k - Len(f)] \in T
      BY <3>1, ElementOfSeq
    <3> QED
      BY <1>3, <2>2, <3>2
  <2> QED
    BY <2>1, <2>2
<1> QED
  BY <1>4, <1>5

\* The iterators of the ranges, in some order.
LEMMA ListedRanges ==
  ASSUME NEW D, IsFiniteSet(D), NEW rs, NEW T, T = {RangeIterator(key, rs[key]) : key \in D}
  PROVE  SetToSeq(T) \in Seq(T)
<1>1. IsFiniteSet(T)
  <2> DEFINE f == [key \in D |-> RangeIterator(key, rs[key])]
  <2>1. f \in [D -> T] /\ \A t \in T : \E key \in D : f[key] = t
    OBVIOUS
  <2>2. f \in Surjection(D, T)
    BY <2>1 DEF Surjection
  <2> QED
    BY <2>2, FS_Surjection
<1> DEFINE n == Cardinality(T)
<1>2. n \in Nat /\ ExistsBijection(1 .. n, T)
  BY <1>1, FS_CardinalityType
<1>3. \E f \in [1 .. n -> T] : IsInjective(f)
  BY <1>2 DEF ExistsBijection, Bijection, Injection
<1>4. SetToSeq(T) \in [1 .. n -> T]
  BY <1>3 DEF SetToSeq
<1> HIDE DEF n
<1> QED
  BY <1>2, <1>4

-----------------------------------------------------------------------------
(***************************************************************************)
(* The ranges collected                                                    *)
(***************************************************************************)
\* process_where_expression adds a bound to the end that it is of.
LEMMA AddedBound ==
  ASSUME NEW r, NEW e, BoundOp(e) \in Bounds
  PROVE  AddToRange(r, e) = IF IsLower(e) THEN Raised(r, BoundOf(e)) ELSE Lowered(r, BoundOf(e))
<1>1. CASE BoundOp(e) = "GT"
  BY <1>1 DEF AddToRange, BoundOp, IsLower, BoundOf
<1>2. CASE BoundOp(e) = "GE"
  BY <1>2 DEF AddToRange, BoundOp, IsLower, BoundOf
<1>3. CASE BoundOp(e) = "ST"
  BY <1>3 DEF AddToRange, BoundOp, IsLower, BoundOf
<1>4. CASE BoundOp(e) = "SE"
  BY <1>4 DEF AddToRange, BoundOp, IsLower, BoundOf
<1> QED
  BY <1>1, <1>2, <1>3, <1>4 DEF Bounds

\* The range with the bound is that of the comparisons with the new one.
LEMMA BoundAdded ==
  ASSUME NEW es, NEW e, BoundOp(e) \in Bounds, \A f \in es \union {e} : BoundOf(f) \in 0 .. W - 1,
         NEW r, RangeOf(r, es)
  PROVE  RangeOf(AddToRange(r, e), es \union {e})
<1> DEFINE q == AddToRange(r, e)
           v == BoundOf(e)
<1>1. /\ r.lo \in 0 .. W - 1 /\ r.hi \in 0 .. W - 1 /\ r.hasLo \in BOOLEAN /\ r.hasHi \in BOOLEAN
      /\ r = [lo |-> r.lo, hi |-> r.hi, hasLo |-> r.hasLo, hasHi |-> r.hasHi]
      /\ v \in 0 .. W - 1 /\ W \in Int /\ \A f \in es : BoundOf(f) \in Int
  BY WidthAssumption DEF RangeOf, RangeRecords
<1>2. CASE IsLower(e)
  <2>1. q = Raised(r, v)
    BY <1>2, AddedBound
  <2> DEFINE l == IF r.hasLo /\ r.lo > v THEN r.lo ELSE v
  <2>2. q = [lo |-> l, hi |-> r.hi, hasLo |-> TRUE, hasHi |-> r.hasHi]
    BY <1>1, <2>1 DEF Raised
  <2>3. l \in 0 .. W - 1 /\ v <= l /\ (r.hasLo => r.lo <= l) /\ (l = v \/ (r.hasLo /\ l = r.lo))
    BY <1>1
  <2> HIDE DEF q, l, v
  <2>4. q.lo = l /\ q.hi = r.hi /\ q.hasLo = TRUE /\ q.hasHi = r.hasHi
    BY <2>2
  <2>5. q \in RangeRecords
    BY <1>1, <2>2, <2>3 DEF RangeRecords
  <2>6. \E f \in es \union {e} : IsLower(f) /\ q.lo = BoundOf(f)
    BY <1>2, <2>3, <2>4 DEF RangeOf, v
  <2>7. q.hasHi <=> \E f \in es \union {e} : ~IsLower(f)
    BY <1>2, <2>4 DEF RangeOf
  <2>8. q.hasHi => \E f \in es \union {e} : ~IsLower(f) /\ q.hi = BoundOf(f)
    BY <2>4 DEF RangeOf
  <2>9. \A f \in es \union {e} : IF IsLower(f) THEN BoundOf(f) <= q.lo ELSE q.hi <= BoundOf(f)
    <3> TAKE f \in es \union {e}
    <3>1. CASE f = e
      BY <1>2, <2>3, <2>4, <3>1 DEF v
    <3>2. CASE f \in es /\ IsLower(f)
      <4>1. r.hasLo /\ BoundOf(f) <= r.lo
        BY <3>2 DEF RangeOf
      <4> QED
        BY <1>1, <2>3, <2>4, <3>2, <4>1
    <3>3. CASE f \in es /\ ~IsLower(f)
      BY <2>4, <3>3 DEF RangeOf
    <3> QED
      BY <3>1, <3>2, <3>3
  <2> QED
    BY <1>2, <2>4, <2>5, <2>6, <2>7, <2>8, <2>9 DEF RangeOf, q
<1>3. CASE ~IsLower(e)
  <2>1. q = Lowered(r, v)
    BY <1>3, AddedBound
  <2> DEFINE h == IF r.hasHi /\ r.hi < v THEN r.hi ELSE v
  <2>2. q = [lo |-> r.lo, hi |-> h, hasLo |-> r.hasLo, hasHi |-> TRUE]
    BY <1>1, <2>1 DEF Lowered
  <2>3. h \in 0 .. W - 1 /\ h <= v /\ (r.hasHi => h <= r.hi) /\ (h = v \/ (r.hasHi /\ h = r.hi))
    BY <1>1
  <2> HIDE DEF q, h, v
  <2>4. q.lo = r.lo /\ q.hi = h /\ q.hasLo = r.hasLo /\ q.hasHi = TRUE
    BY <2>2
  <2>5. q \in RangeRecords
    BY <1>1, <2>2, <2>3 DEF RangeRecords
  <2>6. \E f \in es \union {e} : ~IsLower(f) /\ q.hi = BoundOf(f)
    BY <1>3, <2>3, <2>4 DEF RangeOf, v
  <2>7. q.hasLo <=> \E f \in es \union {e} : IsLower(f)
    BY <1>3, <2>4 DEF RangeOf
  <2>8. q.hasLo => \E f \in es \union {e} : IsLower(f) /\ q.lo = BoundOf(f)
    BY <2>4 DEF RangeOf
  <2>9. \A f \in es \union {e} : IF IsLower(f) THEN BoundOf(f) <= q.lo ELSE q.hi <= BoundOf(f)
    <3> TAKE f \in es \union {e}
    <3>1. CASE f = e
      BY <1>3, <2>3, <2>4, <3>1 DEF v
    <3>2. CASE f \in es /\ ~IsLower(f)
      <4>1. r.hasHi /\ r.hi <= BoundOf(f)
        BY <3>2 DEF RangeOf
      <4> QED
        BY <1>1, <2>3, <2>4, <3>2, <4>1
    <3>3. CASE f \in es /\ IsLower(f)
      BY <2>4, <3>3 DEF RangeOf
    <3> QED
      BY <3>1, <3>2, <3>3
  <2> QED
    BY <1>3, <2>4, <2>5, <2>6, <2>7, <2>8, <2>9 DEF RangeOf, q
<1> QED
  BY <1>2, <1>3

\* A range starts without bounds.
LEMMA RangeStarts ==
  RangeOf(NoRange, {})
<1>1. W \in Nat /\ W > 1
  BY WidthAssumption, WhereAssumption
<1>2. NoRange \in RangeRecords
  BY <1>1 DEF NoRange, RangeRecords
<1> QED
  BY <1>2 DEF RangeOf, NoRange

-----------------------------------------------------------------------------
(***************************************************************************)
(* What is right depends on the index, the clause and the path             *)
(***************************************************************************)
\* While these stay, so does the right answer to a question.
LEMMA SameRight ==
  ASSUME index' = index, where' = where, path' = path
  PROVE  /\ \A it, x, n : RightAnswer(it, x, n)' = RightAnswer(it, x, n)
         /\ \A it, x : Within(it, x)' <=> Within(it, x)
<1>1. \A o : Grid(o)' = Grid(o)
  BY DEF Grid, GridIn
<1>2. \A o, b : (HasOperand(o, b)' <=> HasOperand(o, b)) /\ Doubled(o, b)' = Doubled(o, b)
  <2> TAKE o, b
  <2>1. Grid(o)' = Grid(o)
    BY <1>1
  <2> QED
    BY <2>1 DEF HasOperand, Doubled
<1>3. \A e, b : Holds(e, b)' <=> Holds(e, b)
  <2> TAKE e, b
  <2>1. \A k \in 1 .. 2 : /\ HasOperand(e.o[k], b)' <=> HasOperand(e.o[k], b)
                          /\ Doubled(e.o[k], b)' = Doubled(e.o[k], b)
    BY <1>2
  <2> QED
    BY <2>1 DEF Holds
<1>4. \A x, n : Assigned(x, n)' = Assigned(x, n)
  BY DEF Assigned, Bound, PathId
<1>5. \A e, x, n : Allows(e, x, n)' <=> Allows(e, x, n)
  <2> TAKE e, x, n
  <2>1. \A b : Holds(e, b)' <=> Holds(e, b)
    BY <1>3
  <2>2. \A b : \A k \in 1 .. 2 : HasOperand(e.o[k], b)' <=> HasOperand(e.o[k], b)
    BY <1>2
  <2>3. Assigned(x, n)' = Assigned(x, n)
    BY <1>4
  <2> QED
    BY <2>1, <2>2, <2>3 DEF Allows
<1>6. \A it : Meaning(it)' = Meaning(it)
  BY DEF Meaning, Comparisons
<1>7. ASSUME NEW it, NEW x, NEW n PROVE RightAnswer(it, x, n)' = RightAnswer(it, x, n)
  <2> DEFINE S == {m \in 1 .. MaxId(x) : \A e \in Meaning(it) : Allows(e, x, m)}
  <2>1. RightAnswer(it, x, n) = LeastFrom(S, n)
    BY DEF RightAnswer
  <2>2. RightAnswer(it, x, n)' = LeastFrom(S', n)
    BY DEF RightAnswer
  <2>3. \A m \in 1 .. MaxId(x) :
          (\A e \in Meaning(it)' : Allows(e, x, m)') <=> (\A e \in Meaning(it) : Allows(e, x, m))
    BY <1>5, <1>6
  <2>4. S' = S
    BY <2>3
  <2> QED
    BY <2>1, <2>2, <2>4
<1>8. ASSUME NEW it, NEW x PROVE Within(it, x)' <=> Within(it, x)
  <2>1. \A g, v, op : Reaches(g, v, op)' <=> Reaches(g, v, op)
    BY DEF Reaches
  <2>2. \A k \in 1 .. 2 : Grid(it.e.o[k])' = Grid(it.e.o[k])
    BY <1>1
  <2>3. Grid(it.key)' = Grid(it.key) /\ Meaning(it)' = Meaning(it)
    BY <1>1, <1>6
  <2>4. Side(it, x) \in 1 .. 2
    BY DEF Side
  <2> QED
    BY <2>2, <2>3, <2>4 DEF Within
<1> QED
  BY <1>7, <1>8

\* The pairs an iterator of properties keeps are not what it stands for.
LEMMA LeapMeans ==
  ASSUME NEW ix, NEW cs, NEW p, NEW it, IterOK(it, ix, cs, p), NEW y, NEW m,
         NEW r, r = AfterLeap(it, y, m)
  PROVE  /\ \A x, n : RightAnswer(r, x, n) = RightAnswer(it, x, n)
         /\ \A x : Within(r, x) => Within(it, x)
<1>1. CASE it.kind # "comp"
  BY <1>1 DEF AfterLeap
<1>2. CASE it.kind = "comp"
  <2>1. it \in Individuals(cs)
    BY <1>2, KindsOf DEF IndividualOK
  <2>2. r = [it EXCEPT !.idval = Sought(it, y, m)]
    BY <1>2 DEF AfterLeap
  <2>3. /\ r.kind = it.kind /\ r.e = it.e /\ r.elements = it.elements
        /\ r.nfixed = it.nfixed /\ r.fixed = it.fixed
    BY <2>1, <2>2 DEF Individuals
  <2>4. Meaning(r) = Meaning(it)
    BY <1>2, <2>3 DEF Meaning
  <2>5. \A x, n : RightAnswer(r, x, n) = RightAnswer(it, x, n)
    BY <2>4 DEF RightAnswer
  <2>6. \A x : Within(r, x) <=> Within(it, x)
    BY <1>2, <2>3 DEF Within, Side, SameVar
  <2> QED
    BY <2>5, <2>6
<1> QED
  BY <1>1, <1>2

-----------------------------------------------------------------------------
(***************************************************************************)
(* The invariant                                                           *)
(***************************************************************************)
\* Before a question nothing is answered.
LEMMA NothingAsked ==
  DOMAIN NoQuestion.ans = {}
BY DEF NoQuestion

\* The comparisons of a clause, by both names.
LEMMA ClauseComparisons ==
  Comparisons = Comps(where)
BY DEF Comparisons, Comps

\* The constructor starts with all comparisons to process.
LEMMA InvStarts ==
  ASSUME Init
  PROVE  IInv
<1>1. /\ index \in Indexes /\ where \in Wheres /\ ranges = <<>> /\ iters = <<>> /\ isEmpty = FALSE
      /\ pc = "build" /\ path = <<>> /\ ret = NoQuestion
      /\ args = IF where.type = "WAND" THEN where.args ELSE <<>>
  BY DEF Init
<1>2. args \in Seq(Comps(where))
  <2>1. CASE where.type = "WAND"
    BY <1>1, <2>1, ClauseOfComparisons
  <2>2. CASE where.type # "WAND"
    BY <1>1, <2>2
  <2> QED
    BY <2>1, <2>2
<1>3. DOMAIN ranges = {} /\ IsFiniteSet(DOMAIN ranges)
  <2>1. DOMAIN ranges = {}
    BY <1>1
  <2> QED
    BY <2>1, FS_EmptySet
<1>4. where.type = "WAND" => Collected(ranges, where, args)
  <2> SUFFICES ASSUME where.type = "WAND" PROVE Collected(ranges, where, args)
    OBVIOUS
  <2>1. Comps(where) = {} \union ToSet(args)
    BY <1>1 DEF Comps
  <2>2. DOMAIN ranges = {KeyOf(e) : e \in {f \in {} : IsRange(f)}}
    BY <1>3
  <2>3. \A key \in DOMAIN ranges : RangeOf(ranges[key], RangesOn({}, key))
    BY <1>3
  <2> QED
    BY <2>1, <2>2, <2>3 DEF Collected
<1>5. Building
  BY <1>1, <1>2, <1>3, <1>4 DEF Building
<1>6. iters \in Seq(ToSet(iters)) /\ DOMAIN iters = {}
  BY <1>1
<1>7. PathOK(path)
  BY <1>1, PathStarts
<1>8. AnswersLeastAllowed
  BY <1>1, NothingAsked DEF AnswersLeastAllowed
<1> QED
  BY <1>1, <1>5, <1>6, <1>7, <1>8 DEF IInv

\* A leap answers what it should, and keeps what the next move needs.
LEMMA LeapKeepsInv ==
  ASSUME IInv, NEW x \in NodeVars \union EdgeVars, NEW n \in 1 .. MaxId(x) + 1, Leap(x, n)
  PROVE  IInv'
<1>1. /\ index \in Indexes /\ where \in Wheres /\ isEmpty \in BOOLEAN /\ ranges = <<>>
      /\ iters \in Seq(ToSet(iters)) /\ PathOK(path) /\ (isEmpty => GivenUp(where))
      /\ \A j \in DOMAIN iters : IterOK(iters[j], index, Comps(where), path)
      /\ pc = "join" /\ x \in Variables /\ ~OnPath(x)
  BY DEF IInv, Leap
<1>2. /\ ret' = [x |-> x, n |-> n, ans |-> [k \in Asked(x) |-> Answer(iters[k], x, n)]]
      /\ iters' = [k \in DOMAIN iters |->
                     IF k \in Asked(x) THEN AfterLeap(iters[k], x, n) ELSE iters[k]]
      /\ index' = index /\ where' = where /\ args' = args /\ ranges' = ranges
      /\ isEmpty' = isEmpty /\ pc' = pc /\ path' = path
  BY DEF Leap
<1>3. n \in Nat \ {0} /\ x \in AllVars /\ x # "const" /\ ~On(path, x)
  <2>1. MaxId(x) \in Nat
    BY MaxIdIsNat
  <2> QED
    BY <1>1, <2>1, WhereAssumption DEF AllVars, On, OnPath
<1>4. \A k : k \in Asked(x) <=> k \in DOMAIN iters /\ x \in VarsOf(iters[k])
  BY DEF Asked
<1>5. /\ Comparisons = Comps(where) /\ \A e \in Comps(where) : IsComparison(e, index)
  BY <1>1, ClauseComparisons, ClauseOfComparisons
<1>6. Len(iters) \in Nat /\ DOMAIN iters = 1 .. Len(iters)
  BY <1>1, SeqShape
<1>7. DOMAIN iters' = DOMAIN iters /\ iters' \in Seq(ToSet(iters'))
  <2>1. DOMAIN iters' = 1 .. Len(iters) /\ iters' = [k \in 1 .. Len(iters) |-> iters'[k]]
    BY <1>2, <1>6
  <2> QED
    BY <1>6, <2>1, OwnSeq
<1>8. ASSUME NEW j \in DOMAIN iters
      PROVE  /\ IterOK(iters'[j], index, Comps(where), path)
             /\ VarsOf(iters'[j]) = VarsOf(iters[j])
             /\ j \in Asked(x) /\ Answer(iters[j], x, n) = n => KeepsPairs(iters'[j], index, x, n)
  <2>1. CASE j \in Asked(x)
    <3>1. iters'[j] = AfterLeap(iters[j], x, n) /\ x \in VarsOf(iters[j])
      BY <1>2, <1>4, <1>8, <2>1
    <3> QED
      BY <1>1, <1>3, <1>5, <1>8, <3>1, LeapHolds
  <2>2. CASE j \notin Asked(x)
    BY <1>1, <1>2, <1>8, <2>2
  <2> QED
    BY <2>1, <2>2
<1>9. ret'.x = x /\ ret'.n = n /\ DOMAIN ret'.ans = Asked(x)
      /\ \A k \in Asked(x) : ret'.ans[k] = Answer(iters[k], x, n)
  BY <1>2
<1>10. Asking'
  <2>1. DOMAIN ret'.ans = {j \in DOMAIN iters' : ret'.x \in VarsOf(iters'[j])}
    BY <1>4, <1>7, <1>8, <1>9
  <2>2. \A j \in DOMAIN ret'.ans :
          ret'.ans[j] = ret'.n => KeepsPairs(iters'[j], index', ret'.x, ret'.n)
    BY <1>2, <1>4, <1>8, <1>9
  <2>3. pc' = "join" /\ ret'.x \in AllVars /\ ret'.n \in Nat \ {0} /\ ~On(path', ret'.x)
    BY <1>1, <1>2, <1>3, <1>9
  <2> QED
    BY <2>1, <2>2, <2>3 DEF Asking
<1>11. AnswersLeastAllowed'
  <2>1. ASSUME NEW k \in Asked(x), Within(iters'[k], x)
        PROVE  InRange(x, Answer(iters[k], x, n)) = RightAnswer(iters'[k], x, n)
    <3>1. /\ iters'[k] = AfterLeap(iters[k], x, n) /\ x \in VarsOf(iters[k])
          /\ IterOK(iters[k], index, Comps(where), path)
      BY <1>1, <1>2, <1>4, <2>1
    <3>2. Within(iters[k], x) /\ RightAnswer(iters'[k], x, n) = RightAnswer(iters[k], x, n)
      BY <2>1, <3>1, LeapMeans
    <3> QED
      BY <1>1, <1>3, <1>5, <3>1, <3>2, IteratorAnswers
  <2>2. /\ \A it, y, m : RightAnswer(it, y, m)' = RightAnswer(it, y, m)
        /\ \A it, y : Within(it, y)' <=> Within(it, y)
    BY <1>2, SameRight
  <2> QED
    BY <1>9, <2>1, <2>2 DEF AnswersLeastAllowed
<1> QED
  BY <1>1, <1>2, <1>7, <1>8, <1>10, <1>11 DEF IInv

\* Going down, the iterators of the variable hold its id or values; the others stay.
LEMMA DownKeepsInv ==
  ASSUME IInv, Down
  PROVE  IInv'
<1>1. /\ index \in Indexes /\ where \in Wheres /\ isEmpty \in BOOLEAN
      /\ iters \in Seq(ToSet(iters)) /\ PathOK(path) /\ (isEmpty => GivenUp(where))
      /\ \A j \in DOMAIN iters : IterOK(iters[j], index, Comps(where), path)
  BY DEF IInv
<1> DEFINE x == ret.x
           n == ret.n
<1>2. /\ path' = Append(path, [x |-> x, n |-> n]) /\ ret' = NoQuestion
      /\ iters' = [k \in DOMAIN iters |->
                     IF k \in DOMAIN ret.ans THEN AfterDown(iters[k], x, n) ELSE iters[k]]
      /\ index' = index /\ where' = where /\ args' = args /\ ranges' = ranges
      /\ isEmpty' = isEmpty /\ pc' = pc
      /\ x # "none" /\ n <= MaxId(x) /\ \A k \in DOMAIN ret.ans : ret.ans[k] = n
  BY DEF Down
<1>3. Asking
  BY <1>2 DEF IInv, NoQuestion
<1>4. /\ pc = "join" /\ x \in AllVars /\ x # "const" /\ n \in Nat \ {0} /\ ~On(path, x)
      /\ DOMAIN ret.ans = {j \in DOMAIN iters : x \in VarsOf(iters[j])}
      /\ \A j \in DOMAIN ret.ans : KeepsPairs(iters[j], index, x, n)
  BY <1>2, <1>3, WhereAssumption DEF Asking, AllVars
<1>5. ranges = <<>>
  BY <1>4 DEF IInv
<1> HIDE DEF x, n
<1>6. n \in 1 .. MaxId(x)
  BY <1>2, <1>4, MaxIdIsNat
<1>7. /\ PathOK(path') /\ \A y : On(path', y) <=> On(path, y) \/ y = x
      /\ IdOn(path', x) = n /\ \A y : On(path, y) => IdOn(path', y) = IdOn(path, y)
  <2>1. path' = Grown(path, x, n)
    BY <1>2 DEF Grown
  <2> QED
    BY <1>1, <1>4, <1>6, <2>1, PathGrows
<1>8. Len(iters) \in Nat /\ DOMAIN iters = 1 .. Len(iters)
  BY <1>1, SeqShape
<1>9. DOMAIN iters' = DOMAIN iters /\ iters' \in Seq(ToSet(iters'))
  <2>1. DOMAIN iters' = 1 .. Len(iters) /\ iters' = [k \in 1 .. Len(iters) |-> iters'[k]]
    BY <1>2, <1>8
  <2> QED
    BY <1>8, <2>1, OwnSeq
<1>10. ASSUME NEW j \in DOMAIN iters
       PROVE  IterOK(iters'[j], index, Comps(where), path')
  <2>1. CASE j \in DOMAIN ret.ans
    <3>1. iters'[j] = AfterDown(iters[j], x, n) /\ KeepsPairs(iters[j], index, x, n)
      BY <1>2, <1>4, <1>10, <2>1
    <3>2. IterOK(iters[j], index, Comps(where), path)
      BY <1>1, <1>10
    <3> QED
      BY <1>4, <1>7, <3>1, <3>2, DownHolds
  <2>2. CASE j \notin DOMAIN ret.ans
    <3>1. iters'[j] = iters[j] /\ x \notin VarsOf(iters[j])
      BY <1>2, <1>4, <1>10, <2>2
    <3>2. IterOK(iters[j], index, Comps(where), path)
      BY <1>1, <1>10
    <3> QED
      BY <1>4, <1>7, <3>1, <3>2, UntouchedStays
  <2> QED
    BY <2>1, <2>2
<1>11. AnswersLeastAllowed'
  BY <1>2, NothingAsked DEF AnswersLeastAllowed
<1> QED
  BY <1>1, <1>2, <1>4, <1>5, <1>7, <1>9, <1>10, <1>11 DEF IInv

\* Going up, the iterators of the variable let it go; the others stay.
LEMMA UpKeepsInv ==
  ASSUME IInv, Up
  PROVE  IInv'
<1>1. /\ index \in Indexes /\ where \in Wheres /\ isEmpty \in BOOLEAN /\ pc \in {"build", "join"}
      /\ iters \in Seq(ToSet(iters)) /\ PathOK(path) /\ (isEmpty => GivenUp(where))
      /\ \A j \in DOMAIN iters : IterOK(iters[j], index, Comps(where), path)
  BY DEF IInv
<1> DEFINE x == path[Len(path)].x
<1>2. /\ path' = SubSeq(path, 1, Len(path) - 1) /\ ret' = NoQuestion /\ path # <<>>
      /\ iters' = [k \in DOMAIN iters |->
                     IF k \in Asked(x) THEN AfterUp(iters[k], x) ELSE iters[k]]
      /\ index' = index /\ where' = where /\ args' = args /\ ranges' = ranges
      /\ isEmpty' = isEmpty /\ pc' = pc
  BY DEF Up
<1>3. pc = "join" /\ ranges = <<>>
  BY <1>1, <1>2 DEF IInv, Building
<1>4. \A k : k \in Asked(x) <=> k \in DOMAIN iters /\ x \in VarsOf(iters[k])
  BY DEF Asked
<1>5. /\ PathOK(path') /\ x \in AllVars /\ \A y : On(path', y) <=> On(path, y) /\ y # x
      /\ \A y : On(path', y) => IdOn(path', y) = IdOn(path, y)
  <2>1. path' = Shrunk(path)
    BY <1>2 DEF Shrunk
  <2>2. x = path[Len(path)].x /\ path # <<>>
    BY <1>2
  <2> HIDE DEF x
  <2> QED
    BY <1>1, <2>1, <2>2, PathShrinks
<1> HIDE DEF x
<1>6. x # "const"
  BY <1>5, WhereAssumption DEF AllVars
<1>7. Len(iters) \in Nat /\ DOMAIN iters = 1 .. Len(iters)
  BY <1>1, SeqShape
<1>8. DOMAIN iters' = DOMAIN iters /\ iters' \in Seq(ToSet(iters'))
  <2>1. DOMAIN iters' = 1 .. Len(iters) /\ iters' = [k \in 1 .. Len(iters) |-> iters'[k]]
    BY <1>2, <1>7
  <2> QED
    BY <1>7, <2>1, OwnSeq
<1>9. ASSUME NEW j \in DOMAIN iters
      PROVE  IterOK(iters'[j], index, Comps(where), path')
  <2>0. IterOK(iters[j], index, Comps(where), path)
    BY <1>1, <1>9
  <2>1. CASE j \in Asked(x)
    <3>1. iters'[j] = AfterUp(iters[j], x)
      BY <1>2, <1>9, <2>1
    <3> QED
      BY <1>5, <1>6, <2>0, <3>1, UpHolds
  <2>2. CASE j \notin Asked(x)
    <3>1. iters'[j] = iters[j] /\ x \notin VarsOf(iters[j])
      BY <1>2, <1>4, <1>9, <2>2
    <3>2. \A y : y # x => /\ On(path', y) <=> On(path, y)
                          /\ On(path', y) => IdOn(path', y) = IdOn(path, y)
      BY <1>5
    <3> QED
      BY <1>6, <2>0, <3>1, <3>2, UntouchedStays
  <2> QED
    BY <2>1, <2>2
<1>10. AnswersLeastAllowed'
  BY <1>2, NothingAsked DEF AnswersLeastAllowed
<1> QED
  BY <1>1, <1>2, <1>3, <1>5, <1>8, <1>9, <1>10 DEF IInv

-----------------------------------------------------------------------------
\* A clause of one comparison has an iterator that holds its constants.
LEMMA BuildComparisonKeepsInv ==
  ASSUME IInv, BuildComparison
  PROVE  IInv'
<1>1. /\ index \in Indexes /\ where \in Wheres /\ isEmpty \in BOOLEAN /\ PathOK(path)
      /\ (isEmpty => GivenUp(where)) /\ pc = "build" /\ Building
  BY DEF IInv, BuildComparison
<1>2. /\ where.type # "WAND" /\ iters' = <<Individual(where)>> /\ pc' = "join"
      /\ index' = index /\ where' = where /\ args' = args /\ ranges' = ranges
      /\ isEmpty' = isEmpty /\ path' = path /\ ret' = ret
  BY DEF BuildComparison
<1>3. path = <<>> /\ ret = NoQuestion /\ ranges = <<>>
  BY <1>1, <1>2 DEF Building
<1>4. Comps(where) = {where} /\ IsComparison(where, index)
  <2>1. Comps(where) = {where}
    BY <1>2 DEF Comps
  <2> QED
    BY <1>1, <2>1, ClauseOfComparisons
<1>5. IndividualOK(Individual(where), index, Comps(where), <<>>)
  BY <1>1, <1>4, IndividualStarts
<1>6. DOMAIN iters' = {1} /\ iters'[1] = Individual(where) /\ iters' \in Seq(ToSet(iters'))
  <2>1. /\ DOMAIN iters' = 1 .. 1 /\ iters'[1] = Individual(where)
        /\ iters' = [k \in 1 .. 1 |-> iters'[k]]
    BY <1>2
  <2> QED
    BY <2>1, OwnSeq
<1>7. \A j \in DOMAIN iters' : IterOK(iters'[j], index, Comps(where), path')
  BY <1>2, <1>3, <1>5, <1>6 DEF IterOK
<1>8. AnswersLeastAllowed'
  BY <1>2, <1>3, NothingAsked DEF AnswersLeastAllowed
<1> QED
  BY <1>1, <1>2, <1>3, <1>6, <1>7, <1>8 DEF IInv

\* A comparison of a conjunction goes to its range, or has an iterator of its own.
LEMMA ProcessKeepsInv ==
  ASSUME IInv, ProcessWhereExpression
  PROVE  IInv'
<1> DEFINE e == Head(args)
           cs == Comps(where)
           key == KeyOf(e)
           old == IF key \in DOMAIN ranges THEN ranges[key] ELSE NoRange
           es == RangesOn(cs, key)
<1>1. /\ index \in Indexes /\ where \in Wheres /\ PathOK(path) /\ pc = "build" /\ Building
      /\ iters \in Seq(ToSet(iters)) /\ \A j \in DOMAIN iters : IterOK(iters[j], index, cs, path)
  BY DEF IInv, ProcessWhereExpression
<1>2. /\ where.type = "WAND" /\ args # <<>> /\ args' = Tail(args)
      /\ index' = index /\ where' = where /\ isEmpty' = isEmpty /\ pc' = pc /\ path' = path
      /\ ret' = ret
      /\ IF IsRange(e)
         THEN /\ ranges' = [q \in DOMAIN ranges \union {key} |->
                              IF q = key THEN AddToRange(old, e) ELSE ranges[q]]
              /\ iters' = iters
         ELSE iters' = Append(iters, Individual(e)) /\ ranges' = ranges
  BY DEF ProcessWhereExpression
<1>3. /\ path = <<>> /\ ret = NoQuestion /\ isEmpty = FALSE /\ args \in Seq(cs)
      /\ IsFiniteSet(DOMAIN ranges) /\ Collected(ranges, where, args)
  BY <1>1, <1>2 DEF Building, IInv
<1>4. /\ e \in cs /\ Tail(args) \in Seq(cs)
      /\ ToSet(args) = {e} \union ToSet(Tail(args))
  <2> HIDE DEF cs, e
  <2>1. /\ Head(args) \in cs /\ Tail(args) \in Seq(cs) /\ Len(args) \in Nat \ {0}
        /\ Len(Tail(args)) = Len(args) - 1 /\ Head(args) = args[1]
        /\ \A i \in 1 .. Len(args) - 1 : Tail(args)[i] = args[i + 1]
    BY <1>2, <1>3, HeadTailProperties
  <2>2. DOMAIN args = 1 .. Len(args) /\ DOMAIN Tail(args) = 1 .. Len(args) - 1
    BY <1>3, <2>1
  <2>3. \A i \in DOMAIN args : args[i] = Head(args) \/ args[i] \in ToSet(Tail(args))
    <3> TAKE i \in DOMAIN args
    <3>1. CASE i = 1
      BY <2>1, <3>1
    <3>2. CASE i # 1
      <4>1. i - 1 \in 1 .. Len(args) - 1 /\ (i - 1) + 1 = i
        BY <2>1, <2>2, <3>2
      <4>2. Tail(args)[i - 1] = args[i] /\ i - 1 \in DOMAIN Tail(args)
        BY <2>1, <2>2, <4>1
      <4> QED
        BY <4>2 DEF ToSet
    <3> QED
      BY <3>1, <3>2
  <2>4. \A i \in DOMAIN Tail(args) : Tail(args)[i] \in ToSet(args)
    <3> TAKE i \in DOMAIN Tail(args)
    <3>1. Tail(args)[i] = args[i + 1] /\ i + 1 \in DOMAIN args
      BY <2>1, <2>2
    <3> QED
      BY <3>1 DEF ToSet
  <2>5. Head(args) \in ToSet(args)
    BY <2>1, <2>2 DEF ToSet
  <2>6. \A y : y \in ToSet(args) => y = Head(args) \/ y \in ToSet(Tail(args))
    BY <2>3 DEF ToSet
  <2>7. \A y : y \in ToSet(Tail(args)) => y \in ToSet(args)
    BY <2>4 DEF ToSet
  <2>8. ToSet(args) = {Head(args)} \union ToSet(Tail(args))
    BY <2>5, <2>6, <2>7
  <2> QED
    BY <2>1, <2>8 DEF e
<1>5. \A f \in cs : IsComparison(f, index)
  BY <1>1, ClauseOfComparisons
<1>6. PICK done \in SUBSET cs :
        /\ cs = done \union ToSet(args)
        /\ DOMAIN ranges = {KeyOf(f) : f \in {h \in done : IsRange(h)}}
        /\ \A q \in DOMAIN ranges : RangeOf(ranges[q], RangesOn(done, q))
  BY <1>3 DEF Collected
<1> DEFINE next == done \union {e}
<1>7. next \in SUBSET cs /\ cs = next \union ToSet(Tail(args))
  BY <1>4, <1>6
<1>8. \A q : q \in DOMAIN ranges <=> \E f \in done : IsRange(f) /\ KeyOf(f) = q
  BY <1>6
<1>9. \A q : RangesOn(next, q) = IF IsRange(e) /\ key = q THEN RangesOn(done, q) \union {e}
                                 ELSE RangesOn(done, q)
  BY DEF RangesOn
<1> HIDE DEF e, key, old, next, cs
<1>10. CASE IsRange(e)
  <2>1. /\ DOMAIN ranges' = DOMAIN ranges \union {key} /\ ranges'[key] = AddToRange(old, e)
        /\ \A q \in DOMAIN ranges : q # key => ranges'[q] = ranges[q]
    BY <1>2, <1>10
  <2>2. RangeOf(old, RangesOn(done, key))
    <3>1. CASE key \in DOMAIN ranges
      BY <1>6, <3>1 DEF old
    <3>2. CASE key \notin DOMAIN ranges
      <4>1. RangesOn(done, key) = {}
        BY <1>8, <3>2 DEF RangesOn
      <4> QED
        BY <3>2, <4>1, RangeStarts DEF old
    <3> QED
      BY <3>1, <3>2
  <2>3. BoundOp(e) \in Bounds /\ \A f \in RangesOn(done, key) \union {e} : BoundOf(f) \in 0 .. W - 1
    <3>1. \A f \in cs : IsRange(f) => BoundOp(f) \in Bounds /\ BoundOf(f) \in 0 .. W - 1
      BY <1>1, <1>5, RangeOperands, BoundInWidth
    <3> QED
      BY <1>4, <1>6, <1>10, <3>1 DEF RangesOn
  <2>4. RangeOf(ranges'[key], RangesOn(next, key))
    <3>1. RangesOn(next, key) = RangesOn(done, key) \union {e}
      BY <1>9, <1>10
    <3> QED
      BY <2>1, <2>2, <2>3, <3>1, BoundAdded
  <2>5. ASSUME NEW q \in DOMAIN ranges', q # key PROVE RangeOf(ranges'[q], RangesOn(next, q))
    <3>1. q \in DOMAIN ranges /\ ranges'[q] = ranges[q]
      BY <2>1, <2>5
    <3>2. RangesOn(next, q) = RangesOn(done, q)
      BY <1>9, <2>5
    <3> QED
      BY <1>6, <3>1, <3>2
  <2>6. DOMAIN ranges' = {KeyOf(f) : f \in {h \in next : IsRange(h)}}
    <3>1. \A q : q \in DOMAIN ranges' <=> \E f \in next : IsRange(f) /\ KeyOf(f) = q
      BY <1>8, <1>10, <2>1 DEF next, key
    <3> QED
      BY <3>1
  <2>7. Collected(ranges', where, Tail(args))
    BY <1>7, <2>4, <2>5, <2>6 DEF Collected, cs
  <2>8. IsFiniteSet(DOMAIN ranges')
    BY <1>3, <2>1, FS_AddElement
  <2>9. Building'
    BY <1>2, <1>3, <1>4, <2>7, <2>8 DEF Building, cs
  <2>10. AnswersLeastAllowed'
    BY <1>2, <1>3, NothingAsked DEF AnswersLeastAllowed
  <2> QED
    BY <1>1, <1>2, <1>3, <1>10, <2>9, <2>10 DEF IInv, cs
<1>11. CASE ~IsRange(e)
  <2>1. iters' = Append(iters, Individual(e)) /\ ranges' = ranges
    BY <1>2, <1>11
  <2>2. IterOK(Individual(e), index, cs, path)
    BY <1>1, <1>3, <1>4, <1>5, IndividualStarts DEF IterOK
  <2>3. /\ iters' \in Seq(ToSet(iters'))
        /\ \A j \in DOMAIN iters' : IterOK(iters'[j], index, cs, path)
    <3>1. iters' = WithLast(iters, Individual(e))
      BY <2>1 DEF WithLast
    <3>2. /\ iters' \in Seq(ToSet(iters'))
          /\ \A k \in DOMAIN iters' :
               (k \in DOMAIN iters /\ iters'[k] = iters[k]) \/ iters'[k] = Individual(e)
      BY <1>1, <3>1, AppendOwn
    <3> QED
      BY <1>1, <2>2, <3>2
  <2>4. DOMAIN ranges = {KeyOf(f) : f \in {h \in next : IsRange(h)}}
    <3>1. \A q : q \in DOMAIN ranges <=> \E f \in next : IsRange(f) /\ KeyOf(f) = q
      BY <1>8, <1>11 DEF next
    <3> QED
      BY <3>1
  <2>5. \A q \in DOMAIN ranges : RangeOf(ranges[q], RangesOn(next, q))
    BY <1>6, <1>9, <1>11
  <2>6. Collected(ranges', where, Tail(args))
    BY <1>7, <2>1, <2>4, <2>5 DEF Collected, cs
  <2>7. Building'
    BY <1>2, <1>3, <1>4, <2>1, <2>6 DEF Building, cs
  <2>8. AnswersLeastAllowed'
    BY <1>2, <1>3, NothingAsked DEF AnswersLeastAllowed
  <2> QED
    BY <1>1, <1>2, <1>3, <2>3, <2>7, <2>8 DEF IInv, cs
<1> QED
  BY <1>10, <1>11

\* The ranges collected become iterators, and one that holds no value gives up the clause.
LEMMA RangesKeepInv ==
  ASSUME IInv, BuildRangeIterators
  PROVE  IInv'
<1> DEFINE cs == Comps(where)
           valid == {key \in DOMAIN ranges : IsValid(ranges[key])}
           T == {RangeIterator(key, ranges[key]) : key \in valid}
<1>1. /\ index \in Indexes /\ where \in Wheres /\ PathOK(path) /\ pc = "build" /\ Building
      /\ iters \in Seq(ToSet(iters)) /\ \A j \in DOMAIN iters : IterOK(iters[j], index, cs, path)
  BY DEF IInv, BuildRangeIterators
<1>2. /\ where.type = "WAND" /\ args = <<>> /\ iters' = iters \o SetToSeq(T)
      /\ isEmpty' = (valid # DOMAIN ranges) /\ ranges' = <<>> /\ pc' = "join"
      /\ index' = index /\ where' = where /\ path' = path /\ ret' = ret
  BY DEF BuildRangeIterators
<1>3. /\ path = <<>> /\ ret = NoQuestion /\ IsFiniteSet(DOMAIN ranges)
      /\ Collected(ranges, where, args)
  BY <1>1, <1>2 DEF Building
<1>4. /\ DOMAIN ranges = {KeyOf(f) : f \in {h \in cs : IsRange(h)}}
      /\ \A q \in DOMAIN ranges : RangeOf(ranges[q], RangesOn(cs, q))
  <2>1. PICK done \in SUBSET cs :
          /\ cs = done \union ToSet(args)
          /\ DOMAIN ranges = {KeyOf(f) : f \in {h \in done : IsRange(h)}}
          /\ \A q \in DOMAIN ranges : RangeOf(ranges[q], RangesOn(done, q))
    BY <1>3 DEF Collected
  <2>2. ToSet(args) = {}
    BY <1>2 DEF ToSet
  <2>3. done = cs
    <3> HIDE DEF cs
    <3> QED
      BY <2>1, <2>2
  <2> QED
    BY <2>1, <2>3
<1>5. ASSUME NEW q \in valid PROVE RangeItOK(RangeIterator(q, ranges[q]), index, cs)
  <2> DEFINE r == ranges[q]
             it == RangeIterator(q, r)
  <2>1. RangeOf(r, RangesOn(cs, q)) /\ IsValid(r) /\ r \in RangeRecords
    BY <1>4, <1>5 DEF RangeOf
  <2>2. RangesOn(cs, q) # {}
    <3>1. PICK f \in cs : IsRange(f) /\ KeyOf(f) = q
      BY <1>4, <1>5
    <3> QED
      BY <3>1 DEF RangesOn
  <2>3. /\ it.kind = (IF q.p = 0 THEN "idRange" ELSE "range") /\ it.key = q
        /\ it.lo = LowEnd(index, q, r) /\ it.hi = HighEnd(index, q, r)
        /\ it.elements = MaxId(q.x)
    BY DEF RangeIterator, LowEnd, HighEnd, Grid
  <2> HIDE DEF r, it, cs
  <2>4. RangeItOK(it, index, cs)
    BY <2>1, <2>2, <2>3 DEF RangeItOK
  <2> QED
    BY <2>4 DEF it, r
<1>6. SetToSeq(T) \in Seq(T)
  <2>1. IsFiniteSet(valid)
    <3>1. valid \in SUBSET (DOMAIN ranges)
      OBVIOUS
    <3> HIDE DEF valid
    <3> QED
      BY <1>3, <3>1, FS_Subset
  <2> HIDE DEF valid
  <2> QED
    BY <2>1, ListedRanges
<1>7. \A t \in T : IterOK(t, index, cs, path)
  BY <1>5 DEF IterOK
<1>8. (valid # DOMAIN ranges) => GivenUp(where)
  <2> SUFFICES ASSUME valid # DOMAIN ranges PROVE GivenUp(where)
    OBVIOUS
  <2>1. PICK q \in DOMAIN ranges : ~IsValid(ranges[q])
    OBVIOUS
  <2>2. RangeOf(ranges[q], RangesOn(cs, q)) /\ ranges[q] \in RangeRecords
    BY <1>4, <2>1 DEF RangeOf
  <2>3. q \in {KeyOf(f) : f \in {h \in cs : IsRange(h)}}
    BY <1>4, <2>1
  <2> QED
    BY <2>1, <2>2, <2>3 DEF GivenUp
<1>9. (valid # DOMAIN ranges) \in BOOLEAN
  OBVIOUS
<1> HIDE DEF T, valid, cs
<1>10. /\ iters' \in Seq(ToSet(iters'))
       /\ \A j \in DOMAIN iters' : IterOK(iters'[j], index, cs, path)
  <2>1. /\ iters' \in Seq(ToSet(iters'))
        /\ \A k \in DOMAIN iters' : (k \in DOMAIN iters /\ iters'[k] = iters[k]) \/ iters'[k] \in T
    <3>1. iters' = Joined(iters, SetToSeq(T))
      BY <1>2 DEF Joined
    <3> QED
      BY <1>1, <1>6, <3>1, ConcatOwn
  <2> QED
    BY <1>1, <1>7, <2>1
<1>11. AnswersLeastAllowed'
  BY <1>2, <1>3, NothingAsked DEF AnswersLeastAllowed
<1> QED
  BY <1>1, <1>2, <1>3, <1>8, <1>9, <1>10, <1>11 DEF IInv, cs

\* Every step keeps the invariant.
LEMMA InvKept ==
  ASSUME IInv, [Next]_vars
  PROVE  IInv'
<1>1. CASE BuildComparison
  BY <1>1, BuildComparisonKeepsInv
<1>2. CASE ProcessWhereExpression
  BY <1>2, ProcessKeepsInv
<1>3. CASE BuildRangeIterators
  BY <1>3, RangesKeepInv
<1>4. ASSUME NEW x \in NodeVars \union EdgeVars, NEW n \in 1 .. MaxId(x) + 1, Leap(x, n)
      PROVE  IInv'
  BY <1>4, LeapKeepsInv
<1>5. CASE Down
  BY <1>5, DownKeepsInv
<1>6. CASE Up
  BY <1>6, UpKeepsInv
<1>7. CASE UNCHANGED vars
  <2>1. /\ index' = index /\ where' = where /\ args' = args /\ ranges' = ranges /\ iters' = iters
        /\ isEmpty' = isEmpty /\ pc' = pc /\ path' = path /\ ret' = ret
    BY <1>7 DEF vars
  <2>2. /\ \A it, y, m : RightAnswer(it, y, m)' = RightAnswer(it, y, m)
        /\ \A it, y : Within(it, y)' <=> Within(it, y)
    BY <2>1, SameRight
  <2>3. AnswersLeastAllowed'
    BY <2>1, <2>2 DEF IInv, AnswersLeastAllowed
  <2>4. Building' <=> Building
    BY <2>1 DEF Building
  <2>5. Asking' <=> Asking
    BY <2>1 DEF Asking
  <2> QED
    BY <2>1, <2>3, <2>4, <2>5 DEF IInv
<1> QED
  BY <1>1, <1>2, <1>3, <1>4, <1>5, <1>6, <1>7 DEF Next

-----------------------------------------------------------------------------
(***************************************************************************)
(* What follows from it                                                    *)
(***************************************************************************)
\* An iterator counts the operands that it holds.
LEMMA InvTypes ==
  ASSUME IInv
  PROVE  TypeOK
<1>1. \A key \in DOMAIN ranges : ranges[key].lo \in 0 .. W - 1 /\ ranges[key].hi \in 0 .. W - 1
  <2>1. CASE pc = "build" /\ where.type = "WAND"
    <3>1. Collected(ranges, where, args)
      BY <2>1 DEF IInv, Building
    <3>2. \A key \in DOMAIN ranges : ranges[key] \in RangeRecords
      BY <3>1 DEF Collected, RangeOf
    <3> QED
      BY <3>2 DEF RangeRecords
  <2>2. CASE ~(pc = "build" /\ where.type = "WAND")
    <3>1. ranges = <<>>
      BY <2>2 DEF IInv, Building
    <3> QED
      BY <3>1
  <2> QED
    BY <2>1, <2>2
<1>2. ASSUME NEW it \in ToSet(iters)
      PROVE  /\ it.kind \in {"comp", "compId", "range", "idRange"}
             /\ it.kind = "comp" => it.nfixed = Cardinality({k \in 1 .. 2 : it.state[k]})
  <2>1. IterOK(it, index, Comps(where), path)
    BY <1>2 DEF IInv, ToSet
  <2>2. it.kind \in {"comp", "compId", "range", "idRange"}
    BY <2>1, KindsOf
  <2>3. ASSUME it.kind = "comp" PROVE it.nfixed = Cardinality({k \in 1 .. 2 : it.state[k]})
    <3> DEFINE held == {k \in 1 .. 2 : it.state[k]}
    <3>1. it.nfixed = One(it.state[1]) + One(it.state[2])
      BY <2>1, <2>3, KindsOf DEF IndividualOK
    <3>2. (1 \in held <=> it.state[1]) /\ (2 \in held <=> it.state[2]) /\ held \in SUBSET (1 .. 2)
      OBVIOUS
    <3> HIDE DEF held
    <3>3. Cardinality(held) = One(1 \in held) + One(2 \in held)
      BY <3>2, TwoCounted
    <3>4. One(1 \in held) = One(it.state[1]) /\ One(2 \in held) = One(it.state[2])
      BY <3>2 DEF One
    <3> QED
      BY <3>1, <3>3, <3>4 DEF held
  <2> QED
    BY <2>2, <2>3
<1>3. \A d \in DOMAIN path : path[d].n \in 1 .. MaxId(path[d].x)
  <2> TAKE d \in DOMAIN path
  <2> DEFINE U == [x : AllVars, n : Nat \ {0}]
  <2>1. path \in Seq(U) /\ path[d].n <= MaxId(path[d].x)
    BY DEF IInv, PathOK
  <2>2. \A u \in U : u.n \in Nat \ {0}
    OBVIOUS
  <2> HIDE DEF U
  <2>3. path[d] \in U
    BY <2>1
  <2>4. path[d].n \in Nat \ {0} /\ MaxId(path[d].x) \in Nat
    BY <2>2, <2>3, MaxIdIsNat
  <2> QED
    BY <2>1, <2>4
<1> QED
  BY <1>1, <1>2, <1>3 DEF IInv, TypeOK

\* The operands held are those of the path.
LEMMA InvHolds ==
  ASSUME IInv
  PROVE  HoldsValueOfPath
<1> SUFFICES ASSUME NEW it \in ToSet(iters), it.kind = "comp", NEW k \in 1 .. 2,
                    NEW o, o = it.e.o[k], IsVar(o)
             PROVE  /\ it.state[k] <=> OnPath(o.x)
                    /\ it.state[k] /\ it.e.type # "ISNULL" /\ it.e.type # "ISNOTNULL" =>
                         /\ HasOperand(o, Assigned(o.x, PathId(o.x)))
                         /\ it.fixed[k] = Grid(o)[PathId(o.x)]
  BY DEF HoldsValueOfPath
<1>1. IndividualOK(it, index, Comps(where), path)
  <2>1. IterOK(it, index, Comps(where), path)
    BY DEF IInv, ToSet
  <2> QED
    BY <2>1, KindsOf
<1>2. /\ it.state[k] <=> On(path, o.x)
      /\ it.state[k] => HeldValue(it, index, path, k)
  BY <1>1 DEF IndividualOK, HoldsOperand
<1>3. OnPath(o.x) <=> On(path, o.x)
  BY DEF OnPath, On
<1>4. PathId(o.x) = IdOn(path, o.x)
  BY DEF PathId, IdOn
<1>5. ASSUME it.state[k], it.e.type # "ISNULL", it.e.type # "ISNOTNULL"
      PROVE  /\ HasOperand(o, Assigned(o.x, PathId(o.x)))
             /\ it.fixed[k] = Grid(o)[PathId(o.x)]
  <2>1. /\ IdOn(path, o.x) \in DOMAIN GridIn(index, o)
        /\ it.fixed[k] = GridIn(index, o)[IdOn(path, o.x)]
    BY <1>2, <1>5 DEF HeldValue, NullTests
  <2>2. Assigned(o.x, PathId(o.x))[o.x] = PathId(o.x)
    BY AssignedIds
  <2> QED
    BY <1>4, <2>1, <2>2 DEF HasOperand, Grid
<1> QED
  BY <1>2, <1>3, <1>5

\* A range with a lower bound above its upper one holds no value.
LEMMA InvGivenUp ==
  ASSUME IInv
  PROVE  EmptyWhenNoValue
<1> SUFFICES ASSUME isEmpty,
                    \A e \in Comparisons : IsRange(e) => Limit(e).at = "num" /\ Limit(e).k > 0
             PROVE  \E key \in {KeyOf(e) : e \in {f \in Comparisons : IsRange(f)}} :
                      \A v \in 0 .. W - 1 : \E e \in RangesOn(Comparisons, key) :
                        ~Compare(BoundOp(e), v, Limit(e).k)
  BY DEF EmptyWhenNoValue, Limit, BoundOp, RangesOn
<1>1. index \in Indexes /\ where \in Wheres /\ GivenUp(where) /\ Comparisons = Comps(where)
  BY ClauseComparisons DEF IInv
<1>2. PICK key \in {KeyOf(e) : e \in {f \in Comparisons : IsRange(f)}}, r \in RangeRecords :
        RangeOf(r, RangesOn(Comparisons, key)) /\ ~IsValid(r)
  BY <1>1 DEF GivenUp
<1>3. \A e \in RangesOn(Comparisons, key) : BoundOp(e) \in Bounds /\ IsNumber(Limit(e))
  <2> TAKE e \in RangesOn(Comparisons, key)
  <2>1. e \in Comparisons /\ IsRange(e) /\ IsComparison(e, index)
    BY <1>1, ClauseOfComparisons DEF RangesOn
  <2>2. BoundOp(e) \in Bounds /\ Limit(e).k \in Int /\ Small(Limit(e).k)
    BY <1>1, <2>1, RangeOperands
  <2> QED
    BY <2>1, <2>2 DEF IsNumber
<1>4. r.hasLo /\ r.hasHi /\ r.hi < r.lo /\ r.lo \in Int /\ r.hi \in Int
  BY <1>2, WidthAssumption DEF IsValid, RangeRecords
<1>5. ASSUME NEW v \in 0 .. W - 1
      PROVE  \E e \in RangesOn(Comparisons, key) : ~Compare(BoundOp(e), v, Limit(e).k)
  <2>1. v \in Int /\ ~InBounds(r, v)
    BY <1>4 DEF InBounds
  <2> QED
    BY <1>2, <1>3, <2>1, RangeMeans
<1> QED
  BY <1>5

-----------------------------------------------------------------------------
\* The inductive invariant holds of every run of the constructor and the join.
THEOREM WhereInvariant == Spec => []IInv
<1>1. Init => IInv
  BY InvStarts
<1>2. IInv /\ [Next]_vars => IInv'
  BY InvKept
<1> QED
  BY <1>1, <1>2, PTL DEF Spec

\* Iterators and ranges are of the types that the constructor gives them, and an iterator of
\* properties counts the operands that it holds, for every clause and every index.
THEOREM WhereTypesHold == Spec => []TypeOK
<1>1. IInv => TypeOK
  BY InvTypes
<1> QED
  BY <1>1, WhereInvariant, PTL

\* An iterator of properties holds the values of the ids on the path, and no other: whatever it
\* was asked, and however often the join went down and up.
THEOREM ValuesOfPathHeld == Spec => []HoldsValueOfPath
<1>1. IInv => HoldsValueOfPath
  BY InvHolds
<1> QED
  BY <1>1, WhereInvariant, PTL

\* The constructor gives up only a clause that bounds a property by numbers no value keeps.
THEOREM GivenUpForNoValue == Spec => []EmptyWhenNoValue
<1>1. IInv => EmptyWhenNoValue
  BY InvGivenUp
<1> QED
  BY <1>1, WhereInvariant, PTL

\* Within the reach of its searches, every iterator of the clause answers a leap with the
\* least id that its comparisons allow under the path.
THEOREM LeastAllowedAnswered == Spec => []AnswersLeastAllowed
<1>1. IInv => AnswersLeastAllowed
  BY DEF IInv
<1> QED
  BY <1>1, WhereInvariant, PTL
=============================================================================
