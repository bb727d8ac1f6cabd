----------------------- MODULE EdgeExprIteratorProofs -----------------------
(***************************************************************************)
(* For every graph and every expression over its labels: the ranges of     *)
(* labels are those that the expression admits, the iterator keeps, at     *)
(* each level, ranges of exactly the edges that match what is bound so     *)
(* far, and answers what its contract says.                                *)
(***************************************************************************)
EXTENDS EdgeExprIterator, RingTheorems, SequenceTheorems

\* The edges whose label the expression of t admits, a term of an edge, and the edges that
\* agree with the first d values bound.
Admitted(E, t) == {e \in E : Holds(t.expr, e.p)}
ValOf(E, e, x) == IF x = "s" THEN e.s ELSE IF x = "o" THEN e.o ELSE Pos(E)[e]
Fits(E, t, st, cs, d) ==
  {e \in Admitted(E, t) : /\ d >= 1 => ValOf(E, e, st[0]) = cs[0]
                          /\ d >= 2 => ValOf(E, e, st[1]) = cs[1]}

\* Ranges in rising order that do not meet, and lists of the places of the edges A.
RangesOver(n) == Seq((1 .. n) \X (1 .. n))
InList(ranges, i) == \E k \in DOMAIN ranges : ranges[k][1] <= i /\ i <= ranges[k][2]
IsList(ranges) ==
  /\ \A k \in DOMAIN ranges : ranges[k][1] <= ranges[k][2]
  /\ \A k, l \in DOMAIN ranges : k < l => ranges[k][2] < ranges[l][1]
Lists(ranges, A, E, pos) ==
  /\ ranges \in RangesOver(Cardinality(E)) /\ IsList(ranges)
  /\ A \subseteq E /\ \A e \in E : e \in A <=> InList(ranges, pos[e])

\* What the ranges of each level hold, and in which order.
Ranges0(E, t, st, cs, rl) ==
  ~(t.s = 0 /\ t.o # 0) => Lists(rl[0], Fits(E, t, st, cs, 0), E, Pos(E))
Ranges1(E, t, st, cs, rl) ==
  /\ st[0] = "s" => Lists(rl[1], Fits(E, t, st, cs, 1), E, Spo(E))
  /\ st[0] = "o" => Lists(rl[1], Fits(E, t, st, cs, 1), E, Pos(E))
Ranges2(E, t, st, cs, rl) ==
  st[0] # "p" /\ st[1] # "p" =>
    Lists(rl[2], Fits(E, t, st, cs, 2), E, IF st[1] = "s" THEN Spo(E) ELSE Osp(E))

Top == IF m_level < 2 THEN m_level ELSE 2
Current == Fits(edges, pat, m_state, m_consts, Top)
CurrentVals(x) == {ValOf(edges, e, x) : e \in Current}

Offset(t) == IF t.s # 0 /\ t.o # 0 THEN 2 ELSE IF t.s # 0 \/ t.o # 0 THEN 1 ELSE 0

StateTypes ==
  /\ edges \in Graphs /\ R = Build(edges) /\ pat \in Patterns
  /\ m_is_empty \in BOOLEAN /\ m_level \in 0 .. 3
  /\ m_state \in [0 .. 1 -> Terms \union {"none"}]
  /\ m_consts \in [0 .. 2 -> 0 .. R.n + R.maxSO]
  /\ m_ranges_level \in [0 .. 2 -> RangesOver(R.n)]
  /\ \A d \in 0 .. 2 : Len(m_ranges_level[d]) <= R.maxP
  /\ DOMAIN m_length_level = 0 .. 2
  /\ m_range_i_last \in 1 .. R.maxP /\ m_triple_j \in Int
  /\ path \in Seq([x : Terms, v : Nat])
  /\ mode \in {"idle", "leap", "scan", "under", "left", "back"}
  /\ ret \in [x : Terms \union {"none"}, c : Int, v : 0 .. R.n + R.maxSO]

\* The ranges of labels are those that the expression admits.
ExprRanges ==
  /\ m_ranges_expr \in RangesOver(R.maxP) /\ IsList(m_ranges_expr)
  /\ \A l \in 1 .. R.maxP : Holds(pat.expr, l) <=> InList(m_ranges_expr, l)

\* The levels are the constants of the pattern and then the path.
Bindings ==
  /\ m_level = Offset(pat) + Len(path)
  /\ Offset(pat) = 2 => /\ m_state[0] = "s" /\ m_consts[0] = pat.s
                        /\ m_state[1] = "o" /\ m_consts[1] = pat.o
  /\ Offset(pat) = 1 => IF pat.s # 0 THEN m_state[0] = "s" /\ m_consts[0] = pat.s
                        ELSE m_state[0] = "o" /\ m_consts[0] = pat.o
  /\ \A d \in 1 .. Len(path) :
       /\ path[d].x \in Variables
       /\ \A f \in 1 .. Len(path) : path[d].x = path[f].x => d = f
       /\ Offset(pat) + d - 1 < 2 => /\ m_state[Offset(pat) + d - 1] = path[d].x
                                     /\ m_consts[Offset(pat) + d - 1] = path[d].v

\* What is above the current level is empty: a down adds to it.
Ranges ==
  /\ Ranges0(edges, pat, m_state, m_consts, m_ranges_level)
  /\ m_level >= 1 => Ranges1(edges, pat, m_state, m_consts, m_ranges_level)
  /\ m_level >= 2 => Ranges2(edges, pat, m_state, m_consts, m_ranges_level)
  /\ \A d \in 0 .. 2 : d > m_level => m_ranges_level[d] = <<>>

\* A length is that of its ranges, or, once the third level was left, level 1 has that of
\* level 0.
Lengths ==
  \A d \in 0 .. 2 : Offset(pat) <= d /\ d <= m_level =>
    \/ m_length_level[d] = LengthOf(m_ranges_level[d])
    \/ /\ d = 1 /\ m_length_level[1] = m_length_level[0]
       /\ m_level = 1 => mode \in {"leap", "back"}

\* The scan is at the edge whose id is v.
ScanAt(v) ==
  /\ m_range_i_last \in DOMAIN m_ranges_level[2]
  /\ m_ranges_level[2][m_range_i_last][1] <= m_triple_j
  /\ m_triple_j <= m_ranges_level[2][m_range_i_last][2]
  /\ EdgeAt(m_triple_j) = v

\* The question is for the edge of a subject and an object, with a bound: the answer may
\* leave out the first range after the bound, and with it edges.
MaySkip(x, c) == m_level = 2 /\ x = "p" /\ m_state[1] = "o" /\ c # NoBound

Protocol ==
  /\ mode \in {"leap", "scan", "left", "back"} => ret.x \in Free
  /\ mode = "scan" => ret.v = LeastFrom(CurrentVals(ret.x), ret.c)
  /\ mode = "leap" =>
       IF MaySkip(ret.x, ret.c)
       THEN EdgeBounds # FALSE /\ (ret.v # 0 => ret.v \in CurrentVals(ret.x) /\ ret.c <= ret.v)
       ELSE ret.v = LeastFrom(CurrentVals(ret.x), ret.c)
  /\ mode \in {"idle", "under", "left", "back"} => ret.v = 0
  /\ mode \in {"scan", "left"} => m_level = 2
  /\ mode = "scan" /\ ret.v # 0 /\ ret.x = "p" => ScanAt(ret.v)
  /\ mode = "under" =>
       LET last == path[Len(path)] IN
       /\ m_level = 3 /\ path # <<>> /\ last.v \in CurrentVals(last.x)
       /\ last.x = "p" => ScanAt(last.v)
  /\ mode = "left" =>
       /\ ret.c \in CurrentVals(ret.x)
       /\ ret.x = "p" => ScanAt(ret.c)

IInv ==
  /\ StateTypes /\ ExprRanges
  /\ pat.s # 0 \/ pat.o # 0 => (m_is_empty <=> Matching = {})
  /\ IF m_is_empty THEN path = <<>> /\ mode = "idle" /\ ret.v = 0
     ELSE Bindings /\ Ranges /\ (m_level >= 1 => Current # {}) /\ Lengths /\ Protocol

-----------------------------------------------------------------------------
(***************************************************************************)
(* Sorting, and dropping what is empty.                                    *)
(***************************************************************************)
\* InOrder lists every member of S once, in the order of the keys.
LEMMA InOrderIs ==
  ASSUME NEW S, IsFiniteSet(S), NEW K, IsOrder(S, K), NEW seq, seq = InOrder(S, K)
  PROVE  /\ seq \in Seq(S) /\ Len(seq) = Cardinality(S) /\ DOMAIN seq = 1 .. Cardinality(S)
         /\ Cardinality(S) \in Nat
         /\ \A x \in S : \E k \in DOMAIN seq : seq[k] = x
         /\ \A j, k \in DOMAIN seq : j < k => Before(K[seq[j]], K[seq[k]])
<1> DEFINE pos == PositionsOf(S, K)
           n == Cardinality(S)
<1>1. n \in Nat
  BY FS_CardinalityType
<1>2. IsNumbering(S, pos) /\ \A x, y \in S : pos[x] < pos[y] <=> Before(K[x], K[y])
  BY PositionsNumber
<1>3. \A x \in S : pos[x] = Position(S, K, x)
  BY DEF PositionsOf
<1> HIDE DEF pos
<1>4. ASSUME NEW k \in 1 .. n PROVE seq[k] \in S /\ pos[seq[k]] = k
  <2>1. seq[k] = CHOOSE x \in S : Position(S, K, x) = k
    BY DEF InOrder
  <2>2. \E x \in S : Position(S, K, x) = k
    BY <1>2, <1>3 DEF IsNumbering
  <2>3. seq[k] \in S /\ Position(S, K, seq[k]) = k
    BY <2>1, <2>2
  <2> QED
    BY <1>3, <2>3
<1>5. seq = [k \in 1 .. n |-> seq[k]]
  BY DEF InOrder
<1>6. seq \in Seq(S) /\ Len(seq) = n /\ DOMAIN seq = 1 .. n
  <2>1. [k \in 1 .. n |-> seq[k]] \in [1 .. n -> S]
    BY <1>4
  <2>2. seq \in [1 .. n -> S]
    BY <1>5, <2>1
  <2> QED
    BY <1>1, <2>2, SeqDef, LenProperties
<1>7. ASSUME NEW x \in S PROVE \E k \in DOMAIN seq : seq[k] = x
  <2>1. pos[x] \in 1 .. n
    BY <1>2 DEF IsNumbering
  <2>2. seq[pos[x]] = x
    BY <1>2, <1>4, <2>1 DEF IsNumbering
  <2> QED
    BY <1>6, <2>1, <2>2
<1>8. ASSUME NEW j \in 1 .. n, NEW k \in 1 .. n, j < k PROVE Before(K[seq[j]], K[seq[k]])
  <2>1. pos[seq[j]] < pos[seq[k]]
    BY <1>4, <1>8
  <2> QED
    BY <1>2, <1>4, <2>1
<1> QED
  BY <1>1, <1>6, <1>7, <1>8

\* One number, or two, as a key.
LEMMA NumberBefore ==
  ASSUME NEW v \in Int, NEW w \in Int
  PROVE  Before(<<v>>, <<w>>) <=> v < w
<1>1. \A d : d \in DOMAIN <<v>> <=> d = 1
  OBVIOUS
<1>2. <<v>>[1] = v /\ <<w>>[1] = w /\ \A g : g \in 1 .. 1 - 1 <=> FALSE
  OBVIOUS
<1> QED
  BY <1>1, <1>2 DEF Before

\* Two numbers as a key: the first decides, then the second.
LEMMA PairBefore ==
  ASSUME NEW a \in Int \X Int, NEW b \in Int \X Int
  PROVE  Before(a, b) <=> a[1] < b[1] \/ (a[1] = b[1] /\ a[2] < b[2])
<1>1. \A d : d \in DOMAIN a <=> d = 1 \/ d = 2
  OBVIOUS
<1>2. \A g : g \in 1 .. 1 - 1 <=> FALSE
  OBVIOUS
<1>3. \A g : g \in 1 .. 2 - 1 <=> g = 1
  OBVIOUS
<1> QED
  BY <1>1, <1>2, <1>3 DEF Before

\* Rising lists every member of a set of numbers once, from the least on.
LEMMA RisingIs ==
  ASSUME NEW S \in SUBSET Int, IsFiniteSet(S), NEW seq, seq = Rising(S)
  PROVE  /\ seq \in Seq(S) /\ Len(seq) = Cardinality(S) /\ DOMAIN seq = 1 .. Cardinality(S)
         /\ Cardinality(S) \in Nat
         /\ \A x \in S : \E k \in DOMAIN seq : seq[k] = x
         /\ \A j, k \in DOMAIN seq : j < k => seq[j] < seq[k]
<1> DEFINE K == [v \in S |-> <<v>>]
<1>1. \A v, w \in S : Before(K[v], K[w]) <=> v < w
  BY NumberBefore
<1>2. seq = InOrder(S, K)
  BY DEF Rising
<1> HIDE DEF K
<1>3. IsOrder(S, K)
  BY <1>1 DEF IsOrder
<1>4. /\ seq \in Seq(S) /\ Len(seq) = Cardinality(S) /\ DOMAIN seq = 1 .. Cardinality(S)
      /\ Cardinality(S) \in Nat
      /\ \A x \in S : \E k \in DOMAIN seq : seq[k] = x
      /\ \A j, k \in DOMAIN seq : j < k => Before(K[seq[j]], K[seq[k]])
  BY <1>2, <1>3, InOrderIs
<1>5. \A k \in DOMAIN seq : seq[k] \in S
  BY <1>4
<1> QED
  BY <1>1, <1>4, <1>5

\* Sorted ranges.
LEMMA SortedRanges ==
  ASSUME NEW S \in SUBSET (Int \X Int), IsFiniteSet(S), NEW K, \A r \in S : K[r] = r,
         NEW seq, seq = InOrder(S, K)
  PROVE  /\ seq \in Seq(S) /\ Len(seq) = Cardinality(S) /\ DOMAIN seq = 1 .. Cardinality(S)
         /\ Cardinality(S) \in Nat
         /\ \A x \in S : \E k \in DOMAIN seq : seq[k] = x
         /\ \A j, k \in DOMAIN seq : j < k => seq[j][1] <= seq[k][1]
<1>1. \A v, w \in S : Before(K[v], K[w]) <=> v[1] < w[1] \/ (v[1] = w[1] /\ v[2] < w[2])
  BY PairBefore
<1>2. \A v \in S : v[1] \in Int /\ v[2] \in Int /\ v = <<v[1], v[2]>>
  OBVIOUS
<1>3. IsOrder(S, K) /\ IsFiniteSet(S) /\ seq = InOrder(S, K)
  BY <1>1, <1>2 DEF IsOrder
<1>4. /\ seq \in Seq(S) /\ Len(seq) = Cardinality(S) /\ DOMAIN seq = 1 .. Cardinality(S)
      /\ Cardinality(S) \in Nat
      /\ \A x \in S : \E k \in DOMAIN seq : seq[k] = x
      /\ \A j, k \in DOMAIN seq : j < k => Before(K[seq[j]], K[seq[k]])
  BY ONLY <1>3, InOrderIs, SMTT(30)
<1>5. \A k \in DOMAIN seq : seq[k] \in S
  BY <1>4
<1>6. ASSUME NEW j \in DOMAIN seq, NEW k \in DOMAIN seq, j < k PROVE seq[j][1] <= seq[k][1]
  <2>1. Before(K[seq[j]], K[seq[k]])
    BY <1>4, <1>6
  <2>2. seq[j] \in S /\ seq[k] \in S
    BY <1>5
  <2>3. seq[j][1] < seq[k][1] \/ seq[j][1] = seq[k][1]
    BY <1>1, <2>1, <2>2
  <2>4. seq[j][1] \in Int /\ seq[k][1] \in Int
    BY <1>2, <2>2
  <2> QED
    BY <2>3, <2>4
<1> QED
  BY <1>4, <1>6

\* NonEmpty keeps the ranges that are not empty, in their order.
IsEmptyRange(r) == r[1] = r[2] + 1

\* What it keeps, and where each of it comes from.
LEMMA NonEmptyIs ==
  ASSUME NEW ranges \in Seq(Int \X Int), NEW out, out = NonEmpty(ranges)
  PROVE  /\ out \in Seq(Int \X Int) /\ Len(out) <= Len(ranges)
         /\ \A k \in DOMAIN ranges : ~IsEmptyRange(ranges[k]) => \E i \in DOMAIN out : out[i] = ranges[k]
         /\ \E from \in [DOMAIN out -> DOMAIN ranges] :
              /\ \A i \in DOMAIN out : out[i] = ranges[from[i]] /\ ~IsEmptyRange(out[i])
              /\ \A i, j \in DOMAIN out : i < j => from[i] < from[j]
<1> DEFINE S == {k \in DOMAIN ranges : ranges[k][1] # ranges[k][2] + 1}
           kept == Rising(S)
<1>1. DOMAIN ranges = 1 .. Len(ranges) /\ Len(ranges) \in Nat /\ \A k \in DOMAIN ranges : ranges[k] \in Int \X Int
  OBVIOUS
<1>2. S \in SUBSET Int /\ S \subseteq 1 .. Len(ranges) /\ S \subseteq DOMAIN ranges
  BY <1>1
<1>3. \A k \in DOMAIN ranges : k \in S <=> ~IsEmptyRange(ranges[k])
  BY DEF IsEmptyRange
<1>4. out = [i \in DOMAIN kept |-> ranges[kept[i]]]
  BY DEF NonEmpty
<1> HIDE DEF S
<1>5. IsFiniteSet(S) /\ Cardinality(S) <= Len(ranges)
  <2>1. \A n \in Nat : IsFiniteSet(1 .. n) /\ Cardinality(1 .. n) = n
    BY FS_Interval
  <2> QED
    <3>1. IsFiniteSet(1 .. Len(ranges)) /\ Cardinality(1 .. Len(ranges)) = Len(ranges)
      BY <1>1, <2>1
    <3> QED
      BY <1>2, <3>1, FS_Subset
<1>6. /\ kept \in Seq(S) /\ DOMAIN kept = 1 .. Cardinality(S) /\ Cardinality(S) \in Nat
      /\ \A x \in S : \E k \in DOMAIN kept : kept[k] = x
      /\ \A j, k \in DOMAIN kept : j < k => kept[j] < kept[k]
  BY <1>2, <1>5, RisingIs
<1> HIDE DEF kept
<1>7. \A i \in DOMAIN kept : kept[i] \in S
  BY <1>6
<1>8. DOMAIN out = 1 .. Cardinality(S) /\ \A i \in DOMAIN out : out[i] = ranges[kept[i]] /\ out[i] \in Int \X Int
  <2>1. DOMAIN out = DOMAIN kept /\ \A i \in DOMAIN kept : out[i] = ranges[kept[i]]
    BY <1>4
  <2>2. \A i \in DOMAIN kept : ranges[kept[i]] \in Int \X Int
    BY <1>1, <1>2, <1>7
  <2> QED
    BY <1>6, <2>1, <2>2
<1>9. out \in Seq(Int \X Int) /\ Len(out) = Cardinality(S)
  <2>1. out = [i \in 1 .. Cardinality(S) |-> out[i]]
    BY <1>4, <1>6
  <2>2. out \in [1 .. Cardinality(S) -> Int \X Int]
    BY <1>8, <2>1
  <2> DEFINE m == Cardinality(S)
  <2>3. m \in Nat /\ out \in [1 .. m -> Int \X Int]
    BY <1>6, <2>2
  <2> HIDE DEF m
  <2>4. out \in Seq(Int \X Int)
    BY <2>3
  <2>5. Len(out) = m
    BY <2>3
  <2> QED
    BY <2>4, <2>5 DEF m
<1>10. ASSUME NEW k \in DOMAIN ranges, ~IsEmptyRange(ranges[k]) PROVE \E i \in DOMAIN out : out[i] = ranges[k]
  BY <1>3, <1>6, <1>8, <1>10
<1> DEFINE from == [i \in DOMAIN out |-> kept[i]]
<1>11. /\ from \in [DOMAIN out -> DOMAIN ranges]
       /\ \A i \in DOMAIN out : out[i] = ranges[from[i]] /\ ~IsEmptyRange(out[i])
       /\ \A i, j \in DOMAIN out : i < j => from[i] < from[j]
  <2>1. DOMAIN out = DOMAIN kept
    BY <1>6, <1>8
  <2>2. \A i \in DOMAIN out : kept[i] \in DOMAIN ranges
    BY <1>2, <1>7, <2>1
  <2>3. \A i \in DOMAIN out : out[i] = ranges[kept[i]] /\ ~IsEmptyRange(out[i])
    BY <1>3, <1>7, <1>8, <2>1, <2>2
  <2>4. \A i, j \in DOMAIN out : i < j => kept[i] < kept[j]
    BY <1>6, <2>1
  <2> QED
    BY <2>2, <2>3, <2>4
<1> QED
  BY <1>1, <1>5, <1>9, <1>10, <1>11

-----------------------------------------------------------------------------
(***************************************************************************)
(* Lists of ranges: what they cover, how many there are, how long they are.*)
(***************************************************************************)
\* A place is covered when a range of the list holds it.
LEMMA CoveredIs ==
  ASSUME NEW ranges \in Seq(Int \X Int), NEW i
  PROVE  i \in Covered(ranges) <=> i \in Int /\ InList(ranges, i)
<1>1. DOMAIN ranges = 1 .. Len(ranges) /\ \A k \in DOMAIN ranges : ranges[k] \in Int \X Int
  OBVIOUS
<1>2. ToSet(ranges) = {ranges[k] : k \in DOMAIN ranges}
  BY DEF ToSet
<1>3. \A k \in DOMAIN ranges : ranges[k][1] \in Int /\ ranges[k][2] \in Int
  BY <1>1
<1>4. i \in Covered(ranges) <=> \E k \in DOMAIN ranges : i \in ranges[k][1] .. ranges[k][2]
  BY <1>2 DEF Covered, InRanges
<1>5. i \in Covered(ranges) => i \in Int /\ InList(ranges, i)
  BY <1>3, <1>4 DEF InList
<1>6. i \in Int /\ InList(ranges, i) => i \in Covered(ranges)
  BY <1>3, <1>4 DEF InList
<1> QED
  BY <1>5, <1>6

\* Ranges of numbers.
LEMMA RangesTyped ==
  ASSUME NEW n \in Nat, NEW ranges \in RangesOver(n)
  PROVE  /\ ranges \in Seq(Int \X Int) /\ Len(ranges) \in Nat /\ DOMAIN ranges = 1 .. Len(ranges)
         /\ \A k \in DOMAIN ranges : /\ ranges[k] \in (1 .. n) \X (1 .. n)
                                     /\ ranges[k][1] \in 1 .. n /\ ranges[k][2] \in 1 .. n
                                     /\ ranges[k][1] \in Int /\ ranges[k][2] \in Int
<1>1. ranges \in Seq((1 .. n) \X (1 .. n))
  BY DEF RangesOver
<1>2. Len(ranges) \in Nat /\ DOMAIN ranges = 1 .. Len(ranges) /\ \A k \in DOMAIN ranges : ranges[k] \in (1 .. n) \X (1 .. n)
  BY <1>1
<1>3. \A k \in DOMAIN ranges : ranges[k] \in Int \X Int /\ ranges[k][1] \in 1 .. n /\ ranges[k][2] \in 1 .. n
  BY <1>2
<1>4. ranges \in Seq(Int \X Int)
  <2>1. ranges = [k \in 1 .. Len(ranges) |-> ranges[k]]
    BY <1>1
  <2> DEFINE m == Len(ranges)
  <2>2. m \in Nat /\ ranges \in [1 .. m -> Int \X Int]
    BY <1>2, <1>3, <2>1
  <2> HIDE DEF m
  <2> QED
    BY <2>2
<1> QED
  BY <1>2, <1>3, <1>4

\* Apart and rising, there are at most n of them in 1 .. n.
LEMMA FewRanges ==
  ASSUME NEW n \in Nat, NEW ranges \in RangesOver(n), IsList(ranges)
  PROVE  Len(ranges) <= n
<1>1. /\ Len(ranges) \in Nat /\ DOMAIN ranges = 1 .. Len(ranges)
      /\ \A k \in DOMAIN ranges : ranges[k][1] \in Int /\ ranges[k][2] \in 1 .. n
  BY RangesTyped
<1> DEFINE Bad == {k \in DOMAIN ranges : ranges[k][2] < k}
<1>2. Bad = {}
  <2> SUFFICES ASSUME Bad # {} PROVE FALSE
    OBVIOUS
  <2>1. PICK k \in Bad : \A j \in Bad : k <= j
    <3>1. Bad \in SUBSET Nat
      BY <1>1
    <3> HIDE DEF Bad
    <3> QED
      BY <3>1, NatHasLeast
  <2>2. k \in 1 .. Len(ranges) /\ ranges[k][2] < k /\ ranges[k][2] \in 1 .. n
    BY <1>1
  <2>3. k - 1 \in DOMAIN ranges /\ k - 1 < k
    BY <1>1, <2>2
  <2>4. k - 1 \notin Bad
    <3> HIDE DEF Bad
    <3> QED
      BY <2>1, <2>2, <2>3
  <2>5. ~(ranges[k - 1][2] < k - 1) /\ ranges[k - 1][2] \in Int
    BY <1>1, <2>3, <2>4
  <2>6. ranges[k - 1][2] < ranges[k][1] /\ ranges[k][1] <= ranges[k][2] /\ ranges[k][1] \in Int
    BY <1>1, <2>2, <2>3 DEF IsList
  <2> QED
    BY <2>2, <2>5, <2>6
<1>3. CASE Len(ranges) = 0
  BY <1>3
<1>4. CASE Len(ranges) # 0
  <2>1. Len(ranges) \in DOMAIN ranges
    BY <1>1, <1>4
  <2>2. ~(ranges[Len(ranges)][2] < Len(ranges))
    BY <1>2, <2>1
  <2> QED
    BY <1>1, <2>1, <2>2
<1> QED
  BY <1>3, <1>4

\* Each range of a list is an interval of the edges placed in it.
LEMMA ListParts ==
  ASSUME NEW E, IsFiniteSet(E), NEW pos, IsNumbering(E, pos), NEW ranges, NEW A,
         Lists(ranges, A, E, pos), NEW k \in DOMAIN ranges
  PROVE  LET part == {e \in E : ranges[k][1] <= pos[e] /\ pos[e] <= ranges[k][2]}
         IN  /\ Spans(ranges[k][1], ranges[k][2], part, E, pos)
             /\ part \subseteq A /\ part # {}
<1> DEFINE part == {e \in E : ranges[k][1] <= pos[e] /\ pos[e] <= ranges[k][2]}
           n == Cardinality(E)
<1>1. n \in Nat
  BY FS_CardinalityType
<1>2. ranges[k][1] \in 1 .. n /\ ranges[k][2] \in 1 .. n /\ ranges[k][1] <= ranges[k][2]
  BY <1>1, RangesTyped DEF Lists, IsList
<1>3. Spans(ranges[k][1], ranges[k][2], part, E, pos)
  BY <1>1, <1>2 DEF Spans
<1>4. part \subseteq A
  BY DEF Lists, InList
<1>5. part # {}
  <2>1. PICK e \in E : pos[e] = ranges[k][1]
    BY <1>2 DEF IsNumbering
  <2> QED
    BY <1>1, <1>2, <2>1
<1> QED
  BY <1>3, <1>4, <1>5

\* compute_length adds up to the number of edges.
LEMMA LengthIs ==
  ASSUME NEW E, IsFiniteSet(E), NEW pos, IsNumbering(E, pos), NEW ranges, NEW A,
         Lists(ranges, A, E, pos)
  PROVE  LengthOf(ranges) = Cardinality(A)
<1> DEFINE n == Cardinality(E)
           m == Len(ranges)
           Part(k) == {e \in E : ranges[k][1] <= pos[e] /\ pos[e] <= ranges[k][2]}
           Upto(k) == {e \in E : \E j \in 1 .. k : ranges[j][1] <= pos[e] /\ pos[e] <= ranges[j][2]}
           g == [k \in 0 .. m |-> Cardinality(Upto(k))]
           sum == CHOOSE f : f = [k \in 0 .. m |-> IF k = 0 THEN 0 ELSE f[k - 1] + ranges[k][2] - ranges[k][1] + 1]
<1>1. n \in Nat
  BY FS_CardinalityType
<1>2. /\ ranges \in RangesOver(n) /\ m \in Nat /\ DOMAIN ranges = 1 .. m
      /\ \A k \in 1 .. m : ranges[k][1] \in Int /\ ranges[k][2] \in Int
  BY <1>1, RangesTyped DEF Lists
<1>3. \A e \in E : pos[e] \in Int
  BY <1>1 DEF IsNumbering
<1>4. ASSUME NEW k \in 1 .. m
      PROVE  Cardinality(Upto(k)) = Cardinality(Upto(k - 1)) + ranges[k][2] - ranges[k][1] + 1
  <2>1. Upto(k) = Upto(k - 1) \cup Part(k)
    <3>1. \A j : j \in 1 .. k <=> j \in 1 .. k - 1 \/ j = k
      BY <1>2
    <3> QED
      BY <3>1
  <2>2. Upto(k - 1) \cap Part(k) = {}
    <3> SUFFICES ASSUME NEW e \in Upto(k - 1), e \in Part(k) PROVE FALSE
      OBVIOUS
    <3>1. PICK j \in 1 .. k - 1 : ranges[j][1] <= pos[e] /\ pos[e] <= ranges[j][2]
      OBVIOUS
    <3>2. ranges[k][1] <= pos[e] /\ e \in E
      OBVIOUS
    <3>3. j \in 1 .. m /\ j < k
      BY <1>2
    <3>4. ranges[j][2] < ranges[k][1]
      BY <1>2, <3>3 DEF Lists, IsList
    <3> QED
      BY <1>2, <1>3, <3>1, <3>2, <3>3, <3>4
  <2>3. IsFiniteSet(Upto(k - 1)) /\ IsFiniteSet(Part(k))
    BY FS_Subset
  <2>4. Cardinality(Part(k)) = ranges[k][2] - ranges[k][1] + 1
    <3>1. IsFiniteSet(E) /\ IsNumbering(E, pos) /\ Lists(ranges, A, E, pos) /\ k \in DOMAIN ranges
      BY <1>2
    <3>2. Spans(ranges[k][1], ranges[k][2], Part(k), E, pos)
      BY ONLY <3>1, ListParts, ZenonT(40)
    <3> HIDE DEF Part
    <3> QED
      BY ONLY <3>1, <3>2, SpanSize
  <2> HIDE DEF Upto, Part
  <2>5. Cardinality(Upto(k)) = Cardinality(Upto(k - 1)) + Cardinality(Part(k)) - Cardinality({})
    BY <2>1, <2>2, <2>3, FS_Union
  <2>6. Cardinality({}) = 0 /\ Cardinality(Upto(k - 1)) \in Nat /\ ranges[k][2] \in Int /\ ranges[k][1] \in Int
    BY <1>2, <2>3, FS_EmptySet, FS_CardinalityType
  <2> QED
    BY <2>4, <2>5, <2>6
<1>5. Upto(0) = {} /\ Upto(m) = A
  <2>1. Upto(0) = {}
    OBVIOUS
  <2>2. Upto(m) = A
    BY <1>2 DEF Lists, InList
  <2> QED
    BY <2>1, <2>2
<1>6. Cardinality(Upto(0)) = 0
  <2> HIDE DEF Upto
  <2> QED
    BY <1>5, FS_EmptySet
<1> HIDE DEF Upto, Part
<1>7. g = [k \in 0 .. m |-> IF k = 0 THEN 0 ELSE g[k - 1] + ranges[k][2] - ranges[k][1] + 1]
  <2>1. ASSUME NEW k \in 0 .. m
        PROVE  g[k] = IF k = 0 THEN 0 ELSE g[k - 1] + ranges[k][2] - ranges[k][1] + 1
    <3>1. g[k] = Cardinality(Upto(k))
      OBVIOUS
    <3>2. CASE k = 0
      BY <1>6, <3>1, <3>2
    <3>3. CASE k # 0
      <4>1. k \in 1 .. m /\ k - 1 \in 0 .. m
        BY <1>2, <3>3
      <4>2. g[k - 1] = Cardinality(Upto(k - 1))
        BY <4>1
      <4> HIDE DEF g
      <4> QED
        BY <1>4, <3>1, <3>3, <4>1, <4>2
    <3> QED
      BY <3>2, <3>3
  <2>2. g = [k \in 0 .. m |-> g[k]]
    OBVIOUS
  <2> HIDE DEF g
  <2> QED
    BY <2>1, <2>2
<1>8. sum = [k \in 0 .. m |-> IF k = 0 THEN 0 ELSE sum[k - 1] + ranges[k][2] - ranges[k][1] + 1]
  <2> HIDE DEF g
  <2> QED
    BY <1>7
<1>9. LengthOf(ranges) = sum[m]
  BY DEF LengthOf
<1> HIDE DEF sum, g
<1> DEFINE Wrong == {k \in 0 .. m : sum[k] # g[k]}
<1>10. Wrong = {}
  <2> SUFFICES ASSUME Wrong # {} PROVE FALSE
    OBVIOUS
  <2>1. PICK k \in Wrong : \A j \in Wrong : k <= j
    <3>1. Wrong \in SUBSET Nat
      BY <1>2
    <3> HIDE DEF Wrong
    <3> QED
      BY <3>1, NatHasLeast
  <2>2. k \in 0 .. m /\ sum[k] # g[k]
    OBVIOUS
  <2>3. k # 0
    BY <1>7, <1>8, <2>2
  <2>4. k - 1 \in 0 .. m /\ k - 1 < k
    BY <1>2, <2>2, <2>3
  <2>5. k - 1 \notin Wrong
    <3> HIDE DEF Wrong
    <3> QED
      BY <2>1, <2>2, <2>4
  <2>6. sum[k - 1] = g[k - 1]
    BY <2>4, <2>5
  <2>7. sum[k] = sum[k - 1] + ranges[k][2] - ranges[k][1] + 1
    BY <1>8, <2>2, <2>3
  <2>8. g[k] = g[k - 1] + ranges[k][2] - ranges[k][1] + 1
    BY <1>7, <2>2, <2>3
  <2> QED
    BY <2>2, <2>6, <2>7, <2>8
<1>11. sum[m] = g[m]
  BY <1>2, <1>10
<1>12. g[m] = Cardinality(Upto(m))
  BY <1>2 DEF g
<1> QED
  BY <1>5, <1>9, <1>11, <1>12

-----------------------------------------------------------------------------
(***************************************************************************)
(* Lists of positions, from level to level.                                *)
(***************************************************************************)
\* Intervals of sets of edges, one set before the next.
AreSpans(raw, sets, E, pos) ==
  /\ raw \in Seq(Int \X Int)
  /\ \A k \in DOMAIN raw : Spans(raw[k][1], raw[k][2], sets[k], E, pos)
  /\ \A j, k \in DOMAIN raw : j < k => \A e \in sets[j], f \in sets[k] : pos[e] < pos[f]
AllOf(raw, sets) == UNION {sets[k] : k \in DOMAIN raw}

\* Spans that follow each other are a list of all their members.
LEMMA SpansAreList ==
  ASSUME NEW E, IsFiniteSet(E), NEW pos, IsNumbering(E, pos), NEW raw, NEW sets,
         AreSpans(raw, sets, E, pos), \A k \in DOMAIN raw : sets[k] # {}
  PROVE  Lists(raw, AllOf(raw, sets), E, pos)
<1> DEFINE n == Cardinality(E)
<1>1. n \in Nat
  BY FS_CardinalityType
<1>2. /\ raw \in Seq(Int \X Int) /\ DOMAIN raw = 1 .. Len(raw) /\ Len(raw) \in Nat
      /\ \A k \in DOMAIN raw : raw[k] \in Int \X Int
  BY DEF AreSpans
<1>3. \A k \in DOMAIN raw :
        /\ raw[k][1] \in 1 .. n + 1 /\ raw[k][2] \in 0 .. n /\ sets[k] \subseteq E
        /\ \A e \in E : e \in sets[k] <=> raw[k][1] <= pos[e] /\ pos[e] <= raw[k][2]
  BY DEF AreSpans, Spans
<1>4. ASSUME NEW k \in DOMAIN raw
      PROVE  /\ raw[k][1] <= raw[k][2]
             /\ \E e \in sets[k] : pos[e] = raw[k][1]
             /\ \E e \in sets[k] : pos[e] = raw[k][2]
  <2>1. Spans(raw[k][1], raw[k][2], sets[k], E, pos) /\ sets[k] # {}
    BY DEF AreSpans
  <2>2. raw[k][1] <= raw[k][2] /\ \A i \in raw[k][1] .. raw[k][2] : \E e \in sets[k] : pos[e] = i
    BY <2>1, SpanSize
  <2>3. raw[k][1] \in raw[k][1] .. raw[k][2] /\ raw[k][2] \in raw[k][1] .. raw[k][2]
    BY <1>1, <1>3, <2>2
  <2> QED
    BY <2>2, <2>3
<1>5. raw \in RangesOver(n)
  <2>1. \A k \in DOMAIN raw : raw[k] \in (1 .. n) \X (1 .. n)
    <3> SUFFICES ASSUME NEW k \in DOMAIN raw PROVE raw[k] \in (1 .. n) \X (1 .. n)
      OBVIOUS
    <3>1. raw[k][1] \in 1 .. n /\ raw[k][2] \in 1 .. n
      BY <1>1, <1>3, <1>4
    <3>2. raw[k] = <<raw[k][1], raw[k][2]>>
      BY <1>2
    <3> QED
      BY <3>1, <3>2
  <2> DEFINE m == Len(raw)
             S == (1 .. n) \X (1 .. n)
  <2>2. m \in Nat /\ raw \in [1 .. m -> S]
    <3>1. raw = [k \in 1 .. m |-> raw[k]]
      BY <1>2
    <3> HIDE DEF S
    <3> QED
      BY <1>2, <2>1, <3>1 DEF S
  <2> HIDE DEF m, S
  <2>3. raw \in Seq(S)
    BY <2>2
  <2> QED
    BY <2>3 DEF RangesOver, S
<1>6. IsList(raw)
  <2>1. ASSUME NEW j \in DOMAIN raw, NEW k \in DOMAIN raw, j < k PROVE raw[j][2] < raw[k][1]
    <3>1. PICK e \in sets[j] : pos[e] = raw[j][2]
      BY <1>4
    <3>2. PICK f \in sets[k] : pos[f] = raw[k][1]
      BY <1>4
    <3>3. pos[e] < pos[f]
      BY <2>1, <3>1, <3>2 DEF AreSpans
    <3> QED
      BY <3>1, <3>2, <3>3
  <2> QED
    BY <1>4, <2>1 DEF IsList
<1>7. AllOf(raw, sets) \subseteq E
  BY <1>3 DEF AllOf
<1>8. ASSUME NEW e \in E PROVE e \in AllOf(raw, sets) <=> InList(raw, pos[e])
  <2>1. e \in AllOf(raw, sets) <=> \E k \in DOMAIN raw : e \in sets[k]
    BY DEF AllOf
  <2> QED
    BY <1>3, <2>1 DEF InList
<1> QED
  BY <1>5, <1>6, <1>7, <1>8 DEF Lists

\* Without those that are empty.
LEMMA NonEmptyList ==
  ASSUME NEW E, IsFiniteSet(E), NEW pos, IsNumbering(E, pos), NEW raw, NEW sets,
         AreSpans(raw, sets, E, pos)
  PROVE  Lists(NonEmpty(raw), AllOf(raw, sets), E, pos) /\ Len(NonEmpty(raw)) <= Len(raw)
<1> DEFINE out == NonEmpty(raw)
<1>1. raw \in Seq(Int \X Int)
  BY DEF AreSpans
<1>2. /\ out \in Seq(Int \X Int) /\ Len(out) <= Len(raw)
      /\ \A k \in DOMAIN raw : ~IsEmptyRange(raw[k]) => \E i \in DOMAIN out : out[i] = raw[k]
      /\ \E from \in [DOMAIN out -> DOMAIN raw] :
           /\ \A i \in DOMAIN out : out[i] = raw[from[i]] /\ ~IsEmptyRange(out[i])
           /\ \A i, j \in DOMAIN out : i < j => from[i] < from[j]
  BY <1>1, NonEmptyIs
<1> HIDE DEF out
<1>3. PICK from \in [DOMAIN out -> DOMAIN raw] :
        /\ \A i \in DOMAIN out : out[i] = raw[from[i]] /\ ~IsEmptyRange(out[i])
        /\ \A i, j \in DOMAIN out : i < j => from[i] < from[j]
  BY <1>2
<1>4. ASSUME NEW k \in DOMAIN raw PROVE IsEmptyRange(raw[k]) <=> sets[k] = {}
  <2>1. Spans(raw[k][1], raw[k][2], sets[k], E, pos) /\ raw[k][1] \in Int /\ raw[k][2] \in Int
    BY <1>1 DEF AreSpans
  <2>2. Cardinality(sets[k]) = raw[k][2] - raw[k][1] + 1
    BY <2>1, SpanSize
  <2>3. IsFiniteSet(sets[k])
    BY <2>1, FS_Subset DEF Spans
  <2>4. Cardinality(sets[k]) = 0 <=> sets[k] = {}
    BY <2>3, FS_EmptySet
  <2> QED
    BY <2>1, <2>2, <2>4 DEF IsEmptyRange
<1> DEFINE kept == [i \in DOMAIN out |-> sets[from[i]]]
<1>5. \A i \in DOMAIN out : from[i] \in DOMAIN raw /\ out[i] = raw[from[i]] /\ kept[i] = sets[from[i]] /\ kept[i] # {}
  <2>1. \A i \in DOMAIN out : from[i] \in DOMAIN raw
    BY <1>3
  <2> QED
    BY <1>3, <1>4, <2>1
<1>6. DOMAIN out \subseteq Int /\ DOMAIN raw \subseteq Int
  BY <1>1, <1>2
<1> HIDE DEF kept
<1>7. AreSpans(out, kept, E, pos)
  <2>1. \A i \in DOMAIN out : Spans(out[i][1], out[i][2], kept[i], E, pos)
    BY <1>5 DEF AreSpans
  <2>2. ASSUME NEW j \in DOMAIN out, NEW k \in DOMAIN out, j < k, NEW e \in kept[j], NEW f \in kept[k]
        PROVE  pos[e] < pos[f]
    <3>1. from[j] < from[k] /\ from[j] \in DOMAIN raw /\ from[k] \in DOMAIN raw
      BY <1>3, <1>5, <2>2
    <3>2. e \in sets[from[j]] /\ f \in sets[from[k]]
      BY <1>5
    <3> QED
      BY <3>1, <3>2 DEF AreSpans
  <2> QED
    BY <1>2, <2>1, <2>2 DEF AreSpans
<1>8. Lists(out, AllOf(out, kept), E, pos)
  BY <1>5, <1>7, SpansAreList
<1>9. AllOf(out, kept) = AllOf(raw, sets)
  <2>1. ASSUME NEW e \in AllOf(out, kept) PROVE e \in AllOf(raw, sets)
    <3>1. PICK i \in DOMAIN out : e \in kept[i]
      BY DEF AllOf
    <3> QED
      BY <1>5, <3>1 DEF AllOf
  <2>2. ASSUME NEW e \in AllOf(raw, sets) PROVE e \in AllOf(out, kept)
    <3>1. PICK k \in DOMAIN raw : e \in sets[k]
      BY DEF AllOf
    <3>2. ~IsEmptyRange(raw[k])
      BY <1>4, <3>1
    <3>3. PICK i \in DOMAIN out : out[i] = raw[k]
      BY <1>2, <3>2
    <3>4. raw[from[i]] = raw[k] /\ from[i] \in DOMAIN raw
      BY <1>5, <3>3
    <3>5. e \in sets[from[i]]
      <4>1. /\ Spans(raw[k][1], raw[k][2], sets[from[i]], E, pos)
            /\ Spans(raw[k][1], raw[k][2], sets[k], E, pos)
        BY <3>4 DEF AreSpans
      <4> QED
        BY <3>1, <4>1 DEF Spans
    <3>6. e \in kept[i]
      BY <1>5, <3>5
    <3> QED
      BY <3>6 DEF AllOf
  <2> QED
    BY <2>1, <2>2
<1> QED
  BY <1>2, <1>8, <1>9 DEF out

\* A function on 1 .. m is a sequence.
LEMMA FunctionIsSeq ==
  ASSUME NEW m \in Nat, NEW S, NEW f \in [1 .. m -> S]
  PROVE  f \in Seq(S) /\ Len(f) = m /\ DOMAIN f = 1 .. m
OBVIOUS

\* A step takes each range of a list to that of its edges with the symbol.
LEMMA LoweredLists ==
  ASSUME NEW E, IsFiniteSet(E), NEW B, NEW posB, NEW symB, NEW leadB, NEW topB,
         IsColumn(B, E, posB, symB, leadB, topB),
         NEW T, NEW posT, NEW symT, NEW leadT, NEW topT,
         IsColumn(T, E, posT, symT, leadT, topT),
         Turns(B, T, E, posB, posT, symB), \A e \in E : leadT[e] = symB[e],
         NEW ranges, NEW A, Lists(ranges, A, E, posB), NEW v \in 1 .. topT
  PROVE  /\ Lists(Lowered(B, T, ranges, v), {e \in A : symB[e] = v}, E, posT)
         /\ Len(Lowered(B, T, ranges, v)) <= Len(ranges)
<1> DEFINE raw == [k \in DOMAIN ranges |-> Step(B, T, ranges[k], v)]
           Part(k) == {e \in E : ranges[k][1] <= posB[e] /\ posB[e] <= ranges[k][2]}
           sets == [k \in DOMAIN ranges |-> {e \in Part(k) : symB[e] = v}]
           n == Cardinality(E)
<1>1. n \in Nat /\ IsNumbering(E, posB) /\ IsNumbering(E, posT) /\ A \subseteq E
  BY FS_CardinalityType DEF IsColumn, Lists
<1>2. /\ DOMAIN ranges = 1 .. Len(ranges) /\ Len(ranges) \in Nat
      /\ \A k \in DOMAIN ranges : /\ ranges[k] \in (1 .. n) \X (1 .. n)
                                  /\ ranges[k][1] \in Int /\ ranges[k][2] \in Int
  BY <1>1, RangesTyped DEF Lists
<1>3. ASSUME NEW k \in DOMAIN ranges
      PROVE  /\ Spans(raw[k][1], raw[k][2], sets[k], E, posT)
             /\ raw[k] \in Int \X Int
  <2>1. Spans(ranges[k][1], ranges[k][2], Part(k), E, posB)
    BY <1>1, ListParts
  <2>2. ranges[k] = <<ranges[k][1], ranges[k][2]>>
    BY <1>2
  <2>3. raw[k] = Step(B, T, <<ranges[k][1], ranges[k][2]>>, v)
    BY <2>2
  <2> HIDE DEF Part
  <2>4. Spans(raw[k][1], raw[k][2], {e \in Part(k) : symB[e] = v}, E, posT)
    <3> HIDE DEF raw
    <3> QED
      BY <2>1, <2>3, StepSpans
  <2>5. raw[k][1] \in Int /\ raw[k][2] \in Int
    <3> HIDE DEF raw
    <3> QED
      BY <1>1, <2>4 DEF Spans
  <2>6. raw[k] = <<raw[k][1], raw[k][2]>>
    BY <2>3 DEF Step
  <2>7. raw[k] \in Int \X Int
    <3> HIDE DEF raw
    <3> QED
      BY <2>5, <2>6
  <2>8. sets[k] = {e \in Part(k) : symB[e] = v}
    OBVIOUS
  <2> HIDE DEF raw, sets
  <2> QED
    BY <2>4, <2>7, <2>8
<1>4. ASSUME NEW j \in DOMAIN ranges, NEW k \in DOMAIN ranges, j < k, NEW e \in sets[j], NEW f \in sets[k]
      PROVE  posT[e] < posT[f]
  <2>1. e \in E /\ f \in E /\ symB[e] = v /\ symB[f] = v /\ posB[e] <= ranges[j][2] /\ ranges[k][1] <= posB[f]
    OBVIOUS
  <2>2. ranges[j][2] < ranges[k][1]
    BY <1>4 DEF Lists, IsList
  <2>3. posB[e] \in Int /\ posB[f] \in Int
    BY <1>1, <2>1 DEF IsNumbering
  <2>4. posB[e] < posB[f]
    BY <1>2, <2>1, <2>2, <2>3
  <2> QED
    BY <2>1, <2>4 DEF Turns
<1>5. raw \in Seq(Int \X Int) /\ DOMAIN raw = DOMAIN ranges /\ Len(raw) = Len(ranges)
  <2>1. raw \in [1 .. Len(ranges) -> Int \X Int]
    BY <1>2, <1>3
  <2> HIDE DEF raw
  <2> QED
    BY <1>2, <2>1, FunctionIsSeq
<1>6. AllOf(raw, sets) = {e \in A : symB[e] = v}
  <2>1. \A e \in E : e \in A <=> \E k \in DOMAIN ranges : e \in Part(k)
    BY DEF Lists, InList
  <2>2. \A k \in DOMAIN ranges : sets[k] = {e \in Part(k) : symB[e] = v} /\ Part(k) \subseteq E
    OBVIOUS
  <2> HIDE DEF Part, sets, raw
  <2> QED
    BY <1>1, <1>5, <2>1, <2>2 DEF AllOf
<1>7. Lowered(B, T, ranges, v) = NonEmpty(raw)
  BY DEF Lowered
<1> HIDE DEF raw, sets
<1>8. AreSpans(raw, sets, E, posT)
  BY <1>3, <1>4, <1>5 DEF AreSpans
<1>9. /\ Lists(NonEmpty(raw), AllOf(raw, sets), E, posT)
      /\ Len(NonEmpty(raw)) <= Len(raw)
  BY <1>1, <1>8, NonEmptyList
<1> QED
  BY <1>5, <1>6, <1>7, <1>9

\* Each label has an edge.
Numbered(E) == \A e \in E : \A label \in 1 .. e.p : \E f \in E : f.p = label

\* The largest label is that of an edge.
LEMMA LabelsUsed ==
  ASSUME NEW E, IsGraph(E), Numbered(E), NEW R0, R0 = Build(E)
  PROVE  \A label \in 1 .. R0.maxP : \E f \in E : f.p = label
<1> DEFINE P == {e.p : e \in E}
<1>1. R0.maxP = LargestOf(P)
  BY DEF Build
<1>2. P \in SUBSET Nat /\ P # {}
  BY DEF IsGraph
<1>3. IsFiniteSet(P)
  <2>1. IsFiniteSet(E)
    BY DEF IsGraph
  <2> DEFINE f == [e \in E |-> e.p]
  <2>2. f \in Surjection(E, P)
    BY DEF Surjection
  <2> HIDE DEF f, P
  <2> QED
    BY <2>1, <2>2, FS_Surjection
<1>4. LargestOf(P) \in P
  <2> HIDE DEF P
  <2> QED
    BY <1>2, <1>3, LargestIs
<1>5. PICK e \in E : e.p = R0.maxP
  BY <1>1, <1>4
<1> QED
  BY <1>5 DEF Numbered

\* compute_ranges_initial_level: the edges with the labels.
LEMMA InitialLists ==
  ASSUME NEW E, IsGraph(E), NEW R0, IsRing(R0, E),
         \A label \in 1 .. R0.maxP : \E f \in E : f.p = label,
         NEW labels \in RangesOver(R0.maxP), IsList(labels)
  PROVE  /\ Lists(Initial(R0, labels), {e \in E : InList(labels, e.p)}, E, Pos(E))
         /\ Len(Initial(R0, labels)) = Len(labels)
<1> DEFINE raw == [k \in DOMAIN labels |-> <<R0.s.C[labels[k][1]], R0.s.C[labels[k][2] + 1] - 1>>]
           sets == [k \in DOMAIN labels |-> {e \in E : labels[k][1] <= e.p /\ e.p <= labels[k][2]}]
           n == R0.n
<1>1. /\ IsFiniteSet(E) /\ Cardinality(E) = n /\ IsNumbering(E, Pos(E)) /\ n \in Nat /\ R0.maxP \in Nat
      /\ \A e \in E : e.p \in 1 .. R0.maxP /\ Pred(E)[e] = e.p /\ Pos(E)[e] \in 1 .. n
  <2>1. /\ IsFiniteSet(E) /\ Cardinality(E) = n /\ IsNumbering(E, Pos(E)) /\ n \in Nat /\ R0.maxP \in Nat
        /\ \A e \in E : e.p \in 1 .. R0.maxP /\ Pos(E)[e] \in 1 .. n
    BY EdgeFacts DEF IsRing
  <2>2. \A e \in E : Pred(E)[e] = e.p
    BY DEF Pred
  <2> QED
    BY <2>1, <2>2
<1>2. /\ DOMAIN labels = 1 .. Len(labels) /\ Len(labels) \in Nat
      /\ \A k \in DOMAIN labels : labels[k][1] \in 1 .. R0.maxP /\ labels[k][2] \in 1 .. R0.maxP
  BY <1>1, RangesTyped
<1>3. \A k \in DOMAIN labels : labels[k][1] <= labels[k][2]
  BY DEF IsList
<1>4. \A v \in 1 .. R0.maxP + 1 : /\ R0.s.C[v] \in 1 .. n + 1
                                  /\ \A e \in E : R0.s.C[v] <= Pos(E)[e] <=> v <= e.p
  <2>1. IsColumn(R0.s, E, Pos(E), Subj(E), Pred(E), R0.maxP)
    BY DEF IsRing
  <2>2. \A v \in 1 .. R0.maxP + 1 :
          /\ R0.s.C[v] \in 1 .. Cardinality(E) + 1
          /\ \A e \in E : R0.s.C[v] <= Pos(E)[e] <=> v <= Pred(E)[e]
    BY ONLY <2>1 DEF IsColumn
  <2> QED
    BY ONLY <1>1, <2>2
<1>5. ASSUME NEW k \in DOMAIN labels
      PROVE  /\ Spans(raw[k][1], raw[k][2], sets[k], E, Pos(E))
             /\ raw[k] \in Int \X Int /\ sets[k] # {}
  <2> DEFINE a == labels[k][1]
             b == labels[k][2]
             l == R0.s.C[a]
             r == R0.s.C[b + 1]
  <2>1. a \in 1 .. R0.maxP /\ b \in 1 .. R0.maxP /\ a <= b
    BY <1>2, <1>3
  <2>2. a \in 1 .. R0.maxP + 1 /\ b + 1 \in 1 .. R0.maxP + 1
    BY <1>1, <2>1
  <2>3. raw[k] = <<l, r - 1>> /\ sets[k] = {e \in E : a <= e.p /\ e.p <= b}
    OBVIOUS
  <2> HIDE DEF a, b
  <2>4. /\ l \in 1 .. n + 1 /\ r \in 1 .. n + 1
        /\ \A e \in E : /\ l <= Pos(E)[e] <=> a <= e.p
                        /\ r <= Pos(E)[e] <=> b + 1 <= e.p
    BY <1>4, <2>2
  <2>5. PICK f \in E : f.p = a
    BY <2>1
  <2> HIDE DEF l, r, raw, sets
  <2>6. l <= Pos(E)[f] /\ ~(r <= Pos(E)[f]) /\ Pos(E)[f] \in Int
    BY <1>1, <2>1, <2>4, <2>5
  <2>7. r - 1 \in 0 .. n /\ l <= (r - 1) + 1 /\ l \in Int /\ r - 1 \in Int
    BY <1>1, <2>4, <2>6
  <2>8. \A e \in E : e \in sets[k] <=> l <= Pos(E)[e] /\ Pos(E)[e] <= r - 1
    <3> SUFFICES ASSUME NEW e \in E PROVE e \in sets[k] <=> l <= Pos(E)[e] /\ Pos(E)[e] <= r - 1
      OBVIOUS
    <3>1. e.p \in Int /\ Pos(E)[e] \in Int /\ r \in Int /\ b \in Int
      BY <1>1, <2>1, <2>4
    <3>2. Pos(E)[e] <= r - 1 <=> ~(r <= Pos(E)[e])
      BY <3>1
    <3>3. e.p <= b <=> ~(b + 1 <= e.p)
      BY <3>1
    <3> QED
      BY <2>3, <2>4, <3>2, <3>3
  <2>9. Spans(l, r - 1, sets[k], E, Pos(E))
    BY <1>1, <2>3, <2>4, <2>7, <2>8 DEF Spans
  <2>10. f \in sets[k]
    BY <2>1, <2>3, <2>5
  <2> QED
    BY <2>3, <2>7, <2>9, <2>10
<1>6. ASSUME NEW j \in DOMAIN labels, NEW k \in DOMAIN labels, j < k, NEW e \in sets[j], NEW f \in sets[k]
      PROVE  Pos(E)[e] < Pos(E)[f]
  <2>1. e \in E /\ f \in E /\ e.p <= labels[j][2] /\ labels[k][1] <= f.p
    OBVIOUS
  <2>2. labels[j][2] < labels[k][1]
    BY <1>6 DEF IsList
  <2>3. labels[k][1] \in 1 .. R0.maxP + 1 /\ ~(labels[k][1] <= e.p)
    BY <1>1, <1>2, <2>1, <2>2
  <2>4. R0.s.C[labels[k][1]] <= Pos(E)[f] /\ ~(R0.s.C[labels[k][1]] <= Pos(E)[e])
    BY <1>4, <2>1, <2>3
  <2>5. R0.s.C[labels[k][1]] \in Int /\ Pos(E)[e] \in Int /\ Pos(E)[f] \in Int
    BY <1>1, <1>4, <2>1, <2>3
  <2> QED
    BY <2>4, <2>5
<1>7. raw \in Seq(Int \X Int) /\ DOMAIN raw = DOMAIN labels /\ Len(raw) = Len(labels)
  <2>1. raw \in [1 .. Len(labels) -> Int \X Int]
    BY <1>2, <1>5
  <2> HIDE DEF raw
  <2> QED
    BY <1>2, <2>1, FunctionIsSeq
<1>8. AllOf(raw, sets) = {e \in E : InList(labels, e.p)}
  <2>1. DOMAIN raw = DOMAIN labels /\ \A k \in DOMAIN labels : sets[k] = {e \in E : labels[k][1] <= e.p /\ e.p <= labels[k][2]}
    OBVIOUS
  <2> HIDE DEF sets, raw
  <2> QED
    BY <2>1 DEF AllOf, InList
<1>9. Initial(R0, labels) = raw
  BY DEF Initial
<1> HIDE DEF raw, sets
<1>10. AreSpans(raw, sets, E, Pos(E))
  BY <1>5, <1>6, <1>7 DEF AreSpans
<1>11. Lists(raw, AllOf(raw, sets), E, Pos(E))
  <2>1. \A k \in DOMAIN raw : sets[k] # {}
    BY <1>5, <1>7
  <2> QED
    BY <1>1, <1>10, <2>1, SpansAreList
<1> QED
  BY <1>7, <1>8, <1>9, <1>11

\* down_P_to_O: the edges of the object with the labels.
LEMMA ObjectLists ==
  ASSUME NEW E, IsGraph(E), NEW R0, IsRing(R0, E), NEW labels \in RangesOver(R0.maxP),
         NEW o \in 1 .. R0.maxSO
  PROVE  /\ Lists(RangesOfObject(R0, labels, o), {e \in E : InList(labels, e.p) /\ e.o = o}, E, Pos(E))
         /\ Len(RangesOfObject(R0, labels, o)) <= R0.maxP
<1> DEFINE block == Block(R0.p, o)
           A == {e \in E : e.o = o}
           S == {R0.p.L[i] : i \in block[1] .. block[2]} \cap Covered(labels)
           ps == Rising(S)
           raw == [k \in DOMAIN ps |-> Step(R0.p, R0.s, block, ps[k])]
           sets == [k \in DOMAIN ps |-> {e \in A : Pred(E)[e] = ps[k]}]
           n == R0.n
<1>1. /\ IsFiniteSet(E) /\ Cardinality(E) = n /\ n \in Nat /\ R0.maxP \in Nat /\ R0.maxSO \in Nat
      /\ IsNumbering(E, Pos(E)) /\ IsNumbering(E, Osp(E))
      /\ \A e \in E : e.p \in 1 .. R0.maxP /\ Pred(E)[e] = e.p /\ Obj(E)[e] = e.o
  BY EdgeFacts DEF IsRing
<1>2. /\ IsColumn(R0.p, E, Osp(E), Pred(E), Obj(E), R0.maxSO)
      /\ IsColumn(R0.s, E, Pos(E), Subj(E), Pred(E), R0.maxP)
      /\ Turns(R0.p, R0.s, E, Osp(E), Pos(E), Pred(E))
  BY DEF IsRing
<1>3. Spans(block[1], block[2], A, E, Osp(E))
  <2>1. Spans(Block(R0.p, o)[1], Block(R0.p, o)[2], {e \in E : Obj(E)[e] = o}, E, Osp(E))
    <3>1. IsFiniteSet(E)
      BY <1>1
    <3> QED
      BY <1>2, <3>1, BlockSpans
  <2>2. {e \in E : Obj(E)[e] = o} = A
    BY <1>1
  <2> QED
    BY <2>1, <2>2
<1>4. block = <<block[1], block[2]>>
  BY DEF Block
<1>5. {R0.p.L[i] : i \in block[1] .. block[2]} = {Pred(E)[e] : e \in A}
  <2>1. IsFiniteSet(E)
    BY <1>1
  <2> HIDE DEF A, block
  <2> QED
    BY <1>2, <1>3, <2>1, SymbolsOfSpan
<1>6. \A v : v \in S <=> (\E e \in A : e.p = v) /\ v \in Covered(labels)
  <2>1. A \subseteq E
    OBVIOUS
  <2> HIDE DEF A, block
  <2> QED
    BY <1>1, <1>5, <2>1
<1>7. \A i : i \in Covered(labels) <=> i \in Int /\ InList(labels, i)
  BY <1>1, RangesTyped, CoveredIs
<1>8. S \in SUBSET (1 .. R0.maxP)
  <2>1. A \subseteq E
    OBVIOUS
  <2> HIDE DEF A, S
  <2> QED
    BY <1>1, <1>6, <2>1
<1> HIDE DEF S, block
<1>9. S \in SUBSET Int /\ IsFiniteSet(S) /\ Cardinality(S) <= R0.maxP
  <2>1. \A m \in Nat : IsFiniteSet(1 .. m) /\ Cardinality(1 .. m) = m
    BY FS_Interval
  <2>2. IsFiniteSet(1 .. R0.maxP) /\ Cardinality(1 .. R0.maxP) = R0.maxP
    BY <1>1, <2>1
  <2>3. IsFiniteSet(S) /\ Cardinality(S) <= Cardinality(1 .. R0.maxP)
    BY <1>8, <2>2, FS_Subset
  <2> QED
    BY <1>8, <2>2, <2>3
<1>10. /\ ps \in Seq(S) /\ Len(ps) = Cardinality(S) /\ DOMAIN ps = 1 .. Cardinality(S) /\ Cardinality(S) \in Nat
       /\ \A x \in S : \E k \in DOMAIN ps : ps[k] = x
       /\ \A j, k \in DOMAIN ps : j < k => ps[j] < ps[k]
  BY <1>9, RisingIs
<1> HIDE DEF ps
<1>11. \A k \in DOMAIN ps : ps[k] \in S /\ ps[k] \in 1 .. R0.maxP
  <2>1. \A k \in DOMAIN ps : ps[k] \in S
    BY <1>10
  <2> QED
    BY <1>8, <2>1
<1>12. ASSUME NEW k \in DOMAIN ps
       PROVE  Spans(raw[k][1], raw[k][2], sets[k], E, Pos(E)) /\ raw[k] \in Int \X Int
  <2>1. raw[k] = Step(R0.p, R0.s, <<block[1], block[2]>>, ps[k])
    BY <1>4
  <2>2. IsFiniteSet(E) /\ ps[k] \in 1 .. R0.maxP /\ \A e \in E : Pred(E)[e] = Pred(E)[e]
    BY <1>1, <1>11
  <2>3. Spans(raw[k][1], raw[k][2], {e \in A : Pred(E)[e] = ps[k]}, E, Pos(E))
    <3> HIDE DEF A, raw
    <3> QED
      BY <1>2, <1>3, <2>1, <2>2, StepSpans
  <2>4. sets[k] = {e \in A : Pred(E)[e] = ps[k]}
    OBVIOUS
  <2>5. raw[k] = <<raw[k][1], raw[k][2]>>
    BY <2>1 DEF Step
  <2> HIDE DEF raw, sets
  <2>6. raw[k][1] \in Int /\ raw[k][2] \in Int
    BY <1>1, <2>3 DEF Spans
  <2> QED
    BY <2>3, <2>4, <2>5, <2>6
<1>13. ASSUME NEW j \in DOMAIN ps, NEW k \in DOMAIN ps, j < k, NEW e \in sets[j], NEW f \in sets[k]
       PROVE  Pos(E)[e] < Pos(E)[f]
  <2>1. e \in E /\ f \in E /\ Pred(E)[e] = ps[j] /\ Pred(E)[f] = ps[k]
    OBVIOUS
  <2>2. e.p < f.p
    BY <1>1, <1>10, <1>13, <2>1
  <2> QED
    BY <2>1, <2>2, EdgeOrders DEF Lex
<1>14. raw \in Seq(Int \X Int) /\ DOMAIN raw = DOMAIN ps /\ Len(raw) = Cardinality(S)
  <2>1. raw \in [1 .. Cardinality(S) -> Int \X Int]
    BY <1>10, <1>12
  <2> HIDE DEF raw
  <2> QED
    BY <1>10, <2>1, FunctionIsSeq
<1>15. AllOf(raw, sets) = {e \in E : InList(labels, e.p) /\ e.o = o}
  <2>1. \A k \in DOMAIN ps : sets[k] = {e \in A : Pred(E)[e] = ps[k]}
    OBVIOUS
  <2>2. \A e : e \in A <=> e \in E /\ e.o = o
    OBVIOUS
  <2> HIDE DEF sets, raw, A
  <2>3. ASSUME NEW e \in AllOf(raw, sets) PROVE e \in E /\ InList(labels, e.p) /\ e.o = o
    <3>1. PICK k \in DOMAIN ps : e \in sets[k]
      BY <1>14 DEF AllOf
    <3>2. e \in A /\ Pred(E)[e] = ps[k] /\ ps[k] \in Covered(labels)
      BY <1>6, <1>11, <2>1, <3>1
    <3> QED
      BY <1>1, <1>7, <2>2, <3>2
  <2>4. ASSUME NEW e \in E, InList(labels, e.p), e.o = o PROVE e \in AllOf(raw, sets)
    <3>1. e \in A /\ e.p \in Int
      BY <1>1, <2>2, <2>4
    <3>2. e.p \in S
      BY <1>6, <1>7, <2>4, <3>1
    <3>3. PICK k \in DOMAIN ps : ps[k] = e.p
      BY <1>10, <3>2
    <3>4. e \in sets[k]
      BY <1>1, <2>1, <3>1, <3>3
    <3> QED
      BY <1>14, <3>4 DEF AllOf
  <2> QED
    BY <2>3, <2>4
<1>16. RangesOfObject(R0, labels, o) = NonEmpty(raw)
  BY DEF RangesOfObject, raw, ps, S, block
<1> HIDE DEF raw, sets
<1>17. AreSpans(raw, sets, E, Pos(E))
  BY <1>12, <1>13, <1>14 DEF AreSpans
<1>18. /\ Lists(NonEmpty(raw), AllOf(raw, sets), E, Pos(E))
       /\ Len(NonEmpty(raw)) <= Len(raw)
  BY <1>1, <1>17, NonEmptyList
<1>19. Len(NonEmpty(raw)) \in Int
  <2>1. NonEmpty(raw) \in RangesOver(n)
    BY <1>1, <1>18 DEF Lists
  <2> QED
    BY <1>1, <2>1, RangesTyped
<1> QED
  BY <1>1, <1>9, <1>10, <1>14, <1>15, <1>16, <1>18, <1>19

-----------------------------------------------------------------------------
(***************************************************************************)
(* The ranges of an expression: merging, intersecting.                     *)
(***************************************************************************)
\* What holds at first and goes from each turn of a loop to the next holds at the last.
LEMMA FromTurnToTurn ==
  ASSUME NEW a \in Nat, NEW n \in Nat, a <= n, NEW G, a \in G,
         \A k \in a + 1 .. n : k - 1 \in G => k \in G
  PROVE  n \in G
<1> DEFINE Bad == {k \in a .. n : k \notin G}
<1> SUFFICES ASSUME n \notin G PROVE FALSE
  OBVIOUS
<1>1. Bad \in SUBSET Nat /\ Bad # {}
  OBVIOUS
<1>2. PICK k \in Bad : \A j \in Bad : k <= j
  <2> HIDE DEF Bad
  <2> QED
    BY <1>1, NatHasLeast
<1>3. k \in a .. n /\ k \notin G /\ k # a
  OBVIOUS
<1>4. k \in a + 1 .. n /\ k - 1 \in a .. n /\ k - 1 < k
  BY <1>3
<1>5. k - 1 \in G
  <2>1. k - 1 \notin Bad
    <3> HIDE DEF Bad
    <3> QED
      BY <1>2, <1>3, <1>4
  <2> QED
    BY <1>4, <2>1
<1> QED
  BY <1>3, <1>4, <1>5

\* The lists over the labels 1 .. n, and what a range holds.
ListsOver(n) == {ranges \in RangesOver(n) : IsList(ranges)}
InRange(r, i) == r[1] <= i /\ i <= r[2]

\* The last range, when it meets r, ends where the later of the two does, and r comes after
\* all of them otherwise.
LEMMA ExtendedTyped ==
  ASSUME NEW n \in Nat, NEW merged \in RangesOver(n) \ {<<>>}, NEW r \in (1 .. n) \X (1 .. n)
  PROVE  Extended(merged, r) \in RangesOver(n) \ {<<>>}
<1> DEFINE m == Len(merged)
           last == merged[m]
           joined == [merged EXCEPT ![m] = <<last[1], Larger(last[2], r[2])>>]
<1>1. m \in Nat /\ m # 0 /\ merged \in Seq((1 .. n) \X (1 .. n)) /\ merged \in [1 .. m -> (1 .. n) \X (1 .. n)]
  BY DEF RangesOver
<1>2. last \in (1 .. n) \X (1 .. n) /\ last[1] \in 1 .. n /\ last[2] \in 1 .. n /\ r[1] \in 1 .. n /\ r[2] \in 1 .. n
  BY <1>1
<1>3. Larger(last[2], r[2]) \in 1 .. n
  BY <1>2 DEF Larger
<1>4. joined \in [1 .. m -> (1 .. n) \X (1 .. n)]
  <2> DEFINE w == <<last[1], Larger(last[2], r[2])>>
  <2>1. w \in (1 .. n) \X (1 .. n)
    BY <1>2, <1>3
  <2> HIDE DEF w
  <2>2. [merged EXCEPT ![m] = w] \in [1 .. m -> (1 .. n) \X (1 .. n)]
    BY <1>1, <2>1
  <2> QED
    BY <2>2 DEF w
<1>5. joined \in Seq((1 .. n) \X (1 .. n)) /\ joined # <<>>
  <2> HIDE DEF joined, m
  <2>1. joined \in Seq((1 .. n) \X (1 .. n)) /\ Len(joined) = m
    BY <1>1, <1>4
  <2> QED
    BY <1>1, <2>1
<1>6. Append(merged, r) \in Seq((1 .. n) \X (1 .. n)) /\ Append(merged, r) # <<>>
  <2>1. Append(merged, r) \in Seq((1 .. n) \X (1 .. n)) /\ Len(Append(merged, r)) = m + 1
    BY <1>1, AppendProperties
  <2> DEFINE out == Append(merged, r)
  <2>2. out \in Seq((1 .. n) \X (1 .. n)) /\ Len(out) = m + 1
    BY <2>1
  <2> HIDE DEF out, m
  <2>3. out # <<>>
    BY <1>1, <2>2
  <2> QED
    BY <2>2, <2>3 DEF out
<1>7. Extended(merged, r) = IF last[2] + 1 >= r[1] THEN joined ELSE Append(merged, r)
  BY DEF Extended
<1> HIDE DEF joined
<1> QED
  BY <1>5, <1>6, <1>7 DEF RangesOver

\* It holds what it held and what r holds, and still rises.
LEMMA ExtendedIs ==
  ASSUME NEW n \in Nat, NEW merged \in RangesOver(n) \ {<<>>}, IsList(merged),
         NEW r \in (1 .. n) \X (1 .. n), r[1] <= r[2], merged[Len(merged)][1] <= r[1],
         NEW out, out = Extended(merged, r)
  PROVE  /\ IsList(out) /\ out[Len(out)][1] <= r[1]
         /\ \A i \in 1 .. n : InList(out, i) <=> InList(merged, i) \/ InRange(r, i)
<1> DEFINE m == Len(merged)
           last == merged[m]
           joined == [merged EXCEPT ![m] = <<last[1], Larger(last[2], r[2])>>]
<1>1. /\ m \in Nat /\ m # 0 /\ DOMAIN merged = 1 .. m /\ m \in DOMAIN merged
      /\ merged \in Seq((1 .. n) \X (1 .. n)) /\ merged \in [1 .. m -> (1 .. n) \X (1 .. n)]
      /\ \A k \in 1 .. m : merged[k][1] \in 1 .. n /\ merged[k][2] \in 1 .. n
  BY DEF RangesOver
<1>2. r[1] \in 1 .. n /\ r[2] \in 1 .. n /\ last[1] \in 1 .. n /\ last[2] \in 1 .. n
  BY <1>1
<1>3. /\ \A k \in 1 .. m : merged[k][1] <= merged[k][2]
      /\ \A k, l \in 1 .. m : k < l => merged[k][2] < merged[l][1]
  BY <1>1 DEF IsList
<1>4. last[1] <= r[1]
  OBVIOUS
<1>5. \A i : InList(merged, i) <=> \E k \in 1 .. m : merged[k][1] <= i /\ i <= merged[k][2]
  BY <1>1 DEF InList
<1>6. CASE last[2] + 1 >= r[1]
  <2> DEFINE e == Larger(last[2], r[2])
  <2>1. e \in 1 .. n /\ last[2] <= e /\ r[2] <= e /\ (e = last[2] \/ e = r[2])
    BY <1>2 DEF Larger
  <2>2. out = joined
    BY <1>6 DEF Extended
  <2>3. DOMAIN out = 1 .. m /\ Len(out) = m /\ out[m] = <<last[1], e>>
        /\ \A k \in 1 .. m : k # m => out[k] = merged[k]
    <3>1. joined \in [1 .. m -> (1 .. n) \X (1 .. n)] /\ joined[m] = <<last[1], e>>
          /\ \A k \in 1 .. m : k # m => joined[k] = merged[k]
      <4> DEFINE w == <<last[1], Larger(last[2], r[2])>>
      <4>1. w \in (1 .. n) \X (1 .. n)
        BY <1>2, <2>1
      <4> HIDE DEF w
      <4> DEFINE f == [merged EXCEPT ![m] = w]
      <4>2. f \in [1 .. m -> (1 .. n) \X (1 .. n)] /\ f[m] = w
            /\ \A k \in 1 .. m : k # m => f[k] = merged[k]
        BY <1>1, <4>1
      <4> QED
        BY <4>2 DEF w
    <3> HIDE DEF joined, m, e
    <3>2. Len(joined) = m
      BY <1>1, <3>1
    <3> QED
      BY <2>2, <3>1, <3>2
  <2>4. last = merged[m]
    OBVIOUS
  <2> HIDE DEF e, last, joined, m
  <2>5. out[m][1] = last[1] /\ out[m][2] = e
    <3>1. out[m] = <<last[1], e>>
      BY <2>3
    <3> HIDE DEF last
    <3> QED
      BY <3>1
  <2>6. IsList(out)
    <3>1. ASSUME NEW k \in 1 .. m PROVE out[k][1] <= out[k][2]
      <4>1. CASE k = m
        BY <1>2, <1>3, <1>1, <2>1, <2>5, <2>4, <4>1
      <4> QED
        BY <1>3, <2>3, <4>1
    <3>2. ASSUME NEW k \in 1 .. m, NEW l \in 1 .. m, k < l PROVE out[k][2] < out[l][1]
      <4>1. k # m /\ out[k] = merged[k] /\ merged[k][2] < merged[l][1]
        <5>1. k # m
          BY <1>1, <3>2
        <5> QED
          BY <1>3, <2>3, <3>2, <5>1
      <4>2. out[l][1] = merged[l][1]
        <5>1. CASE l = m
          BY <2>5, <2>4, <5>1
        <5> QED
          BY <2>3, <5>1
      <4> QED
        BY <4>1, <4>2
    <3> QED
      BY <2>3, <3>1, <3>2 DEF IsList
  <2>7. out[Len(out)][1] <= r[1]
    BY <1>4, <2>3, <2>5
  <2>8. ASSUME NEW i \in 1 .. n
        PROVE  InList(out, i) <=> InList(merged, i) \/ InRange(r, i)
    <3>1. InList(out, i) <=> \E k \in 1 .. m : out[k][1] <= i /\ i <= out[k][2]
      BY <2>3 DEF InList
    <3>2. (last[1] <= i /\ i <= e) <=> (last[1] <= i /\ i <= last[2]) \/ (r[1] <= i /\ i <= r[2])
      BY <1>2, <1>4, <1>6, <2>1
    <3>3. ASSUME InList(out, i) PROVE InList(merged, i) \/ InRange(r, i)
      <4>1. PICK k \in 1 .. m : out[k][1] <= i /\ i <= out[k][2]
        BY <3>1, <3>3
      <4>2. CASE k = m
        BY <1>1, <1>5, <2>5, <2>4, <3>2, <4>1, <4>2 DEF InRange
      <4>3. CASE k # m
        BY <1>5, <2>3, <4>1, <4>3
      <4> QED
        BY <4>2, <4>3
    <3>4. ASSUME InList(merged, i) PROVE InList(out, i)
      <4>1. PICK k \in 1 .. m : merged[k][1] <= i /\ i <= merged[k][2]
        BY <1>5, <3>4
      <4>2. CASE k = m
        BY <2>5, <2>4, <3>1, <3>2, <4>1, <4>2
      <4>3. CASE k # m
        BY <2>3, <3>1, <4>1, <4>3
      <4> QED
        BY <4>2, <4>3
    <3>5. ASSUME InRange(r, i) PROVE InList(out, i)
      BY <1>1, <2>5, <3>1, <3>2, <3>5 DEF InRange
    <3> QED
      BY <3>3, <3>4, <3>5
  <2> QED
    BY <2>6, <2>7, <2>8
<1>7. CASE ~(last[2] + 1 >= r[1])
  <2>1. out = Append(merged, r)
    BY <1>7 DEF Extended
  <2>2. DOMAIN out = 1 .. m + 1 /\ Len(out) = m + 1 /\ out[m + 1] = r
        /\ \A k \in 1 .. m : out[k] = merged[k]
    BY <1>1, <2>1, AppendProperties
  <2>3. \A k \in 1 .. m : merged[k][2] < r[1]
    <3>1. last[2] < r[1]
      BY <1>2, <1>7
    <3>2. ASSUME NEW k \in 1 .. m, k # m PROVE merged[k][2] < r[1]
      <4>1. merged[k][2] < merged[m][1] /\ merged[m][1] <= merged[m][2]
        <5> HIDE DEF last, m
        <5>1. k < m /\ m \in 1 .. m
          BY <1>1, <3>2
        <5> QED
          BY <1>3, <5>1
      <4> QED
        BY <1>1, <1>2, <3>1, <4>1
    <3> QED
      BY <3>1, <3>2
  <2>4. \A k : k \in 1 .. m + 1 <=> k \in 1 .. m \/ k = m + 1
    BY <1>1
  <2>5. IsList(out)
    <3>1. ASSUME NEW k \in 1 .. m + 1 PROVE out[k][1] <= out[k][2]
      BY <1>3, <2>2, <2>4
    <3>2. ASSUME NEW k \in 1 .. m + 1, NEW l \in 1 .. m + 1, k < l PROVE out[k][2] < out[l][1]
      <4>1. k \in 1 .. m /\ out[k] = merged[k]
        BY <1>1, <2>2, <3>2
      <4> QED
        BY <1>3, <2>2, <2>3, <2>4, <3>2, <4>1
    <3> QED
      BY <2>2, <3>1, <3>2 DEF IsList
  <2>6. out[Len(out)][1] <= r[1]
    BY <1>2, <2>2
  <2>7. ASSUME NEW i \in 1 .. n
        PROVE  InList(out, i) <=> InList(merged, i) \/ InRange(r, i)
    <3>1. InList(out, i) <=> \E k \in 1 .. m + 1 : out[k][1] <= i /\ i <= out[k][2]
      BY <2>2 DEF InList
    <3>2. ASSUME InList(merged, i) PROVE InList(out, i)
      <4>1. PICK k \in 1 .. m : merged[k][1] <= i /\ i <= merged[k][2]
        BY <1>5, <3>2
      <4> QED
        BY <2>2, <2>4, <3>1, <4>1
    <3>3. ASSUME InRange(r, i) PROVE InList(out, i)
      <4>1. m + 1 \in 1 .. m + 1 /\ out[m + 1] = r
        BY <2>2, <2>4
      <4> QED
        BY <3>1, <3>3, <4>1 DEF InRange
    <3>4. ASSUME InList(out, i) PROVE InList(merged, i) \/ InRange(r, i)
      <4>1. PICK k \in 1 .. m + 1 : out[k][1] <= i /\ i <= out[k][2]
        BY <3>1, <3>4
      <4>2. CASE k \in 1 .. m
        BY <1>5, <2>2, <4>1, <4>2
      <4>3. CASE k = m + 1
        BY <2>2, <4>1, <4>3 DEF InRange
      <4> QED
        BY <2>4, <4>2, <4>3
    <3> QED
      BY <3>2, <3>3, <3>4
  <2> QED
    BY <2>5, <2>6, <2>7
<1> QED
  BY <1>6, <1>7

\* Merging leaves a list of all that the ranges hold, whether they meet, overlap or are apart.
LEMMA MergeIs ==
  ASSUME NEW n \in Nat, NEW S \in SUBSET ((1 .. n) \X (1 .. n)), \A r \in S : r[1] <= r[2],
         IsFiniteSet(S)
  PROVE  /\ Merge(S) \in ListsOver(n)
         /\ \A i \in 1 .. n : InList(Merge(S), i) <=> \E r \in S : InRange(r, i)
<1> DEFINE N == Cardinality(S)
           sorted == InOrder(S, [r \in S |-> r])
           merged == CHOOSE f : f = [k \in 1 .. N |-> IF k = 1 THEN <<sorted[1]>>
                                                      ELSE Extended(f[k - 1], sorted[k])]
<1>1. CASE S = {}
  <2>1. Merge(S) = <<>>
    BY <1>1 DEF Merge
  <2>2. <<>> \in RangesOver(n) /\ \A k : k \notin DOMAIN <<>>
    BY DEF RangesOver
  <2> QED
    BY <1>1, <2>1, <2>2 DEF ListsOver, IsList, InList
<1>2. CASE S # {}
  <2>1. Merge(S) = merged[N]
    BY <1>2 DEF Merge
  <2>2. /\ N \in Nat /\ DOMAIN sorted = 1 .. N
        /\ \A k \in 1 .. N : sorted[k] \in S
        /\ \A r \in S : \E k \in 1 .. N : sorted[k] = r
        /\ \A j, k \in 1 .. N : j < k => sorted[j][1] <= sorted[k][1]
    <3>1. S \in SUBSET (Int \X Int)
      OBVIOUS
    <3> DEFINE K == [r \in S |-> r]
               seq == sorted
    <3>2. seq = InOrder(S, K) /\ \A r \in S : K[r] = r
      OBVIOUS
    <3> HIDE DEF seq, sorted, K
    <3>3. /\ seq \in Seq(S) /\ Len(seq) = Cardinality(S) /\ DOMAIN seq = 1 .. Cardinality(S)
          /\ Cardinality(S) \in Nat
          /\ \A x \in S : \E k \in DOMAIN seq : seq[k] = x
          /\ \A j, k \in DOMAIN seq : j < k => seq[j][1] <= seq[k][1]
      BY <3>1, <3>2, SortedRanges
    <3>4. \A k \in DOMAIN seq : seq[k] \in S
      BY <3>3
    <3> QED
      BY <3>3, <3>4 DEF seq
  <2> HIDE DEF sorted
  <2>3. N # 0
    BY <1>2, FS_EmptySet
  <2> HIDE DEF N
  <2>4. \A k \in 1 .. N : /\ sorted[k] \in (1 .. n) \X (1 .. n) /\ sorted[k][1] \in 1 .. n
                          /\ sorted[k][2] \in 1 .. n /\ sorted[k][1] <= sorted[k][2]
    BY <2>2
  <2> DEFINE T == RangesOver(n) \ {<<>>}
             first == <<sorted[1]>>
             next == [p \in (2 .. N) \X T |-> Extended(p[2], sorted[p[1]])]
  <2>5. first \in T
    BY <2>2, <2>3, <2>4 DEF RangesOver
  <2>6. next \in [(2 .. N) \X T -> T]
    <3>1. ASSUME NEW p \in (2 .. N) \X T PROVE Extended(p[2], sorted[p[1]]) \in T
      <4>1. p[2] \in T /\ p[1] \in 1 .. N
        OBVIOUS
      <4> QED
        BY <2>4, <4>1, ExtendedTyped
    <3> QED
      BY <3>1
  <2>7. ASSUME NEW k \in 2 .. N, NEW x \in T PROVE next[<<k, x>>] = Extended(x, sorted[k])
    OBVIOUS
  <2>8. PICK g : LoopFromOneIs(g, N, T, first, next)
    <3> HIDE DEF T, first, next
    <3> QED
      BY <2>2, <2>3, <2>5, <2>6, LoopFromOne
  <2>9. g \in [1 .. N -> T] /\ g[1] = first /\ \A k \in 2 .. N : g[k] = next[<<k, g[k - 1]>>]
    BY <2>8 DEF LoopFromOneIs
  <2> HIDE DEF T, next
  <2>10. ASSUME NEW k \in 2 .. N PROVE g[k] = Extended(g[k - 1], sorted[k])
    <3>1. g[k - 1] \in T
      BY <2>2, <2>9
    <3> QED
      BY <2>7, <2>9, <3>1
  <2>11. g = [k \in 1 .. N |-> IF k = 1 THEN <<sorted[1]>> ELSE Extended(g[k - 1], sorted[k])]
    <3>1. \A k \in 1 .. N : g[k] = IF k = 1 THEN <<sorted[1]>> ELSE Extended(g[k - 1], sorted[k])
      <4>1. \A k \in 1 .. N : k = 1 \/ k \in 2 .. N
        BY <2>2
      <4> QED
        BY <2>9, <2>10, <4>1
    <3> QED
      BY <2>9, <3>1
  <2>12. merged = [k \in 1 .. N |-> IF k = 1 THEN <<sorted[1]>> ELSE Extended(merged[k - 1], sorted[k])]
    BY <2>11
  <2> HIDE DEF merged
  <2>13. /\ 1 \in 1 .. N /\ merged[1] = <<sorted[1]>>
         /\ \A k \in 2 .. N : merged[k] = Extended(merged[k - 1], sorted[k])
    <3>1. 1 \in 1 .. N
      BY <2>2, <2>3
    <3>2. merged[1] = <<sorted[1]>>
      BY <2>12, <3>1
    <3>3. ASSUME NEW k \in 2 .. N PROVE merged[k] = Extended(merged[k - 1], sorted[k])
      <4>1. k \in 1 .. N /\ k # 1
        OBVIOUS
      <4> QED
        BY <2>12, <4>1
    <3> QED
      BY <3>1, <3>2, <3>3
  <2> DEFINE Done(k) == /\ merged[k] \in RangesOver(n) \ {<<>>} /\ IsList(merged[k])
                        /\ merged[k][Len(merged[k])][1] <= sorted[k][1]
                        /\ \A i \in 1 .. n : InList(merged[k], i) <=> \E j \in 1 .. k : InRange(sorted[j], i)
             G == {k \in 1 .. N : Done(k)}
  <2>14. 1 \in G
    <3>1. merged[1] \in RangesOver(n) \ {<<>>}
      BY <2>5, <2>13 DEF T
    <3>2. DOMAIN merged[1] = {1} /\ merged[1][1] = sorted[1] /\ Len(merged[1]) = 1
      BY <2>13
    <3>3. IsList(merged[1])
      BY <2>4, <2>13, <3>2 DEF IsList
    <3>4. \A j : j \in 1 .. 1 <=> j = 1
      OBVIOUS
    <3>5. ASSUME NEW i \in 1 .. n PROVE InList(merged[1], i) <=> \E j \in 1 .. 1 : InRange(sorted[j], i)
      BY <3>2, <3>4 DEF InList, InRange
    <3>6. merged[1][Len(merged[1])][1] <= sorted[1][1]
      BY <2>4, <2>13, <3>2
    <3> QED
      BY <2>13, <3>1, <3>3, <3>5, <3>6
  <2>15. ASSUME NEW k \in 1 + 1 .. N, k - 1 \in G PROVE k \in G
    <3>1. k \in 2 .. N /\ k \in 1 .. N /\ k - 1 \in 1 .. N /\ k - 1 < k
      BY <2>2
    <3>2. Done(k - 1)
      BY <2>15
    <3> DEFINE old == merged[k - 1]
               r == sorted[k]
               out == merged[k]
    <3>3. out = Extended(old, r)
      BY <2>13, <3>1
    <3>4. old \in RangesOver(n) \ {<<>>} /\ IsList(old) /\ old[Len(old)][1] <= sorted[k - 1][1]
          /\ \A i \in 1 .. n : InList(old, i) <=> \E j \in 1 .. k - 1 : InRange(sorted[j], i)
      BY <3>2
    <3>5. r \in (1 .. n) \X (1 .. n) /\ r[1] <= r[2] /\ sorted[k - 1][1] <= r[1]
          /\ r[1] \in 1 .. n /\ sorted[k - 1][1] \in 1 .. n
      BY <2>2, <2>4, <3>1
    <3>6. old[Len(old)][1] <= r[1]
      <4>1. old[Len(old)][1] \in Int
        <5>1. old \in Seq((1 .. n) \X (1 .. n)) /\ old # <<>>
          BY <3>4 DEF RangesOver
        <5> HIDE DEF old
        <5>2. Len(old) \in DOMAIN old
          BY <5>1
        <5>3. old[Len(old)] \in (1 .. n) \X (1 .. n)
          BY <5>1, <5>2
        <5> QED
          BY <5>3
      <4> QED
        BY <3>4, <3>5, <4>1
    <3> HIDE DEF out, old, r, Done
    <3>7. out \in RangesOver(n) \ {<<>>}
      BY <3>3, <3>4, <3>5, ExtendedTyped
    <3>8. /\ IsList(out) /\ out[Len(out)][1] <= r[1]
          /\ \A i \in 1 .. n : InList(out, i) <=> InList(old, i) \/ InRange(r, i)
      BY <3>3, <3>4, <3>5, <3>6, ExtendedIs
    <3>9. \A j : j \in 1 .. k <=> j \in 1 .. k - 1 \/ j = k
      BY <3>1
    <3>10. \A i \in 1 .. n : InList(out, i) <=> \E j \in 1 .. k : InRange(sorted[j], i)
      BY <3>4, <3>8, <3>9 DEF r
    <3>11. Done(k)
      BY <3>7, <3>8, <3>10 DEF Done, out, r
    <3> QED
      BY <3>1, <3>11
  <2>16. N \in G
    <3>1. 1 \in Nat /\ 1 <= N
      BY <2>2, <2>3
    <3> HIDE DEF G
    <3> QED
      BY <2>2, <2>14, <2>15, <3>1, FromTurnToTurn
  <2>17. Done(N)
    BY <2>16
  <2>18. \A i \in 1 .. n : InList(merged[N], i) <=> \E r \in S : InRange(r, i)
    BY <2>2, <2>17
  <2> QED
    BY <2>1, <2>17, <2>18 DEF ListsOver
<1> QED
  BY <1>1, <1>2

\* The state of the loop over two lists: what has been given holds what both lists do in the
\* pairs of ranges already left behind, and ends before one of the two ranges to come.
Turns2(n, A, B) == [a : 1 .. Len(A) + 1, b : 1 .. Len(B) + 1, out : RangesOver(n)]
Meet(A, B, a, b, i) ==
  \E j \in DOMAIN A, l \in DOMAIN B : InRange(A[j], i) /\ InRange(B[l], i) /\ (j < a \/ l < b)
Turned(n, A, B, t) ==
  /\ t \in Turns2(n, A, B) /\ IsList(t.out)
  /\ \A i \in 1 .. n : InList(t.out, i) <=> Meet(A, B, t.a, t.b, i)
  /\ t.a <= Len(A) /\ t.b <= Len(B) =>
       \A k \in DOMAIN t.out : t.out[k][2] < A[t.a][1] \/ t.out[k][2] < B[t.b][1]

\* Lists over labels, one range at a time.
LEMMA ListFacts ==
  ASSUME NEW n \in Nat, NEW A \in ListsOver(n)
  PROVE  /\ Len(A) \in Nat /\ DOMAIN A = 1 .. Len(A) /\ A \in RangesOver(n) /\ IsList(A)
         /\ \A k \in 1 .. Len(A) : A[k][1] \in 1 .. n /\ A[k][2] \in 1 .. n /\ A[k][1] <= A[k][2]
         /\ \A k, l \in 1 .. Len(A) : k < l => A[k][2] < A[l][1]
<1>1. A \in RangesOver(n) /\ IsList(A)
  BY DEF ListsOver
<1>2. /\ Len(A) \in Nat /\ DOMAIN A = 1 .. Len(A)
      /\ \A k \in DOMAIN A : A[k][1] \in 1 .. n /\ A[k][2] \in 1 .. n
  BY <1>1, RangesTyped
<1> QED
  BY <1>1, <1>2 DEF IsList

\* What a turn does.
TurnDone(n, A, B, t, u) ==
  LET start == Larger(A[t.a][1], B[t.b][1])
      end == Smaller(A[t.a][2], B[t.b][2])
  IN  /\ u.a = IF A[t.a][2] < B[t.b][2] THEN t.a + 1 ELSE t.a
      /\ u.b = IF A[t.a][2] < B[t.b][2] THEN t.b ELSE t.b + 1
      /\ u.out = IF start <= end THEN Append(t.out, <<start, end>>) ELSE t.out
      /\ start \in 1 .. n /\ end \in 1 .. n

\* A turn moves one of the two places on, until one list is at its end.
LEMMA TurnIs ==
  ASSUME NEW n \in Nat, NEW A \in ListsOver(n), NEW B \in ListsOver(n), NEW t \in Turns2(n, A, B),
         NEW u, u = Turn(A, B, t)
  PROVE  /\ u \in Turns2(n, A, B)
         /\ t.a > Len(A) \/ t.b > Len(B) => u = t
         /\ t.a <= Len(A) /\ t.b <= Len(B) => TurnDone(n, A, B, t, u)
<1>1. /\ Len(A) \in Nat /\ Len(B) \in Nat
      /\ \A k \in 1 .. Len(A) : A[k][1] \in 1 .. n /\ A[k][2] \in 1 .. n
      /\ \A k \in 1 .. Len(B) : B[k][1] \in 1 .. n /\ B[k][2] \in 1 .. n
  BY ListFacts
<1>2. t.a \in 1 .. Len(A) + 1 /\ t.b \in 1 .. Len(B) + 1 /\ t.out \in RangesOver(n)
      /\ t = [a |-> t.a, b |-> t.b, out |-> t.out]
  BY DEF Turns2
<1>3. CASE t.a > Len(A) \/ t.b > Len(B)
  <2>1. u = t
    BY <1>3 DEF Turn
  <2> QED
    BY <1>1, <1>2, <1>3, <2>1
<1>4. CASE t.a <= Len(A) /\ t.b <= Len(B)
  <2> DEFINE start == Larger(A[t.a][1], B[t.b][1])
             end == Smaller(A[t.a][2], B[t.b][2])
             first == A[t.a][2] < B[t.b][2]
             a2 == IF first THEN t.a + 1 ELSE t.a
             b2 == IF first THEN t.b ELSE t.b + 1
             out2 == IF start <= end THEN Append(t.out, <<start, end>>) ELSE t.out
  <2>1. ~(t.a > Len(A) \/ t.b > Len(B))
    BY <1>1, <1>2, <1>4
  <2>2. u = [a |-> a2, b |-> b2, out |-> out2]
    BY <2>1 DEF Turn
  <2>3. t.a \in 1 .. Len(A) /\ t.b \in 1 .. Len(B)
    BY <1>1, <1>2, <1>4
  <2>4. start \in 1 .. n /\ end \in 1 .. n
    BY <1>1, <2>3 DEF Larger, Smaller
  <2>5. a2 \in 1 .. Len(A) + 1 /\ b2 \in 1 .. Len(B) + 1
    <3> HIDE DEF first
    <3> QED
      BY <1>1, <2>3
  <2>6. out2 \in RangesOver(n)
    <3> HIDE DEF start, end
    <3> QED
      BY <1>2, <2>4 DEF RangesOver
  <2>7. u.a = a2 /\ u.b = b2 /\ u.out = out2
    <3> HIDE DEF a2, b2, out2
    <3> QED
      BY <2>2
  <2>8. u \in Turns2(n, A, B)
    <3> HIDE DEF a2, b2, out2
    <3> QED
      BY <2>2, <2>5, <2>6 DEF Turns2
  <2>9. TurnDone(n, A, B, t, u)
    BY <2>4, <2>7 DEF TurnDone
  <2> HIDE DEF Turns2
  <2> QED
    BY <2>1, <2>8, <2>9
<1> QED
  BY <1>1, <1>2, <1>3, <1>4

\* A range more, after the others.
EndsBefore(out, start) == \A k \in DOMAIN out : out[k][2] < start
AddsRange(new, out, start, end) ==
  /\ IsList(new) /\ DOMAIN new = 1 .. Len(out) + 1 /\ new[Len(out) + 1][2] = end
  /\ \A k \in 1 .. Len(out) : new[k] = out[k]
  /\ \A i : InList(new, i) <=> InList(out, i) \/ (start <= i /\ i <= end)

\* What ends before a range can have it appended.
LEMMA AppendedList ==
  ASSUME NEW n \in Nat, NEW out \in ListsOver(n), NEW start \in 1 .. n, NEW end \in 1 .. n, start <= end,
         EndsBefore(out, start), NEW new, new = Append(out, <<start, end>>)
  PROVE  AddsRange(new, out, start, end)
<1> DEFINE m == Len(out)
           r == <<start, end>>
<1>1. /\ m \in Nat /\ DOMAIN out = 1 .. m /\ out \in RangesOver(n)
      /\ \A k \in 1 .. m : out[k][1] \in 1 .. n /\ out[k][2] \in 1 .. n /\ out[k][1] <= out[k][2]
      /\ \A k, l \in 1 .. m : k < l => out[k][2] < out[l][1]
  BY ListFacts
<1>2. r \in (1 .. n) \X (1 .. n) /\ r[1] = start /\ r[2] = end /\ out \in Seq((1 .. n) \X (1 .. n))
  BY <1>1 DEF RangesOver
<1> HIDE DEF r
<1>3. new = Append(out, r)
  BY DEF r
<1>4. DOMAIN new = 1 .. m + 1 /\ new[m + 1] = r /\ \A k \in 1 .. m : new[k] = out[k]
  BY <1>1, <1>2, <1>3, AppendProperties
<1>5. \A k \in DOMAIN out : out[k][2] < start
  BY DEF EndsBefore
<1> HIDE DEF m
<1>6. \A k : k \in 1 .. m + 1 <=> k \in 1 .. m \/ k = m + 1
  BY <1>1 DEF m
<1>7. \A k \in 1 .. m + 1 : new[k][1] <= new[k][2]
  BY <1>1, <1>2, <1>4, <1>6
<1>8. ASSUME NEW k \in 1 .. m + 1, NEW l \in 1 .. m + 1, k < l PROVE new[k][2] < new[l][1]
  <2>1. k \in 1 .. m /\ new[k] = out[k]
    BY <1>1, <1>4, <1>8 DEF m
  <2> QED
    BY <1>1, <1>2, <1>4, <1>6, <1>8, <1>5, <2>1
<1>9. IsList(new)
  BY <1>4, <1>7, <1>8 DEF IsList
<1>10. ASSUME NEW i PROVE InList(new, i) <=> InList(out, i) \/ (start <= i /\ i <= end)
  BY <1>1, <1>2, <1>4, <1>6 DEF InList
<1> QED
  BY <1>2, <1>4, <1>9, <1>10 DEF m, AddsRange

\* A turn leaves behind the range that ends first: no later range of the other list meets it.
LEMMA MeetNext ==
  ASSUME NEW n \in Nat, NEW A \in ListsOver(n), NEW B \in ListsOver(n),
         NEW a \in 1 .. Len(A), NEW b \in 1 .. Len(B), NEW i \in 1 .. n
  PROVE  /\ A[a][2] < B[b][2] =>
              (Meet(A, B, a + 1, b, i) <=> Meet(A, B, a, b, i) \/ (InRange(A[a], i) /\ InRange(B[b], i)))
         /\ ~(A[a][2] < B[b][2]) =>
              (Meet(A, B, a, b + 1, i) <=> Meet(A, B, a, b, i) \/ (InRange(A[a], i) /\ InRange(B[b], i)))
<1>1. /\ Len(A) \in Nat /\ DOMAIN A = 1 .. Len(A) /\ Len(B) \in Nat /\ DOMAIN B = 1 .. Len(B)
      /\ \A k \in 1 .. Len(A) : A[k][1] \in 1 .. n /\ A[k][2] \in 1 .. n /\ A[k][1] <= A[k][2]
      /\ \A k \in 1 .. Len(B) : B[k][1] \in 1 .. n /\ B[k][2] \in 1 .. n /\ B[k][1] <= B[k][2]
      /\ \A k, l \in 1 .. Len(A) : k < l => A[k][2] < A[l][1]
      /\ \A k, l \in 1 .. Len(B) : k < l => B[k][2] < B[l][1]
  BY ListFacts
<1>2. ASSUME A[a][2] < B[b][2]
      PROVE  Meet(A, B, a + 1, b, i) <=> Meet(A, B, a, b, i) \/ (InRange(A[a], i) /\ InRange(B[b], i))
  <2>1. ASSUME Meet(A, B, a + 1, b, i) PROVE Meet(A, B, a, b, i) \/ (InRange(A[a], i) /\ InRange(B[b], i))
    <3>1. PICK j \in 1 .. Len(A), l \in 1 .. Len(B) :
            InRange(A[j], i) /\ InRange(B[l], i) /\ (j < a + 1 \/ l < b)
      BY <1>1, <2>1 DEF Meet
    <3>2. CASE j < a \/ l < b
      BY <1>1, <3>1, <3>2 DEF Meet
    <3>3. CASE ~(j < a \/ l < b)
      <4>1. j = a /\ (l = b \/ b < l)
        BY <1>1, <3>1, <3>3
      <4>2. ~(b < l)
        <5> SUFFICES ASSUME b < l PROVE FALSE
          OBVIOUS
        <5>1. B[b][2] < B[l][1]
          BY <1>1
        <5> QED
          BY <1>1, <1>2, <3>1, <4>1, <5>1 DEF InRange
      <4> QED
        BY <3>1, <4>1, <4>2
    <3> QED
      BY <3>2, <3>3
  <2>2. ASSUME Meet(A, B, a, b, i) PROVE Meet(A, B, a + 1, b, i)
    <3>1. \A j \in 1 .. Len(A) : j < a => j < a + 1
      OBVIOUS
    <3> QED
      BY <1>1, <2>2, <3>1 DEF Meet
  <2>3. ASSUME InRange(A[a], i), InRange(B[b], i) PROVE Meet(A, B, a + 1, b, i)
    BY <1>1, <2>3 DEF Meet
  <2> QED
    BY <2>1, <2>2, <2>3
<1>3. ASSUME ~(A[a][2] < B[b][2])
      PROVE  Meet(A, B, a, b + 1, i) <=> Meet(A, B, a, b, i) \/ (InRange(A[a], i) /\ InRange(B[b], i))
  <2>1. ASSUME Meet(A, B, a, b + 1, i) PROVE Meet(A, B, a, b, i) \/ (InRange(A[a], i) /\ InRange(B[b], i))
    <3>1. PICK j \in 1 .. Len(A), l \in 1 .. Len(B) :
            InRange(A[j], i) /\ InRange(B[l], i) /\ (j < a \/ l < b + 1)
      BY <1>1, <2>1 DEF Meet
    <3>2. CASE j < a \/ l < b
      BY <1>1, <3>1, <3>2 DEF Meet
    <3>3. CASE ~(j < a \/ l < b)
      <4>1. l = b /\ (j = a \/ a < j)
        BY <1>1, <3>1, <3>3
      <4>2. ~(a < j)
        <5> SUFFICES ASSUME a < j PROVE FALSE
          OBVIOUS
        <5>1. A[a][2] < A[j][1]
          BY <1>1
        <5> QED
          BY <1>1, <1>3, <3>1, <4>1, <5>1 DEF InRange
      <4> QED
        BY <3>1, <4>1, <4>2
    <3> QED
      BY <3>2, <3>3
  <2>2. ASSUME Meet(A, B, a, b, i) PROVE Meet(A, B, a, b + 1, i)
    <3>1. \A l \in 1 .. Len(B) : l < b => l < b + 1
      OBVIOUS
    <3> QED
      BY <1>1, <2>2, <3>1 DEF Meet
  <2>3. ASSUME InRange(A[a], i), InRange(B[b], i) PROVE Meet(A, B, a, b + 1, i)
    BY <1>1, <2>3 DEF Meet
  <2> QED
    BY <2>1, <2>2, <2>3
<1> QED
  BY <1>2, <1>3

\* Each turn gives what the two ranges share, after what is given already.
LEMMA TurnKeeps ==
  ASSUME NEW n \in Nat, NEW A \in ListsOver(n), NEW B \in ListsOver(n), NEW t, Turned(n, A, B, t),
         NEW u, u = Turn(A, B, t)
  PROVE  /\ Turned(n, A, B, u)
         /\ \/ u.a > Len(A) \/ u.b > Len(B)
            \/ t.a <= Len(A) /\ t.b <= Len(B) /\ u.a + u.b = t.a + t.b + 1
<1>1. /\ Len(A) \in Nat /\ DOMAIN A = 1 .. Len(A) /\ Len(B) \in Nat /\ DOMAIN B = 1 .. Len(B)
      /\ \A k \in 1 .. Len(A) : A[k][1] \in 1 .. n /\ A[k][2] \in 1 .. n /\ A[k][1] <= A[k][2]
      /\ \A k \in 1 .. Len(B) : B[k][1] \in 1 .. n /\ B[k][2] \in 1 .. n /\ B[k][1] <= B[k][2]
      /\ \A k, l \in 1 .. Len(A) : k < l => A[k][2] < A[l][1]
      /\ \A k, l \in 1 .. Len(B) : k < l => B[k][2] < B[l][1]
  BY ListFacts
<1>2. /\ t \in Turns2(n, A, B) /\ IsList(t.out)
      /\ \A i \in 1 .. n : InList(t.out, i) <=> Meet(A, B, t.a, t.b, i)
      /\ t.a <= Len(A) /\ t.b <= Len(B) =>
           \A k \in DOMAIN t.out : t.out[k][2] < A[t.a][1] \/ t.out[k][2] < B[t.b][1]
  BY DEF Turned
<1> DEFINE a == t.a
           b == t.b
           out == t.out
<1>3. a \in 1 .. Len(A) + 1 /\ b \in 1 .. Len(B) + 1 /\ out \in ListsOver(n)
  <2>1. a \in 1 .. Len(A) + 1 /\ b \in 1 .. Len(B) + 1 /\ out \in RangesOver(n) /\ IsList(out)
    BY <1>2 DEF Turns2
  <2> HIDE DEF a, b, out
  <2> QED
    BY <2>1 DEF ListsOver
<1>4. /\ u \in Turns2(n, A, B) /\ (a > Len(A) \/ b > Len(B) => u = t)
  BY <1>2, TurnIs
<1>5. CASE a > Len(A) \/ b > Len(B)
  BY <1>4, <1>5
<1>6. CASE ~(a > Len(A) \/ b > Len(B))
  <2>1. a \in 1 .. Len(A) /\ b \in 1 .. Len(B)
    BY <1>1, <1>3, <1>6
  <2> DEFINE start == Larger(A[a][1], B[b][1])
             end == Smaller(A[a][2], B[b][2])
             first == A[a][2] < B[b][2]
  <2>2. /\ u.a = IF first THEN a + 1 ELSE a
        /\ u.b = IF first THEN b ELSE b + 1
        /\ u.out = IF start <= end THEN Append(out, <<start, end>>) ELSE out
        /\ start \in 1 .. n /\ end \in 1 .. n
    <3>1. t.a <= Len(A) /\ t.b <= Len(B)
      BY <1>1, <2>1
    <3>2. TurnDone(n, A, B, t, u)
      BY <1>2, <3>1, TurnIs
    <3> QED
      BY <3>2 DEF TurnDone
  <2>3. A[a][1] <= start /\ B[b][1] <= start /\ end <= A[a][2] /\ end <= B[b][2]
        /\ (first => end = A[a][2]) /\ (~first => end = B[b][2])
        /\ \A i \in 1 .. n : start <= i /\ i <= end <=> InRange(A[a], i) /\ InRange(B[b], i)
    <3> DEFINE p == A[a][1]
               q == B[b][1]
               v == A[a][2]
               w == B[b][2]
    <3>1. p \in Int /\ q \in Int /\ v \in Int /\ w \in Int
      BY <1>1, <2>1
    <3>2. start = Larger(p, q) /\ end = Smaller(v, w) /\ (first <=> v < w)
      OBVIOUS
    <3>3. \A i : InRange(A[a], i) /\ InRange(B[b], i) <=> p <= i /\ i <= v /\ q <= i /\ i <= w
      BY DEF InRange
    <3> HIDE DEF p, q, v, w, start, end, first
    <3>4. p <= start /\ q <= start /\ end <= v /\ end <= w
      BY <3>1, <3>2 DEF Larger, Smaller
    <3>5. (first => end = v) /\ (~first => end = w)
      BY <3>1, <3>2 DEF Smaller
    <3>6. \A i \in 1 .. n : start <= i /\ i <= end <=> p <= i /\ i <= v /\ q <= i /\ i <= w
      BY <3>1, <3>2 DEF Larger, Smaller
    <3> QED
      BY <3>3, <3>4, <3>5, <3>6 DEF p, q, v, w
  <2>4. Len(out) \in Nat /\ DOMAIN out = 1 .. Len(out) /\ \A k \in DOMAIN out : out[k][2] \in 1 .. n
    BY <1>3, ListFacts
  <2>5. \A k \in DOMAIN out : out[k][2] < A[a][1] \/ out[k][2] < B[b][1]
    <3>1. t.a <= Len(A) /\ t.b <= Len(B)
      BY <1>1, <2>1
    <3> QED
      BY <1>2, <3>1
  <2>6. \A i \in 1 .. n : InList(out, i) <=> Meet(A, B, a, b, i)
    BY <1>2
  <2>7. IsList(out)
    BY <1>2
  <2> HIDE DEF a, b, out, start, end
  <2>8. ASSUME NEW k \in DOMAIN out PROVE out[k][2] < start
    <3>1. A[a][1] \in Int /\ B[b][1] \in Int /\ out[k][2] \in Int /\ start \in Int
      BY <1>1, <2>1, <2>2, <2>4
    <3>2. out[k][2] < A[a][1] \/ out[k][2] < B[b][1]
      BY <2>5
    <3> QED
      BY <2>3, <3>1, <3>2
  <2> DEFINE new == u.out
  <2>9. /\ IsList(new)
        /\ \A i \in 1 .. n : InList(new, i) <=> InList(out, i) \/ (InRange(A[a], i) /\ InRange(B[b], i))
        /\ \A k \in DOMAIN new : (k \in DOMAIN out /\ new[k] = out[k]) \/ new[k][2] = end
    <3>1. CASE start <= end
      <4>1. new = Append(out, <<start, end>>)
        BY <2>2, <3>1
      <4> HIDE DEF new
      <4>2. /\ IsList(new) /\ DOMAIN new = 1 .. Len(out) + 1 /\ new[Len(out) + 1][2] = end
            /\ \A k \in 1 .. Len(out) : new[k] = out[k]
            /\ \A i : InList(new, i) <=> InList(out, i) \/ (start <= i /\ i <= end)
        <5>1. EndsBefore(out, start)
          BY <2>8 DEF EndsBefore
        <5>2. AddsRange(new, out, start, end)
          BY <1>3, <2>2, <3>1, <4>1, <5>1, AppendedList
        <5> QED
          BY <5>2 DEF AddsRange
      <4>3. \A k \in 1 .. Len(out) + 1 : k \in 1 .. Len(out) \/ k = Len(out) + 1
        BY <2>4
      <4>4. \A k \in DOMAIN new : (k \in DOMAIN out /\ new[k] = out[k]) \/ new[k][2] = end
        BY <2>4, <4>2, <4>3
      <4>5. \A i \in 1 .. n : InList(new, i) <=> InList(out, i) \/ (InRange(A[a], i) /\ InRange(B[b], i))
        BY <2>3, <4>2
      <4> QED
        BY <4>2, <4>4, <4>5
    <3>2. CASE ~(start <= end)
      <4>1. new = out
        BY <2>2, <3>2
      <4>2. \A i \in 1 .. n : ~(start <= i /\ i <= end)
        BY <2>2, <3>2
      <4> QED
        BY <2>3, <2>7, <4>1, <4>2
    <3> QED
      BY <3>1, <3>2
  <2>10. u.a + u.b = a + b + 1
    BY <1>1, <2>1, <2>2
  <2>11. ASSUME NEW i \in 1 .. n PROVE InList(new, i) <=> Meet(A, B, u.a, u.b, i)
    <3>1. InList(new, i) <=> Meet(A, B, a, b, i) \/ (InRange(A[a], i) /\ InRange(B[b], i))
      BY <2>6, <2>9
    <3>2. CASE first
      <4>1. Meet(A, B, a + 1, b, i) <=> Meet(A, B, a, b, i) \/ (InRange(A[a], i) /\ InRange(B[b], i))
        BY <2>1, <3>2, MeetNext
      <4> QED
        BY <2>2, <3>1, <3>2, <4>1
    <3>3. CASE ~first
      <4>1. Meet(A, B, a, b + 1, i) <=> Meet(A, B, a, b, i) \/ (InRange(A[a], i) /\ InRange(B[b], i))
        BY <2>1, <3>3, MeetNext
      <4> QED
        BY <2>2, <3>1, <3>3, <4>1
    <3> QED
      BY <3>2, <3>3
  <2>12. ASSUME u.a <= Len(A), u.b <= Len(B), NEW k \in DOMAIN new
         PROVE  new[k][2] < A[u.a][1] \/ new[k][2] < B[u.b][1]
    <3>1. CASE first
      <4>1. u.a = a + 1 /\ u.b = b /\ end = A[a][2]
        BY <2>2, <2>3, <3>1
      <4>2. a + 1 \in 1 .. Len(A) /\ a < a + 1
        BY <1>1, <2>1, <2>12, <4>1
      <4>3. A[a][2] < A[a + 1][1] /\ A[a][1] < A[a + 1][1]
        <5>1. A[a][2] < A[a + 1][1]
          BY <1>1, <2>1, <4>2
        <5>2. A[a][1] <= A[a][2] /\ A[a][1] \in Int /\ A[a][2] \in Int /\ A[a + 1][1] \in Int
          BY <1>1, <2>1, <4>2
        <5> QED
          BY <5>1, <5>2
      <4>4. CASE k \in DOMAIN out /\ new[k] = out[k]
        <5>1. A[a][1] \in Int /\ A[a + 1][1] \in Int /\ new[k][2] \in Int
          BY <1>1, <2>1, <2>4, <4>2, <4>4
        <5>2. new[k][2] < A[a][1] \/ new[k][2] < B[b][1]
          BY <2>5, <4>4
        <5> QED
          BY <4>1, <4>3, <5>1, <5>2
      <4>5. CASE new[k][2] = end
        BY <4>1, <4>3, <4>5
      <4> QED
        BY <2>9, <4>4, <4>5
    <3>2. CASE ~first
      <4>1. u.a = a /\ u.b = b + 1 /\ end = B[b][2]
        BY <2>2, <2>3, <3>2
      <4>2. b + 1 \in 1 .. Len(B) /\ b < b + 1
        BY <1>1, <2>1, <2>12, <4>1
      <4>3. B[b][2] < B[b + 1][1] /\ B[b][1] < B[b + 1][1]
        <5>1. B[b][2] < B[b + 1][1]
          BY <1>1, <2>1, <4>2
        <5>2. B[b][1] <= B[b][2] /\ B[b][1] \in Int /\ B[b][2] \in Int /\ B[b + 1][1] \in Int
          BY <1>1, <2>1, <4>2
        <5> QED
          BY <5>1, <5>2
      <4>4. CASE k \in DOMAIN out /\ new[k] = out[k]
        <5>1. B[b][1] \in Int /\ B[b + 1][1] \in Int /\ new[k][2] \in Int
          BY <1>1, <2>1, <2>4, <4>2, <4>4
        <5>2. new[k][2] < A[a][1] \/ new[k][2] < B[b][1]
          BY <2>5, <4>4
        <5> QED
          BY <4>1, <4>3, <5>1, <5>2
      <4>5. CASE new[k][2] = end
        BY <4>1, <4>3, <4>5
      <4> QED
        BY <2>9, <4>4, <4>5
    <3> QED
      BY <3>1, <3>2
  <2>13. Turned(n, A, B, u)
    BY <1>4, <2>9, <2>11, <2>12 DEF Turned
  <2>14. t.a <= Len(A) /\ t.b <= Len(B) /\ u.a + u.b = t.a + t.b + 1
    BY <1>1, <2>1, <2>10 DEF a, b
  <2> QED
    BY <2>13, <2>14
<1> QED
  BY <1>5, <1>6

\* Intersecting two lists leaves what both hold.
LEMMA BothIs ==
  ASSUME NEW n \in Nat, NEW A \in ListsOver(n), NEW B \in ListsOver(n)
  PROVE  /\ Both(A, B) \in ListsOver(n)
         /\ \A i \in 1 .. n : InList(Both(A, B), i) <=> InList(A, i) /\ InList(B, i)
<1> DEFINE N == Len(A) + Len(B)
           S == Turns2(n, A, B)
           base == [a |-> 1, b |-> 1, out |-> <<>>]
           next == [p \in (1 .. N) \X S |-> Turn(A, B, p[2])]
           turn == CHOOSE f : f = [k \in 0 .. N |-> IF k = 0 THEN [a |-> 1, b |-> 1, out |-> <<>>]
                                                    ELSE Turn(A, B, f[k - 1])]
<1>1. Len(A) \in Nat /\ DOMAIN A = 1 .. Len(A) /\ Len(B) \in Nat /\ DOMAIN B = 1 .. Len(B) /\ N \in Nat
  BY ListFacts
<1>2. Both(A, B) = turn[N].out
  BY DEF Both
<1>3. base \in S
  BY <1>1 DEF Turns2, RangesOver
<1>4. next \in [(1 .. N) \X S -> S]
  <2>1. ASSUME NEW p \in (1 .. N) \X S PROVE Turn(A, B, p[2]) \in S
    <3>1. p[2] \in Turns2(n, A, B)
      OBVIOUS
    <3> QED
      BY <3>1, TurnIs
  <2> QED
    BY <2>1
<1>5. ASSUME NEW k \in 1 .. N, NEW x \in S PROVE next[<<k, x>>] = Turn(A, B, x)
  OBVIOUS
<1> HIDE DEF next
<1>6. PICK g : LoopIs(g, N, S, base, next)
  <2> HIDE DEF S, base, N
  <2> QED
    BY <1>1, <1>3, <1>4, LoopHasResult
<1>7. g \in [0 .. N -> S] /\ g[0] = base /\ \A k \in 1 .. N : g[k] = next[<<k, g[k - 1]>>]
  BY <1>6 DEF LoopIs
<1> HIDE DEF S, N, base
<1>8. ASSUME NEW k \in 1 .. N PROVE g[k] = Turn(A, B, g[k - 1])
  <2>1. g[k - 1] \in S
    BY <1>1, <1>7
  <2> QED
    BY <1>5, <1>7, <2>1
<1>9. g = [k \in 0 .. N |-> IF k = 0 THEN base ELSE Turn(A, B, g[k - 1])]
  <2>1. \A k \in 0 .. N : g[k] = IF k = 0 THEN base ELSE Turn(A, B, g[k - 1])
    <3>1. \A k \in 0 .. N : k = 0 \/ k \in 1 .. N
      BY <1>1
    <3> QED
      BY <1>7, <1>8, <3>1
  <2> QED
    BY <1>7, <2>1
<1>10. turn = [k \in 0 .. N |-> IF k = 0 THEN base ELSE Turn(A, B, turn[k - 1])]
  BY <1>9 DEF base
<1> HIDE DEF turn
<1>11. turn[0] = base
  BY <1>1, <1>10
<1>12. ASSUME NEW k \in 1 .. N PROVE turn[k] = Turn(A, B, turn[k - 1])
  <2>1. k \in 0 .. N /\ k # 0
    BY <1>1
  <2> QED
    BY <1>10, <2>1
<1> DEFINE Gone(k) == \/ turn[k].a > Len(A) \/ turn[k].b > Len(B)
                      \/ turn[k].a + turn[k].b = k + 2
           G == {k \in 0 .. N : Turned(n, A, B, turn[k]) /\ Gone(k)}
<1>13. 0 \in G
  <2>1. base \in Turns2(n, A, B) /\ base.a = 1 /\ base.b = 1 /\ base.out = <<>>
    BY <1>3 DEF S, base
  <2>2. \A k : k \notin DOMAIN base.out
    BY <2>1
  <2>3. ASSUME NEW i \in 1 .. n PROVE ~Meet(A, B, 1, 1, i)
    BY <1>1 DEF Meet
  <2>4. Turned(n, A, B, base)
    BY <2>1, <2>2, <2>3 DEF Turned, IsList, InList
  <2>5. turn[0].a + turn[0].b = 0 + 2
    BY <1>11, <2>1
  <2> QED
    BY <1>1, <1>11, <2>4, <2>5
<1>14. ASSUME NEW k \in 0 + 1 .. N, k - 1 \in G PROVE k \in G
  <2>1. k \in 1 .. N /\ k \in 0 .. N /\ k \in Int
    BY <1>1
  <2> DEFINE t == turn[k - 1]
             u == turn[k]
  <2>2. u = Turn(A, B, t)
    BY <1>12, <2>1
  <2>3. Turned(n, A, B, t) /\ (t.a > Len(A) \/ t.b > Len(B) \/ t.a + t.b = k - 1 + 2)
    BY <1>14
  <2>4. t.a \in Int /\ t.b \in Int
    BY <1>1, <2>3 DEF Turned, Turns2
  <2> HIDE DEF t, u
  <2>5. /\ Turned(n, A, B, u)
        /\ \/ u.a > Len(A) \/ u.b > Len(B)
           \/ t.a <= Len(A) /\ t.b <= Len(B) /\ u.a + u.b = t.a + t.b + 1
    BY <2>2, <2>3, TurnKeeps
  <2>6. u.a > Len(A) \/ u.b > Len(B) \/ u.a + u.b = k + 2
    BY <1>1, <2>1, <2>3, <2>4, <2>5
  <2> QED
    BY <2>1, <2>5, <2>6 DEF u
<1>15. N \in G
  <2>1. 0 \in Nat /\ 0 <= N
    BY <1>1
  <2> HIDE DEF G
  <2> QED
    BY <1>1, <1>13, <1>14, <2>1, FromTurnToTurn
<1> DEFINE t == turn[N]
<1>16. Turned(n, A, B, t) /\ (t.a > Len(A) \/ t.b > Len(B) \/ t.a + t.b = Len(A) + Len(B) + 2)
  BY <1>15 DEF N
<1> HIDE DEF t
<1>17. t.a \in 1 .. Len(A) + 1 /\ t.b \in 1 .. Len(B) + 1 /\ t.out \in RangesOver(n) /\ IsList(t.out)
       /\ \A i \in 1 .. n : InList(t.out, i) <=> Meet(A, B, t.a, t.b, i)
  BY <1>16 DEF Turned, Turns2
<1>18. t.a > Len(A) \/ t.b > Len(B)
  BY <1>1, <1>16, <1>17
<1>19. ASSUME NEW j \in DOMAIN A, NEW l \in DOMAIN B PROVE j < t.a \/ l < t.b
  BY <1>1, <1>17, <1>18
<1>20. ASSUME NEW i \in 1 .. n PROVE Meet(A, B, t.a, t.b, i) <=> InList(A, i) /\ InList(B, i)
  BY <1>19 DEF Meet, InList, InRange
<1>21. Both(A, B) = t.out
  BY <1>2 DEF t
<1>22. t.out \in ListsOver(n)
  BY <1>17 DEF ListsOver
<1> QED
  BY <1>17, <1>20, <1>21, <1>22

\* Intersecting all leaves what each of them holds.
LEMMA IntersectIs ==
  ASSUME NEW n \in Nat, NEW all \in Seq(ListsOver(n)), all # <<>>
  PROVE  /\ Intersect(all) \in ListsOver(n)
         /\ \A i \in 1 .. n : InList(Intersect(all), i) <=> \A k \in DOMAIN all : InList(all[k], i)
<1> DEFINE N == Len(all)
           S == ListsOver(n)
           next == [p \in (2 .. N) \X S |-> Both(p[2], all[p[1]])]
           common == CHOOSE f : f = [k \in 1 .. N |-> IF k = 1 THEN all[1] ELSE Both(f[k - 1], all[k])]
<1>1. N \in Nat \ {0} /\ N \in Nat /\ DOMAIN all = 1 .. N /\ \A k \in 1 .. N : all[k] \in S
  BY EmptySeq, LenProperties
<1>2. Intersect(all) = common[N]
  BY DEF Intersect
<1> HIDE DEF N, S
<1>3. all[1] \in S
  BY <1>1
<1>4. next \in [(2 .. N) \X S -> S]
  <2>1. ASSUME NEW p \in (2 .. N) \X S PROVE Both(p[2], all[p[1]]) \in S
    <3>1. p[2] \in S /\ all[p[1]] \in S
      BY <1>1
    <3> QED
      BY <3>1, BothIs DEF S
  <2> QED
    BY <2>1
<1>5. ASSUME NEW k \in 2 .. N, NEW x \in S PROVE next[<<k, x>>] = Both(x, all[k])
  OBVIOUS
<1> HIDE DEF next
<1>6. PICK g : LoopFromOneIs(g, N, S, all[1], next)
  BY <1>1, <1>3, <1>4, LoopFromOne
<1>7. g \in [1 .. N -> S] /\ g[1] = all[1] /\ \A k \in 2 .. N : g[k] = next[<<k, g[k - 1]>>]
  BY <1>6 DEF LoopFromOneIs
<1>8. ASSUME NEW k \in 2 .. N PROVE g[k] = Both(g[k - 1], all[k])
  <2>1. g[k - 1] \in S
    BY <1>1, <1>7
  <2> QED
    BY <1>5, <1>7, <2>1
<1>9. g = [k \in 1 .. N |-> IF k = 1 THEN all[1] ELSE Both(g[k - 1], all[k])]
  <2>1. \A k \in 1 .. N : g[k] = IF k = 1 THEN all[1] ELSE Both(g[k - 1], all[k])
    <3>1. \A k \in 1 .. N : k = 1 \/ k \in 2 .. N
      BY <1>1
    <3> QED
      BY <1>7, <1>8, <3>1
  <2> QED
    BY <1>7, <2>1
<1>10. common = [k \in 1 .. N |-> IF k = 1 THEN all[1] ELSE Both(common[k - 1], all[k])]
  BY <1>9
<1> HIDE DEF common
<1>11. 1 \in 1 .. N /\ common[1] = all[1]
  <2>1. 1 \in 1 .. N
    BY <1>1
  <2> QED
    BY <1>10, <2>1
<1>12. ASSUME NEW k \in 2 .. N PROVE common[k] = Both(common[k - 1], all[k])
  <2>1. k \in 1 .. N /\ k # 1
    BY <1>1
  <2> QED
    BY <1>10, <2>1
<1> DEFINE Shared(k) == \A i \in 1 .. n : InList(common[k], i) <=> \A j \in 1 .. k : InList(all[j], i)
           G == {k \in 1 .. N : common[k] \in S /\ Shared(k)}
<1>13. 1 \in G
  <2>1. \A j : j \in 1 .. 1 <=> j = 1
    OBVIOUS
  <2> QED
    BY <1>3, <1>11, <2>1
<1>14. ASSUME NEW k \in 1 + 1 .. N, k - 1 \in G PROVE k \in G
  <2>1. k \in 2 .. N /\ k \in 1 .. N /\ \A j : j \in 1 .. k <=> j \in 1 .. k - 1 \/ j = k
    BY <1>1
  <2> DEFINE old == common[k - 1]
             new == common[k]
             more == all[k]
  <2>2. new = Both(old, more)
    BY <1>12, <2>1
  <2>3. old \in S /\ more \in S /\ \A i \in 1 .. n : InList(old, i) <=> \A j \in 1 .. k - 1 : InList(all[j], i)
    BY <1>1, <1>14, <2>1
  <2> HIDE DEF old, new, more
  <2>4. new \in S /\ \A i \in 1 .. n : InList(new, i) <=> InList(old, i) /\ InList(more, i)
    BY <2>2, <2>3, BothIs DEF S
  <2>5. \A i \in 1 .. n : InList(new, i) <=> \A j \in 1 .. k : InList(all[j], i)
    BY <2>1, <2>3, <2>4 DEF more
  <2> QED
    BY <2>1, <2>4, <2>5 DEF new
<1>15. N \in G
  <2>1. 1 \in Nat /\ 1 <= N
    BY <1>1
  <2> HIDE DEF G
  <2> QED
    BY <1>1, <1>13, <1>14, <2>1, FromTurnToTurn
<1> QED
  BY <1>1, <1>2, <1>15 DEF S

\* A list of one range, and one list after another.
LEMMA OneRange ==
  ASSUME NEW n \in Nat, NEW a \in 1 .. n, NEW b \in 1 .. n, a <= b, NEW A, A = <<<<a, b>>>>
  PROVE  /\ A \in ListsOver(n) /\ DOMAIN A = {1} /\ A[1][1] = a /\ A[1][2] = b
         /\ \A i : InList(A, i) <=> a <= i /\ i <= b
<1> DEFINE r == <<a, b>>
<1>1. r \in (1 .. n) \X (1 .. n) /\ r[1] = a /\ r[2] = b
  OBVIOUS
<1> HIDE DEF r
<1>2. A = <<r>>
  BY DEF r
<1>3. A \in RangesOver(n) /\ DOMAIN A = {1} /\ A[1] = r
  BY <1>1, <1>2 DEF RangesOver
<1>4. IsList(A)
  BY <1>1, <1>3 DEF IsList
<1> QED
  BY <1>1, <1>3, <1>4 DEF ListsOver, InList

\* The empty list holds nothing.
LEMMA NoRange ==
  ASSUME NEW n \in Nat
  PROVE  <<>> \in ListsOver(n) /\ DOMAIN <<>> = {} /\ \A i : ~InList(<<>>, i)
<1>1. <<>> \in RangesOver(n) /\ DOMAIN <<>> = {}
  BY DEF RangesOver
<1> QED
  BY <1>1 DEF ListsOver, IsList, InList

Ahead(A, B) == \A k \in DOMAIN A : \A l \in DOMAIN B : A[k][2] < B[l][1]

\* A list that ends before another begins, followed by it, holds what either does.
LEMMA ListAfterList ==
  ASSUME NEW n \in Nat, NEW A \in ListsOver(n), NEW B \in ListsOver(n), Ahead(A, B),
         NEW C, C = A \o B
  PROVE  /\ C \in ListsOver(n)
         /\ \A i : InList(C, i) <=> InList(A, i) \/ InList(B, i)
<1> DEFINE a == Len(A)
           b == Len(B)
<1>1. /\ a \in Nat /\ DOMAIN A = 1 .. a /\ b \in Nat /\ DOMAIN B = 1 .. b
      /\ A \in Seq((1 .. n) \X (1 .. n)) /\ B \in Seq((1 .. n) \X (1 .. n))
      /\ \A k \in 1 .. a : A[k][1] <= A[k][2]
      /\ \A k \in 1 .. b : B[k][1] <= B[k][2]
      /\ \A k, l \in 1 .. a : k < l => A[k][2] < A[l][1]
      /\ \A k, l \in 1 .. b : k < l => B[k][2] < B[l][1]
  BY ListFacts DEF RangesOver
<1>2. C \in Seq((1 .. n) \X (1 .. n)) /\ Len(C) = a + b
      /\ \A k \in 1 .. a + b : C[k] = IF k <= a THEN A[k] ELSE B[k - a]
  BY <1>1, ConcatProperties
<1>3. DOMAIN C = 1 .. a + b
  BY <1>2
<1> HIDE DEF a, b
<1>4. \A k \in 1 .. a : k \in 1 .. a + b /\ C[k] = A[k]
  BY <1>1, <1>2
<1>5. ASSUME NEW l \in 1 .. b PROVE a + l \in 1 .. a + b /\ C[a + l] = B[l]
  <2> DEFINE k == a + l
  <2>1. k \in 1 .. a + b /\ ~(k <= a) /\ k - a = l
    BY <1>1
  <2> HIDE DEF k
  <2>2. C[k] = B[k - a]
    BY <1>2, <2>1
  <2> QED
    BY <2>1, <2>2 DEF k
<1>6. ASSUME NEW k \in 1 .. a + b PROVE k \in 1 .. a \/ \E l \in 1 .. b : k = a + l
  <2>1. k <= a \/ (k - a \in 1 .. b /\ k = a + (k - a))
    BY <1>1
  <2> QED
    BY <1>1, <2>1
<1>7. \A k \in 1 .. a + b : C[k][1] <= C[k][2]
  BY <1>1, <1>4, <1>5, <1>6
<1>8. ASSUME NEW k \in 1 .. a + b, NEW m \in 1 .. a + b, k < m PROVE C[k][2] < C[m][1]
  <2>1. CASE m \in 1 .. a
    <3>1. k \in 1 .. a
      BY <1>1, <1>8, <2>1
    <3> QED
      BY <1>1, <1>4, <1>8, <2>1, <3>1
  <2>2. CASE \E l \in 1 .. b : m = a + l
    <3>1. PICK l \in 1 .. b : m = a + l
      BY <2>2
    <3>2. C[m] = B[l]
      BY <1>5, <3>1
    <3>3. CASE k \in 1 .. a
      <4>1. A[k][2] < B[l][1]
        BY <1>1, <3>3 DEF Ahead
      <4> QED
        BY <1>4, <3>2, <3>3, <4>1
    <3>4. CASE \E j \in 1 .. b : k = a + j
      <4>1. PICK j \in 1 .. b : k = a + j
        BY <3>4
      <4>2. C[k] = B[j]
        BY <1>5, <4>1
      <4>3. j < l
        BY <1>1, <1>8, <3>1, <4>1
      <4> QED
        BY <4>3, <1>1, <3>2, <4>2
    <3> QED
      BY <1>6, <3>3, <3>4
  <2> QED
    BY <1>6, <2>1, <2>2
<1>9. IsList(C)
  BY <1>3, <1>7, <1>8 DEF IsList
<1>10. ASSUME NEW i PROVE InList(C, i) <=> InList(A, i) \/ InList(B, i)
  <2> DEFINE In(r) == r[1] <= i /\ i <= r[2]
  <2>1. /\ InList(C, i) <=> \E k \in 1 .. a + b : In(C[k])
        /\ InList(A, i) <=> \E k \in 1 .. a : In(A[k])
        /\ InList(B, i) <=> \E k \in 1 .. b : In(B[k])
    BY <1>1, <1>3 DEF InList
  <2> HIDE DEF In
  <2>2. (\E k \in 1 .. a : In(A[k])) => \E k \in 1 .. a + b : In(C[k])
    BY <1>4
  <2>3. (\E k \in 1 .. b : In(B[k])) => \E k \in 1 .. a + b : In(C[k])
    BY <1>5
  <2>4. ASSUME NEW k \in 1 .. a + b, In(C[k]) PROVE (\E l \in 1 .. a : In(A[l])) \/ \E l \in 1 .. b : In(B[l])
    <3>1. CASE k \in 1 .. a
      BY <1>4, <2>4, <3>1
    <3>2. CASE \E l \in 1 .. b : k = a + l
      BY <1>5, <2>4, <3>2
    <3> QED
      BY <1>6, <3>1, <3>2
  <2> QED
    BY <2>1, <2>2, <2>3, <2>4
<1> QED
  BY <1>2, <1>9, <1>10 DEF ListsOver, RangesOver

\* Expressions over the labels 1 .. n, the ranges of parts, and what these say of a label.
LabelsIn(e, n) == e.type \in {"LAB", "NEG"} => e.label \in 1 .. n
IsExpr(e) ==
  \/ e.type \in {"LAB", "NEG"} /\ e.label \in Nat \ {0}
  \/ e.type \in {"OR", "AND"} /\ e.args \in Seq(Exprs) /\ e.args # <<>>
Agrees(of, says, i) == \A x \in Exprs : says[x] <=> InList(of[x], i)
Right(ranges, e, says, i) == InList(ranges, i) <=> Says(e, says, i)

\* The ranges of a label, and of all labels but one.
LEMMA LabelRanges ==
  ASSUME NEW n \in Nat, NEW e, e.type \in {"LAB", "NEG"}, e.label \in 1 .. n, NEW of,
         NEW ranges, ranges = RangesOf(e, of, n)
  PROVE  /\ ranges \in ListsOver(n)
         /\ \A i \in 1 .. n : \A says : Right(ranges, e, says, i)
<1> DEFINE l == e.label
<1>1. l \in 1 .. n
  OBVIOUS
<1>2. CASE e.type = "LAB"
  <2>1. ranges = <<<<l, l>>>>
    BY <1>2 DEF RangesOf
  <2>2. \A i, says : Says(e, says, i) <=> i = l
    BY <1>2 DEF Says
  <2> HIDE DEF l
  <2>3. ranges \in ListsOver(n) /\ \A i : InList(ranges, i) <=> l <= i /\ i <= l
    BY <1>1, <2>1, OneRange
  <2>4. ASSUME NEW i \in 1 .. n, NEW says PROVE Right(ranges, e, says, i)
    <3>1. (l <= i /\ i <= l) <=> i = l
      BY <1>1
    <3> QED
      BY <2>2, <2>3, <3>1 DEF Right
  <2> QED
    BY <2>3, <2>4
<1>3. CASE e.type = "NEG"
  <2> DEFINE P == IF l > 1 THEN <<<<1, l - 1>>>> ELSE <<>>
             Q == IF l < n THEN <<<<l + 1, n>>>> ELSE <<>>
  <2>1. ranges = P \o Q
    BY <1>3 DEF RangesOf
  <2>2. \A i, says : Says(e, says, i) <=> i # l
    BY <1>3 DEF Says
  <2> HIDE DEF l
  <2>3. P \in ListsOver(n) /\ (\A k \in DOMAIN P : P[k][2] = l - 1)
        /\ \A i \in 1 .. n : InList(P, i) <=> i < l
    <3>1. CASE l > 1
      <4>1. l - 1 \in 1 .. n /\ 1 \in 1 .. n /\ 1 <= l - 1 /\ P = <<<<1, l - 1>>>>
        BY <1>1, <3>1
      <4> HIDE DEF P
      <4>2. /\ P \in ListsOver(n) /\ DOMAIN P = {1} /\ P[1][2] = l - 1
            /\ \A i : InList(P, i) <=> 1 <= i /\ i <= l - 1
        BY <4>1, OneRange
      <4>3. \A i \in 1 .. n : (1 <= i /\ i <= l - 1) <=> i < l
        BY <1>1
      <4> QED
        BY <4>2, <4>3
    <3>2. CASE ~(l > 1)
      <4>1. P = <<>>
        BY <3>2
      <4> HIDE DEF P
      <4>2. P \in ListsOver(n) /\ DOMAIN P = {} /\ \A i : ~InList(P, i)
        BY <4>1, NoRange
      <4>3. \A i \in 1 .. n : ~(i < l)
        BY <1>1, <3>2
      <4> QED
        BY <4>2, <4>3
    <3> QED
      BY <3>1, <3>2
  <2>4. Q \in ListsOver(n) /\ (\A k \in DOMAIN Q : Q[k][1] = l + 1)
        /\ \A i \in 1 .. n : InList(Q, i) <=> l < i
    <3>1. CASE l < n
      <4>1. l + 1 \in 1 .. n /\ n \in 1 .. n /\ l + 1 <= n /\ Q = <<<<l + 1, n>>>>
        BY <1>1, <3>1
      <4> HIDE DEF Q
      <4>2. /\ Q \in ListsOver(n) /\ DOMAIN Q = {1} /\ Q[1][1] = l + 1
            /\ \A i : InList(Q, i) <=> l + 1 <= i /\ i <= n
        BY <4>1, OneRange
      <4>3. \A i \in 1 .. n : (l + 1 <= i /\ i <= n) <=> l < i
        BY <1>1
      <4> QED
        BY <4>2, <4>3
    <3>2. CASE ~(l < n)
      <4>1. Q = <<>>
        BY <3>2
      <4> HIDE DEF Q
      <4>2. Q \in ListsOver(n) /\ DOMAIN Q = {} /\ \A i : ~InList(Q, i)
        BY <4>1, NoRange
      <4>3. \A i \in 1 .. n : ~(l < i)
        BY <1>1, <3>2
      <4> QED
        BY <4>2, <4>3
    <3> QED
      BY <3>1, <3>2
  <2> HIDE DEF P, Q
  <2>5. Ahead(P, Q)
    <3>1. l - 1 < l + 1
      BY <1>1
    <3> QED
      BY <2>3, <2>4, <3>1 DEF Ahead
  <2>6. ranges \in ListsOver(n) /\ \A i : InList(ranges, i) <=> InList(P, i) \/ InList(Q, i)
    BY <2>1, <2>3, <2>4, <2>5, ListAfterList
  <2>7. ASSUME NEW i \in 1 .. n, NEW says PROVE Right(ranges, e, says, i)
    <3>1. (i < l \/ l < i) <=> i # l
      BY <1>1
    <3> QED
      BY <2>2, <2>3, <2>4, <2>6, <3>1 DEF Right
  <2> QED
    BY <2>6, <2>7
<1> QED
  BY <1>2, <1>3

\* The ranges of one part or another.
LEMMA OrRanges ==
  ASSUME NEW n \in Nat, NEW e, e.type = "OR", e.args \in Seq(Exprs), NEW of \in [Exprs -> ListsOver(n)],
         NEW ranges, ranges = RangesOf(e, of, n)
  PROVE  /\ ranges \in ListsOver(n)
         /\ \A i \in 1 .. n : \A says : Agrees(of, says, i) => Right(ranges, e, says, i)
<1> DEFINE S == UNION {ToSet(of[e.args[k]]) : k \in DOMAIN e.args}
<1>1. ranges = Merge(S)
  BY DEF RangesOf
<1>2. \A k \in DOMAIN e.args : e.args[k] \in Exprs /\ of[e.args[k]] \in ListsOver(n)
  BY ElementOfSeq, LenProperties
<1>3. \A r : r \in S <=> \E k \in DOMAIN e.args : \E j \in DOMAIN of[e.args[k]] : r = of[e.args[k]][j]
  BY DEF ToSet
<1> HIDE DEF S
<1>4. ASSUME NEW A \in ListsOver(n), NEW j \in DOMAIN A
      PROVE  A[j] \in (1 .. n) \X (1 .. n) /\ A[j][1] <= A[j][2]
  <2>1. A \in RangesOver(n) /\ IsList(A)
    BY DEF ListsOver
  <2> QED
    BY <2>1, RangesTyped DEF IsList
<1>5. S \in SUBSET ((1 .. n) \X (1 .. n)) /\ \A r \in S : r[1] <= r[2]
  BY <1>2, <1>3, <1>4
<1>6. IsFiniteSet(S)
  <2>1. IsFiniteSet(1 .. n)
    BY FS_Interval
  <2>2. IsFiniteSet((1 .. n) \X (1 .. n))
    BY <2>1, FS_Product
  <2> QED
    BY <1>5, <2>2, FS_Subset
<1>7. ranges \in ListsOver(n) /\ \A i \in 1 .. n : InList(ranges, i) <=> \E r \in S : InRange(r, i)
  BY <1>1, <1>5, <1>6, MergeIs
<1>8. ASSUME NEW i PROVE (\E r \in S : InRange(r, i)) <=> \E k \in DOMAIN e.args : InList(of[e.args[k]], i)
  BY <1>3 DEF InRange, InList
<1>9. ASSUME NEW i \in 1 .. n, NEW says, Agrees(of, says, i) PROVE Right(ranges, e, says, i)
  <2>1. Says(e, says, i) <=> \E k \in DOMAIN e.args : says[e.args[k]]
    BY DEF Says
  <2>2. \A k \in DOMAIN e.args : says[e.args[k]] <=> InList(of[e.args[k]], i)
    BY <1>2, <1>9 DEF Agrees
  <2> QED
    BY <1>7, <1>8, <2>1, <2>2 DEF Right
<1> QED
  BY <1>7, <1>9

\* The ranges of all parts at once.
LEMMA AndRanges ==
  ASSUME NEW n \in Nat, NEW e, e.type = "AND", e.args \in Seq(Exprs), e.args # <<>>,
         NEW of \in [Exprs -> ListsOver(n)], NEW ranges, ranges = RangesOf(e, of, n)
  PROVE  /\ ranges \in ListsOver(n)
         /\ \A i \in 1 .. n : \A says : Agrees(of, says, i) => Right(ranges, e, says, i)
<1> DEFINE all == [k \in DOMAIN e.args |-> of[e.args[k]]]
           m == Len(e.args)
<1>1. ranges = Intersect(all)
  BY DEF RangesOf
<1>2. \A k \in DOMAIN e.args : e.args[k] \in Exprs /\ of[e.args[k]] \in ListsOver(n)
  BY ElementOfSeq, LenProperties
<1>3. m \in Nat /\ m # 0 /\ DOMAIN e.args = 1 .. m
  BY EmptySeq, LenProperties
<1>4. DOMAIN all = DOMAIN e.args /\ \A k \in DOMAIN e.args : all[k] = of[e.args[k]]
  OBVIOUS
<1>5. all \in [1 .. m -> ListsOver(n)]
  BY <1>2, <1>3
<1> HIDE DEF all, m
<1>6. all \in Seq(ListsOver(n)) /\ Len(all) = m
  BY <1>3, <1>5, FunctionIsSeq
<1>7. all # <<>>
  BY <1>3, <1>6
<1>8. ranges \in ListsOver(n) /\ \A i \in 1 .. n : InList(ranges, i) <=> \A k \in DOMAIN all : InList(all[k], i)
  BY <1>1, <1>6, <1>7, IntersectIs
<1>9. ASSUME NEW i \in 1 .. n, NEW says, Agrees(of, says, i) PROVE Right(ranges, e, says, i)
  <2>1. Says(e, says, i) <=> \A k \in DOMAIN e.args : says[e.args[k]]
    BY DEF Says
  <2>2. \A k \in DOMAIN e.args : says[e.args[k]] <=> InList(of[e.args[k]], i)
    BY <1>2, <1>9 DEF Agrees
  <2> QED
    BY <1>4, <1>8, <2>1, <2>2 DEF Right
<1> QED
  BY <1>8, <1>9

\* The ranges of an expression are right when those of its parts are.
LEMMA RangesOfIs ==
  ASSUME NEW n \in Nat, NEW e \in Exprs, IsExpr(e), LabelsIn(e, n), NEW of \in [Exprs -> ListsOver(n)]
  PROVE  /\ RangesOf(e, of, n) \in ListsOver(n)
         /\ \A i \in 1 .. n : \A says : Agrees(of, says, i) => Right(RangesOf(e, of, n), e, says, i)
<1> DEFINE ranges == RangesOf(e, of, n)
<1>1. ranges = RangesOf(e, of, n)
  OBVIOUS
<1> HIDE DEF ranges
<1>2. CASE e.type \in {"LAB", "NEG"}
  <2>1. e.label \in 1 .. n
    BY <1>2 DEF LabelsIn
  <2>2. ranges \in ListsOver(n) /\ \A i \in 1 .. n : \A says : Right(ranges, e, says, i)
    BY <1>1, <1>2, <2>1, LabelRanges
  <2> QED
    BY <1>1, <2>2
<1>3. CASE e.type \in {"OR", "AND"}
  <2>1. e.args \in Seq(Exprs) /\ e.args # <<>>
    BY <1>3 DEF IsExpr
  <2>2. CASE e.type = "OR"
    <3>1. /\ ranges \in ListsOver(n)
          /\ \A i \in 1 .. n : \A says : Agrees(of, says, i) => Right(ranges, e, says, i)
      BY <1>1, <2>1, <2>2, OrRanges
    <3> QED
      BY <1>1, <3>1
  <2>3. CASE e.type = "AND"
    <3>1. /\ ranges \in ListsOver(n)
          /\ \A i \in 1 .. n : \A says : Agrees(of, says, i) => Right(ranges, e, says, i)
      BY <1>1, <2>1, <2>3, AndRanges
    <3> QED
      BY <1>1, <3>1
  <2> QED
    BY <1>3, <2>2, <2>3
<1> QED
  BY <1>2, <1>3 DEF IsExpr

\* Both read of an expression its parts, and nothing else.
LEMMA PartsAre ==
  ASSUME NEW e \in Exprs, IsExpr(e)
  PROVE  /\ Parts(e) \subseteq Exprs
         /\ e.type \in {"OR", "AND"} => \A k \in DOMAIN e.args : e.args[k] \in Parts(e)
<1>1. CASE e.type \in {"OR", "AND"}
  <2>1. Parts(e) = {e.args[k] : k \in DOMAIN e.args}
    BY <1>1 DEF Parts, ToSet
  <2>2. e.args \in Seq(Exprs)
    BY <1>1 DEF IsExpr
  <2>3. \A k \in DOMAIN e.args : e.args[k] \in Exprs
    BY <2>2, ElementOfSeq, LenProperties
  <2> QED
    BY <2>1, <2>3
<1>2. CASE ~(e.type \in {"OR", "AND"})
  BY <1>2 DEF Parts
<1> QED
  BY <1>1, <1>2

\* What is computed of an expression, and what it says, depends on its parts only.
LEMMA ReadsOfParts ==
  ASSUME NEW e \in Exprs, IsExpr(e), NEW f, NEW g, \A d \in Parts(e) : f[d] = g[d], NEW n
  PROVE  RangesOf(e, f, n) = RangesOf(e, g, n) /\ Says(e, f, n) = Says(e, g, n)
<1>1. CASE e.type = "LAB"
  BY <1>1 DEF RangesOf, Says
<1>2. CASE e.type = "NEG"
  BY <1>2 DEF RangesOf, Says
<1>3. ASSUME e.type \in {"OR", "AND"} PROVE \A k \in DOMAIN e.args : f[e.args[k]] = g[e.args[k]]
  BY <1>3, PartsAre
<1>4. CASE e.type = "OR"
  <2>1. \A k \in DOMAIN e.args : f[e.args[k]] = g[e.args[k]]
    BY <1>3, <1>4
  <2>2. {ToSet(f[e.args[k]]) : k \in DOMAIN e.args} = {ToSet(g[e.args[k]]) : k \in DOMAIN e.args}
    BY <2>1
  <2>3. RangesOf(e, f, n) = RangesOf(e, g, n)
    BY <1>4, <2>2 DEF RangesOf
  <2>4. Says(e, f, n) = Says(e, g, n)
    BY <1>4, <2>1 DEF Says
  <2> QED
    BY <2>3, <2>4
<1>5. CASE e.type = "AND"
  <2>1. \A k \in DOMAIN e.args : f[e.args[k]] = g[e.args[k]]
    BY <1>3, <1>5
  <2>2. [k \in DOMAIN e.args |-> f[e.args[k]]] = [k \in DOMAIN e.args |-> g[e.args[k]]]
    BY <2>1
  <2>3. RangesOf(e, f, n) = RangesOf(e, g, n)
    BY <1>5, <2>2 DEF RangesOf
  <2>4. Says(e, f, n) = Says(e, g, n)
    BY <1>5, <2>1 DEF Says
  <2> QED
    BY <2>3, <2>4
<1> QED
  BY <1>1, <1>2, <1>4, <1>5 DEF IsExpr

\* What holds of an expression whenever it holds of its parts holds of all: they are trees.
LEMMA NoneIsWrong ==
  ASSUME NEW W \in SUBSET Exprs, \A e \in W : Parts(e) \cap W # {}
  PROVE  W = {}
BY ExprAssumption

\* The expressions are over the labels of every graph.
LEMMA ExprsAre ==
  ASSUME NEW E \in Graphs, NEW R0, IsRing(R0, E)
  PROVE  \A e \in Exprs : IsExpr(e) /\ LabelsIn(e, R0.maxP)
<1>1. IsGraph(E)
  BY GraphAssumption
<1>2. R0.maxP \in Nat /\ \A f \in E : f.p \in 1 .. R0.maxP
  BY <1>1, EdgeFacts DEF IsRing
<1>3. ASSUME NEW e \in Exprs PROVE IsExpr(e) /\ LabelsIn(e, R0.maxP)
  <2>1. CASE e.type \in {"LAB", "NEG"}
    <3>1. e.label \in Nat \ {0} /\ \E f \in E : e.label <= f.p
      BY <2>1, ExprAssumption
    <3>2. e.label \in 1 .. R0.maxP
      BY <1>2, <3>1
    <3> QED
      BY <2>1, <3>1, <3>2 DEF IsExpr, LabelsIn
  <2>2. CASE ~(e.type \in {"LAB", "NEG"})
    BY <2>2, ExprAssumption DEF IsExpr, LabelsIn
  <2> QED
    BY <2>1, <2>2
<1> QED
  BY <1>3

\* The ranges of all expressions, by recursion over their parts.
GivesRanges(h, n) == \A e \in Exprs : h[e] = RangesOf(e, h, n)

\* Recursion over the parts gives every expression its ranges.
LEMMA RangesExist ==
  ASSUME NEW n \in Nat, \A e \in Exprs : IsExpr(e) /\ LabelsIn(e, n)
  PROVE  \E h \in [Exprs -> ListsOver(n)] : GivesRanges(h, n)
<1> DEFINE S == ListsOver(n)
           parts == [e \in Exprs |-> Parts(e)]
           step == [p \in Exprs \X [Exprs -> S] |-> RangesOf(p[1], p[2], n)]
<1>1. \A e \in Exprs : parts[e] = Parts(e)
  OBVIOUS
<1>2. ASSUME NEW e \in Exprs, NEW f \in [Exprs -> S] PROVE step[<<e, f>>] = RangesOf(e, f, n)
  OBVIOUS
<1>3. step \in [Exprs \X [Exprs -> S] -> S]
  <2>1. ASSUME NEW p \in Exprs \X [Exprs -> S] PROVE RangesOf(p[1], p[2], n) \in S
    <3>1. p[1] \in Exprs /\ p[2] \in [Exprs -> S]
      OBVIOUS
    <3> QED
      BY <3>1, RangesOfIs
  <2> QED
    BY <2>1
<1> HIDE DEF S, parts, step
<1>4. Founded(Exprs, parts)
  BY <1>1, PartsAre, ExprAssumption DEF Founded
<1>5. ASSUME NEW e \in Exprs, NEW f \in [Exprs -> S], NEW g \in [Exprs -> S],
             \A d \in parts[e] : f[d] = g[d]
      PROVE  step[<<e, f>>] = step[<<e, g>>]
  <2>1. \A d \in Parts(e) : f[d] = g[d]
    BY <1>1, <1>5
  <2>2. RangesOf(e, f, n) = RangesOf(e, g, n)
    BY <2>1, ReadsOfParts
  <2> QED
    BY <1>2, <2>2
<1>6. ReadsParts(Exprs, parts, S, step)
  BY <1>3, <1>5 DEF ReadsParts
<1>7. S # {}
  BY NoRange DEF S
<1>8. PICK h : Defines(h, Exprs, S, step)
  BY <1>4, <1>6, <1>7, TreeHasResult
<1>9. h \in [Exprs -> S] /\ \A e \in Exprs : h[e] = step[<<e, h>>]
  BY <1>8 DEF Defines
<1>10. GivesRanges(h, n)
  BY <1>2, <1>9 DEF GivesRanges
<1> QED
  BY <1>9, <1>10 DEF S

\* There is one such function, so it is the one that the definition takes.
LEMMA RangesOfExprIs ==
  ASSUME NEW n \in Nat, \A e \in Exprs : IsExpr(e), NEW h \in [Exprs -> ListsOver(n)], GivesRanges(h, n),
         NEW e \in Exprs
  PROVE  RangesOfExpr(e, n) = h[e]
<1> DEFINE of == CHOOSE f : f = [x \in Exprs |-> RangesOf(x, f, n)]
<1>1. RangesOfExpr(e, n) = of[e]
  BY DEF RangesOfExpr
<1>2. h = [x \in Exprs |-> RangesOf(x, h, n)]
  <2>1. \A x \in Exprs : h[x] = RangesOf(x, h, n)
    BY DEF GivesRanges
  <2> QED
    BY <2>1
<1>3. of = [x \in Exprs |-> RangesOf(x, of, n)]
  BY <1>2
<1> HIDE DEF of
<1> DEFINE W == {x \in Exprs : of[x] # h[x]}
<1>4. ASSUME NEW x \in W PROVE Parts(x) \cap W # {}
  <2> SUFFICES ASSUME Parts(x) \cap W = {} PROVE FALSE
    OBVIOUS
  <2>1. x \in Exprs /\ IsExpr(x) /\ of[x] # h[x]
    OBVIOUS
  <2>2. \A d \in Parts(x) : of[d] = h[d]
    BY <2>1, PartsAre
  <2>3. RangesOf(x, of, n) = RangesOf(x, h, n)
    BY <2>1, <2>2, ReadsOfParts
  <2>4. of[x] = RangesOf(x, of, n) /\ h[x] = RangesOf(x, h, n)
    BY <1>3, <2>1 DEF GivesRanges
  <2> QED
    BY <2>1, <2>3, <2>4
<1>5. W = {}
  <2>1. W \in SUBSET Exprs
    OBVIOUS
  <2> HIDE DEF W
  <2> QED
    BY <1>4, <2>1, NoneIsWrong
<1> QED
  BY <1>1, <1>5

\* A label is in the ranges of an expression when the expression admits it.
LEMMA HoldsInRanges ==
  ASSUME NEW n \in Nat, \A e \in Exprs : IsExpr(e) /\ LabelsIn(e, n),
         NEW h \in [Exprs -> ListsOver(n)], GivesRanges(h, n), NEW e \in Exprs, NEW l \in 1 .. n
  PROVE  Holds(e, l) <=> InList(h[e], l)
<1> DEFINE of == CHOOSE f : f = [x \in Exprs |-> Says(x, f, l)]
           in == [y \in Exprs |-> InList(h[y], l)]
<1>1. Holds(e, l) = of[e]
  BY DEF Holds
<1>2. ASSUME NEW x \in Exprs PROVE InList(h[x], l) <=> Says(x, in, l)
  <2>1. Agrees(h, in, l)
    BY DEF Agrees
  <2> HIDE DEF in
  <2>2. IsExpr(x) /\ LabelsIn(x, n) /\ h[x] = RangesOf(x, h, n)
    BY DEF GivesRanges
  <2>3. Right(RangesOf(x, h, n), x, in, l)
    BY <2>1, <2>2, RangesOfIs
  <2> QED
    BY <2>2, <2>3 DEF Right
<1>3. ASSUME NEW x \in Exprs PROVE InList(h[x], l) = Says(x, in, l)
  <2>1. InList(h[x], l) \in BOOLEAN
    BY DEF InList
  <2>2. Says(x, in, l) \in BOOLEAN
    <3>1. IsExpr(x)
      OBVIOUS
    <3>2. CASE x.type = "LAB"
      BY <3>2 DEF Says
    <3>3. CASE x.type = "NEG"
      BY <3>3 DEF Says
    <3>4. CASE x.type = "OR"
      BY <3>4 DEF Says
    <3>5. CASE x.type = "AND"
      BY <3>5 DEF Says
    <3> QED
      BY <3>1, <3>2, <3>3, <3>4, <3>5 DEF IsExpr
  <2> DEFINE p == InList(h[x], l)
             q == Says(x, in, l)
  <2>3. p \in BOOLEAN /\ q \in BOOLEAN /\ (p <=> q)
    BY <1>2, <2>1, <2>2
  <2> HIDE DEF p, q
  <2>4. p = q
    BY <2>3
  <2> QED
    BY <2>4 DEF p, q
<1>4. \A x \in Exprs : in[x] = InList(h[x], l)
  OBVIOUS
<1>5. in = [x \in Exprs |-> Says(x, in, l)]
  <2>1. \A x \in Exprs : in[x] = Says(x, in, l)
    <3> HIDE DEF in
    <3> QED
      BY <1>3, <1>4
  <2>2. in = [x \in Exprs |-> in[x]]
    OBVIOUS
  <2> HIDE DEF in
  <2> QED
    BY <2>1, <2>2
<1> HIDE DEF in
<1>6. of = [x \in Exprs |-> Says(x, of, l)]
  BY <1>5
<1> HIDE DEF of
<1> DEFINE W == {x \in Exprs : of[x] # in[x]}
<1>7. ASSUME NEW x \in W PROVE Parts(x) \cap W # {}
  <2> SUFFICES ASSUME Parts(x) \cap W = {} PROVE FALSE
    OBVIOUS
  <2>1. x \in Exprs /\ IsExpr(x) /\ of[x] # in[x]
    OBVIOUS
  <2>2. \A d \in Parts(x) : of[d] = in[d]
    BY <2>1, PartsAre
  <2>3. Says(x, of, l) = Says(x, in, l)
    BY <2>1, <2>2, ReadsOfParts
  <2>4. of[x] = Says(x, of, l) /\ in[x] = Says(x, in, l)
    BY <1>5, <1>6, <2>1
  <2> QED
    BY <2>1, <2>3, <2>4
<1>8. W = {}
  <2>1. W \in SUBSET Exprs
    OBVIOUS
  <2> HIDE DEF W
  <2> QED
    BY <1>7, <2>1, NoneIsWrong
<1>9. of[e] = in[e]
  BY <1>8
<1> QED
  BY <1>1, <1>4, <1>9

-----------------------------------------------------------------------------
(***************************************************************************)
(* Searches in lists of ranges.                                            *)
(***************************************************************************)
\* The least position from a bound on is the least number not below it.
LEMMA LeastAbove ==
  ASSUME NEW S \in SUBSET (Nat \ {0}), NEW c \in Int
  PROVE  Least({i \in S : c <= i}) = LeastFrom(S, c)
<1> DEFINE above == {i \in S : c <= i}
<1>1. above \in SUBSET (Nat \ {0}) /\ above \in SUBSET Nat /\ \A i : i \in above <=> i \in S /\ c <= i
  OBVIOUS
<1> HIDE DEF above
<1>2. Least(above) = LeastFrom(above, 1)
  BY DEF Least
<1>3. CASE above = {}
  <2>1. LeastFrom(above, 1) = 0
    BY <1>1, <1>3, LeastFromNone
  <2>2. \A i \in S : i < c
    BY <1>1, <1>3
  <2>3. LeastFrom(S, c) = 0
    BY <2>2, LeastFromNone
  <2> QED
    BY <1>2, <2>1, <2>3 DEF above
<1>4. CASE above # {}
  <2>1. PICK i \in above : \A j \in above : i <= j
    BY <1>1, <1>4, NatHasLeast
  <2>2. i \in S /\ c <= i /\ 1 <= i
    BY <1>1
  <2>3. LeastFrom(above, 1) = i
    BY <1>1, <2>1, <2>2, LeastFromIs
  <2>4. \A j \in S : c <= j => i <= j
    BY <1>1, <2>1
  <2>5. LeastFrom(S, c) = i
    BY <2>2, <2>4, LeastFromIs
  <2> QED
    BY <1>2, <2>3, <2>5 DEF above
<1> QED
  BY <1>3, <1>4

\* The positions covered are those of the edges.
LEMMA ListPlaces ==
  ASSUME NEW E, IsFiniteSet(E), NEW pos, IsNumbering(E, pos), NEW ranges, NEW A, Lists(ranges, A, E, pos)
  PROVE  /\ \A i : i \in Covered(ranges) <=> \E e \in A : pos[e] = i
         /\ Covered(ranges) \subseteq 1 .. Cardinality(E)
         /\ A \subseteq E
<1> DEFINE n == Cardinality(E)
<1>1. n \in Nat
  BY FS_CardinalityType
<1>2. /\ ranges \in Seq(Int \X Int) /\ A \subseteq E
      /\ \A k \in DOMAIN ranges : ranges[k][1] \in 1 .. n /\ ranges[k][2] \in 1 .. n
      /\ \A e \in E : e \in A <=> InList(ranges, pos[e])
  BY <1>1, RangesTyped DEF Lists
<1>3. \A i : i \in Covered(ranges) <=> i \in Int /\ InList(ranges, i)
  BY <1>2, CoveredIs
<1>4. \A i \in Int : InList(ranges, i) => i \in 1 .. n
  BY <1>1, <1>2 DEF InList
<1>5. ASSUME NEW i, i \in Covered(ranges) PROVE \E e \in A : pos[e] = i
  <2>1. i \in 1 .. n /\ InList(ranges, i)
    BY <1>3, <1>4, <1>5
  <2>2. PICK e \in E : pos[e] = i
    BY <2>1 DEF IsNumbering
  <2> QED
    BY <1>2, <2>1, <2>2
<1>6. ASSUME NEW e \in A PROVE pos[e] \in Covered(ranges)
  <2>1. e \in E /\ pos[e] \in Int
    BY <1>1, <1>2 DEF IsNumbering
  <2> QED
    BY <1>2, <1>3, <2>1
<1>7. Covered(ranges) \subseteq 1 .. n
  BY <1>3, <1>4
<1> QED
  BY <1>2, <1>5, <1>6, <1>7

\* The symbols at the positions of a list.
LEMMA ListSymbols ==
  ASSUME NEW E, IsFiniteSet(E), NEW B, NEW pos, NEW sym, NEW lead, NEW top,
         IsColumn(B, E, pos, sym, lead, top), NEW ranges, NEW A, Lists(ranges, A, E, pos)
  PROVE  /\ \A i \in Covered(ranges) : \E e \in A : B.L[i] = sym[e]
         /\ \A e \in A : \E i \in Covered(ranges) : B.L[i] = sym[e]
         /\ \A e \in A : sym[e] \in Nat \ {0}
<1>1. IsNumbering(E, pos) /\ \A e \in E : B.L[pos[e]] = sym[e] /\ sym[e] \in Nat /\ sym[e] # 0
  BY DEF IsColumn
<1>2. (\A i : i \in Covered(ranges) <=> \E e \in A : pos[e] = i) /\ A \subseteq E
  BY <1>1, ListPlaces
<1> QED
  BY <1>1, <1>2

\* leap over a column: the least symbol from the bound on.
LEMMA NextValueAnswers ==
  ASSUME NEW E, IsFiniteSet(E), NEW B, NEW pos, NEW sym, NEW lead, NEW top,
         IsColumn(B, E, pos, sym, lead, top), NEW ranges, NEW A, Lists(ranges, A, E, pos),
         NEW c, IsBound(c)
  PROVE  NextValue(B, Least1(c), Covered(ranges)) = LeastFrom({sym[e] : e \in A}, c)
<1> DEFINE S == {sym[e] : e \in A}
<1>1. {B.L[i] : i \in Covered(ranges)} = S /\ S \in SUBSET (Nat \ {0})
  <2>1. /\ \A i \in Covered(ranges) : \E e \in A : B.L[i] = sym[e]
        /\ \A e \in A : \E i \in Covered(ranges) : B.L[i] = sym[e]
        /\ \A e \in A : sym[e] \in Nat \ {0}
    BY ListSymbols
  <2> QED
    BY <2>1
<1>2. NextValue(B, Least1(c), Covered(ranges)) = LeastFrom(S, Least1(c))
  BY <1>1 DEF NextValue
<1> HIDE DEF S
<1>3. CASE c = NoBound
  <2>1. Least1(c) = 1
    BY <1>3 DEF Least1
  <2>2. LeastFrom(S, NoBound) = LeastFrom(S, 1)
    BY <1>1, LeastUnbounded
  <2>3. LeastFrom(S, Least1(c)) = LeastFrom(S, c)
    BY <1>3, <2>1, <2>2
  <2> QED
    BY <1>2, <2>3 DEF S
<1>4. CASE c # NoBound
  <2>1. Least1(c) = c
    BY <1>4 DEF Least1
  <2> QED
    BY <1>2, <2>1 DEF S
<1> QED
  BY <1>3, <1>4

\* min_in_ranges, next_in_ranges: the ranges hold the ids themselves.
LEMMA NextInRangesAnswers ==
  ASSUME NEW E, IsGraph(E), NEW R0, IsRing(R0, E), NEW ranges, NEW A, Lists(ranges, A, E, Pos(E)),
         NEW c, IsBound(c)
  PROVE  NextInRanges(ranges, c) = LeastFrom(Ids(E, A), c)
<1> DEFINE n == R0.n
           K == {i \in DOMAIN ranges : ranges[i][2] >= c}
           k == Least(K)
<1>1. /\ IsFiniteSet(E) /\ Cardinality(E) = n /\ n \in Nat /\ IsNumbering(E, Pos(E))
      /\ \A e \in E : Pos(E)[e] \in 1 .. n
  BY EdgeFacts DEF IsRing
<1>2. /\ ranges \in RangesOver(n) /\ A \subseteq E /\ \A e \in E : e \in A <=> InList(ranges, Pos(E)[e])
      /\ \A i \in DOMAIN ranges : ranges[i][1] <= ranges[i][2]
      /\ \A i, j \in DOMAIN ranges : i < j => ranges[i][2] < ranges[j][1]
  BY <1>1 DEF Lists, IsList
<1>3. /\ DOMAIN ranges = 1 .. Len(ranges) /\ Len(ranges) \in Nat
      /\ \A i \in DOMAIN ranges : ranges[i][1] \in 1 .. n /\ ranges[i][2] \in 1 .. n
  BY <1>1, <1>2, RangesTyped
<1>4. c \in Int
  BY DEF IsBound, NoBound
<1>5. Ids(E, A) \in SUBSET (Nat \ {0})
  BY <1>2, IdsAre
<1>6. \A i : i \in Ids(E, A) <=> i \in 1 .. n /\ InList(ranges, i)
  <2>1. \A i \in 1 .. n : \E e \in E : Pos(E)[e] = i
    BY <1>1 DEF IsNumbering
  <2>2. \A i \in Ids(E, A) : i \in 1 .. n /\ InList(ranges, i)
    BY <1>1, <1>2 DEF Ids
  <2>3. ASSUME NEW i \in 1 .. n, InList(ranges, i) PROVE i \in Ids(E, A)
    <3>1. PICK e \in E : Pos(E)[e] = i
      BY <2>1
    <3>2. e \in A
      BY <1>2, <2>3, <3>1
    <3> QED
      BY <3>1, <3>2 DEF Ids
  <2> QED
    BY <2>2, <2>3
<1>7. NextInRanges(ranges, c) = IF k = 0 THEN 0 ELSE Larger(ranges[k][1], c)
  BY DEF NextInRanges
<1>8. K \in SUBSET (Nat \ {0}) /\ \A i : i \in K <=> i \in DOMAIN ranges /\ ranges[i][2] >= c
  BY <1>3
<1> HIDE DEF K
<1>9. k = LeastFrom(K, 1)
  BY DEF Least
<1>10. CASE k = 0
  <2>1. \A i \in K : i < 1
    <3>1. LeastFrom(K, 1) = 0 => \A i \in K : i < 1
      BY <1>8, LeastFromCorrect
    <3> QED
      BY <1>9, <1>10, <3>1
  <2>2. \A i \in DOMAIN ranges : ranges[i][2] < c
    <3>1. K = {}
      BY <1>8, <2>1
    <3> QED
      BY <1>3, <1>4, <1>8, <3>1
  <2>3. \A i \in Ids(E, A) : i < c
    <3> SUFFICES ASSUME NEW i \in Ids(E, A) PROVE i < c
      OBVIOUS
    <3>1. i \in 1 .. n /\ InList(ranges, i)
      BY <1>6
    <3>2. PICK j \in DOMAIN ranges : i <= ranges[j][2]
      BY <3>1 DEF InList
    <3>3. ranges[j][2] < c /\ ranges[j][2] \in Int /\ i \in Int
      BY <1>3, <2>2, <3>1
    <3> QED
      BY <1>4, <3>2, <3>3
  <2>4. LeastFrom(Ids(E, A), c) = 0
    BY <1>4, <1>5, <2>3, LeastFromNone
  <2> QED
    BY <1>7, <1>10, <2>4
<1>11. CASE k # 0
  <2>1. k \in K /\ \A i \in K : k <= i
    <3>1. LeastFrom(K, 1) \in K /\ \A i \in K : 1 <= i => LeastFrom(K, 1) <= i
      BY <1>8, <1>9, <1>11, LeastFromCorrect
    <3>2. \A i \in K : 1 <= i
      BY <1>8
    <3> QED
      BY <1>9, <3>1, <3>2
  <2> HIDE DEF k
  <2> DEFINE l == ranges[k][1]
             r == ranges[k][2]
             v == Larger(l, c)
  <2>2. k \in DOMAIN ranges /\ r >= c /\ l \in 1 .. n /\ r \in 1 .. n /\ l <= r
    BY <1>2, <1>3, <1>8, <2>1
  <2>3. v \in 1 .. n /\ l <= v /\ v <= r /\ c <= v /\ (v = l \/ v = c)
    <3> HIDE DEF l, r
    <3> QED
      BY <1>1, <1>4, <2>2 DEF Larger
  <2>4. InList(ranges, v)
    BY <2>2, <2>3 DEF InList
  <2>5. v \in Ids(E, A)
    BY <1>6, <2>3, <2>4
  <2>6. ASSUME NEW i \in Ids(E, A), c <= i PROVE v <= i
    <3>1. i \in 1 .. n /\ InList(ranges, i)
      BY <1>6
    <3>2. PICK j \in DOMAIN ranges : ranges[j][1] <= i /\ i <= ranges[j][2]
      BY <3>1 DEF InList
    <3>3. i \in Int /\ ranges[j][1] \in 1 .. n /\ ranges[j][2] \in 1 .. n
      BY <1>3, <3>1
    <3>4. j \in K
      BY <1>1, <1>4, <1>8, <2>6, <3>2, <3>3
    <3>5. k <= j /\ k \in Int /\ j \in Int
      BY <1>3, <2>1, <2>2, <3>4
    <3>6. CASE k = j
      <4>1. l <= i
        BY <3>2, <3>6
      <4> HIDE DEF l, r
      <4> QED
        BY <1>4, <2>2, <2>3, <2>6, <3>3, <4>1 DEF Larger
    <3>7. CASE k # j
      <4>1. k < j
        BY <3>5, <3>7
      <4>2. r < ranges[j][1]
        BY <1>2, <2>2, <4>1
      <4> HIDE DEF l, r, v
      <4> QED
        BY <1>1, <2>2, <2>3, <3>2, <3>3, <4>2
    <3> QED
      BY <3>6, <3>7
  <2>7. LeastFrom(Ids(E, A), c) = v
    <3> HIDE DEF v
    <3> QED
      BY <1>4, <1>5, <2>3, <2>5, <2>6, LeastFromIs
  <2> QED
    BY <1>7, <1>11, <2>7
<1> QED
  BY <1>10, <1>11

\* min_O_in_P, next_O_in_P: the block of the first edge that has one of the labels.
LEMMA NextOinPAnswers ==
  ASSUME IsGraph(edges), IsRing(R, edges), NEW A \in SUBSET edges,
         \A e \in edges : e.p \in Covered(m_ranges_expr) <=> e \in A,
         NEW c, IsBound(c), c <= R.maxSO + 1
  PROVE  NextOinP(c) = LeastFrom({e.o : e \in A}, c)
<1> DEFINE b == R.p.C[Least1(c)]
           P == {i \in DOMAIN R.p.L : b <= i /\ R.p.L[i] \in Covered(m_ranges_expr)}
           S == {e.o : e \in A}
<1>1. /\ IsFiniteSet(edges) /\ Cardinality(edges) = R.n /\ R.n \in Nat
      /\ IsNumbering(edges, Osp(edges)) /\ IsColumn(R.p, edges, Osp(edges), Pred(edges), Obj(edges), R.maxSO)
  BY EdgeFacts DEF IsRing
<1>2. \A e \in edges : /\ e.o \in 1 .. R.maxSO /\ Obj(edges)[e] = e.o /\ Osp(edges)[e] \in 1 .. R.n
                       /\ R.p.L[Osp(edges)[e]] = e.p
  BY <1>1, EdgeFacts DEF IsColumn
<1>3. /\ DOMAIN R.p.L = 1 .. R.n /\ R.maxSO \in Nat /\ DOMAIN R.p.C = 0 .. R.maxSO + 1 /\ R.p.C[0] = 0
      /\ \A v \in 1 .. R.maxSO + 1 : /\ R.p.C[v] \in 1 .. R.n + 1
                                     /\ \A e \in edges : R.p.C[v] <= Osp(edges)[e] <=> v <= e.o
  BY <1>1, <1>2 DEF IsColumn
<1>4. c \in Int /\ Least1(c) \in 1 .. R.maxSO + 1 /\ \A i \in Nat \ {0} : Least1(c) <= i <=> c <= i
  BY <1>3 DEF IsBound, NoBound, Least1
<1>5. b \in Int /\ \A e \in edges : b <= Osp(edges)[e] <=> c <= e.o
  <2>1. \A e \in edges : b <= Osp(edges)[e] <=> Least1(c) <= e.o
    BY <1>3, <1>4
  <2>2. \A e \in edges : e.o \in Nat \ {0}
    BY <1>2, <1>3
  <2>3. b \in Int
    BY <1>1, <1>3, <1>4
  <2> QED
    BY <1>4, <2>1, <2>2, <2>3
<1>6. NextOinP(c) = BSearchC(R.p, Least(P))
  BY DEF NextOinP
<1> HIDE DEF b
<1>7. P \in SUBSET (Nat \ {0})
  BY <1>3
<1>8. \A e \in A : Osp(edges)[e] \in P <=> c <= e.o
  BY <1>2, <1>3, <1>5
<1>9. \A i \in P : \E e \in A : Osp(edges)[e] = i
  <2> SUFFICES ASSUME NEW i \in P PROVE \E e \in A : Osp(edges)[e] = i
    OBVIOUS
  <2>1. PICK e \in edges : Osp(edges)[e] = i
    BY <1>1, <1>3 DEF IsNumbering
  <2> QED
    BY <1>2, <2>1
<1>10. S \in SUBSET (Nat \ {0})
  BY <1>2, <1>3
<1>11. Least(P) = LeastFrom(P, 1)
  BY DEF Least
<1> HIDE DEF P, S
<1>12. CASE P = {}
  <2>1. LeastFrom(P, 1) = 0
    BY <1>7, <1>12, LeastFromNone
  <2> DEFINE V == {v \in DOMAIN R.p.C : R.p.C[v] <= 0}
  <2>2. 0 \in V /\ V \in SUBSET Nat /\ \A v \in V : v <= 0
    <3>1. \A v \in DOMAIN R.p.C : v # 0 => ~(R.p.C[v] <= 0)
      <4> SUFFICES ASSUME NEW v \in 1 .. R.maxSO + 1 PROVE ~(R.p.C[v] <= 0)
        BY <1>3
      <4>1. R.p.C[v] \in 1 .. R.n + 1
        BY <1>3
      <4> QED
        BY <1>1, <4>1
    <3> QED
      BY <1>3, <3>1
  <2> HIDE DEF V
  <2>3. LargestOf(V) = 0
    BY <2>2, LargestUnique
  <2>4. NextOinP(c) = 0
    BY <1>6, <1>11, <2>1, <2>3 DEF BSearchC, V
  <2>5. \A v \in S : v < c
    <3>1. \A e \in A : ~(c <= e.o) /\ e.o \in Int
      BY <1>2, <1>8, <1>12
    <3> QED
      BY <1>4, <3>1 DEF S
  <2>6. LeastFrom(S, c) = 0
    BY <1>4, <1>10, <2>5, LeastFromNone
  <2> QED
    BY <2>4, <2>6 DEF S
<1>13. CASE P # {}
  <2>1. P \in SUBSET Nat
    BY <1>7
  <2>2. PICK i \in P : \A k \in P : i <= k
    BY <1>13, <2>1, NatHasLeast
  <2>3. i \in Nat \ {0} /\ 1 <= i
    BY <1>7
  <2>4. LeastFrom(P, 1) = i
    BY <1>7, <2>2, <2>3, LeastFromIs
  <2>5. PICK e \in A : Osp(edges)[e] = i
    BY <1>9
  <2>6. BSearchC(R.p, Osp(edges)[e]) = Obj(edges)[e]
    BY <1>1, BSearchIs
  <2>7. NextOinP(c) = e.o
    BY <1>2, <1>6, <1>11, <2>4, <2>5, <2>6
  <2>8. c <= e.o /\ e.o \in S
    BY <1>8, <2>5 DEF S
  <2>9. ASSUME NEW f \in A, c <= f.o PROVE e.o <= f.o
    <3>1. Osp(edges)[e] <= Osp(edges)[f]
      BY <1>8, <2>2, <2>5, <2>9
    <3>2. Obj(edges)[e] <= Obj(edges)[f]
      BY <1>1, <3>1, BlocksRise
    <3> QED
      BY <1>2, <3>2
  <2>10. \A v \in S : c <= v => e.o <= v
    BY <2>9 DEF S
  <2>11. LeastFrom(S, c) = e.o
    <3> DEFINE w == e.o
    <3>1. w \in S /\ c <= w /\ \A v \in S : c <= v => w <= v
      BY <2>8, <2>10
    <3> HIDE DEF w
    <3>2. LeastFrom(S, c) = w
      BY <1>4, <1>10, <3>1, LeastFromIs
    <3> QED
      BY <3>2 DEF w
  <2> QED
    BY <2>7, <2>11 DEF S
<1> QED
  BY <1>12, <1>13

\* min_E_in_SP, next_E_in_SP: the least id, from the bound on, of an edge of s.
LEMMA NextEinSPAnswers ==
  ASSUME IsGraph(edges), IsRing(R, edges), NEW l, NEW A, Lists(m_ranges_level[l], A, edges, Pos(edges)),
         NEW s, NEW c, IsBound(c)
  PROVE  NextEinSP(l, s, c) = LeastFrom(Ids(edges, OfSubject(A, s)), c)
<1> DEFINE S == Ids(edges, OfSubject(A, s))
           P == {i \in {k \in Positions(l) : c <= k} : R.s.L[i] = s}
<1>1. IsFiniteSet(edges) /\ Cardinality(edges) = R.n /\ R.n \in Nat /\ IsNumbering(edges, Pos(edges))
  BY EdgeFacts DEF IsRing
<1>2. (\A i : i \in Positions(l) <=> \E e \in A : Pos(edges)[e] = i) /\ A \subseteq edges
  BY <1>1, ListPlaces DEF Positions
<1>3. c \in Int
  BY DEF IsBound, NoBound
<1>4. \A e \in edges : Pos(edges)[e] \in 1 .. R.n /\ R.s.L[Pos(edges)[e]] = e.s
  BY EdgeFacts, Ends DEF GetS
<1>5. \A i : i \in S <=> \E e \in A : e.s = s /\ Pos(edges)[e] = i
  BY DEF Ids, OfSubject
<1>6. S \in SUBSET (Nat \ {0}) /\ S \in SUBSET (1 .. R.n)
  BY <1>1, <1>2, <1>4, <1>5
<1>7. P = {i \in S : c <= i}
  <2> HIDE DEF S
  <2>1. \A i \in P : i \in S /\ c <= i
    BY <1>2, <1>4, <1>5
  <2>2. \A i \in S : c <= i => i \in P
    BY <1>2, <1>4, <1>5
  <2> QED
    BY <2>1, <2>2
<1>8. NextEinSP(l, s, c) = IF c > R.n THEN 0 ELSE Least(P)
  BY DEF NextEinSP, NextPosition
<1> HIDE DEF S, P
<1>9. CASE c > R.n
  <2>1. \A i \in S : i < c
    BY <1>1, <1>3, <1>6, <1>9
  <2>2. LeastFrom(S, c) = 0
    BY <1>3, <1>6, <2>1, LeastFromNone
  <2> QED
    BY <1>8, <1>9, <2>2 DEF S
<1>10. CASE ~(c > R.n)
  <2>1. Least({i \in S : c <= i}) = LeastFrom(S, c)
    BY <1>3, <1>6, LeastAbove
  <2> QED
    BY <1>7, <1>8, <1>10, <2>1 DEF S
<1> QED
  BY <1>9, <1>10

\* The places are those of the edges A.
PlacesOf(places, A, E, pos) ==
  /\ A \subseteq E /\ \A e \in A : pos[e] \in places
  /\ \A i \in places : \E e \in A : pos[e] = i

\* The first edge, in the order of ids, of the least label from v on, among places of OSP.
LEMMA FirstAtPlaces ==
  ASSUME NEW E, IsGraph(E), NEW R0, IsRing(R0, E), NEW places, NEW A,
         PlacesOf(places, A, E, Osp(E)), NEW v \in Nat \ {0},
         NEW q, q = NextValueRank(R0.p, v, places)
  PROVE  FirstFrom(E, A, v, R0.s.C[q[1]] + q[2])
<1> DEFINE S == {e.p : e \in A}
           w == LeastFrom(S, v)
           At == {i \in places : R0.p.L[i] = w}
<1>1. /\ A \in SUBSET E /\ IsNumbering(E, Osp(E)) /\ IsFiniteSet(E) /\ Cardinality(E) = R0.n /\ R0.n \in Nat
      /\ (\A e \in A : Osp(E)[e] \in places) /\ \A i \in places : \E e \in A : Osp(E)[e] = i
  BY EdgeFacts DEF PlacesOf, IsRing
<1>2. \A e \in E : /\ Osp(E)[e] \in 1 .. R0.n /\ Pos(E)[e] \in 1 .. R0.n
                   /\ e.p \in Nat /\ e.p # 0 /\ Pred(E)[e] = e.p
  BY EdgeFacts
<1>3. \A e \in E : R0.p.L[Osp(E)[e]] = e.p
  BY <1>2 DEF IsRing, IsColumn
<1>4. {R0.p.L[i] : i \in places} = S
  BY <1>1, <1>3
<1>5. q[1] = w /\ q[2] = IF w = 0 THEN 0 ELSE Rank(R0.p, Least(At), w)
  BY <1>4 DEF NextValueRank, NextValue
<1>6. S \in SUBSET (Nat \ {0})
  BY <1>1, <1>2
<1> HIDE DEF S
<1>7. CASE w = 0
  <2>1. \A u \in S : u < v
    BY <1>6, <1>7, LeastFromCorrect
  <2>2. R0.s.C[0] = 0
    BY DEF IsRing, IsColumn
  <2> HIDE DEF w
  <2>3. R0.s.C[q[1]] + q[2] = 0
    BY <1>5, <1>7, <2>2
  <2> QED
    BY <2>1, <2>3 DEF S, FirstFrom
<1>8. CASE w # 0
  <2>1. w \in S /\ v <= w /\ \A u \in S : v <= u => w <= u
    BY <1>6, <1>8, LeastFromCorrect
  <2> HIDE DEF w
  <2>2. At \in SUBSET (Nat \ {0})
    BY <1>1, <1>2
  <2>3. PICK g \in A : g.p = w
    BY <2>1 DEF S
  <2>4. Osp(E)[g] \in At
    BY <1>1, <1>3, <2>3
  <2>5. PICK i \in At : \A k \in At : i <= k
    <3>1. At \in SUBSET Nat /\ At # {}
      BY <2>2, <2>4
    <3> HIDE DEF At
    <3> QED
      BY <3>1, NatHasLeast
  <2>6. Least(At) = i
    <3>1. i \in Nat /\ i # 0 /\ 1 <= i
      BY <2>2
    <3> HIDE DEF At
    <3> QED
      BY <2>2, <2>5, <3>1, LeastFromIs DEF Least
  <2>7. PICK e \in A : Osp(E)[e] = i
    BY <1>1
  <2>8. e \in E /\ e.p = w
    BY <1>1, <1>3, <2>7
  <2>9. Pos(E)[e] = R0.s.C[w] + Rank(R0.p, Osp(E)[e], w)
    <3>1. Pos(E)[e] = R0.s.C[Pred(E)[e]] + Rank(R0.p, Osp(E)[e], Pred(E)[e])
      BY <2>8 DEF IsRing, Turns
    <3> QED
      BY <1>2, <2>8, <3>1
  <2>10. R0.s.C[q[1]] + q[2] = Pos(E)[e]
    BY <1>5, <1>8, <2>6, <2>7, <2>9
  <2>11. ASSUME NEW f \in A, v <= f.p PROVE Pos(E)[e] <= Pos(E)[f]
    <3>1. f \in E /\ f.p \in S /\ w <= f.p
      BY <1>1, <2>1, <2>11 DEF S
    <3>2. /\ Osp(E)[f] < Osp(E)[e] <=> Lex(f.o, e.o, f.s, e.s, f.p, e.p, f.k, e.k)
          /\ Pos(E)[f] < Pos(E)[e] <=> Lex(f.p, e.p, f.o, e.o, f.s, e.s, f.k, e.k)
      BY <2>8, <3>1, EdgeOrders
    <3>3. CASE f.p = w
      <4>1. Osp(E)[f] \in At
        BY <1>1, <1>3, <3>1, <3>3
      <4>2. ~(Osp(E)[f] < Osp(E)[e])
        BY <1>1, <1>2, <2>5, <2>7, <3>1, <2>8, <4>1
      <4>3. ~(Pos(E)[f] < Pos(E)[e])
        <5>1. e.p \in Int
          BY <1>2, <2>8
        <5> QED
          BY <3>2, <3>3, <4>2, <2>8, <5>1 DEF Lex
      <4> QED
        BY <1>1, <1>2, <2>8, <3>1, <4>3
    <3>4. CASE f.p # w
      <4>1. f.p \in Int /\ w \in Int
        BY <1>2, <2>8, <3>1
      <4>2. ~Lex(f.p, e.p, f.o, e.o, f.s, e.s, f.k, e.k)
        BY <2>8, <3>1, <3>4, <4>1 DEF Lex
      <4> QED
        BY <1>1, <1>2, <2>8, <3>1, <3>2, <4>2
    <3> QED
      BY <3>3, <3>4
  <2>12. v <= e.p
    BY <2>1, <2>8
  <2> QED
    BY <2>10, <2>11, <2>12 DEF FirstFrom
<1> QED
  BY <1>7, <1>8

\* min_E_in_OS answers the least id in the ranges of OSP.
LEMMA NextEinOSAnswers ==
  ASSUME IsGraph(edges), IsRing(R, edges), NEW ranges, NEW A, A # {}, Lists(ranges, A, edges, Osp(edges))
  PROVE  NextEinOS(ranges, NoBound) = LeastFrom(Ids(edges, A), NoBound)
<1> DEFINE q == NextValueRank(R.p, 1, Covered(ranges))
           E == edges
           i == R.s.C[q[1]] + q[2]
<1>1. /\ IsFiniteSet(E) /\ IsNumbering(E, Osp(E))
      /\ \A e \in E : e.p \in Nat /\ e.p # 0 /\ Pos(E)[e] \in 1 .. R.n /\ R.n \in Nat
  BY EdgeFacts DEF IsRing
<1>2. NextEinOS(ranges, NoBound) = i
  BY DEF NextEinOS, EdgeFrom
<1>3. PlacesOf(Covered(ranges), A, E, Osp(E))
  BY <1>1, ListPlaces DEF PlacesOf
<1>4. FirstFrom(E, A, 1, i)
  <2> HIDE DEF q
  <2>1. 1 \in Nat \ {0} /\ q = NextValueRank(R.p, 1, Covered(ranges))
    BY DEF q
  <2> QED
    BY <1>3, <2>1, FirstAtPlaces
<1> HIDE DEF i
<1>5. A \in SUBSET E
  BY <1>3 DEF PlacesOf
<1>6. \A f \in A : 1 <= f.p /\ ~(f.p < 1)
  BY <1>1, <1>5
<1>7. PICK e \in A : i = Pos(E)[e] /\ \A f \in A : Pos(E)[e] <= Pos(E)[f]
  BY <1>4, <1>6 DEF FirstFrom
<1>8. Ids(E, A) \in SUBSET (Nat \ {0}) /\ NoBound \in Int
  BY <1>5, IdsAre DEF NoBound
<1>9. i \in Ids(E, A) /\ NoBound <= i /\ \A k \in Ids(E, A) : NoBound <= k => i <= k
  BY <1>1, <1>5, <1>7 DEF Ids, NoBound
<1>10. LeastFrom(Ids(E, A), NoBound) = i
  BY <1>8, <1>9, LeastFromIs
<1> QED
  BY <1>2, <1>10

\* The ranges after the k-th one cover what the list covers after its end.
LEMMA LaterRanges ==
  ASSUME NEW n \in Nat, NEW ranges \in RangesOver(n), IsList(ranges), NEW k \in DOMAIN ranges,
         NEW i, i \in Covered(SubSeq(ranges, k + 1, Len(ranges)))
  PROVE  i \in Int /\ i \in Covered(ranges) /\ ranges[k][2] < i
<1> DEFINE S == (1 .. n) \X (1 .. n)
           m == Len(ranges)
           later == SubSeq(ranges, k + 1, m)
<1>1. /\ ranges \in Seq(Int \X Int) /\ m \in Nat /\ DOMAIN ranges = 1 .. m
      /\ \A l \in DOMAIN ranges : /\ ranges[l][1] \in Int /\ ranges[l][2] \in Int
                                  /\ ranges[l] \in S
  BY RangesTyped
<1>2. i \in Covered(later)
  OBVIOUS
<1> HIDE DEF S, m
<1>3. k \in Int /\ k + 1 \in Int /\ 1 <= k /\ k <= m /\ m \in Int
  BY <1>1
<1>4. \A l \in k + 1 .. m : ranges[l] \in S
  <2>1. \A l \in k + 1 .. m : l \in 1 .. m
    BY <1>3
  <2> QED
    BY <1>1, <2>1
<1>5. /\ later \in Seq(S) /\ Len(later) = IF k + 1 <= m THEN m - (k + 1) + 1 ELSE 0
      /\ \A l \in 1 .. m - (k + 1) + 1 : later[l] = ranges[(k + 1) + l - 1]
  BY <1>3, <1>4, SubSeqProperties
<1> HIDE DEF later
<1>6. /\ later \in Seq(Int \X Int) /\ DOMAIN later = 1 .. Len(later)
  <2>1. later \in RangesOver(n)
    BY <1>5 DEF RangesOver, S
  <2> QED
    BY <2>1, RangesTyped
<1>7. i \in Int /\ InList(later, i)
  BY <1>2, <1>6, CoveredIs
<1>8. PICK l \in DOMAIN later : later[l][1] <= i /\ i <= later[l][2]
  BY <1>7 DEF InList
<1>9. Len(later) = m - k /\ m - (k + 1) + 1 = m - k
  <2>1. m - (k + 1) + 1 = m - k
    BY <1>3
  <2>2. Len(later) = IF k + 1 <= m THEN m - (k + 1) + 1 ELSE 0
    BY <1>5
  <2>3. ~(k + 1 <= m) => m - k = 0
    BY <1>3
  <2> QED
    BY <2>1, <2>2, <2>3
<1>10. l \in 1 .. m - k
  BY <1>6, <1>8, <1>9
<1> DEFINE h == l + k
<1>11. later[l] = ranges[h]
  <2>1. l \in 1 .. m - (k + 1) + 1 /\ (k + 1) + l - 1 = l + k
    <3>1. l \in Int
      BY <1>10
    <3> QED
      BY <1>3, <1>9, <1>10, <3>1
  <2> QED
    BY <1>5, <2>1
<1>12. h \in 1 .. m /\ k < h
  BY <1>3, <1>10
<1>13. ranges[h][1] <= i /\ i <= ranges[h][2]
  BY <1>8, <1>11
<1> HIDE DEF h
<1>14. h \in DOMAIN ranges
  BY <1>1, <1>12
<1>15. i \in Covered(ranges)
  BY <1>1, <1>7, <1>13, <1>14, CoveredIs DEF InList
<1>16. ranges[k][2] < ranges[h][1]
  BY <1>12, <1>14 DEF IsList
<1>17. ranges[k][2] \in Int /\ ranges[h][1] \in Int
  BY <1>1, <1>14
<1> QED
  BY <1>7, <1>13, <1>15, <1>16, <1>17

\* With a bound, next_E_in_OS may leave out edges, but what it answers is the id of an edge in
\* the ranges, from the bound on.
LEMMA NextEinOSMatches ==
  ASSUME IsGraph(edges), IsRing(R, edges), NEW ranges, NEW A, Lists(ranges, A, edges, Osp(edges)),
         NEW c \in Nat \ {0}, NextEinOS(ranges, c) # 0
  PROVE  NextEinOS(ranges, c) \in Ids(edges, A) /\ c <= NextEinOS(ranges, c)
<1> DEFINE E == edges
           label == BSearchC(R.s, c)
           j == SelectWM(R.p, c - R.s.C[label] + 1, label)
           k == Least({i \in DOMAIN ranges : j <= ranges[i][2]})
           later == SubSeq(ranges, k + 1, Len(ranges))
<1>1. /\ IsFiniteSet(E) /\ Cardinality(E) = R.n /\ R.n \in Nat
      /\ IsNumbering(E, Osp(E)) /\ IsNumbering(E, Pos(E))
      /\ \A e \in E : /\ e.p \in Nat /\ e.p # 0 /\ Pos(E)[e] \in 1 .. R.n
                      /\ Osp(E)[e] \in 1 .. R.n
  BY EdgeFacts DEF IsRing
<1>2. /\ \A i : i \in Covered(ranges) <=> \E e \in A : Osp(E)[e] = i
      /\ A \subseteq E
  BY <1>1, ListPlaces
<1>3. c <= R.n
  BY <1>1 DEF NextEinOS, NoBound
<1>4. PICK g \in E : Pos(E)[g] = c
  BY <1>1, <1>3 DEF IsNumbering
<1>5. label = g.p /\ j = Osp(E)[g]
  BY <1>4, PlaceOfId
<1>6. NextEinOS(ranges, c) = IF k = 0 THEN EdgeFrom(label + 1, ranges)
                             ELSE IF j >= ranges[k][1] THEN c
                             ELSE EdgeFrom(label, later)
  <2>1. c # NoBound /\ ~(c > R.n)
    BY <1>1, <1>3 DEF NoBound
  <2> QED
    BY <2>1 DEF NextEinOS
<1>7. g.p \in Nat \ {0} /\ j \in 1 .. R.n /\ Osp(E)[g] \in Int
  BY <1>1, <1>5
<1> HIDE DEF label, j
<1>8. ASSUME k # 0 PROVE /\ k \in DOMAIN ranges /\ j <= ranges[k][2]
  <2>1. {i \in DOMAIN ranges : j <= ranges[i][2]} \in SUBSET (Nat \ {0})
    <3>1. DOMAIN ranges = 1 .. Len(ranges) /\ Len(ranges) \in Nat
      BY <1>1, RangesTyped DEF Lists
    <3> QED
      BY <3>1
  <2> DEFINE at == {i \in DOMAIN ranges : j <= ranges[i][2]}
  <2>2. k = LeastFrom(at, 1) /\ at \in SUBSET (Nat \ {0})
    BY <2>1 DEF Least
  <2> HIDE DEF at, k
  <2>3. k \in at
    BY <1>8, <2>2, LeastFromCorrect
  <2> QED
    BY <2>3 DEF at
<1> HIDE DEF k
<1>9. ASSUME NEW places, NEW B \in SUBSET A, PlacesOf(places, B, E, Osp(E)), NEW v \in Nat \ {0},
             \A f \in B : v <= f.p => c <= Pos(E)[f],
             NextEinOS(ranges, c) = LET w == NextValueRank(R.p, v, places) IN R.s.C[w[1]] + w[2]
      PROVE  NextEinOS(ranges, c) \in Ids(E, A) /\ c <= NextEinOS(ranges, c)
  <2> DEFINE q == NextValueRank(R.p, v, places)
             i == R.s.C[q[1]] + q[2]
  <2>1. FirstFrom(E, B, v, i)
    BY <1>9, FirstAtPlaces
  <2>2. i = NextEinOS(ranges, c)
    BY <1>9
  <2> HIDE DEF i
  <2> QED
    BY <1>9, <2>1, <2>2 DEF FirstFrom, Ids
<1>10. ASSUME NEW f \in E
       PROVE  /\ g.p < f.p => c <= Pos(E)[f]
              /\ f.p = g.p /\ j < Osp(E)[f] => c <= Pos(E)[f]
  <2>1. /\ Osp(E)[g] < Osp(E)[f] <=> Lex(g.o, f.o, g.s, f.s, g.p, f.p, g.k, f.k)
        /\ Pos(E)[g] < Pos(E)[f] <=> Lex(g.p, f.p, g.o, f.o, g.s, f.s, g.k, f.k)
    BY EdgeOrders
  <2>2. /\ Pos(E)[g] \in Int /\ Pos(E)[f] \in Int /\ g.p \in Int /\ f.p \in Int
    BY <1>1
  <2>3. g.p < f.p => Pos(E)[g] < Pos(E)[f]
    BY <2>1 DEF Lex
  <2>4. f.p = g.p /\ Osp(E)[g] < Osp(E)[f] => Pos(E)[g] < Pos(E)[f]
    BY <2>1, <2>2 DEF Lex
  <2> QED
    BY <1>4, <1>5, <2>2, <2>3, <2>4
<1>11. CASE k = 0
  <2>1. PlacesOf(Covered(ranges), A, E, Osp(E))
    BY <1>2 DEF PlacesOf
  <2>2. \A f \in A : g.p + 1 <= f.p => c <= Pos(E)[f]
    <3> SUFFICES ASSUME NEW f \in A, g.p + 1 <= f.p PROVE c <= Pos(E)[f]
      OBVIOUS
    <3>1. f \in E /\ g.p < f.p
      BY <1>1, <1>2, <1>7
    <3> QED
      BY <1>10, <3>1
  <2>3. g.p + 1 \in Nat \ {0}
    BY <1>7
  <2>4. NextEinOS(ranges, c) =
          LET w == NextValueRank(R.p, g.p + 1, Covered(ranges)) IN R.s.C[w[1]] + w[2]
    BY <1>5, <1>6, <1>11 DEF EdgeFrom
  <2> QED
    BY <1>9, <2>1, <2>2, <2>3, <2>4
<1>12. CASE k # 0 /\ j >= ranges[k][1]
  <2>1. NextEinOS(ranges, c) = c
    BY <1>6, <1>12
  <2>2. InList(ranges, Osp(E)[g])
    BY <1>5, <1>8, <1>12 DEF InList
  <2>3. g \in A
    BY <2>2 DEF Lists
  <2> QED
    BY <1>4, <2>1, <2>3 DEF Ids
<1>13. CASE k # 0 /\ ~(j >= ranges[k][1])
  <2> DEFINE B == {f \in A : Osp(E)[f] \in Covered(later)}
  <2>1. k \in DOMAIN ranges /\ j <= ranges[k][2] /\ ranges \in RangesOver(R.n) /\ IsList(ranges)
    BY <1>1, <1>8, <1>13 DEF Lists
  <2>2. ranges[k][2] \in Int
    BY <1>1, <2>1, RangesTyped
  <2>3. ASSUME NEW i, i \in Covered(later)
        PROVE  i \in Int /\ i \in Covered(ranges) /\ j < i
    <3>1. i \in Int /\ i \in Covered(ranges) /\ ranges[k][2] < i
      BY <1>1, <2>1, <2>3, LaterRanges
    <3> QED
      BY <1>7, <2>1, <2>2, <3>1
  <2> HIDE DEF later
  <2>4. PlacesOf(Covered(later), B, E, Osp(E)) /\ B \in SUBSET A
    <3>1. ASSUME NEW i \in Covered(later) PROVE \E e \in B : Osp(E)[e] = i
      BY <1>2, <2>3
    <3> QED
      BY <1>2, <3>1 DEF PlacesOf
  <2>5. \A f \in B : g.p <= f.p => c <= Pos(E)[f]
    <3> SUFFICES ASSUME NEW f \in B, g.p <= f.p PROVE c <= Pos(E)[f]
      OBVIOUS
    <3>1. f \in E /\ j < Osp(E)[f] /\ f.p \in Nat
      BY <1>1, <1>2, <2>3
    <3>2. g.p < f.p \/ f.p = g.p
      BY <1>7, <3>1
    <3> QED
      BY <1>10, <3>1, <3>2
  <2>6. NextEinOS(ranges, c) =
          LET w == NextValueRank(R.p, g.p, Covered(later)) IN R.s.C[w[1]] + w[2]
    BY <1>5, <1>6, <1>13 DEF EdgeFrom
  <2> HIDE DEF B
  <2> QED
    BY <1>7, <1>9, <2>4, <2>5, <2>6
<1> QED
  BY <1>11, <1>12, <1>13

\* Along a list whose order is that of the ids, each edge has the next id: the first place
\* is that of the first, the next of this range or the first of the next one follows, and
\* the last place of the last range is that of the last.
LEMMA NextInList ==
  ASSUME NEW E, IsGraph(E), NEW R0, IsRing(R0, E), NEW pos, IsNumbering(E, pos),
         NEW ranges, NEW A, Lists(ranges, A, E, pos),
         \A e, f \in A : pos[e] < pos[f] <=> Pos(E)[e] < Pos(E)[f],
         NEW k \in DOMAIN ranges, NEW e \in A, ranges[k][1] <= pos[e], pos[e] <= ranges[k][2]
  PROVE  /\ k = 1 /\ pos[e] = ranges[1][1] => LeastFrom(Ids(E, A), NoBound) = Pos(E)[e]
         /\ pos[e] < ranges[k][2] =>
              \A f \in E : pos[f] = pos[e] + 1 => f \in A /\ LeastFrom(Ids(E, A), Pos(E)[e] + 1) = Pos(E)[f]
         /\ pos[e] = ranges[k][2] /\ k + 1 \in DOMAIN ranges =>
              \A f \in E : pos[f] = ranges[k + 1][1] =>
                f \in A /\ LeastFrom(Ids(E, A), Pos(E)[e] + 1) = Pos(E)[f]
         /\ pos[e] = ranges[k][2] /\ k = Len(ranges) => LeastFrom(Ids(E, A), Pos(E)[e] + 1) = 0
<1> DEFINE n == R0.n
<1>1. A \in SUBSET E /\ IsFiniteSet(E) /\ Cardinality(E) = n /\ n \in Nat
  BY EdgeFacts DEF Lists, IsRing
<1>2. /\ ranges \in RangesOver(n)
      /\ \A f \in E : f \in A <=> InList(ranges, pos[f])
      /\ \A i \in DOMAIN ranges : ranges[i][1] <= ranges[i][2]
      /\ \A i, j \in DOMAIN ranges : i < j => ranges[i][2] < ranges[j][1]
  BY <1>1 DEF Lists, IsList
<1>3. /\ DOMAIN ranges = 1 .. Len(ranges) /\ Len(ranges) \in Nat
      /\ \A i \in DOMAIN ranges : ranges[i][1] \in 1 .. n /\ ranges[i][2] \in 1 .. n
  BY <1>1, <1>2, RangesTyped
<1>4. \A f \in E : pos[f] \in Int /\ Pos(E)[f] \in Nat \ {0}
  <2>1. \A f \in E : pos[f] \in 1 .. n /\ Pos(E)[f] \in 1 .. n
    BY <1>1, EdgeFacts DEF IsNumbering
  <2> QED
    BY <1>1, <2>1
<1>5. e \in E /\ Ids(E, A) \in SUBSET (Nat \ {0}) /\ Pos(E)[e] + 1 \in Int /\ NoBound \in Int
  BY <1>1, <1>4, IdsAre DEF NoBound
<1>6. \A f \in A : \E i \in DOMAIN ranges : ranges[i][1] <= pos[f] /\ pos[f] <= ranges[i][2]
  BY <1>1, <1>2 DEF InList
<1>7. ASSUME NEW f \in A, pos[e] < pos[f], \A g \in A : pos[e] < pos[g] => pos[f] <= pos[g]
      PROVE  LeastFrom(Ids(E, A), Pos(E)[e] + 1) = Pos(E)[f]
  <2>1. Pos(E)[e] + 1 <= Pos(E)[f]
    BY <1>1, <1>4, <1>7
  <2>2. ASSUME NEW g \in A, Pos(E)[e] + 1 <= Pos(E)[g] PROVE Pos(E)[f] <= Pos(E)[g]
    <3>1. Pos(E)[e] < Pos(E)[g]
      BY <1>1, <1>4, <2>2
    <3>2. pos[e] < pos[g]
      BY <3>1
    <3>3. ~(pos[g] < pos[f])
      BY <1>1, <1>4, <1>7, <3>2
    <3>4. ~(Pos(E)[g] < Pos(E)[f])
      BY <3>3
    <3> QED
      BY <1>1, <1>4, <3>4
  <2>3. Pos(E)[f] \in Ids(E, A) /\ \A i \in Ids(E, A) : Pos(E)[e] + 1 <= i => Pos(E)[f] <= i
    BY <2>2 DEF Ids
  <2> QED
    BY <1>5, <2>1, <2>3, LeastFromIs
<1>8. ASSUME k = 1, pos[e] = ranges[1][1] PROVE LeastFrom(Ids(E, A), NoBound) = Pos(E)[e]
  <2>1. ASSUME NEW f \in A PROVE Pos(E)[e] <= Pos(E)[f]
    <3>1. PICK i \in DOMAIN ranges : ranges[i][1] <= pos[f] /\ pos[f] <= ranges[i][2]
      BY <1>6
    <3>2. CASE i = 1
      <4>1. ~(pos[f] < pos[e])
        BY <1>1, <1>3, <1>4, <1>8, <3>1, <3>2
      <4>2. ~(Pos(E)[f] < Pos(E)[e])
        BY <4>1
      <4> QED
        BY <1>1, <1>4, <4>2
    <3>3. CASE i # 1
      <4>1. 1 < i
        BY <1>3, <3>3
      <4>2. ranges[1][2] < ranges[i][1] /\ ranges[1][1] <= ranges[1][2]
        BY <1>2, <1>8, <4>1
      <4>3. ranges[1][1] \in Int /\ ranges[1][2] \in Int /\ ranges[i][1] \in Int /\ pos[f] \in Int
        BY <1>1, <1>3, <1>4, <1>8
      <4>4. ~(pos[f] < pos[e])
        BY <1>8, <3>1, <4>2, <4>3
      <4>5. ~(Pos(E)[f] < Pos(E)[e])
        BY <4>4
      <4> QED
        BY <1>1, <1>4, <4>5
    <3> QED
      BY <3>2, <3>3
  <2>2. Pos(E)[e] \in Ids(E, A) /\ NoBound <= Pos(E)[e] /\ \A i \in Ids(E, A) : Pos(E)[e] <= i
    BY <1>4, <1>5, <2>1 DEF Ids, NoBound
  <2> QED
    BY <1>5, <2>2, LeastFromIs
<1>9. ASSUME pos[e] < ranges[k][2], NEW f \in E, pos[f] = pos[e] + 1
      PROVE  f \in A /\ LeastFrom(Ids(E, A), Pos(E)[e] + 1) = Pos(E)[f]
  <2>1. ranges[k][1] <= pos[f] /\ pos[f] <= ranges[k][2] /\ pos[e] < pos[f]
    BY <1>3, <1>4, <1>5, <1>9
  <2>2. f \in A
    BY <1>2, <2>1 DEF InList
  <2>3. \A g \in A : pos[e] < pos[g] => pos[f] <= pos[g]
    BY <1>1, <1>4, <1>5, <1>9
  <2> QED
    BY <1>7, <2>1, <2>2, <2>3
<1>10. ASSUME pos[e] = ranges[k][2], k + 1 \in DOMAIN ranges, NEW f \in E, pos[f] = ranges[k + 1][1]
       PROVE  f \in A /\ LeastFrom(Ids(E, A), Pos(E)[e] + 1) = Pos(E)[f]
  <2>1. k \in Int /\ k < k + 1
    BY <1>3
  <2>2. pos[e] < pos[f]
    BY <1>2, <1>10, <2>1
  <2>3. f \in A
    <3>1. ranges[k + 1][1] <= pos[f] /\ pos[f] <= ranges[k + 1][2]
      BY <1>2, <1>4, <1>10
    <3> QED
      BY <1>2, <1>10, <3>1 DEF InList
  <2>4. ASSUME NEW g \in A, pos[e] < pos[g] PROVE pos[f] <= pos[g]
    <3>1. PICK i \in DOMAIN ranges : ranges[i][1] <= pos[g] /\ pos[g] <= ranges[i][2]
      BY <1>6
    <3>2. /\ ranges[i][1] \in Int /\ ranges[i][2] \in Int /\ pos[g] \in Int /\ pos[e] \in Int /\ pos[f] \in Int
          /\ i \in Int /\ ranges[k + 1][2] \in Int /\ ranges[k][1] \in Int
      <4>1. \A d \in DOMAIN ranges : d \in Int /\ ranges[d][1] \in Int /\ ranges[d][2] \in Int
        BY <1>3
      <4>2. pos[g] \in Int /\ pos[e] \in Int /\ pos[f] \in Int
        BY <1>1, <1>4, <1>5, <1>10
      <4> QED
        BY <1>10, <4>1, <4>2
    <3>3. ~(i < k)
      <4> SUFFICES ASSUME i < k PROVE FALSE
        OBVIOUS
      <4>1. ranges[i][2] < ranges[k][1]
        BY <1>2
      <4> QED
        BY <2>4, <3>1, <3>2, <4>1
    <3>4. i # k
      BY <1>10, <2>4, <3>1, <3>2
    <3>5. CASE i = k + 1
      BY <1>10, <3>1, <3>5
    <3>6. CASE i # k + 1
      <4>1. k + 1 < i
        BY <2>1, <3>2, <3>3, <3>4, <3>6
      <4>2. ranges[k + 1][2] < ranges[i][1] /\ ranges[k + 1][1] <= ranges[k + 1][2]
        BY <1>2, <1>10, <4>1
      <4> QED
        BY <1>10, <3>1, <3>2, <4>2
    <3> QED
      BY <3>5, <3>6
  <2> QED
    BY <1>7, <2>2, <2>3, <2>4
<1>11. ASSUME pos[e] = ranges[k][2], k = Len(ranges) PROVE LeastFrom(Ids(E, A), Pos(E)[e] + 1) = 0
  <2>1. ASSUME NEW g \in A PROVE ~(pos[e] < pos[g])
    <3> SUFFICES ASSUME pos[e] < pos[g] PROVE FALSE
      OBVIOUS
    <3>1. PICK i \in DOMAIN ranges : ranges[i][1] <= pos[g] /\ pos[g] <= ranges[i][2]
      BY <1>6
    <3>2. ranges[i][2] \in Int /\ pos[g] \in Int /\ pos[e] \in Int /\ i \in Int /\ ranges[k][1] \in Int
      BY <1>1, <1>3, <1>4, <1>5
    <3>3. CASE i = k
      BY <1>11, <3>1, <3>2, <3>3
    <3>4. CASE i # k
      <4>1. i < k
        BY <1>3, <1>11, <3>4
      <4>2. ranges[i][2] < ranges[k][1]
        BY <1>2, <4>1
      <4> QED
        BY <3>1, <3>2, <4>2
    <3> QED
      BY <3>3, <3>4
  <2>2. \A g \in A : ~(Pos(E)[e] < Pos(E)[g])
    BY <2>1
  <2>3. \A i \in Ids(E, A) : i < Pos(E)[e] + 1
    BY <1>1, <1>4, <1>5, <2>2 DEF Ids
  <2> QED
    BY <1>5, <2>3, LeastFromNone
<1> QED
  BY <1>8, <1>9, <1>10, <1>11

-----------------------------------------------------------------------------
(***************************************************************************)
(* The graph, the terms, what is free.                                     *)
(***************************************************************************)
\* What a graph and a pattern give.
LEMMA RingAt ==
  ASSUME edges \in Graphs, R = Build(edges), pat \in Patterns
  PROVE  /\ IsGraph(edges) /\ IsRing(R, edges)
         /\ R.n \in Nat /\ R.n # 0 /\ R.maxSO \in Nat /\ R.maxP \in Nat /\ R.maxP # 0
         /\ pat.s \in Nat /\ pat.o \in Nat /\ pat.expr \in Exprs
         /\ \A label \in 1 .. R.maxP : \E e \in edges : e.p = label
<1>1. IsGraph(edges) /\ Numbered(edges)
  BY GraphAssumption DEF Numbered
<1>2. IsRing(R, edges)
  BY <1>1, BuildIsRing
<1>3. pat \in [s : Nat, o : Nat, expr : Exprs]
  BY PatternAssumption
<1>4. \A label \in 1 .. R.maxP : \E e \in edges : e.p = label
  BY <1>1, LabelsUsed
<1>5. R.n # 0 /\ R.n \in Nat
  BY <1>2 DEF IsRing
<1>6. R.maxP \in Nat /\ R.maxP # 0
  <2>1. R.maxP \in Nat
    BY <1>2 DEF IsRing
  <2>2. PICK e \in edges : TRUE
    BY <1>1 DEF IsGraph
  <2>3. e.p \in 1 .. R.maxP
    BY <1>1, <1>2, EdgeFacts
  <2> QED
    BY <2>1, <2>3
<1> QED
  BY <1>2, <1>1, <1>3, <1>4, <1>5, <1>6 DEF IsRing

\* They are so in every state.
LEMMA RingHere ==
  ASSUME StateTypes
  PROVE  /\ IsGraph(edges) /\ IsRing(R, edges)
         /\ R.n \in Nat /\ R.n # 0 /\ R.maxSO \in Nat /\ R.maxP \in Nat /\ R.maxP # 0
         /\ pat.s \in Nat /\ pat.o \in Nat /\ pat.expr \in Exprs
         /\ \A label \in 1 .. R.maxP : \E e \in edges : e.p = label
BY RingAt DEF StateTypes

\* A match gives to a term what its edge has.
LEMMA TermIs ==
  ASSUME NEW e \in edges, NEW x \in Terms
  PROVE  Term(e)[x] = ValOf(edges, e, x)
<1>1. EdgeId(edges, e) = Pos(edges)[e]
  BY DEF EdgeId, Pos, PositionsOf
<1>2. CASE x = "s"
  BY <1>2 DEF Term, ValOf
<1>3. CASE x = "o"
  BY <1>3 DEF Term, ValOf
<1>4. CASE x = "p"
  BY <1>1, <1>4 DEF Term, ValOf
<1>5. QED BY <1>2, <1>3, <1>4 DEF Terms

\* The levels, and the steps of the path.
LEMMA PathIs ==
  ASSUME StateTypes, Bindings
  PROVE  /\ DOMAIN path = 1 .. Len(path) /\ Len(path) \in Nat
         /\ m_level \in 0 .. 3 /\ Offset(pat) \in 0 .. 2 /\ m_level = Offset(pat) + Len(path)
         /\ \A d \in 1 .. Len(path) : path[d].x \in Terms /\ path[d].v \in Nat
<1>1. path \in Seq([x : Terms, v : Nat])
  BY DEF StateTypes
<1>2. DOMAIN path = 1 .. Len(path) /\ Len(path) \in Nat /\ \A d \in 1 .. Len(path) : path[d] \in [x : Terms, v : Nat]
  BY <1>1, LenProperties, ElementOfSeq
<1>3. \A d \in 1 .. Len(path) : path[d].x \in Terms /\ path[d].v \in Nat
  BY <1>2
<1>4. m_level \in 0 .. 3 /\ m_level = Offset(pat) + Len(path)
  BY DEF Bindings, StateTypes
<1>5. Offset(pat) \in 0 .. 2
  BY DEF Offset
<1>6. QED BY <1>2, <1>3, <1>4, <1>5

\* Where the path lies in the levels.
LEMMA FreeIs ==
  ASSUME StateTypes, Bindings
  PROVE  /\ m_level = 0 => Free = Terms
         /\ m_level = 1 => m_state[0] \in Terms /\ Free = Terms \ {m_state[0]}
         /\ m_level = 2 => /\ m_state[0] \in Terms /\ m_state[1] \in Terms /\ m_state[0] # m_state[1]
                           /\ Free = Terms \ {m_state[0], m_state[1]}
         /\ m_level = 3 => Free = {}
         /\ Free \subseteq Terms
<1> DEFINE k == Offset(pat)
           Path == {path[d].x : d \in 1 .. Len(path)}
<1>1. /\ DOMAIN path = 1 .. Len(path) /\ Len(path) \in Nat /\ m_level \in 0 .. 3 /\ k \in 0 .. 2
      /\ m_level = k + Len(path) /\ \A d \in 1 .. Len(path) : path[d].x \in Terms
  BY PathIs
<1>2. Free = Variables \ Path
  BY <1>1 DEF Free
<1>3. Terms = {"s", "p", "o"} /\ Variables \subseteq Terms
  BY DEF Terms, Variables
<1>4. k = 0 => Variables = Terms
  BY DEF Offset, Variables, Terms
<1>5. k = 1 => Variables = Terms \ {m_state[0]} /\ m_state[0] \in Terms
  BY DEF Offset, Variables, Terms, Bindings
<1>6. k = 2 => Variables = {"p"} /\ m_state[0] = "s" /\ m_state[1] = "o"
  BY DEF Offset, Variables, Terms, Bindings
<1>7. \A d \in 1 .. Len(path) :
        /\ path[d].x \in Variables
        /\ \A f \in 1 .. Len(path) : path[d].x = path[f].x => d = f
        /\ k + d - 1 < 2 => m_state[k + d - 1] = path[d].x
  BY DEF Bindings
<1>8. Free \subseteq Terms
  BY <1>2, <1>3
<1> HIDE DEF k
<1>9. CASE Len(path) = 0
  <2>1. Path = {}
    BY <1>9
  <2>2. Free = Variables /\ m_level = k
    BY <1>1, <1>2, <1>9, <2>1
  <2>3. QED BY <1>1, <1>3, <1>4, <1>5, <1>6, <1>8, <2>2
<1>10. CASE Len(path) = 1
  <2>1. Path = {path[1].x} /\ 1 \in 1 .. Len(path)
    <3>1. 1 .. 1 = {1}
      OBVIOUS
    <3>2. QED BY <1>10, <3>1
  <2>2. Free = Variables \ {path[1].x} /\ m_level = k + 1 /\ path[1].x \in Variables /\ path[1].x \in Terms
    BY <1>1, <1>2, <1>7, <1>10, <2>1
  <2>3. k < 2 => m_state[k] = path[1].x
    <3>1. k + 1 - 1 < 2 => m_state[k + 1 - 1] = path[1].x
      BY <1>7, <2>1
    <3>2. k + 1 - 1 = k
      BY <1>1
    <3>3. QED BY <3>1, <3>2
  <2>4. k = 0 \/ k = 1 \/ k = 2
    BY <1>1
  <2>5. CASE k = 0
    BY <1>4, <1>8, <2>2, <2>3, <2>5
  <2>6. CASE k = 1
    BY <1>5, <1>8, <2>2, <2>3, <2>6
  <2>7. CASE k = 2
    BY <1>6, <1>8, <2>2, <2>3, <2>7
  <2>8. QED BY <2>4, <2>5, <2>6, <2>7
<1>11. CASE Len(path) = 2
  <2>1. Path = {path[1].x, path[2].x} /\ 1 \in 1 .. Len(path) /\ 2 \in 1 .. Len(path)
    <3>1. 1 .. 2 = {1, 2}
      OBVIOUS
    <3>2. QED BY <1>11, <3>1
  <2>2. /\ Free = Variables \ {path[1].x, path[2].x} /\ m_level = k + 2
        /\ path[1].x \in Variables /\ path[2].x \in Variables /\ path[1].x # path[2].x
    BY <1>1, <1>2, <1>7, <1>11, <2>1
  <2>3. k = 0 => m_state[0] = path[1].x /\ m_state[1] = path[2].x
    <3>1. /\ k + 1 - 1 < 2 => m_state[k + 1 - 1] = path[1].x
          /\ k + 2 - 1 < 2 => m_state[k + 2 - 1] = path[2].x
      BY <1>7, <2>1
    <3>2. QED BY <3>1
  <2>4. k = 1 => m_state[1] = path[1].x
    <3>1. k + 1 - 1 < 2 => m_state[k + 1 - 1] = path[1].x
      BY <1>7, <2>1
    <3>2. QED BY <3>1
  <2>5. k = 0 \/ k = 1
    BY <1>1, <2>2
  <2>6. CASE k = 0
    BY <1>3, <1>4, <1>8, <2>2, <2>3, <2>6
  <2>7. CASE k = 1
    BY <1>3, <1>5, <1>8, <2>2, <2>4, <2>7
  <2>8. QED BY <2>5, <2>6, <2>7
<1>12. CASE Len(path) = 3
  <2>1. Path = {path[1].x, path[2].x, path[3].x} /\ 1 \in 1 .. Len(path) /\ 2 \in 1 .. Len(path) /\ 3 \in 1 .. Len(path)
    <3>1. 1 .. 3 = {1, 2, 3}
      OBVIOUS
    <3>2. QED BY <1>12, <3>1
  <2>2. path[1].x # path[2].x /\ path[1].x # path[3].x /\ path[2].x # path[3].x
    BY <1>7, <2>1
  <2>3. path[1].x \in Terms /\ path[2].x \in Terms /\ path[3].x \in Terms
    BY <1>1, <2>1
  <2>4. Free = {}
    BY <1>2, <1>3, <2>1, <2>2, <2>3
  <2>5. m_level = 3
    BY <1>1, <1>12
  <2>6. QED BY <2>4, <2>5
<1>13. QED BY <1>1, <1>9, <1>10, <1>11, <1>12

\* At the last levels two terms are bound.
LEMMA StateIs ==
  ASSUME StateTypes, Bindings
  PROVE  /\ m_level = 2 => m_state[0] \in Terms /\ m_state[1] \in Terms /\ m_state[0] # m_state[1]
         /\ m_level = 3 => m_state[0] \in Terms /\ m_state[1] \in Terms /\ m_state[0] # m_state[1]
<1>1. m_level = 2 => m_state[0] \in Terms /\ m_state[1] \in Terms /\ m_state[0] # m_state[1]
  BY FreeIs
<1>2. ASSUME m_level = 3 PROVE m_state[0] \in Terms /\ m_state[1] \in Terms /\ m_state[0] # m_state[1]
  <2> DEFINE k == Offset(pat)
  <2>1. /\ Len(path) \in Nat /\ k \in 0 .. 2 /\ m_level = k + Len(path)
        /\ \A d \in 1 .. Len(path) : path[d].x \in Terms
    BY PathIs
  <2>2. \A d \in 1 .. Len(path) :
          /\ path[d].x \in Variables
          /\ \A f \in 1 .. Len(path) : path[d].x = path[f].x => d = f
          /\ k + d - 1 < 2 => m_state[k + d - 1] = path[d].x
    BY DEF Bindings
  <2>3. k = 1 => m_state[0] \in {"s", "o"} /\ m_state[0] \notin Variables
    BY DEF Offset, Variables, Bindings
  <2>4. k = 2 => m_state[0] = "s" /\ m_state[1] = "o"
    BY DEF Offset, Bindings
  <2> HIDE DEF k
  <2>5. CASE k = 0
    <3>1. 1 \in 1 .. Len(path) /\ 2 \in 1 .. Len(path)
      BY <1>2, <2>1, <2>5
    <3>2. m_state[0 + 1 - 1] = path[1].x /\ m_state[0 + 2 - 1] = path[2].x /\ path[1].x # path[2].x
      BY <2>2, <2>5, <3>1
    <3>3. QED BY <2>1, <3>1, <3>2
  <2>6. CASE k = 1
    <3>1. 1 \in 1 .. Len(path)
      BY <1>2, <2>1, <2>6
    <3>2. m_state[1 + 1 - 1] = path[1].x /\ path[1].x \in Variables /\ path[1].x \in Terms
      BY <2>1, <2>2, <2>6, <3>1
    <3>3. QED BY <2>3, <2>6, <3>2 DEF Terms
  <2>7. CASE k = 2
    BY <2>4, <2>7 DEF Terms
  <2>8. QED BY <2>1, <2>5, <2>6, <2>7
<1>3. QED BY <1>1, <1>2

\* What the join has bound is what the levels hold.
LEMMA AgreeingIs ==
  ASSUME StateTypes, Bindings, m_level <= 2
  PROVE  /\ Agreeing = {Term(e) : e \in Current}
         /\ \A x \in Terms : {m[x] : m \in Agreeing} = CurrentVals(x)
<1> DEFINE k == Offset(pat)
           Held(e) == \A d \in 1 .. Len(path) : ValOf(edges, e, path[d].x) = path[d].v
<1>1. /\ DOMAIN path = 1 .. Len(path) /\ Len(path) \in Nat /\ k \in 0 .. 2
      /\ m_level = k + Len(path) /\ \A d \in 1 .. Len(path) : path[d].x \in Terms
  BY PathIs
<1>2. Agreeing = {Term(e) : e \in {f \in Matching : Held(f)}}
  <2>1. \A e \in Matching : e \in edges
    BY DEF Matching
  <2>2. \A e \in Matching : (\A d \in DOMAIN path : Term(e)[path[d].x] = path[d].v) <=> Held(e)
    BY <1>1, <2>1, TermIs
  <2>3. QED BY <2>2 DEF Agreeing, Matches
<1>3. pat.s \in Nat /\ pat.o \in Nat /\ Top = m_level
  BY RingHere, <1>1 DEF Top
<1>4. \A e \in edges : ValOf(edges, e, "s") = e.s /\ ValOf(edges, e, "o") = e.o
  BY DEF ValOf
<1>5. \A d \in 1 .. Len(path) :
        k + d - 1 < 2 => m_state[k + d - 1] = path[d].x /\ m_consts[k + d - 1] = path[d].v
  BY DEF Bindings
<1>6. k = 0 => pat.s = 0 /\ pat.o = 0
  BY DEF Offset
<1>7. k = 1 => \/ pat.s # 0 /\ pat.o = 0 /\ m_state[0] = "s" /\ m_consts[0] = pat.s
               \/ pat.s = 0 /\ pat.o # 0 /\ m_state[0] = "o" /\ m_consts[0] = pat.o
  BY DEF Offset, Bindings
<1>8. k = 2 => /\ pat.s # 0 /\ pat.o # 0 /\ m_state[0] = "s" /\ m_consts[0] = pat.s
               /\ m_state[1] = "o" /\ m_consts[1] = pat.o
  BY DEF Offset, Bindings
<1>9. ASSUME NEW e \in edges
      PROVE  e \in Matching /\ Held(e) <=> e \in Current
  <2> DEFINE V0 == ValOf(edges, e, m_state[0]) = m_consts[0]
             V1 == ValOf(edges, e, m_state[1]) = m_consts[1]
             L == Holds(pat.expr, e.p)
  <2>1. e \in Matching <=> pat.s \in {0, e.s} /\ pat.o \in {0, e.o} /\ L
    BY DEF Matching
  <2>2. e \in Current <=> L /\ (m_level >= 1 => V0) /\ (m_level >= 2 => V1)
    BY <1>3 DEF Current, Fits, Admitted
  <2> HIDE DEF L, k
  <2>3. CASE Len(path) = 0
    <3>1. Held(e)
      BY <2>3
    <3> HIDE DEF Held
    <3>2. k = 0 \/ k = 1 \/ k = 2
      BY <1>1
    <3>3. CASE k = 0
      BY <1>1, <1>6, <2>1, <2>2, <2>3, <3>1, <3>3
    <3>4. CASE k = 1
      BY <1>1, <1>4, <1>7, <2>1, <2>2, <2>3, <3>1, <3>4
    <3>5. CASE k = 2
      BY <1>1, <1>4, <1>8, <2>1, <2>2, <2>3, <3>1, <3>5
    <3>6. QED BY <3>2, <3>3, <3>4, <3>5
  <2>4. CASE Len(path) = 1
    <3>1. Held(e) <=> ValOf(edges, e, path[1].x) = path[1].v
      <4>1. \A d : d \in 1 .. Len(path) <=> d = 1
        BY <2>4
      <4>2. QED BY <4>1
    <3>2. k + 1 - 1 < 2 => m_state[k + 1 - 1] = path[1].x /\ m_consts[k + 1 - 1] = path[1].v
      <4>1. 1 \in 1 .. Len(path)
        BY <2>4
      <4>2. QED BY <1>5, <4>1
    <3> HIDE DEF Held
    <3>3. k = 0 \/ k = 1
      BY <1>1, <2>4
    <3>4. CASE k = 0
      BY <1>1, <1>6, <2>1, <2>2, <2>4, <3>1, <3>2, <3>4
    <3>5. CASE k = 1
      BY <1>1, <1>4, <1>7, <2>1, <2>2, <2>4, <3>1, <3>2, <3>5
    <3>6. QED BY <3>3, <3>4, <3>5
  <2>5. CASE Len(path) = 2
    <3>1. Held(e) <=> ValOf(edges, e, path[1].x) = path[1].v /\ ValOf(edges, e, path[2].x) = path[2].v
      <4>1. \A d : d \in 1 .. Len(path) <=> d = 1 \/ d = 2
        BY <2>5
      <4>2. QED BY <4>1
    <3>2. /\ k + 1 - 1 < 2 => m_state[k + 1 - 1] = path[1].x /\ m_consts[k + 1 - 1] = path[1].v
          /\ k + 2 - 1 < 2 => m_state[k + 2 - 1] = path[2].x /\ m_consts[k + 2 - 1] = path[2].v
      <4>1. 1 \in 1 .. Len(path) /\ 2 \in 1 .. Len(path)
        BY <2>5
      <4>2. QED BY <1>5, <4>1
    <3> HIDE DEF Held
    <3>3. k = 0
      BY <1>1, <2>5
    <3>4. QED BY <1>1, <1>6, <2>1, <2>2, <2>5, <3>1, <3>2, <3>3
  <2>6. Len(path) = 0 \/ Len(path) = 1 \/ Len(path) = 2
    BY <1>1
  <2>7. QED BY <2>3, <2>4, <2>5, <2>6
<1> HIDE DEF Held, k
<1>10. {f \in Matching : Held(f)} = Current
  <2>1. Matching \subseteq edges /\ Current \subseteq edges
    BY DEF Matching, Current, Fits, Admitted
  <2>2. QED BY <1>9, <2>1
<1>11. Agreeing = {Term(e) : e \in Current}
  BY <1>2, <1>10
<1>12. ASSUME NEW x \in Terms PROVE {m[x] : m \in Agreeing} = CurrentVals(x)
  <2>1. {m[x] : m \in Agreeing} = {Term(e)[x] : e \in Current}
    BY <1>11
  <2>2. Current \subseteq edges
    BY DEF Current, Fits, Admitted
  <2>3. QED BY <2>1, <2>2, TermIs DEF CurrentVals
<1>13. QED BY <1>11, <1>12

-----------------------------------------------------------------------------
(***************************************************************************)
(* The answers.                                                            *)
(***************************************************************************)
Subjects(A) == {e.s : e \in A}
Objects(A) == {e.o : e \in A}

\* The labels of the ranges are those of the edges admitted.
LEMMA LabelsAre ==
  ASSUME StateTypes, ExprRanges
  PROVE  /\ \A e \in edges : /\ e.p \in Covered(m_ranges_expr) <=> e \in Admitted(edges, pat)
                             /\ InList(m_ranges_expr, e.p) <=> e \in Admitted(edges, pat)
         /\ Admitted(edges, pat) \in SUBSET edges
<1>1. IsGraph(edges) /\ IsRing(R, edges) /\ R.maxP \in Nat
  BY RingHere
<1>2. m_ranges_expr \in Seq(Int \X Int)
  BY <1>1, RangesTyped DEF ExprRanges
<1>3. \A e \in edges : e.p \in 1 .. R.maxP /\ e.p \in Int
  BY <1>1, EdgeFacts
<1>4. \A e \in edges : e.p \in Covered(m_ranges_expr) <=> InList(m_ranges_expr, e.p)
  BY <1>2, <1>3, CoveredIs
<1>5. \A e \in edges : InList(m_ranges_expr, e.p) <=> e \in Admitted(edges, pat)
  BY <1>3 DEF ExprRanges, Admitted
<1> QED
  BY <1>4, <1>5 DEF Admitted

\* The values that the edges of the level give to a term, and the alphabets they are from.
LEMMA ValsAre ==
  ASSUME StateTypes
  PROVE  /\ Current \in SUBSET edges
         /\ CurrentVals("s") = Subjects(Current) /\ CurrentVals("o") = Objects(Current)
         /\ CurrentVals("p") = Ids(edges, Current)
         /\ \A x \in Terms : /\ CurrentVals(x) \in SUBSET (Nat \ {0})
                             /\ CurrentVals(x) \in SUBSET (1 .. IF x = "p" THEN R.n ELSE R.maxSO)
                             /\ CurrentVals(x) \in SUBSET (0 .. R.n + R.maxSO)
<1>1. Current \in SUBSET edges
  BY DEF Current, Fits, Admitted
<1>2. /\ CurrentVals("s") = Subjects(Current) /\ CurrentVals("o") = Objects(Current)
      /\ CurrentVals("p") = Ids(edges, Current)
  BY DEF CurrentVals, ValOf, Ids, Subjects, Objects
<1>3. R.n \in Nat /\ R.maxSO \in Nat
  BY RingHere
<1>4. \A e \in edges : e.s \in 1 .. R.maxSO /\ e.o \in 1 .. R.maxSO /\ Pos(edges)[e] \in 1 .. R.n
  BY RingHere, EdgeFacts
<1>5. ASSUME NEW x \in Terms, NEW v \in CurrentVals(x)
      PROVE  v \in 1 .. (IF x = "p" THEN R.n ELSE R.maxSO)
  <2>1. PICK e \in Current : v = ValOf(edges, e, x)
    BY DEF CurrentVals
  <2> QED
    BY <1>1, <1>4, <2>1 DEF ValOf, Terms
<1> QED
  BY <1>1, <1>2, <1>3, <1>5

\* The least of one value.
LEMMA OneValue ==
  ASSUME NEW v \in Nat \ {0}, NEW c, IsBound(c)
  PROVE  AtLeast(v, c) = LeastFrom({v}, c)
<1>1. {v} \in SUBSET (Nat \ {0}) /\ c \in Int
  BY DEF IsBound, NoBound
<1>2. CASE v >= c
  BY <1>1, <1>2, LeastFromIs DEF AtLeast
<1>3. CASE ~(v >= c)
  BY <1>1, <1>3, LeastFromNone DEF AtLeast
<1> QED
  BY <1>2, <1>3

\* leap over the columns s and o answers from the edges of the ranges.
LEMMA Searches ==
  ASSUME NEW E, IsGraph(E), NEW R0, IsRing(R0, E), NEW ranges, NEW A, NEW c, IsBound(c)
  PROVE  /\ Lists(ranges, A, E, Pos(E)) => NextValue(R0.s, Least1(c), Covered(ranges)) = LeastFrom(Subjects(A), c)
         /\ Lists(ranges, A, E, Spo(E)) => NextValue(R0.o, Least1(c), Covered(ranges)) = LeastFrom(Objects(A), c)
<1>1. IsFiniteSet(E) /\ \A e \in E : Subj(E)[e] = e.s /\ Obj(E)[e] = e.o
  BY EdgeFacts
<1>2. /\ IsColumn(R0.o, E, Spo(E), Obj(E), Subj(E), R0.maxSO)
      /\ IsColumn(R0.s, E, Pos(E), Subj(E), Pred(E), R0.maxP)
  BY DEF IsRing
<1>3. ASSUME Lists(ranges, A, E, Pos(E))
      PROVE  NextValue(R0.s, Least1(c), Covered(ranges)) = LeastFrom(Subjects(A), c)
  <2>1. NextValue(R0.s, Least1(c), Covered(ranges)) = LeastFrom({Subj(E)[e] : e \in A}, c)
    BY <1>1, <1>2, <1>3, NextValueAnswers
  <2>2. {Subj(E)[e] : e \in A} = {e.s : e \in A}
    BY <1>1, <1>3 DEF Lists
  <2> QED
    BY <2>1, <2>2 DEF Subjects
<1>4. ASSUME Lists(ranges, A, E, Spo(E))
      PROVE  NextValue(R0.o, Least1(c), Covered(ranges)) = LeastFrom(Objects(A), c)
  <2>1. NextValue(R0.o, Least1(c), Covered(ranges)) = LeastFrom({Obj(E)[e] : e \in A}, c)
    BY <1>1, <1>2, <1>4, NextValueAnswers
  <2>2. {Obj(E)[e] : e \in A} = {e.o : e \in A}
    BY <1>1, <1>4 DEF Lists
  <2> QED
    BY <2>1, <2>2 DEF Objects
<1> QED
  BY <1>3, <1>4

\* What fits the levels, for the ends of the edges.
LEMMA FitsAre ==
  ASSUME NEW E, NEW t, NEW st, NEW cs
  PROVE  /\ Fits(E, t, st, cs, 0) = Admitted(E, t)
         /\ st[0] = "s" => Fits(E, t, st, cs, 1) = OfSubject(Admitted(E, t), cs[0])
         /\ st[0] = "o" => Fits(E, t, st, cs, 1) = OfObject(Admitted(E, t), cs[0])
         /\ st[0] = "s" /\ st[1] = "o" =>
              Fits(E, t, st, cs, 2) = OfObject(OfSubject(Admitted(E, t), cs[0]), cs[1])
         /\ st[0] = "o" /\ st[1] = "s" =>
              Fits(E, t, st, cs, 2) = OfSubject(OfObject(Admitted(E, t), cs[0]), cs[1])
BY DEF Fits, OfSubject, OfObject, ValOf

\* What the ranges of each level hold.
LEMMA LevelHolds ==
  ASSUME StateTypes, Bindings, Ranges
  PROVE  /\ m_level = 0 => /\ Current = Admitted(edges, pat)
                           /\ Lists(m_ranges_level[0], Current, edges, Pos(edges))
         /\ m_level = 1 =>
              /\ m_state[0] = "s" =>
                   /\ Current = OfSubject(Admitted(edges, pat), m_consts[0])
                   /\ Lists(m_ranges_level[0], Admitted(edges, pat), edges, Pos(edges))
                   /\ Lists(m_ranges_level[1], Current, edges, Spo(edges))
              /\ m_state[0] = "o" => Lists(m_ranges_level[1], Current, edges, Pos(edges))
              /\ m_state[0] = "p" => \A e \in Current : Pos(edges)[e] = m_consts[0]
         /\ m_level >= 2 =>
              /\ \A e \in Current : /\ ValOf(edges, e, m_state[0]) = m_consts[0]
                                    /\ ValOf(edges, e, m_state[1]) = m_consts[1]
              /\ m_state[0] # "p" /\ m_state[1] # "p" =>
                   Lists(m_ranges_level[2], Current, edges, IF m_state[1] = "s" THEN Spo(edges) ELSE Osp(edges))
              /\ m_state[0] = "o" /\ m_state[1] = "s" =>
                   LET A == Fits(edges, pat, m_state, m_consts, 1) IN
                   /\ Current = OfSubject(A, m_consts[1])
                   /\ Lists(m_ranges_level[1], A, edges, Pos(edges))
<1> DEFINE F(d) == Fits(edges, pat, m_state, m_consts, d)
<1>1. m_level \in 0 .. 3
  BY PathIs
<1>2. /\ F(0) = Admitted(edges, pat)
      /\ m_state[0] = "s" => F(1) = OfSubject(Admitted(edges, pat), m_consts[0])
      /\ m_state[0] = "o" /\ m_state[1] = "s" => F(2) = OfSubject(F(1), m_consts[1])
      /\ \A e \in F(1) : ValOf(edges, e, m_state[0]) = m_consts[0]
      /\ \A e \in F(2) : ValOf(edges, e, m_state[0]) = m_consts[0] /\ ValOf(edges, e, m_state[1]) = m_consts[1]
  BY DEF Fits, OfSubject, ValOf
<1>3. Current = F(IF m_level < 2 THEN m_level ELSE 2)
  BY DEF Current, Top
<1> HIDE DEF F
<1>4. ASSUME m_level = 0
      PROVE  Current = Admitted(edges, pat) /\ Lists(m_ranges_level[0], Current, edges, Pos(edges))
  <2>1. pat.s = 0 /\ pat.o = 0
    BY <1>4, PathIs DEF Offset
  <2>2. Lists(m_ranges_level[0], F(0), edges, Pos(edges))
    BY <2>1 DEF Ranges, Ranges0, F
  <2> QED
    BY <1>2, <1>3, <1>4, <2>2
<1>5. ASSUME m_level = 1
      PROVE  /\ m_state[0] = "s" =>
                  /\ Current = OfSubject(Admitted(edges, pat), m_consts[0])
                  /\ Lists(m_ranges_level[0], Admitted(edges, pat), edges, Pos(edges))
                  /\ Lists(m_ranges_level[1], Current, edges, Spo(edges))
             /\ m_state[0] = "o" => Lists(m_ranges_level[1], Current, edges, Pos(edges))
             /\ m_state[0] = "p" => \A e \in Current : Pos(edges)[e] = m_consts[0]
  <2>1. Current = F(1)
    BY <1>3, <1>5
  <2>2. /\ m_state[0] = "s" => Lists(m_ranges_level[1], F(1), edges, Spo(edges))
        /\ m_state[0] = "o" => Lists(m_ranges_level[1], F(1), edges, Pos(edges))
    BY <1>5 DEF Ranges, Ranges1, F
  <2>3. m_state[0] = "s" => Lists(m_ranges_level[0], F(0), edges, Pos(edges))
    <3>1. pat.s = 0 /\ pat.o # 0 => m_state[0] = "o"
      BY DEF Bindings, Offset
    <3>2. m_state[0] = "s" => ~(pat.s = 0 /\ pat.o # 0)
      BY <3>1
    <3> QED
      BY <3>2 DEF Ranges, Ranges0, F
  <2>4. m_state[0] = "p" => \A e \in F(1) : Pos(edges)[e] = m_consts[0]
    BY <1>2 DEF ValOf
  <2> QED
    BY <1>2, <2>1, <2>2, <2>3, <2>4
<1>6. ASSUME m_level >= 2
      PROVE  /\ \A e \in Current : /\ ValOf(edges, e, m_state[0]) = m_consts[0]
                                   /\ ValOf(edges, e, m_state[1]) = m_consts[1]
             /\ m_state[0] # "p" /\ m_state[1] # "p" =>
                  Lists(m_ranges_level[2], Current, edges, IF m_state[1] = "s" THEN Spo(edges) ELSE Osp(edges))
             /\ m_state[0] = "o" /\ m_state[1] = "s" =>
                  Current = OfSubject(F(1), m_consts[1]) /\ Lists(m_ranges_level[1], F(1), edges, Pos(edges))
  <2>1. Current = F(2) /\ m_level >= 1
    BY <1>1, <1>3, <1>6
  <2>2. m_state[0] # "p" /\ m_state[1] # "p" =>
          Lists(m_ranges_level[2], F(2), edges, IF m_state[1] = "s" THEN Spo(edges) ELSE Osp(edges))
    BY <1>6 DEF Ranges, Ranges2, F
  <2>3. m_state[0] = "o" => Lists(m_ranges_level[1], F(1), edges, Pos(edges))
    BY <2>1 DEF Ranges, Ranges1, F
  <2> QED
    BY <1>2, <2>1, <2>2, <2>3
<1> QED
  BY <1>4, <1>5, <1>6 DEF F

\* Nothing is bound: a search for the subject, the label or the object.
LEMMA Answer0 ==
  ASSUME StateTypes, ExprRanges, Bindings, Ranges, m_level = 0,
         NEW x \in Terms, NEW c, IsBound(c), x = "o" => c <= R.maxSO + 1
  PROVE  Answer(x, c) = LeastFrom(CurrentVals(x), c)
<1>1. IsGraph(edges) /\ IsRing(R, edges)
  BY RingHere
<1>2. Current = Admitted(edges, pat) /\ Lists(m_ranges_level[0], Current, edges, Pos(edges))
  BY LevelHolds
<1>3. /\ CurrentVals("s") = Subjects(Current) /\ CurrentVals("o") = Objects(Current)
      /\ CurrentVals("p") = Ids(edges, Current) /\ Current \in SUBSET edges
  BY ValsAre
<1>4. CASE x = "s"
  <2>1. NextValue(R.s, Least1(c), Covered(m_ranges_level[0])) = LeastFrom(Subjects(Current), c)
    BY <1>1, <1>2, Searches
  <2>2. Answer("s", c) = NextValue(R.s, Least1(c), Covered(m_ranges_level[0]))
    BY DEF Answer, Positions
  <2> QED
    BY <1>3, <1>4, <2>1, <2>2
<1>5. CASE x = "p"
  <2>1. NextInRanges(m_ranges_level[0], c) = LeastFrom(Ids(edges, Current), c)
    BY <1>1, <1>2, NextInRangesAnswers
  <2>2. Answer("p", c) = NextInRanges(m_ranges_level[0], c)
    BY DEF Answer
  <2> QED
    BY <1>3, <1>5, <2>1, <2>2
<1>6. CASE x = "o"
  <2>1. \A e \in edges : e.p \in Covered(m_ranges_expr) <=> e \in Current
    BY <1>2, LabelsAre
  <2>2. NextOinP(c) = LeastFrom({e.o : e \in Current}, c)
    BY <1>1, <1>3, <1>6, <2>1, NextOinPAnswers
  <2>3. Answer("o", c) = NextOinP(c)
    BY DEF Answer
  <2> QED
    BY <1>3, <1>6, <2>2, <2>3 DEF Objects
<1> QED
  BY <1>4, <1>5, <1>6 DEF Terms

\* The ends of the one edge that is left, from its id.
LEMMA EndsAnswer ==
  ASSUME StateTypes, Current # {}, NEW i, \A e \in Current : Pos(edges)[e] = i,
         NEW x \in {"s", "o"}, NEW c, IsBound(c)
  PROVE  AtLeast(EndOf(x, i), c) = LeastFrom(CurrentVals(x), c)
<1>1. IsGraph(edges) /\ IsRing(R, edges) /\ Current \in SUBSET edges
  BY RingHere, ValsAre
<1>2. PICK e \in Current : TRUE
  OBVIOUS
<1>3. \A f \in Current : f = e
  BY <1>1, <1>2, EdgeFacts DEF IsNumbering
<1> DEFINE v == EndOf(x, i)
<1>4. v = ValOf(edges, e, x)
  BY <1>1, Ends DEF EndOf, ValOf
<1>5. CurrentVals(x) = {v}
  BY <1>3, <1>4 DEF CurrentVals
<1>6. v \in Nat \ {0}
  BY <1>5, ValsAre DEF Terms
<1> HIDE DEF v
<1>7. AtLeast(v, c) = LeastFrom({v}, c)
  BY <1>6, OneValue
<1> QED
  BY <1>5, <1>7 DEF v

\* Below the subject, the edge, or the object.
LEMMA Answer1 ==
  ASSUME StateTypes, Bindings, Ranges, Current # {}, m_level = 1,
         NEW x \in Free, NEW c, IsBound(c)
  PROVE  Answer(x, c) = LeastFrom(CurrentVals(x), c)
<1>1. IsGraph(edges) /\ IsRing(R, edges)
  BY RingHere
<1>2. m_state[0] \in Terms /\ x \in Terms /\ x # m_state[0]
  BY FreeIs
<1>3. /\ CurrentVals("s") = Subjects(Current) /\ CurrentVals("o") = Objects(Current)
      /\ CurrentVals("p") = Ids(edges, Current)
  BY ValsAre
<1>4. CASE m_state[0] = "s"
  <2>1. /\ Current = OfSubject(Admitted(edges, pat), m_consts[0])
        /\ Lists(m_ranges_level[0], Admitted(edges, pat), edges, Pos(edges))
        /\ Lists(m_ranges_level[1], Current, edges, Spo(edges))
    BY <1>4, LevelHolds
  <2>2. CASE x = "p"
    <3>1. NextEinSP(0, m_consts[0], c) = LeastFrom(Ids(edges, OfSubject(Admitted(edges, pat), m_consts[0])), c)
      BY <1>1, <2>1, NextEinSPAnswers
    <3>2. Answer("p", c) = NextEinSP(0, m_consts[0], c)
      BY <1>4 DEF Answer
    <3> QED
      BY <1>3, <2>1, <2>2, <3>1, <3>2
  <2>3. CASE x = "o"
    <3>1. NextValue(R.o, Least1(c), Covered(m_ranges_level[1])) = LeastFrom(Objects(Current), c)
      BY <1>1, <2>1, Searches
    <3>2. Answer("o", c) = NextValue(R.o, Least1(c), Covered(m_ranges_level[1]))
      BY <1>4 DEF Answer, Positions
    <3> QED
      BY <1>3, <2>3, <3>1, <3>2
  <2> QED
    BY <1>2, <1>4, <2>2, <2>3 DEF Terms
<1>5. CASE m_state[0] = "p"
  <2>1. \A e \in Current : Pos(edges)[e] = m_consts[0]
    BY <1>5, LevelHolds
  <2>2. x \in {"s", "o"}
    BY <1>2, <1>5 DEF Terms
  <2>3. AtLeast(EndOf(x, m_consts[0]), c) = LeastFrom(CurrentVals(x), c)
    BY <2>1, <2>2, EndsAnswer
  <2>4. Answer(x, c) = AtLeast(EndOf(x, m_consts[0]), c)
    BY <1>5 DEF Answer
  <2> QED
    BY <2>3, <2>4
<1>6. CASE m_state[0] = "o"
  <2>1. Lists(m_ranges_level[1], Current, edges, Pos(edges))
    BY <1>6, LevelHolds
  <2>2. CASE x = "s"
    <3>1. NextValue(R.s, Least1(c), Covered(m_ranges_level[1])) = LeastFrom(Subjects(Current), c)
      BY <1>1, <2>1, Searches
    <3>2. Answer("s", c) = NextValue(R.s, Least1(c), Covered(m_ranges_level[1]))
      BY <1>6 DEF Answer, Positions
    <3> QED
      BY <1>3, <2>2, <3>1, <3>2
  <2>3. CASE x = "p"
    <3>1. NextInRanges(m_ranges_level[1], c) = LeastFrom(Ids(edges, Current), c)
      BY <1>1, <2>1, NextInRangesAnswers
    <3>2. Answer("p", c) = NextInRanges(m_ranges_level[1], c)
      BY <1>6 DEF Answer
    <3> QED
      BY <1>3, <2>3, <3>1, <3>2
  <2> QED
    BY <1>2, <1>6, <2>2, <2>3 DEF Terms
<1> QED
  BY <1>2, <1>4, <1>5, <1>6 DEF Terms

\* The order of the ranges of the last level.
LastOrder == IF m_state[1] = "s" THEN Spo(edges) ELSE Osp(edges)

\* Once both ends are bound, the ranges of the last level rise with the ids.
LEMMA LastLevel ==
  ASSUME StateTypes, Bindings, Ranges, m_level >= 2, m_state[0] # "p", m_state[1] # "p"
  PROVE  /\ IsNumbering(edges, LastOrder)
         /\ Lists(m_ranges_level[2], Current, edges, LastOrder)
         /\ \A e \in Current : EdgeAt(LastOrder[e]) = Pos(edges)[e]
         /\ \A e, f \in Current : LastOrder[e] < LastOrder[f] <=> Pos(edges)[e] < Pos(edges)[f]
         /\ \/ m_state[0] = "s" /\ m_state[1] = "o"
            \/ m_state[0] = "o" /\ m_state[1] = "s"
<1> DEFINE E == edges
<1>1. IsGraph(E) /\ IsRing(R, E)
  BY RingHere
<1>2. /\ \A e \in Current : /\ ValOf(E, e, m_state[0]) = m_consts[0]
                            /\ ValOf(E, e, m_state[1]) = m_consts[1]
      /\ Lists(m_ranges_level[2], Current, E, LastOrder)
  BY LevelHolds DEF LastOrder
<1>3. \/ m_state[0] = "s" /\ m_state[1] = "o"
      \/ m_state[0] = "o" /\ m_state[1] = "s"
  <2>1. /\ m_level = 2 => m_state[0] \in Terms /\ m_state[1] \in Terms /\ m_state[0] # m_state[1]
        /\ m_level = 3 => m_state[0] \in Terms /\ m_state[1] \in Terms /\ m_state[0] # m_state[1]
    BY StateIs
  <2>2. m_level = 2 \/ m_level = 3
    BY PathIs
  <2> QED
    BY <2>1, <2>2 DEF Terms
<1> DEFINE s0 == IF m_state[0] = "s" THEN m_consts[0] ELSE m_consts[1]
           o0 == IF m_state[0] = "s" THEN m_consts[1] ELSE m_consts[0]
<1>4. \A e \in Current : e \in E /\ e.s = s0 /\ e.o = o0
  BY <1>2, <1>3, ValsAre DEF ValOf
<1>5. IsNumbering(E, LastOrder) /\ IsNumbering(E, Osp(E)) /\ IsNumbering(E, Spo(E))
  BY <1>1, EdgeFacts DEF LastOrder
<1>6. ASSUME NEW e \in Current PROVE EdgeAt(LastOrder[e]) = Pos(E)[e]
  <2>1. e \in E /\ e.o = o0
    BY <1>4
  <2>2. /\ OSPtoPOS(R, Osp(E)[e]) = Pos(E)[e]
        /\ SPOtoPOS(R, Spo(E)[e], e.o) = Pos(E)[e]
    BY <1>1, <2>1, Ends
  <2>3. CASE m_state[1] = "s"
    <3>1. m_consts[0] = e.o
      BY <1>3, <2>1, <2>3
    <3> QED
      BY <2>2, <2>3, <3>1 DEF EdgeAt, LastOrder
  <2>4. CASE m_state[1] = "o"
    BY <2>2, <2>4 DEF EdgeAt, LastOrder
  <2> QED
    BY <1>3, <2>3, <2>4
<1>7. ASSUME NEW e \in Current, NEW f \in Current
      PROVE  LastOrder[e] < LastOrder[f] <=> Pos(E)[e] < Pos(E)[f]
  <2>1. e \in E /\ f \in E /\ e.s = f.s /\ e.o = f.o
    BY <1>4
  <2>2. /\ Spo(E)[e] < Spo(E)[f] <=> Lex(e.s, f.s, e.p, f.p, e.o, f.o, e.k, f.k)
        /\ Osp(E)[e] < Osp(E)[f] <=> Lex(e.o, f.o, e.s, f.s, e.p, f.p, e.k, f.k)
        /\ Pos(E)[e] < Pos(E)[f] <=> Lex(e.p, f.p, e.o, f.o, e.s, f.s, e.k, f.k)
    BY <1>1, <2>1, EdgeOrders
  <2>3. e.s \in Nat /\ e.o \in Nat /\ e.p \in Nat /\ f.p \in Nat
    BY <1>1, <2>1 DEF IsGraph
  <2>4. CASE m_state[1] = "s"
    BY <2>1, <2>2, <2>3, <2>4 DEF Lex, LastOrder
  <2>5. CASE m_state[1] # "s"
    BY <2>1, <2>2, <2>3, <2>5 DEF Lex, LastOrder
  <2> QED
    BY <2>4, <2>5
<1> QED
  BY <1>2, <1>3, <1>5, <1>6, <1>7

\* The last term: an end of the edge bound, or the edge between two ends.
LEMMA Answer2 ==
  ASSUME StateTypes, Bindings, Ranges, Current # {}, m_level = 2,
         NEW x \in Free, NEW c, IsBound(c), x = "p" /\ m_state[1] = "o" => c = NoBound
  PROVE  Answer(x, c) = LeastFrom(CurrentVals(x), c)
<1>1. IsGraph(edges) /\ IsRing(R, edges)
  BY RingHere
<1>2. /\ m_state[0] \in Terms /\ m_state[1] \in Terms /\ m_state[0] # m_state[1]
      /\ x \in Terms /\ x # m_state[0] /\ x # m_state[1]
  BY FreeIs
<1>3. CurrentVals("p") = Ids(edges, Current)
  BY ValsAre
<1>4. CASE x # "p"
  <2>1. \A e \in Current : Pos(edges)[e] = EdgeBound
    BY <1>2, <1>4, LevelHolds DEF EdgeBound, ValOf, Terms
  <2>2. x \in {"s", "o"}
    BY <1>2, <1>4 DEF Terms
  <2>3. AtLeast(EndOf(x, EdgeBound), c) = LeastFrom(CurrentVals(x), c)
    BY <2>1, <2>2, EndsAnswer
  <2>4. Answer(x, c) = AtLeast(EndOf(x, EdgeBound), c)
    BY <1>4 DEF Answer
  <2> QED
    BY <2>3, <2>4
<1>5. CASE x = "p" /\ m_state[1] = "s"
  <2>1. m_state[0] = "o"
    BY <1>2, <1>5 DEF Terms
  <2> DEFINE A == Fits(edges, pat, m_state, m_consts, 1)
  <2>2. Current = OfSubject(A, m_consts[1]) /\ Lists(m_ranges_level[1], A, edges, Pos(edges))
    BY <1>5, <2>1, LevelHolds
  <2> HIDE DEF A
  <2>3. NextEinSP(1, m_consts[1], c) = LeastFrom(Ids(edges, OfSubject(A, m_consts[1])), c)
    BY <1>1, <2>2, NextEinSPAnswers
  <2>4. Answer("p", c) = NextEinSP(1, m_consts[1], c)
    BY <1>5 DEF Answer
  <2> QED
    BY <1>3, <1>5, <2>2, <2>3, <2>4
<1>6. CASE x = "p" /\ m_state[1] = "o"
  <2>1. Lists(m_ranges_level[2], Current, edges, Osp(edges))
    BY <1>2, <1>6, LastLevel DEF LastOrder
  <2>2. NextEinOS(m_ranges_level[2], NoBound) = LeastFrom(Ids(edges, Current), NoBound)
    BY <1>1, <2>1, NextEinOSAnswers
  <2>3. Answer("p", NoBound) = NextEinOS(m_ranges_level[2], NoBound)
    BY <1>6 DEF Answer
  <2> QED
    BY <1>3, <1>6, <2>2, <2>3
<1> QED
  BY <1>2, <1>4, <1>5, <1>6 DEF Terms

\* Asked with a bound for the edge of two ends, it answers a value of an edge from the bound on.
LEMMA AnswerMatches ==
  ASSUME StateTypes, Bindings, Ranges, NEW x \in Free, NEW c, IsBound(c), MaySkip(x, c),
         Answer(x, c) # 0
  PROVE  Answer(x, c) \in CurrentVals(x) /\ c <= Answer(x, c)
<1>1. m_level = 2 /\ x = "p" /\ m_state[1] = "o" /\ c \in Nat \ {0}
  BY DEF MaySkip, IsBound
<1>2. IsGraph(edges) /\ IsRing(R, edges)
  BY RingHere
<1>3. m_state[0] # "p"
  BY <1>1, FreeIs
<1>4. Lists(m_ranges_level[2], Current, edges, Osp(edges))
  BY <1>1, <1>3, LastLevel DEF LastOrder
<1>5. Answer(x, c) = NextEinOS(m_ranges_level[2], c)
  BY <1>1 DEF Answer
<1>6. CurrentVals(x) = Ids(edges, Current)
  BY <1>1, ValsAre
<1> QED
  BY <1>1, <1>2, <1>4, <1>5, <1>6, NextEinOSMatches

\* A leap answers the least value the edges that match what is bound still give.
LEMMA AnswerIs ==
  ASSUME StateTypes, ExprRanges, Bindings, Ranges, m_level >= 1 => Current # {},
         NEW x \in Free, NEW c, IsBound(c), x # "p" => c <= R.maxSO + 1,
         m_level = 2 /\ x = "p" /\ m_state[1] = "o" => c = NoBound
  PROVE  Answer(x, c) = LeastFrom(CurrentVals(x), c) /\ m_level \in 0 .. 2
<1>1. m_level \in 0 .. 3 /\ m_level # 3 /\ x \in Terms
  BY PathIs, FreeIs
<1>2. CASE m_level = 0
  BY <1>1, <1>2, Answer0
<1>3. CASE m_level = 1
  BY <1>3, Answer1
<1>4. CASE m_level = 2
  BY <1>4, Answer2
<1> QED
  BY <1>1, <1>2, <1>3, <1>4

-----------------------------------------------------------------------------
(***************************************************************************)
(* The constructor.                                                        *)
(***************************************************************************)
\* What the constructor leaves, when it binds l terms.
Opened(l, x0, v0, x1, v1, r0, r1, r2) ==
  LET ranges == [d \in 0 .. 2 |-> IF d = 0 THEN r0 ELSE IF d = 1 THEN r1 ELSE r2] IN
  [empty |-> l > 0 /\ ranges[l] = <<>>,
   level |-> l,
   state |-> [d \in 0 .. 1 |-> IF d = 0 THEN x0 ELSE x1],
   consts |-> [d \in 0 .. 2 |-> IF d = 0 THEN v0 ELSE IF d = 1 THEN v1 ELSE 0],
   ranges |-> ranges,
   length |-> LengthOf(ranges[l])]

\* The four ways to open.
LEMMA StartIs ==
  ASSUME NEW r, NEW t, NEW labels,
         NEW i0, i0 = Initial(r, labels), NEW i1, i1 = Lowered(r.s, r.o, i0, t.s),
         NEW i2, i2 = Lowered(r.o, r.p, i1, t.o), NEW o1, o1 = RangesOfObject(r, labels, t.o)
  PROVE  /\ t.s = 0 /\ t.o = 0 =>
              Start(r, t, labels) = Opened(0, "none", 0, "none", 0, i0, <<>>, <<>>)
         /\ t.s # 0 /\ t.o = 0 =>
              Start(r, t, labels) = Opened(1, "s", t.s, "none", 0, i0, i1, <<>>)
         /\ t.s = 0 /\ t.o # 0 =>
              Start(r, t, labels) = Opened(1, "o", t.o, "none", 0, <<>>, o1, <<>>)
         /\ t.s # 0 /\ t.o # 0 =>
              Start(r, t, labels) = Opened(2, "s", t.s, "o", t.o, i0, i1, i2)
<1> DEFINE cs == (IF t.s # 0 THEN <<"s">> ELSE <<>>) \o (IF t.o # 0 THEN <<"o">> ELSE <<>>)
           l == Len(cs)
           init == IF cs = <<"o">> THEN <<>> ELSE Initial(r, labels)
           first == IF t.s # 0 THEN Lowered(r.s, r.o, init, t.s)
                    ELSE IF t.o # 0 THEN RangesOfObject(r, labels, t.o) ELSE <<>>
           second == IF l = 2 THEN Lowered(r.o, r.p, first, t.o) ELSE <<>>
           ranges == <<init, first, second>>
           made == [empty |-> l > 0 /\ ranges[l + 1] = <<>>,
                    level |-> l,
                    state |-> [d \in 0 .. 1 |-> IF d < l THEN cs[d + 1] ELSE "none"],
                    consts |-> [d \in 0 .. 2 |-> IF d < l THEN t[cs[d + 1]] ELSE 0],
                    ranges |-> [d \in 0 .. 2 |-> ranges[d + 1]],
                    length |-> LengthOf(ranges[l + 1])]
<1>1. Start(r, t, labels) = made
  BY DEF Start
<1>2. /\ t.s = 0 /\ t.o = 0 => cs = <<>>
      /\ t.s # 0 /\ t.o = 0 => cs = <<"s">>
      /\ t.s = 0 /\ t.o # 0 => cs = <<"o">>
      /\ t.s # 0 /\ t.o # 0 => cs = <<"s", "o">>
  <2>1. /\ <<>> \o <<>> = <<>> /\ <<"s">> \o <<>> = <<"s">> /\ <<>> \o <<"o">> = <<"o">>
        /\ <<"s">> \o <<"o">> = <<"s", "o">>
    <3>1. <<>> \in Seq(Terms) /\ <<"s">> \in Seq(Terms) /\ <<"o">> \in Seq(Terms) /\ "o" \in Terms
      BY DEF Terms
    <3>2. <<>> \o <<>> = <<>>
      BY <3>1, ConcatEmptySeq
    <3>3. <<"s">> \o <<>> = <<"s">>
      BY <3>1, ConcatEmptySeq
    <3>4. <<>> \o <<"o">> = <<"o">>
      BY <3>1, ConcatEmptySeq
    <3>5. <<"s">> \o <<"o">> = <<"s", "o">>
      <4>1. <<"s">> \o <<"o">> = Append(<<"s">>, "o")
        BY <3>1, AppendIsConcat
      <4> DEFINE a == Append(<<"s">>, "o")
      <4>2. a \in Seq(Terms) /\ Len(a) = 2 /\ a[1] = "s" /\ a[2] = "o"
        BY <3>1, AppendProperties
      <4> HIDE DEF a
      <4>3. DOMAIN a = 1 .. 2 /\ a = [i \in DOMAIN a |-> a[i]]
        BY <4>2
      <4>4. a = [i \in 1 .. 2 |-> IF i = 1 THEN "s" ELSE "o"]
        BY <4>2, <4>3
      <4>5. <<"s", "o">> = [i \in 1 .. 2 |-> IF i = 1 THEN "s" ELSE "o"]
        OBVIOUS
      <4> QED
        BY <4>1, <4>4, <4>5 DEF a
    <3> QED
      BY <3>2, <3>3, <3>4, <3>5
  <2> QED
    BY <2>1
<1> HIDE DEF cs
<1>3. Len(<<>>) = 0 /\ Len(<<"s">>) = 1 /\ Len(<<"o">>) = 1 /\ Len(<<"s", "o">>) = 2
      /\ <<>> # <<"o">> /\ <<"s">> # <<"o">> /\ <<"s", "o">> # <<"o">>
  OBVIOUS
<1>4. \A d \in 0 .. 2 : d = 0 \/ d = 1 \/ d = 2
  OBVIOUS
<1>5. ranges[1] = init /\ ranges[2] = first /\ ranges[3] = second
  OBVIOUS
<1>6. [d \in 0 .. 2 |-> ranges[d + 1]] = [d \in 0 .. 2 |-> IF d = 0 THEN init ELSE IF d = 1 THEN first ELSE second]
  BY <1>4, <1>5
<1> DEFINE all == [d \in 0 .. 2 |-> IF d = 0 THEN init ELSE IF d = 1 THEN first ELSE second]
<1>7. all[0] = init /\ all[1] = first /\ all[2] = second
  OBVIOUS
<1>8. ASSUME t.s = 0, t.o = 0
      PROVE  Start(r, t, labels) = Opened(0, "none", 0, "none", 0, i0, <<>>, <<>>)
  <2>1. cs = <<>> /\ l = 0 /\ init = i0 /\ first = <<>> /\ second = <<>>
    BY <1>2, <1>3, <1>8
  <2>2. /\ [d \in 0 .. 1 |-> IF d < l THEN cs[d + 1] ELSE "none"] = [d \in 0 .. 1 |-> IF d = 0 THEN "none" ELSE "none"]
        /\ [d \in 0 .. 2 |-> IF d < l THEN t[cs[d + 1]] ELSE 0] = [d \in 0 .. 2 |-> IF d = 0 THEN 0 ELSE IF d = 1 THEN 0 ELSE 0]
    BY <2>1
  <2>3. ranges[l + 1] = all[l]
    BY <1>5, <1>7, <2>1
  <2> HIDE DEF init, first, second, ranges, l
  <2> QED
    BY <1>1, <1>6, <2>1, <2>2, <2>3 DEF Opened
<1>9. ASSUME t.s # 0, t.o = 0
      PROVE  Start(r, t, labels) = Opened(1, "s", t.s, "none", 0, i0, i1, <<>>)
  <2>1. cs = <<"s">> /\ l = 1 /\ init = i0 /\ first = i1 /\ second = <<>>
    <3>1. cs = <<"s">>
      BY <1>2, <1>9
    <3>2. l = 1 /\ cs # <<"o">>
      BY <1>3, <3>1
    <3> HIDE DEF l
    <3> QED
      BY <1>9, <3>1, <3>2
  <2>2. /\ [d \in 0 .. 1 |-> IF d < l THEN cs[d + 1] ELSE "none"] = [d \in 0 .. 1 |-> IF d = 0 THEN "s" ELSE "none"]
        /\ [d \in 0 .. 2 |-> IF d < l THEN t[cs[d + 1]] ELSE 0] = [d \in 0 .. 2 |-> IF d = 0 THEN t.s ELSE IF d = 1 THEN 0 ELSE 0]
    BY <1>4, <2>1
  <2>3. ranges[l + 1] = all[l]
    BY <1>5, <1>7, <2>1
  <2> HIDE DEF init, first, second, ranges, l
  <2> QED
    BY <1>1, <1>6, <2>1, <2>2, <2>3 DEF Opened
<1>10. ASSUME t.s = 0, t.o # 0
       PROVE  Start(r, t, labels) = Opened(1, "o", t.o, "none", 0, <<>>, o1, <<>>)
  <2>1. cs = <<"o">> /\ l = 1 /\ init = <<>> /\ first = o1 /\ second = <<>>
    <3>1. cs = <<"o">>
      BY <1>2, <1>10
    <3>2. l = 1
      BY <1>3, <3>1
    <3> HIDE DEF l
    <3> QED
      BY <1>10, <3>1, <3>2
  <2>2. /\ [d \in 0 .. 1 |-> IF d < l THEN cs[d + 1] ELSE "none"] = [d \in 0 .. 1 |-> IF d = 0 THEN "o" ELSE "none"]
        /\ [d \in 0 .. 2 |-> IF d < l THEN t[cs[d + 1]] ELSE 0] = [d \in 0 .. 2 |-> IF d = 0 THEN t.o ELSE IF d = 1 THEN 0 ELSE 0]
    BY <1>4, <2>1
  <2>3. ranges[l + 1] = all[l]
    BY <1>5, <1>7, <2>1
  <2> HIDE DEF init, first, second, ranges, l
  <2> QED
    BY <1>1, <1>6, <2>1, <2>2, <2>3 DEF Opened
<1>11. ASSUME t.s # 0, t.o # 0
       PROVE  Start(r, t, labels) = Opened(2, "s", t.s, "o", t.o, i0, i1, i2)
  <2>1. cs = <<"s", "o">> /\ l = 2 /\ init = i0 /\ first = i1 /\ second = i2
    BY <1>2, <1>3, <1>11
  <2>2. /\ [d \in 0 .. 1 |-> IF d < l THEN cs[d + 1] ELSE "none"] = [d \in 0 .. 1 |-> IF d = 0 THEN "s" ELSE "o"]
        /\ [d \in 0 .. 2 |-> IF d < l THEN t[cs[d + 1]] ELSE 0] = [d \in 0 .. 2 |-> IF d = 0 THEN t.s ELSE IF d = 1 THEN t.o ELSE 0]
    BY <1>4, <2>1
  <2>3. ranges[l + 1] = all[l]
    BY <1>5, <1>7, <2>1
  <2> HIDE DEF init, first, second, ranges, l
  <2> QED
    BY <1>1, <1>6, <2>1, <2>2, <2>3 DEF Opened
<1> QED
  BY <1>8, <1>9, <1>10, <1>11

\* A list is empty when it lists nothing.
LEMMA EmptyList ==
  ASSUME NEW E, IsFiniteSet(E), NEW pos, IsNumbering(E, pos), NEW ranges, NEW A, Lists(ranges, A, E, pos)
  PROVE  ranges = <<>> <=> A = {}
<1>1. Cardinality(E) \in Nat
  BY FS_CardinalityType
<1>2. ranges \in RangesOver(Cardinality(E)) /\ A \subseteq E /\ \A e \in E : e \in A <=> InList(ranges, pos[e])
  BY DEF Lists
<1>3. ranges \in Seq(Int \X Int) /\ Len(ranges) \in Nat /\ DOMAIN ranges = 1 .. Len(ranges)
  BY <1>1, <1>2, RangesTyped
<1>4. ASSUME ranges = <<>> PROVE A = {}
  <2>1. \A i : ~InList(ranges, i)
    BY <1>4 DEF InList
  <2> QED
    BY <1>2, <2>1
<1>5. ASSUME ranges # <<>> PROVE A # {}
  <2>1. 1 \in DOMAIN ranges
    BY <1>3, <1>5
  <2>2. ranges[1][1] \in 1 .. Cardinality(E) /\ ranges[1][2] \in 1 .. Cardinality(E) /\ ranges[1][1] <= ranges[1][2]
    BY <1>1, <1>2, <2>1, RangesTyped DEF Lists, IsList
  <2>3. PICK e \in E : pos[e] = ranges[1][1]
    BY <2>2 DEF IsNumbering
  <2>4. InList(ranges, pos[e])
    BY <1>1, <2>1, <2>2, <2>3 DEF InList
  <2> QED
    BY <1>2, <2>4
<1> QED
  BY <1>4, <1>5

Constants(t, state, consts) ==
  /\ Offset(t) = 2 => state[0] = "s" /\ consts[0] = t.s /\ state[1] = "o" /\ consts[1] = t.o
  /\ Offset(t) = 1 => IF t.s # 0 THEN state[0] = "s" /\ consts[0] = t.s
                      ELSE state[0] = "o" /\ consts[0] = t.o

\* What the constructor leaves is right for the pattern.
Typed(R0, st) ==
  /\ st.level \in 0 .. 2
  /\ st.state \in [0 .. 1 -> Terms \union {"none"}]
  /\ st.consts \in [0 .. 2 -> 0 .. R0.n + R0.maxSO]
  /\ st.ranges \in [0 .. 2 -> RangesOver(R0.n)]
  /\ \A d \in 0 .. 2 : Len(st.ranges[d]) <= R0.maxP

Listed(E, R0, t, st) ==
  /\ Typed(R0, st)
  /\ st.level = Offset(t) /\ Constants(t, st.state, st.consts)
  /\ Ranges0(E, t, st.state, st.consts, st.ranges)
  /\ st.level >= 1 => Ranges1(E, t, st.state, st.consts, st.ranges)
  /\ st.level >= 2 => Ranges2(E, t, st.state, st.consts, st.ranges)
  /\ \A d \in 0 .. 2 : d > st.level => st.ranges[d] = <<>>

\* What an iterator may open with, and its fields then.
Opens(R0, l, x0, v0, x1, v1, r0, r1, r2) ==
  /\ R0.n \in Nat /\ R0.maxSO \in Nat /\ l \in 0 .. 2
  /\ x0 \in Terms \union {"none"} /\ x1 \in Terms \union {"none"}
  /\ v0 \in 0 .. R0.n + R0.maxSO /\ v1 \in 0 .. R0.n + R0.maxSO
  /\ r0 \in RangesOver(R0.n) /\ r1 \in RangesOver(R0.n) /\ r2 \in RangesOver(R0.n)
  /\ Len(r0) <= R0.maxP /\ Len(r1) <= R0.maxP /\ Len(r2) <= R0.maxP

HasOpened(R0, st, l, x0, v0, x1, v1, r0, r1, r2) ==
  /\ Typed(R0, st) /\ st.level = l
  /\ st.state[0] = x0 /\ st.state[1] = x1 /\ st.consts[0] = v0 /\ st.consts[1] = v1
  /\ st.ranges[0] = r0 /\ st.ranges[1] = r1 /\ st.ranges[2] = r2
  /\ st.empty = (l > 0 /\ st.ranges[l] = <<>>)
  /\ st.length = LengthOf(st.ranges[l])

\* The fields of an iterator that opens.
LEMMA OpenedIs ==
  ASSUME NEW R0, NEW l, NEW x0, NEW v0, NEW x1, NEW v1, NEW r0, NEW r1, NEW r2,
         Opens(R0, l, x0, v0, x1, v1, r0, r1, r2)
  PROVE  HasOpened(R0, Opened(l, x0, v0, x1, v1, r0, r1, r2), l, x0, v0, x1, v1, r0, r1, r2)
<1> USE DEF Opens
<1> DEFINE st == Opened(l, x0, v0, x1, v1, r0, r1, r2)
           ranges == [d \in 0 .. 2 |-> IF d = 0 THEN r0 ELSE IF d = 1 THEN r1 ELSE r2]
<1>1. /\ st.level = l /\ st.state = [d \in 0 .. 1 |-> IF d = 0 THEN x0 ELSE x1]
      /\ st.consts = [d \in 0 .. 2 |-> IF d = 0 THEN v0 ELSE IF d = 1 THEN v1 ELSE 0]
      /\ st.ranges = ranges /\ st.length = LengthOf(ranges[l])
  BY DEF Opened
<1>2. st.empty = (l > 0 /\ ranges[l] = <<>>)
  BY Zenon DEF Opened
<1>3. ranges \in [0 .. 2 -> RangesOver(R0.n)] /\ \A d \in 0 .. 2 : Len(ranges[d]) <= R0.maxP
  OBVIOUS
<1>4. ranges[0] = r0 /\ ranges[1] = r1 /\ ranges[2] = r2
  OBVIOUS
<1> HIDE DEF ranges, st
<1>5. /\ st.state \in [0 .. 1 -> Terms \union {"none"}] /\ st.state[0] = x0 /\ st.state[1] = x1
      /\ st.consts \in [0 .. 2 -> 0 .. R0.n + R0.maxSO] /\ st.consts[0] = v0 /\ st.consts[1] = v1
  BY <1>1
<1>6. Typed(R0, st)
  BY <1>1, <1>3, <1>5 DEF Typed
<1>7. st.empty = (l > 0 /\ st.ranges[l] = <<>>)
  BY <1>1, <1>2, Zenon
<1>8. /\ st.state[0] = x0 /\ st.state[1] = x1 /\ st.consts[0] = v0 /\ st.consts[1] = v1
      /\ st.ranges[0] = r0 /\ st.ranges[1] = r1 /\ st.ranges[2] = r2
      /\ st.length = LengthOf(st.ranges[l])
  BY <1>1, <1>4, <1>5
<1>9. HasOpened(R0, st, l, x0, v0, x1, v1, r0, r1, r2)
  BY <1>1, <1>6, <1>7, <1>8, Zenon DEF HasOpened
<1> QED
  BY <1>9 DEF st

\* Steps from column to column take the lists of a subject, and of an object.
LEMMA StepsList ==
  ASSUME NEW E, IsGraph(E), NEW R0, IsRing(R0, E), NEW ranges, NEW A, NEW v \in 1 .. R0.maxSO
  PROVE  /\ Lists(ranges, A, E, Pos(E)) =>
              /\ Lists(Lowered(R0.s, R0.o, ranges, v), OfSubject(A, v), E, Spo(E))
              /\ Len(Lowered(R0.s, R0.o, ranges, v)) <= Len(ranges)
         /\ Lists(ranges, A, E, Spo(E)) =>
              /\ Lists(Lowered(R0.o, R0.p, ranges, v), OfObject(A, v), E, Osp(E))
              /\ Len(Lowered(R0.o, R0.p, ranges, v)) <= Len(ranges)
<1>1. /\ IsFiniteSet(E)
      /\ \A e \in E : Subj(E)[e] = e.s /\ Obj(E)[e] = e.o
  BY EdgeFacts
<1>2. /\ IsColumn(R0.o, E, Spo(E), Obj(E), Subj(E), R0.maxSO)
      /\ IsColumn(R0.p, E, Osp(E), Pred(E), Obj(E), R0.maxSO)
      /\ IsColumn(R0.s, E, Pos(E), Subj(E), Pred(E), R0.maxP)
      /\ Turns(R0.s, R0.o, E, Pos(E), Spo(E), Subj(E))
      /\ Turns(R0.o, R0.p, E, Spo(E), Osp(E), Obj(E))
  BY DEF IsRing
<1>3. ASSUME Lists(ranges, A, E, Pos(E))
      PROVE  /\ Lists(Lowered(R0.s, R0.o, ranges, v), OfSubject(A, v), E, Spo(E))
             /\ Len(Lowered(R0.s, R0.o, ranges, v)) <= Len(ranges)
  <2>1. /\ Lists(Lowered(R0.s, R0.o, ranges, v), {e \in A : Subj(E)[e] = v}, E, Spo(E))
        /\ Len(Lowered(R0.s, R0.o, ranges, v)) <= Len(ranges)
    BY <1>1, <1>2, <1>3, LoweredLists
  <2>2. {e \in A : Subj(E)[e] = v} = OfSubject(A, v)
    BY <1>1, <1>3 DEF OfSubject, Lists
  <2> QED
    BY <2>1, <2>2
<1>4. ASSUME Lists(ranges, A, E, Spo(E))
      PROVE  /\ Lists(Lowered(R0.o, R0.p, ranges, v), OfObject(A, v), E, Osp(E))
             /\ Len(Lowered(R0.o, R0.p, ranges, v)) <= Len(ranges)
  <2>1. /\ Lists(Lowered(R0.o, R0.p, ranges, v), {e \in A : Obj(E)[e] = v}, E, Osp(E))
        /\ Len(Lowered(R0.o, R0.p, ranges, v)) <= Len(ranges)
    BY <1>1, <1>2, <1>4, LoweredLists
  <2>2. {e \in A : Obj(E)[e] = v} = OfObject(A, v)
    BY <1>1, <1>4 DEF OfObject, Lists
  <2> QED
    BY <2>1, <2>2
<1> QED
  BY <1>3, <1>4

\* The constructor lists, at each level, the edges that fit.
LEMMA StartLists ==
  ASSUME NEW E, IsGraph(E), NEW R0, IsRing(R0, E),
         \A label \in 1 .. R0.maxP : \E e \in E : e.p = label,
         NEW labels \in RangesOver(R0.maxP), IsList(labels),
         NEW t, t.s \in 0 .. R0.maxSO, t.o \in 0 .. R0.maxSO,
         \A e \in E : e \in Admitted(E, t) <=> InList(labels, e.p),
         NEW st, st = Start(R0, t, labels)
  PROVE  /\ Listed(E, R0, t, st)
         /\ st.empty = (st.level > 0 /\ st.ranges[st.level] = <<>>)
         /\ st.length = LengthOf(st.ranges[st.level])
<1> DEFINE A == Admitted(E, t)
           i0 == Initial(R0, labels)
           i1 == Lowered(R0.s, R0.o, i0, t.s)
           i2 == Lowered(R0.o, R0.p, i1, t.o)
           o1 == RangesOfObject(R0, labels, t.o)
           n == R0.n
<1>1. /\ IsFiniteSet(E) /\ Cardinality(E) = n /\ n \in Nat /\ R0.maxSO \in Nat /\ R0.maxP \in Nat
  BY EdgeFacts DEF IsRing
<1>2. A = {e \in E : InList(labels, e.p)}
  BY DEF Admitted
<1>3. /\ t.s = 0 /\ t.o = 0 => st = Opened(0, "none", 0, "none", 0, i0, <<>>, <<>>)
      /\ t.s # 0 /\ t.o = 0 => st = Opened(1, "s", t.s, "none", 0, i0, i1, <<>>)
      /\ t.s = 0 /\ t.o # 0 => st = Opened(1, "o", t.o, "none", 0, <<>>, o1, <<>>)
      /\ t.s # 0 /\ t.o # 0 => st = Opened(2, "s", t.s, "o", t.o, i0, i1, i2)
  BY StartIs
<1>4. Lists(i0, A, E, Pos(E)) /\ Len(i0) <= R0.maxP
  <2>1. Lists(i0, {e \in E : InList(labels, e.p)}, E, Pos(E)) /\ Len(i0) = Len(labels)
    BY InitialLists
  <2>2. Len(labels) <= R0.maxP
    BY <1>1, FewRanges
  <2> QED
    BY <1>2, <2>1, <2>2
<1>5. <<>> \in RangesOver(n) /\ Len(<<>>) = 0 /\ 0 <= R0.maxP
  BY <1>1 DEF RangesOver
<1> HIDE DEF A, i0
<1>6. t.s # 0 => Lists(i1, OfSubject(A, t.s), E, Spo(E)) /\ Len(i1) <= R0.maxP
  <2> SUFFICES ASSUME t.s # 0 PROVE Lists(i1, OfSubject(A, t.s), E, Spo(E)) /\ Len(i1) <= R0.maxP
    OBVIOUS
  <2>1. t.s \in 1 .. R0.maxSO
    BY <1>1
  <2>2. Lists(i1, OfSubject(A, t.s), E, Spo(E)) /\ Len(i1) <= Len(i0)
    BY <1>4, <2>1, StepsList
  <2>3. Len(i0) \in Nat /\ Len(i1) \in Nat
    BY <1>1, <1>4, <2>2, RangesTyped DEF Lists
  <2> HIDE DEF i1
  <2> QED
    BY <1>1, <1>4, <2>2, <2>3
<1> HIDE DEF i1
<1>7. t.s # 0 /\ t.o # 0 => Lists(i2, OfObject(OfSubject(A, t.s), t.o), E, Osp(E)) /\ Len(i2) <= R0.maxP
  <2> SUFFICES ASSUME t.s # 0, t.o # 0
               PROVE  Lists(i2, OfObject(OfSubject(A, t.s), t.o), E, Osp(E)) /\ Len(i2) <= R0.maxP
    OBVIOUS
  <2>1. t.o \in 1 .. R0.maxSO
    BY <1>1
  <2>2. Lists(i2, OfObject(OfSubject(A, t.s), t.o), E, Osp(E)) /\ Len(i2) <= Len(i1)
    BY <1>6, <2>1, StepsList
  <2>3. Len(i1) \in Nat /\ Len(i2) \in Nat
    BY <1>1, <1>6, <2>2, RangesTyped DEF Lists
  <2> HIDE DEF i2
  <2> QED
    BY <1>1, <1>6, <2>2, <2>3
<1>8. t.o # 0 => Lists(o1, OfObject(A, t.o), E, Pos(E)) /\ Len(o1) <= R0.maxP
  <2> SUFFICES ASSUME t.o # 0 PROVE Lists(o1, OfObject(A, t.o), E, Pos(E)) /\ Len(o1) <= R0.maxP
    OBVIOUS
  <2>1. t.o \in 1 .. R0.maxSO
    BY <1>1
  <2>2. /\ Lists(o1, {e \in E : InList(labels, e.p) /\ e.o = t.o}, E, Pos(E))
        /\ Len(o1) <= R0.maxP
    BY <2>1, ObjectLists
  <2>3. {e \in E : InList(labels, e.p) /\ e.o = t.o} = OfObject(A, t.o)
    BY <1>2 DEF OfObject
  <2> QED
    BY <2>2, <2>3
<1> HIDE DEF i2, o1
<1>9. /\ i0 \in RangesOver(n)
      /\ t.s # 0 => i1 \in RangesOver(n)
      /\ t.s # 0 /\ t.o # 0 => i2 \in RangesOver(n)
      /\ t.o # 0 => o1 \in RangesOver(n)
  BY <1>1, <1>4, <1>6, <1>7, <1>8 DEF Lists
<1>10. /\ "s" \in Terms \union {"none"} /\ "o" \in Terms \union {"none"} /\ "none" \in Terms \union {"none"}
       /\ 0 \in 0 .. n + R0.maxSO /\ t.s \in 0 .. n + R0.maxSO /\ t.o \in 0 .. n + R0.maxSO
  BY <1>1 DEF Terms
<1>11. \A d \in 0 .. 2 : d = 0 \/ d = 1 \/ d = 2
  OBVIOUS
<1>12. CASE t.s = 0 /\ t.o = 0
  <2>1. /\ Typed(R0, st) /\ st.level = 0
        /\ st.ranges[0] = i0 /\ st.ranges[1] = <<>> /\ st.ranges[2] = <<>>
        /\ st.empty = (0 > 0 /\ st.ranges[0] = <<>>) /\ st.length = LengthOf(st.ranges[0])
    <3>1. st = Opened(0, "none", 0, "none", 0, i0, <<>>, <<>>)
      BY <1>3, <1>12
    <3>2. Opens(R0, 0, "none", 0, "none", 0, i0, <<>>, <<>>)
      BY <1>1, <1>4, <1>5, <1>9, <1>10 DEF Opens
    <3>3. HasOpened(R0, st, 0, "none", 0, "none", 0, i0, <<>>, <<>>)
      BY <3>1, <3>2, OpenedIs
    <3> QED
      BY <3>3, Zenon DEF HasOpened
  <2>2. Fits(E, t, st.state, st.consts, 0) = A
    BY FitsAre DEF A
  <2>3. Ranges0(E, t, st.state, st.consts, st.ranges)
    BY <1>4, <2>1, <2>2 DEF Ranges0
  <2>4. Offset(t) = 0 /\ Constants(t, st.state, st.consts)
    BY <1>12 DEF Offset, Constants
  <2>5. Listed(E, R0, t, st)
    BY <1>11, <2>1, <2>3, <2>4 DEF Listed
  <2> QED
    BY <2>1, <2>5, Zenon
<1>13. CASE t.s # 0 /\ t.o = 0
  <2>1. /\ Typed(R0, st) /\ st.level = 1 /\ st.state[0] = "s" /\ st.consts[0] = t.s
        /\ st.ranges[0] = i0 /\ st.ranges[1] = i1 /\ st.ranges[2] = <<>>
        /\ st.empty = (1 > 0 /\ st.ranges[1] = <<>>) /\ st.length = LengthOf(st.ranges[1])
    <3>1. st = Opened(1, "s", t.s, "none", 0, i0, i1, <<>>)
      BY <1>3, <1>13
    <3>2. i1 \in RangesOver(n) /\ Len(i1) <= R0.maxP
      BY <1>6, <1>9, <1>13
    <3>3. Opens(R0, 1, "s", t.s, "none", 0, i0, i1, <<>>)
      BY <1>1, <1>4, <1>5, <1>9, <1>10, <3>2 DEF Opens
    <3>4. HasOpened(R0, st, 1, "s", t.s, "none", 0, i0, i1, <<>>)
      BY <3>1, <3>3, OpenedIs
    <3> QED
      BY <3>4, Zenon DEF HasOpened
  <2>2. /\ Fits(E, t, st.state, st.consts, 0) = A
        /\ Fits(E, t, st.state, st.consts, 1) = OfSubject(A, t.s)
    BY <2>1, FitsAre DEF A
  <2>3. Ranges0(E, t, st.state, st.consts, st.ranges)
    BY <1>4, <2>1, <2>2 DEF Ranges0
  <2>4. Ranges1(E, t, st.state, st.consts, st.ranges)
    BY <1>6, <1>13, <2>1, <2>2 DEF Ranges1
  <2>5. Offset(t) = 1 /\ Constants(t, st.state, st.consts)
    BY <1>13, <2>1 DEF Offset, Constants
  <2>6. Listed(E, R0, t, st)
    BY <1>11, <2>1, <2>3, <2>4, <2>5 DEF Listed
  <2> QED
    BY <2>1, <2>6, Zenon
<1>14. CASE t.s = 0 /\ t.o # 0
  <2>1. /\ Typed(R0, st) /\ st.level = 1 /\ st.state[0] = "o" /\ st.consts[0] = t.o
        /\ st.ranges[1] = o1 /\ st.ranges[2] = <<>>
        /\ st.empty = (1 > 0 /\ st.ranges[1] = <<>>) /\ st.length = LengthOf(st.ranges[1])
    <3>1. st = Opened(1, "o", t.o, "none", 0, <<>>, o1, <<>>)
      BY <1>3, <1>14
    <3>2. o1 \in RangesOver(n) /\ Len(o1) <= R0.maxP
      BY <1>8, <1>9, <1>14
    <3>3. Opens(R0, 1, "o", t.o, "none", 0, <<>>, o1, <<>>)
      BY <1>1, <1>4, <1>5, <1>9, <1>10, <3>2 DEF Opens
    <3>4. HasOpened(R0, st, 1, "o", t.o, "none", 0, <<>>, o1, <<>>)
      BY <3>1, <3>3, OpenedIs
    <3> QED
      BY <3>4, Zenon DEF HasOpened
  <2>2. Fits(E, t, st.state, st.consts, 1) = OfObject(A, t.o)
    BY <2>1, FitsAre DEF A
  <2>3. Ranges0(E, t, st.state, st.consts, st.ranges)
    BY <1>14 DEF Ranges0
  <2>4. Ranges1(E, t, st.state, st.consts, st.ranges)
    BY <1>8, <1>14, <2>1, <2>2 DEF Ranges1
  <2>5. Offset(t) = 1 /\ Constants(t, st.state, st.consts)
    BY <1>14, <2>1 DEF Offset, Constants
  <2>6. Listed(E, R0, t, st)
    BY <1>11, <2>1, <2>3, <2>4, <2>5 DEF Listed
  <2> QED
    BY <2>1, <2>6, Zenon
<1>15. CASE t.s # 0 /\ t.o # 0
  <2>1. /\ Typed(R0, st) /\ st.level = 2
        /\ st.state[0] = "s" /\ st.consts[0] = t.s /\ st.state[1] = "o" /\ st.consts[1] = t.o
        /\ st.ranges[0] = i0 /\ st.ranges[1] = i1 /\ st.ranges[2] = i2
        /\ st.empty = (2 > 0 /\ st.ranges[2] = <<>>) /\ st.length = LengthOf(st.ranges[2])
    <3>1. st = Opened(2, "s", t.s, "o", t.o, i0, i1, i2)
      BY <1>3, <1>15
    <3>2. /\ i1 \in RangesOver(n) /\ Len(i1) <= R0.maxP
          /\ i2 \in RangesOver(n) /\ Len(i2) <= R0.maxP
      BY <1>6, <1>7, <1>9, <1>15
    <3>3. Opens(R0, 2, "s", t.s, "o", t.o, i0, i1, i2)
      BY <1>1, <1>4, <1>5, <1>9, <1>10, <3>2 DEF Opens
    <3>4. HasOpened(R0, st, 2, "s", t.s, "o", t.o, i0, i1, i2)
      BY <3>1, <3>3, OpenedIs
    <3> QED
      BY <3>4, Zenon DEF HasOpened
  <2>2. /\ Fits(E, t, st.state, st.consts, 0) = A
        /\ Fits(E, t, st.state, st.consts, 1) = OfSubject(A, t.s)
        /\ Fits(E, t, st.state, st.consts, 2) = OfObject(OfSubject(A, t.s), t.o)
    BY <2>1, FitsAre DEF A
  <2>3. Ranges0(E, t, st.state, st.consts, st.ranges)
    BY <1>4, <2>1, <2>2 DEF Ranges0
  <2>4. Ranges1(E, t, st.state, st.consts, st.ranges)
    BY <1>6, <1>15, <2>1, <2>2 DEF Ranges1
  <2>5. Ranges2(E, t, st.state, st.consts, st.ranges)
    BY <1>7, <1>15, <2>1, <2>2 DEF Ranges2
  <2>6. Offset(t) = 2 /\ Constants(t, st.state, st.consts)
    BY <1>15, <2>1 DEF Offset, Constants
  <2>7. Listed(E, R0, t, st)
    BY <1>11, <2>1, <2>3, <2>4, <2>5, <2>6 DEF Listed
  <2> QED
    BY <2>1, <2>7, Zenon
<1> QED
  BY <1>12, <1>13, <1>14, <1>15

\* What matches the pattern is what fits its constants.
LEMMA MatchingFits ==
  ASSUME pat.s \in Nat, pat.o \in Nat, Constants(pat, m_state, m_consts), m_level = Offset(pat)
  PROVE  Matching = Current
<1>1. Top = m_level /\ m_level \in 0 .. 2
  BY DEF Top, Offset
<1>2. CASE pat.s = 0 /\ pat.o = 0
  BY <1>1, <1>2 DEF Offset, Matching, Current, Fits, Admitted
<1>3. CASE pat.s # 0 /\ pat.o = 0
  BY <1>1, <1>3 DEF Offset, Constants, Matching, Current, Fits, Admitted, ValOf
<1>4. CASE pat.s = 0 /\ pat.o # 0
  BY <1>1, <1>4 DEF Offset, Constants, Matching, Current, Fits, Admitted, ValOf
<1>5. CASE pat.s # 0 /\ pat.o # 0
  BY <1>1, <1>5 DEF Offset, Constants, Matching, Current, Fits, Admitted, ValOf
<1> QED
  BY <1>2, <1>3, <1>4, <1>5

\* The constructor establishes the invariant, given its ranges of labels.
LEMMA InitInv == ExprRanges /\ Init => IInv
<1> SUFFICES ASSUME ExprRanges, Init PROVE IInv
  OBVIOUS
<1> DEFINE st == Start(R, pat, m_ranges_expr)
<1>1. /\ edges \in Graphs /\ R = Build(edges) /\ pat \in Patterns /\ pat.s <= R.maxSO /\ pat.o <= R.maxSO
      /\ m_is_empty = st.empty /\ m_level = st.level /\ m_state = st.state
      /\ m_consts = st.consts /\ m_ranges_level = st.ranges
      /\ \E z \in Strays : m_length_level = [d \in 0 .. 2 |-> IF d = st.level THEN st.length ELSE z]
      /\ m_range_i_last = 1 /\ m_triple_j = 0
      /\ path = <<>> /\ mode = "idle" /\ ret = [x |-> "none", c |-> 0, v |-> 0]
  BY DEF Init
<1> HIDE DEF st
<1>2. /\ IsGraph(edges) /\ IsRing(R, edges)
      /\ R.n \in Nat /\ R.maxSO \in Nat /\ R.maxP \in Nat /\ R.maxP # 0
      /\ pat.s \in Nat /\ pat.o \in Nat /\ pat.expr \in Exprs
      /\ \A label \in 1 .. R.maxP : \E e \in edges : e.p = label
  BY <1>1, RingAt
<1>3. /\ Listed(edges, R, pat, st)
      /\ st.empty = (st.level > 0 /\ st.ranges[st.level] = <<>>)
      /\ st.length = LengthOf(st.ranges[st.level])
  <2>1. \A e \in edges : e \in Admitted(edges, pat) <=> InList(m_ranges_expr, e.p)
    <3>1. \A e \in edges : e.p \in 1 .. R.maxP
      BY <1>2, EdgeFacts
    <3> QED
      BY <3>1 DEF ExprRanges, Admitted
  <2>2. m_ranges_expr \in RangesOver(R.maxP) /\ IsList(m_ranges_expr)
    BY DEF ExprRanges
  <2>3. pat.s \in 0 .. R.maxSO /\ pat.o \in 0 .. R.maxSO
    BY <1>1, <1>2
  <2> QED
    BY <1>2, <2>1, <2>2, <2>3, StartLists DEF st
<1>4. /\ m_level \in 0 .. 2 /\ m_level = Offset(pat) /\ Constants(pat, m_state, m_consts)
      /\ m_state \in [0 .. 1 -> Terms \union {"none"}]
      /\ m_consts \in [0 .. 2 -> 0 .. R.n + R.maxSO]
      /\ m_ranges_level \in [0 .. 2 -> RangesOver(R.n)]
      /\ \A d \in 0 .. 2 : Len(m_ranges_level[d]) <= R.maxP
      /\ Ranges
  BY <1>1, <1>3 DEF Listed, Typed, Ranges
<1>5. m_is_empty = (m_level > 0 /\ m_ranges_level[m_level] = <<>>)
  BY <1>1, <1>3, Zenon
<1>6. DOMAIN m_length_level = 0 .. 2 /\ m_length_level[m_level] = LengthOf(m_ranges_level[m_level])
  BY <1>1, <1>3, <1>4
<1>7. path \in Seq([x : Terms, v : Nat]) /\ Len(path) = 0
  BY <1>1
<1>8. StateTypes
  <2>1. ret \in [x : Terms \union {"none"}, c : Int, v : 0 .. R.n + R.maxSO]
    BY <1>1, <1>2
  <2>2. m_is_empty \in BOOLEAN
    BY <1>5, Zenon
  <2>3. m_triple_j \in Int /\ mode \in {"idle", "leap", "scan", "under", "left", "back"}
        /\ m_level \in 0 .. 3 /\ m_range_i_last \in 1 .. R.maxP
    BY <1>1, <1>2, <1>4
  <2> QED
    BY <1>1, <1>4, <1>6, <1>7, <2>1, <2>2, <2>3 DEF StateTypes
<1>9. Bindings
  BY <1>4, <1>7 DEF Bindings, Constants
<1>10. Top = m_level
  BY <1>4 DEF Top
<1>11. Matching = Current
  BY <1>2, <1>4, MatchingFits
<1>12. m_level >= 1 => (m_ranges_level[m_level] = <<>> <=> Current = {})
  <2>1. \A pos \in {Pos(edges), Spo(edges), Osp(edges)} :
          Lists(m_ranges_level[m_level], Current, edges, pos) =>
            (m_ranges_level[m_level] = <<>> <=> Current = {})
    <3>1. /\ IsFiniteSet(edges) /\ IsNumbering(edges, Pos(edges)) /\ IsNumbering(edges, Spo(edges))
          /\ IsNumbering(edges, Osp(edges))
      BY <1>2, EdgeFacts
    <3>2. \A pos \in {Pos(edges), Spo(edges), Osp(edges)} : IsNumbering(edges, pos)
      BY <3>1
    <3> QED
      BY <3>1, <3>2, EmptyList
  <2> SUFFICES ASSUME m_level >= 1 PROVE \E pos \in {Pos(edges), Spo(edges), Osp(edges)} :
                                           Lists(m_ranges_level[m_level], Current, edges, pos)
    BY <2>1
  <2>2. CASE m_level = 1
    <3>1. m_state[0] = "s" \/ m_state[0] = "o"
      BY <1>4, <2>2 DEF Constants
    <3> QED
      BY <1>8, <1>9, <1>4, <2>2, <3>1, LevelHolds
  <2>3. CASE m_level = 2
    <3>1. m_state[0] = "s" /\ m_state[1] = "o"
      BY <1>4, <2>3 DEF Constants
    <3> QED
      BY <1>8, <1>9, <1>4, <2>3, <3>1, LevelHolds
  <2> QED
    BY <1>4, <2>2, <2>3
<1>13. pat.s # 0 \/ pat.o # 0 => (m_is_empty <=> Matching = {})
  <2> SUFFICES ASSUME pat.s # 0 \/ pat.o # 0 PROVE m_is_empty <=> Matching = {}
    OBVIOUS
  <2>1. m_level >= 1 /\ m_level > 0
    BY <1>4 DEF Offset
  <2> QED
    BY <1>5, <1>11, <1>12, <2>1, Zenon
<1>14. ~m_is_empty => (m_level >= 1 => Current # {})
  <2> SUFFICES ASSUME ~m_is_empty, m_level >= 1 PROVE Current # {}
    OBVIOUS
  <2>1. m_level > 0
    BY <1>4
  <2>2. m_ranges_level[m_level] # <<>>
    BY <1>5, <2>1, Zenon
  <2> QED
    BY <1>12, <2>2
<1>15. Lengths
  <2> SUFFICES ASSUME NEW d \in 0 .. 2, Offset(pat) <= d, d <= m_level
               PROVE  m_length_level[d] = LengthOf(m_ranges_level[d])
    BY DEF Lengths
  <2>1. d = m_level
    BY <1>4
  <2> QED
    BY <1>6, <2>1
<1>16. Protocol
  BY <1>1 DEF Protocol
<1> QED
  BY <1>1, <1>4, <1>8, <1>9, <1>13, <1>14, <1>15, <1>16 DEF IInv

-----------------------------------------------------------------------------
(***************************************************************************)
(* The steps.                                                              *)
(***************************************************************************)
\* What a step that binds nothing leaves.
LEMMA Frame ==
  ASSUME UNCHANGED <<index, trie, path>>
  PROVE  /\ Bindings => Bindings'
         /\ Ranges => Ranges'
         /\ ExprRanges => ExprRanges'
         /\ Free' = Free /\ Current' = Current /\ Matching' = Matching
         /\ \A x : CurrentVals(x)' = CurrentVals(x)
         /\ \A j : EdgeAt(j)' = EdgeAt(j)
<1>1. /\ edges' = edges /\ R' = R /\ pat' = pat /\ m_is_empty' = m_is_empty
      /\ m_ranges_expr' = m_ranges_expr /\ m_ranges_level' = m_ranges_level
      /\ m_level' = m_level /\ m_state' = m_state /\ m_consts' = m_consts /\ path' = path
  BY DEF index, trie
<1>2. Variables' = Variables
  BY <1>1 DEF Variables
<1>3. Bindings => Bindings'
  BY <1>1, <1>2 DEF Bindings
<1>4. Ranges => Ranges'
  BY <1>1 DEF Ranges
<1>5. ExprRanges => ExprRanges'
  BY <1>1 DEF ExprRanges
<1>6. Free' = Free
  BY <1>1, <1>2 DEF Free
<1>7. Current' = Current
  BY <1>1 DEF Current, Top
<1>8. \A x : CurrentVals(x)' = CurrentVals(x)
  BY <1>1, <1>7 DEF CurrentVals
<1>9. \A j : EdgeAt(j)' = EdgeAt(j)
  BY <1>1 DEF EdgeAt
<1>10. Matching' = Matching
  BY <1>1 DEF Matching
<1> QED
  BY <1>3, <1>4, <1>5, <1>6, <1>7, <1>8, <1>9, <1>10

\* An answer is an id, or 0.
LEMMA AnswerTyped ==
  ASSUME StateTypes, NEW x \in Terms, NEW c \in Int, NEW v, v = LeastFrom(CurrentVals(x), c)
  PROVE  v \in 0 .. R.n + R.maxSO /\ (v # 0 => v \in CurrentVals(x))
<1>1. CurrentVals(x) \in SUBSET (Nat \ {0}) /\ CurrentVals(x) \in SUBSET (0 .. R.n + R.maxSO)
  BY ValsAre
<1>2. R.n \in Nat /\ R.maxSO \in Nat
  BY RingHere
<1>3. v # 0 => v \in CurrentVals(x)
  BY <1>1, LeastFromCorrect
<1> QED
  BY <1>1, <1>2, <1>3

\* A value of an edge is an id.
LEMMA ValTyped ==
  ASSUME StateTypes, NEW x \in Terms, NEW v, v # 0 => v \in CurrentVals(x)
  PROVE  v \in 0 .. R.n + R.maxSO
<1>1. CurrentVals(x) \in SUBSET (0 .. R.n + R.maxSO)
  BY ValsAre
<1>2. R.n \in Nat /\ R.maxSO \in Nat
  BY RingHere
<1> QED
  BY <1>1, <1>2

\* leap keeps the invariant.
LEMMA LeapKeeps ==
  ASSUME IInv, NEW x \in Terms, NEW c \in Asked(x), Leap(x, c)
  PROVE  IInv'
<1>1. /\ ~m_is_empty /\ MayAsk(x, c)
      /\ ret' = [x |-> x, c |-> c, v |-> Answer(x, c)]
      /\ mode' = "leap"
      /\ UNCHANGED <<index, trie, scan, path>>
  BY DEF Leap, MayAsk
<1>2. /\ StateTypes /\ ExprRanges /\ Bindings /\ Ranges /\ Lengths /\ Protocol
      /\ m_level >= 1 => Current # {}
      /\ pat.s # 0 \/ pat.o # 0 => (m_is_empty <=> Matching = {})
  BY <1>1 DEF IInv
<1>3. x \in Free
  BY <1>1, <1>2 DEF MayAsk, Protocol
<1>4. IsBound(c) /\ c \in Int /\ (x # "p" => c <= R.maxSO + 1)
  <2>1. R.n \in Nat /\ R.maxSO \in Nat
    BY <1>2, RingHere
  <2> QED
    BY <2>1 DEF Asked, IsBound, NoBound
<1>5. MaySkip(x, c) => EdgeBounds # FALSE
  BY <1>1 DEF MayAsk, MaySkip
<1>6. IF MaySkip(x, c)
      THEN Answer(x, c) # 0 => Answer(x, c) \in CurrentVals(x) /\ c <= Answer(x, c)
      ELSE Answer(x, c) = LeastFrom(CurrentVals(x), c)
  <2>1. CASE MaySkip(x, c)
    BY <1>2, <1>3, <1>4, <2>1, AnswerMatches
  <2>2. CASE ~MaySkip(x, c)
    <3>1. m_level = 2 /\ x = "p" /\ m_state[1] = "o" => c = NoBound
      BY <2>2 DEF MaySkip
    <3> QED
      BY <1>2, <1>3, <1>4, <2>2, <3>1, AnswerIs
  <2> QED
    BY <2>1, <2>2
<1> DEFINE v == Answer(x, c)
<1>7. ret'.x = x /\ ret'.c = c /\ ret'.v = v /\ ret' = [x |-> x, c |-> c, v |-> v]
  BY <1>1
<1>8. IF MaySkip(x, c) THEN v # 0 => v \in CurrentVals(x) /\ c <= v
      ELSE v = LeastFrom(CurrentVals(x), c)
  BY <1>6
<1> HIDE DEF v
<1>9. /\ Bindings' /\ Ranges' /\ ExprRanges' /\ Free' = Free /\ Current' = Current /\ Matching' = Matching
      /\ \A y : CurrentVals(y)' = CurrentVals(y)
  <2>1. UNCHANGED <<index, trie, path>>
    BY <1>1
  <2> QED
    BY <1>2, <2>1, Frame
<1>10. /\ edges' = edges /\ R' = R /\ pat' = pat /\ m_is_empty' = m_is_empty
       /\ m_level' = m_level /\ m_state' = m_state /\ m_consts' = m_consts /\ path' = path
       /\ m_ranges_level' = m_ranges_level /\ m_length_level' = m_length_level
       /\ m_range_i_last' = m_range_i_last /\ m_triple_j' = m_triple_j
  BY <1>1 DEF index, trie, scan
<1>11. StateTypes'
  <2>1. v \in 0 .. R.n + R.maxSO
    BY <1>2, <1>3, <1>4, <1>8, AnswerTyped, ValTyped
  <2>2. ret' \in [x : Terms \union {"none"}, c : Int, v : 0 .. R.n + R.maxSO]
    BY <1>4, <1>7, <2>1
  <2> QED
    BY <1>1, <1>2, <1>10, <2>2 DEF StateTypes
<1>12. Lengths'
  BY <1>1, <1>2, <1>10 DEF Lengths
<1>13. Protocol'
  <2>1. ret'.x \in Free' /\ (MaySkip(x, c) <=> MaySkip(ret.x, ret.c)')
    BY <1>3, <1>7, <1>9, <1>10 DEF MaySkip
  <2>2. CurrentVals(ret.x)' = CurrentVals(x)
    <3>1. CurrentVals(ret.x)' = CurrentVals(x)'
      BY <1>7 DEF CurrentVals
    <3> QED
      BY <1>9, <3>1
  <2>3. IF MaySkip(ret.x, ret.c)'
        THEN EdgeBounds # FALSE /\ (ret'.v # 0 => ret'.v \in CurrentVals(ret.x)' /\ ret'.c <= ret'.v)
        ELSE ret'.v = LeastFrom(CurrentVals(ret.x)', ret'.c)
    <3>1. ret'.v = v /\ ret'.c = c
      BY <1>7
    <3>2. CASE MaySkip(x, c)
      <4>1. v # 0 => v \in CurrentVals(x) /\ c <= v
        BY <1>8, <3>2
      <4> QED
        BY <1>5, <2>1, <2>2, <3>1, <3>2, <4>1
    <3>3. CASE ~MaySkip(x, c)
      <4>1. v = LeastFrom(CurrentVals(x), c)
        BY <1>8, <3>3
      <4> QED
        BY <2>1, <2>2, <3>1, <3>3, <4>1
    <3> QED
      BY <3>2, <3>3
  <2> QED
    BY <1>1, <2>1, <2>3 DEF Protocol
<1>14. (m_level >= 1 => Current # {})'
  BY <1>2, <1>9, <1>10
<1> QED
  BY <1>1, <1>2, <1>9, <1>10, <1>11, <1>12, <1>13, <1>14 DEF IInv

\* Once the edge is bound one edge is left, and an end of it is one value.
LEMMA OneEnd ==
  ASSUME StateTypes, Bindings, Ranges, Current # {}, m_level = 2, NEW x \in Free, x # "p"
  PROVE  /\ CurrentVals(x) = {EndOf(x, EdgeBound)} /\ EndOf(x, EdgeBound) \in Nat \ {0}
<1>1. IsGraph(edges) /\ IsRing(R, edges)
  BY RingHere
<1>2. /\ m_state[0] \in Terms /\ m_state[1] \in Terms /\ m_state[0] # m_state[1]
      /\ x \in Terms /\ x # m_state[0] /\ x # m_state[1]
  BY FreeIs
<1>3. Current \in SUBSET edges
  BY ValsAre
<1>4. IsNumbering(edges, Pos(edges))
  BY <1>1, EdgeFacts
<1>5. \A e \in Current : Pos(edges)[e] = EdgeBound
  <2>1. \A e \in Current : /\ ValOf(edges, e, m_state[0]) = m_consts[0]
                           /\ ValOf(edges, e, m_state[1]) = m_consts[1]
    BY LevelHolds
  <2> QED
    BY <1>2, <2>1 DEF EdgeBound, ValOf, Terms
<1>6. PICK e \in Current : TRUE
  OBVIOUS
<1>7. \A f \in Current : f = e
  BY <1>3, <1>4, <1>5, <1>6 DEF IsNumbering
<1>8. EndOf(x, EdgeBound) = ValOf(edges, e, x)
  <2>1. e \in edges /\ EdgeBound = Pos(edges)[e]
    BY <1>3, <1>5
  <2>2. GetS(R, Pos(edges)[e]) = e.s /\ GetO(R, Pos(edges)[e]) = e.o
    BY <1>1, <2>1, Ends
  <2>3. x = "s" \/ x = "o"
    BY <1>2 DEF Terms
  <2> QED
    BY <2>1, <2>2, <2>3 DEF EndOf, ValOf
<1>9. CurrentVals(x) = {EndOf(x, EdgeBound)}
  BY <1>6, <1>7, <1>8 DEF CurrentVals
<1>10. CurrentVals(x) \in SUBSET (Nat \ {0})
  BY <1>2, ValsAre
<1> QED
  BY <1>9, <1>10

\* A scan over one value visits it and ends.
LEMMA OneLast ==
  ASSUME NEW v \in Nat \ {0}
  PROVE  LeastFrom({v}, NoBound) = v /\ LeastFrom({v}, v + 1) = 0
<1>1. {v} \in SUBSET (Nat \ {0}) /\ NoBound \in Int /\ v + 1 \in Int /\ NoBound <= v
  BY DEF NoBound
<1> QED
  BY <1>1, LeastFromIs, LeastFromNone

\* The ranges of the last level, and the edges at their places.
LEMMA LastRanges ==
  ASSUME StateTypes, Bindings, Ranges, m_level = 2, "p" \in Free
  PROVE  LET ranges == m_ranges_level[2]
         IN  /\ DOMAIN ranges = 1 .. Len(ranges) /\ Len(ranges) \in Nat /\ Len(ranges) <= R.maxP
             /\ \A k \in DOMAIN ranges : /\ ranges[k][1] \in 1 .. R.n /\ ranges[k][2] \in 1 .. R.n
                                         /\ ranges[k][1] <= ranges[k][2]
             /\ \A k \in DOMAIN ranges : \A j \in ranges[k][1] .. ranges[k][2] :
                  \E e \in Current : LastOrder[e] = j /\ EdgeAt(j) = Pos(edges)[e]
             /\ Current # {} => 1 \in DOMAIN ranges
<1> DEFINE ranges == m_ranges_level[2]
<1>1. IsGraph(edges) /\ IsRing(R, edges) /\ R.n \in Nat
  BY RingHere
<1>2. m_state[0] # "p" /\ m_state[1] # "p"
  BY FreeIs
<1>3. /\ IsNumbering(edges, LastOrder) /\ Lists(ranges, Current, edges, LastOrder)
      /\ \A e \in Current : EdgeAt(LastOrder[e]) = Pos(edges)[e]
  BY <1>2, LastLevel
<1>4. IsFiniteSet(edges) /\ Cardinality(edges) = R.n
  BY <1>1, EdgeFacts
<1>5. ranges \in RangesOver(R.n) /\ Len(ranges) <= R.maxP
  BY DEF StateTypes
<1>6. IsList(ranges) /\ \A e \in edges : e \in Current <=> InList(ranges, LastOrder[e])
  BY <1>3 DEF Lists
<1>7. ranges = <<>> <=> Current = {}
  BY <1>3, <1>4, EmptyList
<1> HIDE DEF ranges
<1>8. /\ DOMAIN ranges = 1 .. Len(ranges) /\ Len(ranges) \in Nat /\ ranges \in Seq(Int \X Int)
      /\ \A k \in DOMAIN ranges : ranges[k][1] \in 1 .. R.n /\ ranges[k][2] \in 1 .. R.n
  BY <1>1, <1>5, RangesTyped
<1>9. \A k \in DOMAIN ranges : ranges[k][1] <= ranges[k][2]
  BY <1>6 DEF IsList
<1>10. ASSUME NEW k \in DOMAIN ranges, NEW j \in ranges[k][1] .. ranges[k][2]
       PROVE  \E e \in Current : LastOrder[e] = j /\ EdgeAt(j) = Pos(edges)[e]
  <2>1. j \in 1 .. R.n /\ ranges[k][1] <= j /\ j <= ranges[k][2]
    BY <1>1, <1>8
  <2>2. PICK e \in edges : LastOrder[e] = j
    BY <1>3, <1>4, <2>1 DEF IsNumbering
  <2>3. InList(ranges, j)
    BY <2>1 DEF InList
  <2>4. e \in Current
    BY <1>6, <2>2, <2>3
  <2> QED
    BY <1>3, <2>2, <2>4
<1>11. Current # {} => 1 \in DOMAIN ranges
  BY <1>7, <1>8
<1> QED
  BY <1>5, <1>8, <1>9, <1>10, <1>11 DEF ranges

\* The scan of the edges starts at the least.
LEMMA ScanStart ==
  ASSUME StateTypes, Bindings, Ranges, Current # {}, m_level = 2, "p" \in Free
  PROVE  EdgeAt(m_ranges_level[2][1][1]) = LeastFrom(CurrentVals("p"), NoBound)
<1> DEFINE ranges == m_ranges_level[2]
           j == ranges[1][1]
<1>1. IsGraph(edges) /\ IsRing(R, edges)
  BY RingHere
<1>2. m_state[0] # "p" /\ m_state[1] # "p"
  BY FreeIs
<1>3. /\ IsNumbering(edges, LastOrder) /\ Lists(ranges, Current, edges, LastOrder)
      /\ \A e, f \in Current : LastOrder[e] < LastOrder[f] <=> Pos(edges)[e] < Pos(edges)[f]
  BY <1>2, LastLevel
<1>4. 1 \in DOMAIN ranges /\ ranges[1][1] \in Int /\ ranges[1][2] \in Int /\ ranges[1][1] <= ranges[1][2]
  BY LastRanges
<1>5. PICK e \in Current : LastOrder[e] = j /\ EdgeAt(j) = Pos(edges)[e]
  <2>1. j \in ranges[1][1] .. ranges[1][2]
    BY <1>4
  <2> QED
    BY <1>4, <2>1, LastRanges
<1>6. CurrentVals("p") = Ids(edges, Current)
  BY ValsAre
<1>7. LeastFrom(Ids(edges, Current), NoBound) = Pos(edges)[e]
  <2>1. ranges[1][1] <= LastOrder[e] /\ LastOrder[e] <= ranges[1][2] /\ LastOrder[e] = ranges[1][1]
    BY <1>4, <1>5
  <2> HIDE DEF ranges
  <2> QED
    BY <1>1, <1>3, <1>4, <2>1, NextInList
<1> QED
  BY <1>5, <1>6, <1>7

\* It goes on with the least edge after the last one.
LEMMA ScanNext ==
  ASSUME StateTypes, Bindings, Ranges, m_level = 2, "p" \in Free, NEW v, ScanAt(v)
  PROVE  LET ranges == m_ranges_level[2]  w == NextTriple
         IN  /\ w.k \in DOMAIN ranges /\ w.j \in Int
             /\ w.some => /\ ranges[w.k][1] <= w.j /\ w.j <= ranges[w.k][2]
                          /\ LeastFrom(CurrentVals("p"), v + 1) = EdgeAt(w.j)
             /\ ~w.some => LeastFrom(CurrentVals("p"), v + 1) = 0
<1> DEFINE ranges == m_ranges_level[2]
           k == m_range_i_last
           j == m_triple_j
           w == NextTriple
           vals == CurrentVals("p")
<1>1. IsGraph(edges) /\ IsRing(R, edges) /\ R.n \in Nat
  BY RingHere
<1>2. m_state[0] # "p" /\ m_state[1] # "p"
  BY FreeIs
<1>3. /\ IsNumbering(edges, LastOrder) /\ Lists(ranges, Current, edges, LastOrder)
      /\ \A e, f \in Current : LastOrder[e] < LastOrder[f] <=> Pos(edges)[e] < Pos(edges)[f]
      /\ \A e \in Current : EdgeAt(LastOrder[e]) = Pos(edges)[e]
  BY <1>2, LastLevel
<1>4. /\ DOMAIN ranges = 1 .. Len(ranges) /\ Len(ranges) \in Nat
      /\ \A l \in DOMAIN ranges : /\ ranges[l][1] \in 1 .. R.n /\ ranges[l][2] \in 1 .. R.n
                                  /\ ranges[l][1] <= ranges[l][2]
  BY LastRanges
<1>5. k \in DOMAIN ranges /\ ranges[k][1] <= j /\ j <= ranges[k][2] /\ EdgeAt(j) = v /\ j \in Int
  BY DEF ScanAt, StateTypes
<1>6. PICK e \in Current : LastOrder[e] = j /\ v = Pos(edges)[e]
  <2>1. j \in ranges[k][1] .. ranges[k][2]
    BY <1>4, <1>5
  <2> QED
    BY <1>5, <2>1, LastRanges
<1>7. vals = Ids(edges, Current) /\ Current \in SUBSET edges
  BY ValsAre
<1>8. \A i \in 1 .. R.n : \E f \in edges : LastOrder[f] = i
  <2>1. Cardinality(edges) = R.n
    BY <1>1, EdgeFacts
  <2> QED
    BY <1>3, <2>1 DEF IsNumbering
<1>9. w = IF j < ranges[k][2] THEN [k |-> k, j |-> j + 1, some |-> TRUE]
          ELSE IF k = Len(ranges) THEN [k |-> k, j |-> j + 1, some |-> FALSE]
          ELSE [k |-> k + 1, j |-> ranges[k + 1][1], some |-> TRUE]
  BY DEF NextTriple
<1> HIDE DEF ranges, k, j, w, vals
<1>10. /\ LastOrder[e] < ranges[k][2] =>
            \A f \in edges : LastOrder[f] = LastOrder[e] + 1 =>
              f \in Current /\ LeastFrom(Ids(edges, Current), Pos(edges)[e] + 1) = Pos(edges)[f]
       /\ LastOrder[e] = ranges[k][2] /\ k + 1 \in DOMAIN ranges =>
            \A f \in edges : LastOrder[f] = ranges[k + 1][1] =>
              f \in Current /\ LeastFrom(Ids(edges, Current), Pos(edges)[e] + 1) = Pos(edges)[f]
       /\ LastOrder[e] = ranges[k][2] /\ k = Len(ranges) =>
            LeastFrom(Ids(edges, Current), Pos(edges)[e] + 1) = 0
  <2>1. ranges[k][1] <= LastOrder[e] /\ LastOrder[e] <= ranges[k][2]
    BY <1>5, <1>6
  <2> QED
    BY <1>1, <1>3, <1>5, <2>1, NextInList
<1>11. CASE j < ranges[k][2]
  <2>1. j + 1 \in 1 .. R.n /\ ranges[k][1] <= j + 1 /\ j + 1 <= ranges[k][2]
    BY <1>1, <1>4, <1>5, <1>11
  <2>2. PICK f \in edges : LastOrder[f] = j + 1
    BY <1>8, <2>1
  <2>3. f \in Current /\ LeastFrom(vals, v + 1) = Pos(edges)[f]
    BY <1>6, <1>7, <1>10, <1>11, <2>2
  <2>4. EdgeAt(j + 1) = Pos(edges)[f]
    BY <1>3, <2>2, <2>3
  <2>5. w.k = k /\ w.j = j + 1 /\ w.some
    BY <1>9, <1>11
  <2> QED
    BY <1>5, <2>1, <2>3, <2>4, <2>5 DEF ranges, w, vals
<1>12. CASE j = ranges[k][2] /\ k = Len(ranges)
  <2>1. LeastFrom(vals, v + 1) = 0
    BY <1>6, <1>7, <1>10, <1>12
  <2>2. w.k = k /\ w.j = j + 1 /\ ~w.some
    BY <1>5, <1>9, <1>12
  <2> QED
    BY <1>5, <2>1, <2>2 DEF ranges, w, vals
<1>13. CASE j = ranges[k][2] /\ k # Len(ranges)
  <2>1. k + 1 \in DOMAIN ranges
    BY <1>4, <1>5, <1>13
  <2>2. ranges[k + 1][1] \in 1 .. R.n /\ ranges[k + 1][1] <= ranges[k + 1][2] /\ ranges[k + 1][1] \in Int
    BY <1>4, <2>1
  <2>3. PICK f \in edges : LastOrder[f] = ranges[k + 1][1]
    BY <1>8, <2>2
  <2>4. f \in Current /\ LeastFrom(vals, v + 1) = Pos(edges)[f]
    BY <1>6, <1>7, <1>10, <1>13, <2>1, <2>3
  <2>5. EdgeAt(ranges[k + 1][1]) = Pos(edges)[f]
    BY <1>3, <2>3, <2>4
  <2>6. w.k = k + 1 /\ w.j = ranges[k + 1][1] /\ w.some
    BY <1>5, <1>9, <1>13
  <2> QED
    BY <2>1, <2>2, <2>4, <2>5, <2>6 DEF ranges, w, vals
<1> QED
  BY <1>4, <1>5, <1>11, <1>12, <1>13

\* seek_last keeps the invariant.
LEMMA SeekLastKeeps ==
  ASSUME IInv, NEW x \in Terms, SeekLast(x)
  PROVE  IInv'
<1> DEFINE first == m_ranges_level[2][1][1]
<1>1. /\ ~m_is_empty /\ mode = "idle" /\ m_level = 2 /\ x \in Free
      /\ x = "p" => m_range_i_last' = 1 /\ m_triple_j' = first
      /\ x # "p" => /\ ret' = [x |-> x, c |-> NoBound, v |-> EndOf(x, EdgeBound)]
                    /\ m_range_i_last' = m_range_i_last /\ m_triple_j' = m_triple_j
      /\ mode' = "scan"
      /\ UNCHANGED <<index, trie, path>>
  BY DEF SeekLast, scan
<1>2. /\ StateTypes /\ ExprRanges /\ Bindings /\ Ranges /\ Lengths /\ Current # {}
      /\ pat.s # 0 \/ pat.o # 0 => (m_is_empty <=> Matching = {})
  BY <1>1 DEF IInv
<1>3. /\ Bindings' /\ Ranges' /\ ExprRanges' /\ Free' = Free /\ Current' = Current /\ Matching' = Matching
      /\ \A y : CurrentVals(y)' = CurrentVals(y)
      /\ \A j : EdgeAt(j)' = EdgeAt(j)
  BY <1>1, <1>2, Frame
<1>4. /\ edges' = edges /\ R' = R /\ pat' = pat /\ m_is_empty' = m_is_empty
      /\ m_level' = m_level /\ m_state' = m_state /\ m_consts' = m_consts /\ path' = path
      /\ m_ranges_level' = m_ranges_level /\ m_length_level' = m_length_level
  BY <1>1 DEF index, trie
<1>5. x = "p" => ret' = [x |-> x, c |-> NoBound, v |-> EdgeAt(first)]
  <2> SUFFICES ASSUME x = "p" PROVE ret' = [x |-> x, c |-> NoBound, v |-> EdgeAt(first)]
    OBVIOUS
  <2>1. ret' = [x |-> x, c |-> NoBound, v |-> EdgeAt(m_triple_j')]
    BY DEF SeekLast
  <2> QED
    BY <1>1, <2>1
<1>6. /\ ret'.x = x /\ ret'.c = NoBound /\ ret' = [x |-> x, c |-> NoBound, v |-> ret'.v]
      /\ ret'.v = LeastFrom(CurrentVals(x), NoBound)
  <2>1. CASE x = "p"
    <3>1. EdgeAt(first) = LeastFrom(CurrentVals("p"), NoBound)
      BY <1>1, <1>2, <2>1, ScanStart
    <3> QED
      BY <1>5, <2>1, <3>1
  <2>2. CASE x # "p"
    <3>1. LeastFrom(CurrentVals(x), NoBound) = EndOf(x, EdgeBound)
      BY <1>1, <1>2, <2>2, OneEnd, OneLast
    <3> QED
      BY <1>1, <2>2, <3>1
  <2> QED
    BY <2>1, <2>2
<1>7. x = "p" => /\ 1 \in DOMAIN m_ranges_level[2] /\ first \in Int
                 /\ m_ranges_level[2][1][1] <= first /\ first <= m_ranges_level[2][1][2]
  <2>1. R.n \in Nat
    BY <1>2, RingHere
  <2> QED
    BY <1>1, <1>2, <2>1, LastRanges
<1> HIDE DEF first
<1>8. StateTypes'
  <2>1. NoBound \in Int
    BY DEF NoBound
  <2>2. ret'.v \in 0 .. R.n + R.maxSO
    BY <1>2, <1>6, <2>1, AnswerTyped
  <2>3. ret' \in [x : Terms \union {"none"}, c : Int, v : 0 .. R.n + R.maxSO]
    BY <1>6, <2>1, <2>2
  <2>4. m_triple_j' \in Int /\ m_range_i_last' \in 1 .. R.maxP
    <3>1. m_triple_j \in Int /\ m_range_i_last \in 1 .. R.maxP /\ R.maxP \in Nat /\ R.maxP # 0
      BY <1>2, RingHere DEF StateTypes
    <3> QED
      BY <1>1, <1>7, <3>1
  <2> QED
    BY <1>1, <1>2, <1>4, <2>3, <2>4 DEF StateTypes
<1>9. Lengths'
  <2>1. m_level # 1
    BY <1>1
  <2> QED
    BY <1>2, <1>4, <2>1 DEF Lengths
<1>10. x = "p" => ScanAt(ret.v)'
  <2> SUFFICES ASSUME x = "p" PROVE ScanAt(ret.v)'
    OBVIOUS
  <2>1. EdgeAt(m_triple_j)' = EdgeAt(first)
    BY <1>1, <1>4 DEF EdgeAt
  <2>2. ret'.v = EdgeAt(first)
    BY <1>5
  <2>3. m_range_i_last' = 1 /\ m_triple_j' = first
    BY <1>1
  <2> QED
    BY <1>4, <1>7, <2>1, <2>2, <2>3 DEF ScanAt
<1>11. Protocol'
  <2>1. ret'.v = LeastFrom(CurrentVals(ret.x)', ret'.c)
    <3>1. CurrentVals(ret.x)' = CurrentVals(x)
      BY <1>3, <1>4, <1>6 DEF CurrentVals
    <3> QED
      BY <1>6, <3>1
  <2>2. ret'.x \in Free' /\ m_level' = 2
    BY <1>1, <1>3, <1>4, <1>6
  <2> QED
    BY <1>1, <1>6, <1>10, <2>1, <2>2 DEF Protocol
<1>12. (m_level >= 1 => Current # {})'
  BY <1>2, <1>3
<1> QED
  BY <1>1, <1>2, <1>3, <1>4, <1>8, <1>9, <1>11, <1>12 DEF IInv

\* seek_last_next keeps the invariant.
LEMMA SeekLastNextKeeps ==
  ASSUME IInv, SeekLastNext
  PROVE  IInv'
<1> DEFINE x == ret.x
           next == ret.c + 1
           w == NextTriple
<1>1. /\ mode = "left" /\ mode' = "scan"
      /\ x = "p" => /\ m_range_i_last' = w.k /\ m_triple_j' = w.j
                    /\ ret' = [ret EXCEPT !.c = next, !.v = IF w.some THEN EdgeAt(w.j) ELSE 0]
      /\ x # "p" => /\ ret' = [ret EXCEPT !.c = next, !.v = 0]
                    /\ m_range_i_last' = m_range_i_last /\ m_triple_j' = m_triple_j
      /\ UNCHANGED <<index, trie, path>>
  BY DEF SeekLastNext, scan
<1>2. /\ StateTypes /\ ~m_is_empty /\ ExprRanges /\ Bindings /\ Ranges /\ Lengths /\ Protocol
      /\ m_level >= 1 => Current # {}
      /\ pat.s # 0 \/ pat.o # 0 => (m_is_empty <=> Matching = {})
  BY <1>1 DEF IInv
<1>3. /\ Bindings' /\ Ranges' /\ ExprRanges' /\ Free' = Free /\ Current' = Current /\ Matching' = Matching
      /\ \A y : CurrentVals(y)' = CurrentVals(y)
      /\ \A j : EdgeAt(j)' = EdgeAt(j)
  BY <1>1, <1>2, Frame
<1>4. /\ edges' = edges /\ R' = R /\ pat' = pat /\ m_is_empty' = m_is_empty
      /\ m_level' = m_level /\ m_state' = m_state /\ m_consts' = m_consts /\ path' = path
      /\ m_ranges_level' = m_ranges_level /\ m_length_level' = m_length_level
  BY <1>1 DEF index, trie
<1>5. /\ x \in Free /\ m_level = 2 /\ Current # {} /\ ret.c \in CurrentVals(x)
      /\ x = "p" => ScanAt(ret.c)
  BY <1>1, <1>2 DEF Protocol
<1>6. /\ ret \in [x : Terms \union {"none"}, c : Int, v : 0 .. R.n + R.maxSO]
      /\ m_triple_j \in Int /\ m_range_i_last \in 1 .. R.maxP /\ x \in Terms
  BY <1>2, <1>5, FreeIs DEF StateTypes
<1>7. R.maxP \in Nat
  BY <1>2, RingHere
<1>8. /\ ret'.x = x /\ ret'.c = next /\ ret' = [x |-> x, c |-> next, v |-> ret'.v]
      /\ next \in Int /\ m_triple_j' \in Int /\ m_range_i_last' \in 1 .. R.maxP
      /\ ret'.v = LeastFrom(CurrentVals(x), next)
      /\ x = "p" /\ ret'.v # 0 =>
           /\ m_range_i_last' \in DOMAIN m_ranges_level[2]
           /\ m_ranges_level[2][m_range_i_last'][1] <= m_triple_j'
           /\ m_triple_j' <= m_ranges_level[2][m_range_i_last'][2]
           /\ EdgeAt(m_triple_j') = ret'.v
  <2>1. CASE x = "p"
    <3> DEFINE ranges == m_ranges_level[2]
    <3>1. /\ w.k \in DOMAIN ranges /\ w.j \in Int
          /\ w.some => /\ ranges[w.k][1] <= w.j /\ w.j <= ranges[w.k][2]
                       /\ LeastFrom(CurrentVals(x), next) = EdgeAt(w.j)
          /\ ~w.some => LeastFrom(CurrentVals(x), next) = 0
      BY <1>2, <1>5, <2>1, ScanNext
    <3>2. DOMAIN ranges = 1 .. Len(ranges) /\ Len(ranges) \in Nat /\ Len(ranges) <= R.maxP
      BY <1>2, <1>5, <2>1, LastRanges
    <3> HIDE DEF w
    <3>3. w.k \in 1 .. R.maxP
      BY <1>7, <3>1, <3>2
    <3>4. ret' = [ret EXCEPT !.c = next, !.v = LeastFrom(CurrentVals(x), next)]
      BY <1>1, <2>1, <3>1
    <3>5. m_range_i_last' = w.k /\ m_triple_j' = w.j
      BY <1>1, <2>1
    <3>6. next \in Int
      BY <1>6
    <3> HIDE DEF next, ranges
    <3>7. /\ ret'.x = x /\ ret'.c = next /\ ret'.v = LeastFrom(CurrentVals(x), next)
          /\ ret' = [x |-> x, c |-> next, v |-> ret'.v]
      BY <1>6, <3>4
    <3>8. ret'.v # 0 => w.some
      BY <3>1, <3>7
    <3>9. /\ ret'.v # 0 => /\ m_range_i_last' \in DOMAIN ranges
                           /\ ranges[m_range_i_last'][1] <= m_triple_j'
                           /\ m_triple_j' <= ranges[m_range_i_last'][2]
                           /\ EdgeAt(m_triple_j') = ret'.v
      BY <3>1, <3>5, <3>7, <3>8
    <3> QED
      BY <3>1, <3>3, <3>5, <3>6, <3>7, <3>9 DEF ranges
  <2>2. CASE x # "p"
    <3> DEFINE v == EndOf(x, EdgeBound)
    <3>1. CurrentVals(x) = {v} /\ v \in Nat \ {0}
      BY <1>2, <1>5, <2>2, OneEnd
    <3> HIDE DEF v
    <3>2. ret.c = v
      BY <1>5, <3>1
    <3>3. LeastFrom(CurrentVals(x), next) = 0
      BY <3>1, <3>2, OneLast
    <3>4. /\ ret' = [ret EXCEPT !.c = next, !.v = 0]
          /\ m_triple_j' = m_triple_j /\ m_range_i_last' = m_range_i_last
      BY <1>1, <2>2
    <3>5. next \in Int
      BY <1>6
    <3> HIDE DEF next
    <3>6. ret'.x = x /\ ret'.c = next /\ ret'.v = 0 /\ ret' = [x |-> x, c |-> next, v |-> ret'.v]
      BY <1>6, <3>4
    <3> QED
      BY <1>6, <2>2, <3>3, <3>4, <3>5, <3>6
  <2> QED
    BY <2>1, <2>2
<1> HIDE DEF next, w
<1>9. StateTypes'
  <2>1. ret'.v \in 0 .. R.n + R.maxSO
    BY <1>2, <1>6, <1>8, AnswerTyped
  <2>2. ret' \in [x : Terms \union {"none"}, c : Int, v : 0 .. R.n + R.maxSO]
    BY <1>6, <1>8, <2>1
  <2> QED
    BY <1>1, <1>2, <1>4, <1>8, <2>2 DEF StateTypes
<1>10. Lengths'
  <2>1. m_level # 1
    BY <1>5
  <2> QED
    BY <1>2, <1>4, <2>1 DEF Lengths
<1>11. x = "p" /\ ret'.v # 0 => ScanAt(ret.v)'
  <2> SUFFICES ASSUME x = "p", ret'.v # 0 PROVE ScanAt(ret.v)'
    OBVIOUS
  <2>1. EdgeAt(m_triple_j)' = EdgeAt(m_triple_j')
    BY <1>4 DEF EdgeAt
  <2> QED
    BY <1>4, <1>8, <2>1 DEF ScanAt
<1>12. Protocol'
  <2>1. ret'.v = LeastFrom(CurrentVals(ret.x)', ret'.c)
    <3>1. CurrentVals(ret.x)' = CurrentVals(x)
      BY <1>3, <1>4, <1>8 DEF CurrentVals
    <3> QED
      BY <1>8, <3>1
  <2>2. ret'.x \in Free' /\ m_level' = 2
    BY <1>3, <1>4, <1>5, <1>8
  <2> QED
    BY <1>1, <1>8, <1>11, <2>1, <2>2 DEF Protocol
<1>13. (m_level >= 1 => Current # {})'
  BY <1>3, <1>5
<1> QED
  BY <1>1, <1>2, <1>3, <1>4, <1>9, <1>10, <1>12, <1>13 DEF IInv

\* The edges that agree with less are more.
LEMMA FitsShrink ==
  ASSUME NEW E, NEW t, NEW st, NEW cs
  PROVE  /\ Fits(E, t, st, cs, 1) \subseteq Fits(E, t, st, cs, 0)
         /\ Fits(E, t, st, cs, 2) \subseteq Fits(E, t, st, cs, 1)
BY DEF Fits

\* up keeps the invariant.
LEMMA UpKeeps ==
  ASSUME IInv, Up
  PROVE  IInv'
<1> DEFINE n == Len(path)
           last == path[n]
           k == Offset(pat)
<1>1. /\ path # <<>> /\ m_level' = m_level - 1
      /\ path' = SubSeq(path, 1, n - 1) /\ ret' = [x |-> last.x, c |-> last.v, v |-> 0]
      /\ mode' = IF mode = "under" THEN "left" ELSE "back"
      /\ m_level < 3 => /\ m_ranges_level' = [m_ranges_level EXCEPT ![m_level] = <<>>]
                        /\ m_length_level' = m_length_level
      /\ ~(m_level < 3) => /\ m_length_level' = [m_length_level EXCEPT ![1] = m_length_level[0]]
                           /\ m_ranges_level' = m_ranges_level
      /\ UNCHANGED <<index, m_state, m_consts, scan>>
  BY DEF Up, Cleared
<1>2. /\ StateTypes /\ ~m_is_empty /\ ExprRanges /\ Bindings /\ Ranges /\ Lengths /\ Protocol
      /\ m_level >= 1 => Current # {}
      /\ pat.s # 0 \/ pat.o # 0 => (m_is_empty <=> Matching = {})
  BY <1>1 DEF IInv
<1>3. /\ edges' = edges /\ R' = R /\ pat' = pat /\ m_is_empty' = m_is_empty
      /\ m_ranges_expr' = m_ranges_expr
      /\ m_state' = m_state /\ m_consts' = m_consts
      /\ m_range_i_last' = m_range_i_last /\ m_triple_j' = m_triple_j
  BY <1>1 DEF index, scan
<1>4. /\ path \in Seq([x : Terms, v : Nat]) /\ DOMAIN path = 1 .. n /\ n \in Nat /\ m_level \in 0 .. 3
      /\ k \in 0 .. 2 /\ m_level = k + n /\ \A d \in 1 .. n : path[d].x \in Terms /\ path[d].v \in Nat
  BY <1>2, PathIs DEF StateTypes
<1>5. n # 0
  BY <1>1, <1>4, EmptySeq
<1>6. n \in 1 .. n /\ n - 1 \in Nat /\ m_level' = m_level - 1 /\ m_level \in 1 .. 3 /\ m_level' \in 0 .. 2
  BY <1>1, <1>4, <1>5
<1>7. /\ path' \in Seq([x : Terms, v : Nat]) /\ Len(path') = n - 1
      /\ \A d \in 1 .. n - 1 : path'[d] = path[d]
  <2> DEFINE S == [x : Terms, v : Nat]
  <2>1. path \in Seq(S) /\ 1 \in 1 .. n + 1 /\ n - 1 \in 1 - 1 .. n
    BY <1>4, <1>6
  <2> HIDE DEF S
  <2>2. /\ SubSeq(path, 1, n - 1) \in Seq(S) /\ Len(SubSeq(path, 1, n - 1)) = n - 1
        /\ \A d \in 1 .. n - 1 : SubSeq(path, 1, n - 1)[d] = path[d]
    BY <1>4, <1>6, <2>1, SubSeqProperties
  <2> QED
    BY <1>1, <2>2 DEF S
<1>8. Offset(pat)' = k /\ Variables' = Variables
  BY <1>3 DEF Offset, Variables
<1>9. /\ \A d \in 1 .. n : /\ path[d].x \in Variables
                           /\ \A f \in 1 .. n : path[d].x = path[f].x => d = f
                           /\ k + d - 1 < 2 => m_state[k + d - 1] = path[d].x /\ m_consts[k + d - 1] = path[d].v
      /\ k = 2 => m_state[0] = "s" /\ m_consts[0] = pat.s /\ m_state[1] = "o" /\ m_consts[1] = pat.o
      /\ k = 1 => IF pat.s # 0 THEN m_state[0] = "s" /\ m_consts[0] = pat.s
                  ELSE m_state[0] = "o" /\ m_consts[0] = pat.o
  BY <1>2 DEF Bindings
<1>10. \A d \in 0 .. 2 : Offset(pat) <= d /\ d <= m_level =>
         \/ m_length_level[d] = LengthOf(m_ranges_level[d])
         \/ d = 1 /\ m_length_level[1] = m_length_level[0]
  BY <1>2 DEF Lengths
<1> HIDE DEF k
<1>11. \A d \in 1 .. n - 1 : d \in 1 .. n
  BY <1>4
<1>12. Bindings'
  <2>1. m_level' = k + Len(path')
    BY <1>4, <1>6, <1>7
  <2>2. \A d \in 1 .. Len(path') :
          /\ path'[d].x \in Variables
          /\ \A f \in 1 .. Len(path') : path'[d].x = path'[f].x => d = f
          /\ k + d - 1 < 2 => m_state[k + d - 1] = path'[d].x /\ m_consts[k + d - 1] = path'[d].v
    BY <1>7, <1>9, <1>11
  <2> QED
    BY <1>3, <1>8, <1>9, <2>1, <2>2 DEF Bindings
<1>13. last.x \in Free' /\ last.x \in Terms /\ last.v \in Nat
  <2>1. DOMAIN path' = 1 .. n - 1
    BY <1>6, <1>7, LenProperties
  <2>2. \A d \in 1 .. n - 1 : path'[d].x # last.x
    <3>1. \A d \in 1 .. n - 1 : d \in 1 .. n /\ d # n
      <4>1. n \in Nat
        BY <1>4
      <4> HIDE DEF n
      <4> QED
        BY <4>1
    <3>2. \A d \in 1 .. n : path[d].x = path[n].x => d = n
      BY <1>6, <1>9
    <3> QED
      BY <1>7, <3>1, <3>2
  <2>3. last.x \in Variables
    BY <1>6, <1>9
  <2> QED
    BY <1>4, <1>6, <1>8, <2>1, <2>2, <2>3 DEF Free
<1>14. ret'.x = last.x /\ ret'.c = last.v /\ ret'.v = 0
  BY <1>1
<1>15. /\ m_ranges_level \in [0 .. 2 -> RangesOver(R.n)] /\ DOMAIN m_length_level = 0 .. 2
       /\ \A d \in 0 .. 2 : Len(m_ranges_level[d]) <= R.maxP
       /\ R.n \in Nat /\ R.maxP \in Nat /\ R.maxSO \in Nat
  BY <1>2, RingHere DEF StateTypes
<1>16. /\ m_ranges_level' \in [0 .. 2 -> RangesOver(R.n)] /\ DOMAIN m_length_level' = 0 .. 2
       /\ \A d \in 0 .. 2 : Len(m_ranges_level'[d]) <= R.maxP
       /\ \A d \in 0 .. m_level' : m_ranges_level'[d] = m_ranges_level[d]
       /\ \A d \in 0 .. 2 : d > m_level' => m_ranges_level'[d] = <<>>
       /\ \A d \in 0 .. 2 : d # 1 \/ m_level < 3 => m_length_level'[d] = m_length_level[d]
       /\ m_level = 3 => m_length_level'[1] = m_length_level[0]
  <2>1. <<>> \in RangesOver(R.n) /\ Len(<<>>) = 0
    BY DEF RangesOver
  <2>2. \A d \in 0 .. 2 : d > m_level => m_ranges_level[d] = <<>>
    BY <1>2 DEF Ranges
  <2>3. CASE m_level < 3
    <3>1. /\ m_level \in 0 .. 2 /\ m_ranges_level' = [m_ranges_level EXCEPT ![m_level] = <<>>]
          /\ m_length_level' = m_length_level
      BY <1>1, <1>4, <2>3
    <3>2. /\ m_ranges_level'[m_level] = <<>>
          /\ \A d \in 0 .. 2 : d # m_level => m_ranges_level'[d] = m_ranges_level[d]
          /\ m_ranges_level' \in [0 .. 2 -> RangesOver(R.n)]
      BY <1>15, <2>1, <3>1
    <3>3. \A d \in 0 .. m_level' : d \in 0 .. 2 /\ d # m_level
      BY <1>6
    <3>4. \A d \in 0 .. 2 : d > m_level' => d = m_level \/ d > m_level
      BY <1>6
    <3>5. \A d \in 0 .. 2 : Len(m_ranges_level'[d]) <= R.maxP
      BY <1>15, <2>1, <3>2
    <3>6. \A d \in 0 .. 2 : d > m_level' => m_ranges_level'[d] = <<>>
      BY <2>2, <3>2, <3>4
    <3> QED
      BY <1>4, <1>15, <2>3, <3>1, <3>2, <3>3, <3>5, <3>6
  <2>4. CASE ~(m_level < 3)
    <3>1. /\ m_level = 3 /\ m_level' = 2
          /\ m_length_level' = [m_length_level EXCEPT ![1] = m_length_level[0]]
          /\ m_ranges_level' = m_ranges_level
      BY <1>1, <1>4, <2>4
    <3>2. /\ DOMAIN m_length_level' = 0 .. 2 /\ m_length_level'[1] = m_length_level[0]
          /\ \A d \in 0 .. 2 : d # 1 => m_length_level'[d] = m_length_level[d]
      BY <1>15, <3>1
    <3>3. \A d \in 0 .. 2 : ~(d > m_level')
      BY <3>1
    <3> QED
      BY <1>15, <2>4, <3>1, <3>2, <3>3
  <2> QED
    BY <2>3, <2>4
<1>17. StateTypes'
  <2>1. ret' \in [x : Terms \union {"none"}, c : Int, v : 0 .. R.n + R.maxSO]
    <3>1. 0 \in 0 .. R.n + R.maxSO
      BY <1>15
    <3> QED
      BY <1>1, <1>13, <3>1
  <2>2. m_level' \in 0 .. 3
    BY <1>6
  <2>3. mode' \in {"idle", "leap", "scan", "under", "left", "back"}
    BY <1>1
  <2> QED
    BY <1>2, <1>3, <1>7, <1>16, <2>1, <2>2, <2>3 DEF StateTypes
<1>18. Ranges'
  <2>1. 0 \in 0 .. m_level' /\ (m_level' >= 1 => 1 \in 0 .. m_level') /\ (m_level' >= 2 => 2 \in 0 .. m_level')
    BY <1>6
  <2>2. /\ Ranges0(edges, pat, m_state, m_consts, m_ranges_level)
        /\ m_level' >= 1 => Ranges1(edges, pat, m_state, m_consts, m_ranges_level)
        /\ m_level' >= 2 => Ranges2(edges, pat, m_state, m_consts, m_ranges_level)
    BY <1>2, <1>6 DEF Ranges
  <2>3. /\ Ranges0(edges, pat, m_state, m_consts, m_ranges_level')
        /\ m_level' >= 1 => Ranges1(edges, pat, m_state, m_consts, m_ranges_level')
        /\ m_level' >= 2 => Ranges2(edges, pat, m_state, m_consts, m_ranges_level')
    BY <1>16, <2>1, <2>2 DEF Ranges0, Ranges1, Ranges2
  <2> QED
    BY <1>3, <1>16, <2>3 DEF Ranges
<1>19. Current \subseteq Current' /\ (m_level = 3 => Current' = Current)
  <2>1. Current' = Fits(edges, pat, m_state, m_consts, Top')
    BY <1>3 DEF Current
  <2>2. Current = Fits(edges, pat, m_state, m_consts, Top)
    BY DEF Current
  <2>3. CASE m_level = 1
    <3>1. Top = 1 /\ Top' = 0
      BY <1>6, <2>3 DEF Top
    <3> QED
      BY <2>1, <2>2, <2>3, <3>1, FitsShrink
  <2>4. CASE m_level = 2
    <3>1. Top = 2 /\ Top' = 1
      BY <1>6, <2>4 DEF Top
    <3> QED
      BY <2>1, <2>2, <2>4, <3>1, FitsShrink
  <2>5. CASE m_level = 3
    <3>1. Top = 2 /\ Top' = 2
      BY <1>6, <2>5 DEF Top
    <3> QED
      BY <2>1, <2>2, <3>1
  <2> QED
    BY <1>6, <2>3, <2>4, <2>5
<1>20. Lengths'
  <2> SUFFICES ASSUME NEW d \in 0 .. 2, k <= d, d <= m_level'
               PROVE  \/ m_length_level'[d] = LengthOf(m_ranges_level'[d])
                      \/ /\ d = 1 /\ m_length_level'[1] = m_length_level'[0]
                         /\ m_level' = 1 => mode' \in {"leap", "back"}
    BY <1>8 DEF Lengths
  <2>1. m_ranges_level'[d] = m_ranges_level[d]
    BY <1>6, <1>16
  <2>2. m_length_level'[0] = m_length_level[0]
    BY <1>16
  <2>3. m_level' = 1 => mode' \in {"leap", "back"}
    <3>1. mode = "under" => m_level = 3
      BY <1>2 DEF Protocol
    <3> QED
      BY <1>1, <1>6, <3>1
  <2>4. CASE d = 1 /\ m_level = 3
    BY <1>16, <2>2, <2>3, <2>4
  <2>5. CASE d # 1 \/ m_level < 3
    <3>1. m_length_level'[d] = m_length_level[d]
      BY <1>16, <2>5
    <3>2. \/ m_length_level[d] = LengthOf(m_ranges_level[d])
          \/ d = 1 /\ m_length_level[1] = m_length_level[0]
      BY <1>6, <1>10 DEF k
    <3> QED
      BY <2>1, <2>2, <2>3, <3>1, <3>2
  <2> QED
    BY <1>6, <2>4, <2>5
<1>21. Protocol'
  <2>1. CASE mode = "under"
    <3>1. m_level = 3 /\ last.v \in CurrentVals(last.x) /\ (last.x = "p" => ScanAt(last.v))
      BY <1>2, <2>1 DEF Protocol
    <3>2. mode' = "left" /\ m_level' = 2
      BY <1>1, <1>6, <2>1, <3>1
    <3>3. ret'.c \in CurrentVals(ret.x)'
      <4>1. CurrentVals(ret.x)' = CurrentVals(last.x)
        BY <1>3, <1>14, <1>19, <3>1 DEF CurrentVals
      <4> QED
        BY <1>14, <3>1, <4>1
    <3>4. m_ranges_level'[2] = m_ranges_level[2]
      BY <1>1, <3>1
    <3>5. ret'.x = "p" => ScanAt(ret.c)'
      BY <1>3, <1>14, <3>1, <3>4 DEF ScanAt, EdgeAt
    <3> QED
      BY <1>13, <1>14, <3>2, <3>3, <3>5 DEF Protocol
  <2>2. CASE mode # "under"
    <3>1. mode' = "back"
      BY <1>1, <2>2
    <3> QED
      BY <1>13, <1>14, <3>1 DEF Protocol
  <2> QED
    BY <2>1, <2>2
<1>22. Current' # {} /\ Matching' = Matching
  BY <1>2, <1>3, <1>6, <1>19 DEF Matching
<1>23. ExprRanges'
  BY <1>2, <1>3 DEF ExprRanges
<1> QED
  BY <1>2, <1>3, <1>12, <1>17, <1>18, <1>20, <1>21, <1>22, <1>23 DEF IInv

\* The edges of A whose term x is c.
With(E, A, x, c) == {e \in A : ValOf(E, e, x) = c}

\* The edges with a value at an end.
LEMMA WithIs ==
  ASSUME NEW E, NEW A, NEW c
  PROVE  With(E, A, "s", c) = OfSubject(A, c) /\ With(E, A, "o", c) = OfObject(A, c)
BY DEF With, ValOf, OfSubject, OfObject

\* Each level narrows the one above.
LEMMA FitsNext ==
  ASSUME NEW E, NEW t, NEW st, NEW cs
  PROVE  /\ Fits(E, t, st, cs, 0) = Admitted(E, t)
         /\ Fits(E, t, st, cs, 1) = With(E, Fits(E, t, st, cs, 0), st[0], cs[0])
         /\ Fits(E, t, st, cs, 2) = With(E, Fits(E, t, st, cs, 1), st[1], cs[1])
BY DEF Fits, With

\* A level holds the same while it and those above it are as they were.
LEMMA LevelsStay ==
  ASSUME NEW E, NEW t, NEW st, NEW cs, NEW rl, NEW st2, NEW cs2, NEW rl2
  PROVE  /\ Fits(E, t, st2, cs2, 0) = Fits(E, t, st, cs, 0)
         /\ st2[0] = st[0] /\ cs2[0] = cs[0] => Fits(E, t, st2, cs2, 1) = Fits(E, t, st, cs, 1)
         /\ st2[0] = st[0] /\ cs2[0] = cs[0] /\ st2[1] = st[1] /\ cs2[1] = cs[1] =>
              Fits(E, t, st2, cs2, 2) = Fits(E, t, st, cs, 2)
         /\ Ranges0(E, t, st, cs, rl) /\ rl2[0] = rl[0] => Ranges0(E, t, st2, cs2, rl2)
         /\ Ranges1(E, t, st, cs, rl) /\ st2[0] = st[0] /\ cs2[0] = cs[0] /\ rl2[1] = rl[1] =>
              Ranges1(E, t, st2, cs2, rl2)
         /\ Ranges2(E, t, st, cs, rl) /\ st2[0] = st[0] /\ cs2[0] = cs[0] /\ st2[1] = st[1]
              /\ cs2[1] = cs[1] /\ rl2[2] = rl[2] => Ranges2(E, t, st2, cs2, rl2)
<1>1. Fits(E, t, st2, cs2, 0) = Fits(E, t, st, cs, 0)
  BY FitsNext
<1>2. st2[0] = st[0] /\ cs2[0] = cs[0] => Fits(E, t, st2, cs2, 1) = Fits(E, t, st, cs, 1)
  BY FitsNext
<1>3. st2[0] = st[0] /\ cs2[0] = cs[0] /\ st2[1] = st[1] /\ cs2[1] = cs[1] =>
        Fits(E, t, st2, cs2, 2) = Fits(E, t, st, cs, 2)
  BY <1>2, FitsNext
<1>4. Ranges0(E, t, st, cs, rl) /\ rl2[0] = rl[0] => Ranges0(E, t, st2, cs2, rl2)
  BY <1>1 DEF Ranges0
<1>5. Ranges1(E, t, st, cs, rl) /\ st2[0] = st[0] /\ cs2[0] = cs[0] /\ rl2[1] = rl[1] =>
        Ranges1(E, t, st2, cs2, rl2)
  BY <1>2 DEF Ranges1
<1>6. Ranges2(E, t, st, cs, rl) /\ st2[0] = st[0] /\ cs2[0] = cs[0] /\ st2[1] = st[1]
        /\ cs2[1] = cs[1] /\ rl2[2] = rl[2] => Ranges2(E, t, st2, cs2, rl2)
  BY <1>3 DEF Ranges2
<1> QED
  BY <1>1, <1>2, <1>3, <1>4, <1>5, <1>6

\* What the edges that match have is in the alphabets.
LEMMA ValIsUsed ==
  ASSUME StateTypes, NEW x \in Terms, NEW c \in CurrentVals(x)
  PROVE  /\ c \in Nat \ {0} /\ c \in 0 .. R.n + R.maxSO
         /\ x = "p" => c \in 1 .. R.n
         /\ x # "p" => c \in 1 .. R.maxSO
         /\ With(edges, Current, x, c) # {}
<1>1. /\ CurrentVals(x) \in SUBSET (Nat \ {0}) /\ CurrentVals(x) \in SUBSET (0 .. R.n + R.maxSO)
      /\ CurrentVals(x) \in SUBSET (1 .. IF x = "p" THEN R.n ELSE R.maxSO)
  BY ValsAre
<1>2. With(edges, Current, x, c) # {}
  BY DEF CurrentVals, With
<1>3. QED BY <1>1, <1>2

\* What a down adds lists the edges with the value, below each pair of terms.
LEMMA PushedLists ==
  ASSUME StateTypes, ExprRanges, Bindings, Ranges, m_level \in 0 .. 1,
         NEW x \in Free, NEW c \in CurrentVals(x)
  PROVE  /\ Pushed(x, c) \in RangesOver(R.n) /\ Len(Pushed(x, c)) <= R.maxP
         /\ m_level = 0 /\ x = "s" => Lists(Pushed(x, c), With(edges, Current, x, c), edges, Spo(edges))
         /\ m_level = 0 /\ x = "o" => Lists(Pushed(x, c), With(edges, Current, x, c), edges, Pos(edges))
         /\ m_level = 1 /\ m_state[0] # "p" /\ x # "p" =>
              Lists(Pushed(x, c), With(edges, Current, x, c), edges, IF x = "s" THEN Spo(edges) ELSE Osp(edges))
<1> DEFINE E == edges
           q == Pushed(x, c)
           here == m_ranges_level[m_level]
<1> HIDE DEF q
<1>1. /\ IsGraph(E) /\ IsRing(R, E) /\ R.n \in Nat /\ R.n # 0 /\ R.maxP \in Nat /\ R.maxP # 0
      /\ Cardinality(E) = R.n
  BY RingHere, EdgeFacts
<1>2. x \in Terms /\ (m_level = 1 => m_state[0] \in Terms /\ x # m_state[0])
  BY FreeIs
<1>3. /\ x = "p" => c \in 1 .. R.n
      /\ x # "p" => c \in 1 .. R.maxSO
  BY <1>2, ValIsUsed
<1>4. With(E, Current, "s", c) = OfSubject(Current, c) /\ With(E, Current, "o", c) = OfObject(Current, c)
  BY WithIs
<1>5. here \in RangesOver(R.n) /\ Len(here) <= R.maxP /\ Len(here) \in Nat
  <2>1. here \in RangesOver(R.n) /\ Len(here) <= R.maxP
    BY DEF StateTypes
  <2> QED
    BY <1>1, <2>1, RangesTyped
<1>6. ASSUME NEW A, NEW pos, Lists(q, A, E, pos), Len(q) <= Len(here) \/ Len(q) <= R.maxP
      PROVE  q \in RangesOver(R.n) /\ Len(q) <= R.maxP
  <2>1. q \in RangesOver(R.n)
    BY <1>1, <1>6 DEF Lists
  <2>2. Len(q) \in Nat
    BY <1>1, <2>1, RangesTyped
  <2> QED
    BY <1>1, <1>5, <1>6, <2>1, <2>2
<1>7. CASE x = "p"
  <2>1. q = <<<<c, c>>>>
    BY <1>7 DEF Pushed, q
  <2>2. c \in 1 .. R.n
    BY <1>3, <1>7
  <2>3. <<c, c>> \in (1 .. R.n) \X (1 .. R.n)
    BY <2>2
  <2>4. <<<<c, c>>>> \in Seq((1 .. R.n) \X (1 .. R.n)) /\ Len(<<<<c, c>>>>) = 1
    BY <2>3
  <2>5. q \in RangesOver(R.n) /\ Len(q) = 1
    BY <2>1, <2>4 DEF RangesOver
  <2>6. Len(q) <= R.maxP
    BY <1>1, <2>5
  <2> QED
    BY <1>7, <2>5, <2>6 DEF q
<1>8. CASE m_level = 0 /\ x = "s"
  <2>1. q = Lowered(R.s, R.o, here, c)
    BY <1>8 DEF Pushed, q
  <2>2. Lists(here, Current, E, Pos(E))
    BY <1>8, LevelHolds
  <2>3. Lists(q, OfSubject(Current, c), E, Spo(E)) /\ Len(q) <= Len(here)
    BY <1>1, <1>3, <1>8, <2>1, <2>2, StepsList
  <2> QED
    BY <1>4, <1>6, <1>8, <2>3 DEF q
<1>9. CASE m_level = 0 /\ x = "o"
  <2>1. q = RangesOfObject(R, m_ranges_expr, c)
    BY <1>9 DEF Pushed, q
  <2>2. Current = Admitted(E, pat)
    BY <1>9, LevelHolds
  <2>3. m_ranges_expr \in RangesOver(R.maxP)
    BY DEF ExprRanges
  <2>4. Lists(q, {e \in E : InList(m_ranges_expr, e.p) /\ e.o = c}, E, Pos(E)) /\ Len(q) <= R.maxP
    BY <1>1, <1>3, <1>9, <2>1, <2>3, ObjectLists
  <2>5. {e \in E : InList(m_ranges_expr, e.p) /\ e.o = c} = OfObject(Current, c)
    <3>1. /\ \A e \in E : InList(m_ranges_expr, e.p) <=> e \in Current
          /\ Current \in SUBSET E
      BY <2>2, LabelsAre
    <3>2. \A e : e \in E /\ InList(m_ranges_expr, e.p) /\ e.o = c <=> e \in Current /\ e.o = c
      BY <3>1
    <3>3. OfObject(Current, c) = {e \in Current : e.o = c}
      BY DEF OfObject
    <3> QED
      BY <3>2, <3>3
  <2>6. With(E, Current, x, c) = OfObject(Current, c)
    BY <1>4, <1>9
  <2>7. Lists(q, With(E, Current, x, c), E, Pos(E))
    BY <2>4, <2>5, <2>6
  <2>8. q \in RangesOver(R.n) /\ Len(q) <= R.maxP
    BY <1>6, <2>4, <2>7
  <2> QED
    BY <1>9, <2>7, <2>8 DEF q
<1>10. CASE m_level = 1 /\ x # "p" /\ m_state[0] = "p"
  <2>1. q = <<>>
    BY <1>10 DEF Pushed, q
  <2>2. <<>> \in RangesOver(R.n) /\ Len(<<>>) = 0
    BY DEF RangesOver
  <2> QED
    BY <1>1, <1>10, <2>1, <2>2 DEF q
<1>11. CASE m_level = 1 /\ x = "o" /\ m_state[0] = "s"
  <2>1. q = Lowered(R.o, R.p, here, c)
    BY <1>11 DEF Pushed, q
  <2>2. Lists(here, Current, E, Spo(E))
    BY <1>11, LevelHolds
  <2>3. Lists(q, OfObject(Current, c), E, Osp(E)) /\ Len(q) <= Len(here)
    BY <1>1, <1>3, <1>11, <2>1, <2>2, StepsList
  <2> QED
    BY <1>4, <1>6, <1>11, <2>3 DEF q
<1>12. CASE m_level = 1 /\ x = "s" /\ m_state[0] = "o"
  <2>1. q = Lowered(R.s, R.o, here, c)
    BY <1>12 DEF Pushed, q
  <2>2. Lists(here, Current, E, Pos(E))
    BY <1>12, LevelHolds
  <2>3. Lists(q, OfSubject(Current, c), E, Spo(E)) /\ Len(q) <= Len(here)
    BY <1>1, <1>3, <1>12, <2>1, <2>2, StepsList
  <2> QED
    BY <1>4, <1>6, <1>12, <2>3 DEF q
<1>13. m_level = 0 \/ m_level = 1
  OBVIOUS
<1> QED
  BY <1>2, <1>7, <1>8, <1>9, <1>10, <1>11, <1>12, <1>13 DEF Terms

\* What a down by the value c of x does to the levels.
StateBelow(x) == IF m_level < 2 THEN [m_state EXCEPT ![m_level] = x] ELSE m_state
ConstsBelow(c) == [m_consts EXCEPT ![m_level] = c]
PathBelow(x, c) == Append(path, [x |-> x, v |-> c])
Went(x, c, st2, cs2, path2) ==
  /\ m_level \in 0 .. 2
  /\ path2 \in Seq([x : Terms, v : Nat]) /\ Len(path2) = Len(path) + 1
  /\ path2[Len(path) + 1] = [x |-> x, v |-> c]
  /\ \A d \in 1 .. Len(path) : path2[d] = path[d]
  /\ \A d \in 0 .. 1 : st2[d] = IF d = m_level THEN x ELSE m_state[d]
  /\ \A d \in 0 .. 2 : cs2[d] = IF d = m_level THEN c ELSE m_consts[d]

\* down extends the levels and the path by one binding.
LEMMA DownBinds ==
  ASSUME StateTypes, Bindings, NEW x \in Free, NEW c \in Nat
  PROVE  Went(x, c, StateBelow(x), ConstsBelow(c), PathBelow(x, c))
<1> DEFINE st2 == StateBelow(x)
           cs2 == ConstsBelow(c)
           path2 == PathBelow(x, c)
<1>1. m_level \in 0 .. 3 /\ m_level # 3 /\ x \in Terms
  BY PathIs, FreeIs
<1>2. m_level \in 0 .. 2
  BY <1>1
<1> DEFINE S == [x : Terms, v : Nat]
           m == [x |-> x, v |-> c]
<1>3. path \in Seq(S) /\ m \in S
  BY <1>1 DEF StateTypes
<1> HIDE DEF S, m
<1>4. /\ Append(path, m) \in Seq(S) /\ Len(Append(path, m)) = Len(path) + 1
      /\ \A d \in 1 .. Len(path) : Append(path, m)[d] = path[d]
      /\ Append(path, m)[Len(path) + 1] = m
  BY <1>3, AppendProperties
<1>5. path2 = Append(path, m)
  BY DEF m, PathBelow
<1>6. path2 \in Seq(S) /\ Len(path2) = Len(path) + 1 /\ path2[Len(path) + 1] = m /\ \A d \in 1 .. Len(path) : path2[d] = path[d]
  BY <1>4, <1>5
<1>7. m_state \in [0 .. 1 -> Terms \union {"none"}] /\ m_consts \in [0 .. 2 -> 0 .. R.n + R.maxSO]
  BY DEF StateTypes
<1>8. \A d \in 0 .. 1 : st2[d] = IF d = m_level THEN x ELSE m_state[d]
  <2>1. CASE m_level < 2
    BY <1>7, <2>1 DEF StateBelow
  <2>2. CASE ~(m_level < 2)
    BY <1>2, <2>2 DEF StateBelow
  <2> QED
    BY <2>1, <2>2
<1>9. \A d \in 0 .. 2 : cs2[d] = IF d = m_level THEN c ELSE m_consts[d]
  BY <1>7 DEF ConstsBelow
<1> QED
  BY <1>2, <1>6, <1>8, <1>9 DEF S, m, Went

\* The levels are still the constants and then the path.
LEMMA DownBindings ==
  ASSUME StateTypes, Bindings, NEW x \in Free, NEW c \in Nat,
         path' = PathBelow(x, c), m_state' = StateBelow(x), m_consts' = ConstsBelow(c),
         m_level' = m_level + 1, UNCHANGED index
  PROVE  Bindings'
<1> DEFINE n == Len(path)
           k == Offset(pat)
<1>1. /\ m_level \in 0 .. 2 /\ Len(path') = n + 1 /\ path'[n + 1] = [x |-> x, v |-> c]
      /\ \A d \in 1 .. n : path'[d] = path[d]
      /\ \A d \in 0 .. 1 : m_state'[d] = IF d = m_level THEN x ELSE m_state[d]
      /\ \A d \in 0 .. 2 : m_consts'[d] = IF d = m_level THEN c ELSE m_consts[d]
  <2>1. Went(x, c, m_state', m_consts', path')
    BY DownBinds
  <2> QED
    BY <2>1 DEF Went
<1>2. n \in Nat /\ k \in 0 .. 2 /\ m_level = k + n /\ DOMAIN path = 1 .. n
  BY PathIs
<1>3. edges' = edges /\ pat' = pat
  BY DEF index
<1>4. Offset(pat)' = k /\ Variables' = Variables
  BY <1>3 DEF Offset, Variables
<1>5. /\ \A d \in 1 .. n : /\ path[d].x \in Variables
                           /\ \A f \in 1 .. n : path[d].x = path[f].x => d = f
                           /\ k + d - 1 < 2 => m_state[k + d - 1] = path[d].x /\ m_consts[k + d - 1] = path[d].v
      /\ k = 2 => m_state[0] = "s" /\ m_consts[0] = pat.s /\ m_state[1] = "o" /\ m_consts[1] = pat.o
      /\ k = 1 => IF pat.s # 0 THEN m_state[0] = "s" /\ m_consts[0] = pat.s
                  ELSE m_state[0] = "o" /\ m_consts[0] = pat.o
  BY DEF Bindings
<1>6. x \in Variables /\ \A d \in 1 .. n : path[d].x # x
  BY <1>2 DEF Free
<1> HIDE DEF n, k
<1>7. k = 2 => m_state'[0] = "s" /\ m_consts'[0] = pat.s /\ m_state'[1] = "o" /\ m_consts'[1] = pat.o
  <2>1. SUFFICES ASSUME k = 2 PROVE m_state'[0] = "s" /\ m_consts'[0] = pat.s /\ m_state'[1] = "o" /\ m_consts'[1] = pat.o
    OBVIOUS
  <2>2. 0 # m_level /\ 1 # m_level /\ 0 \in 0 .. 1 /\ 1 \in 0 .. 1 /\ 0 \in 0 .. 2 /\ 1 \in 0 .. 2
    BY <1>1, <1>2, <2>1
  <2>3. m_state'[0] = m_state[0] /\ m_state'[1] = m_state[1] /\ m_consts'[0] = m_consts[0] /\ m_consts'[1] = m_consts[1]
    BY <1>1, <2>2
  <2> QED
    BY <1>5, <2>1, <2>3
<1>8. k = 1 => m_state'[0] = m_state[0] /\ m_consts'[0] = m_consts[0]
  <2>1. SUFFICES ASSUME k = 1 PROVE m_state'[0] = m_state[0] /\ m_consts'[0] = m_consts[0]
    OBVIOUS
  <2>2. 0 # m_level /\ 0 \in 0 .. 1 /\ 0 \in 0 .. 2
    BY <1>1, <1>2, <2>1
  <2> QED
    BY <1>1, <2>2
<1>9. ASSUME NEW d \in 1 .. n + 1
      PROVE  /\ path'[d].x \in Variables
             /\ \A f \in 1 .. n + 1 : path'[d].x = path'[f].x => d = f
             /\ k + d - 1 < 2 => m_state'[k + d - 1] = path'[d].x /\ m_consts'[k + d - 1] = path'[d].v
  <2>1. \A f \in 1 .. n + 1 : f \in 1 .. n \/ f = n + 1
    BY <1>2
  <2>2. path'[n + 1].x = x /\ path'[n + 1].v = c
    BY <1>1
  <2>3. CASE d \in 1 .. n
    <3>1. path'[d] = path[d]
      BY <1>1, <2>3
    <3>2. \A f \in 1 .. n + 1 : path'[d].x = path'[f].x => d = f
      <4>1. ASSUME NEW f \in 1 .. n + 1, path'[d].x = path'[f].x PROVE d = f
        <5>1. CASE f \in 1 .. n
          BY <1>1, <1>5, <2>3, <3>1, <4>1, <5>1
        <5>2. CASE f = n + 1
          BY <1>6, <2>2, <2>3, <3>1, <4>1, <5>2
        <5> QED
          BY <2>1, <5>1, <5>2
      <4> QED
        BY <4>1
    <3>3. ASSUME k + d - 1 < 2
          PROVE  m_state'[k + d - 1] = path'[d].x /\ m_consts'[k + d - 1] = path'[d].v
      <4>1. k + d - 1 # m_level /\ k + d - 1 \in 0 .. 1 /\ k + d - 1 \in 0 .. 2
        BY <1>2, <2>3, <3>3
      <4>2. m_state'[k + d - 1] = m_state[k + d - 1] /\ m_consts'[k + d - 1] = m_consts[k + d - 1]
        BY <1>1, <4>1
      <4>3. m_state[k + d - 1] = path[d].x /\ m_consts[k + d - 1] = path[d].v
        BY <1>5, <2>3, <3>3
      <4> QED
        BY <3>1, <4>2, <4>3
    <3> QED
      BY <1>5, <2>3, <3>1, <3>2, <3>3
  <2>4. CASE d = n + 1
    <3>1. path'[d].x = x /\ path'[d].v = c
      BY <2>2, <2>4
    <3>2. \A f \in 1 .. n + 1 : path'[d].x = path'[f].x => d = f
      <4>1. ASSUME NEW f \in 1 .. n + 1, path'[d].x = path'[f].x PROVE d = f
        <5>1. CASE f \in 1 .. n
          BY <1>1, <1>6, <3>1, <4>1, <5>1
        <5>2. CASE f = n + 1
          BY <2>4, <5>2
        <5> QED
          BY <2>1, <5>1, <5>2
      <4> QED
        BY <4>1
    <3>3. ASSUME k + d - 1 < 2
          PROVE  m_state'[k + d - 1] = path'[d].x /\ m_consts'[k + d - 1] = path'[d].v
      <4>1. k + d - 1 = m_level /\ k + d - 1 \in 0 .. 1 /\ k + d - 1 \in 0 .. 2
        BY <1>1, <1>2, <2>4, <3>3
      <4>2. m_state'[m_level] = x /\ m_consts'[m_level] = c
        BY <1>1, <4>1
      <4> QED
        BY <3>1, <4>1, <4>2
    <3> QED
      BY <1>6, <3>1, <3>2, <3>3
  <2> QED
    BY <2>1, <2>3, <2>4
<1>10. m_level' = k + Len(path')
  BY <1>1, <1>2
<1> QED
  BY <1>1, <1>3, <1>4, <1>5, <1>7, <1>8, <1>9, <1>10 DEF Bindings

\* The ranges and the edges that match, below a down.
LEMMA DownHolds ==
  ASSUME StateTypes, ExprRanges, Bindings, Ranges,
         NEW x \in Free, NEW c \in CurrentVals(x),
         m_state' = StateBelow(x), m_consts' = ConstsBelow(c), m_level' = m_level + 1,
         m_level < 2 => /\ m_ranges_level'[m_level + 1] = Pushed(x, c)
                        /\ \A d \in 0 .. 2 : d # m_level + 1 => m_ranges_level'[d] = m_ranges_level[d],
         ~(m_level < 2) => m_ranges_level' = m_ranges_level,
         UNCHANGED index
  PROVE  /\ Ranges' /\ Current' # {}
         /\ m_level = 2 => Current' = Current
<1> DEFINE E == edges
           q == Pushed(x, c)
<1> HIDE DEF q
<1>1. edges' = E /\ pat' = pat /\ R' = R
  BY DEF index
<1>2. m_level \in 0 .. 3 /\ x \in Terms /\ m_level # 3 /\ c \in Nat
  BY PathIs, FreeIs, ValIsUsed
<1>3. Went(x, c, m_state', m_consts', PathBelow(x, c))
  BY <1>2, DownBinds
<1>4. /\ \A d \in 0 .. 1 : m_state'[d] = IF d = m_level THEN x ELSE m_state[d]
      /\ \A d \in 0 .. 2 : m_consts'[d] = IF d = m_level THEN c ELSE m_consts[d]
  BY <1>3 DEF Went
<1>5. 0 \in 0 .. 1 /\ 1 \in 0 .. 1 /\ 0 \in 0 .. 2 /\ 1 \in 0 .. 2 /\ 2 \in 0 .. 2
  OBVIOUS
<1>6. With(E, Current, x, c) # {}
  BY <1>2, ValIsUsed
<1>7. /\ Ranges0(E, pat, m_state, m_consts, m_ranges_level)
      /\ m_level >= 1 => Ranges1(E, pat, m_state, m_consts, m_ranges_level)
      /\ m_level >= 2 => Ranges2(E, pat, m_state, m_consts, m_ranges_level)
      /\ \A d \in 0 .. 2 : d > m_level => m_ranges_level[d] = <<>>
  BY DEF Ranges
<1>8. Current' = Fits(E, pat, m_state', m_consts', Top')
  BY <1>1 DEF Current
<1>9. m_level < 2 =>
        /\ m_level = 0 /\ x = "s" => Lists(q, With(E, Current, x, c), E, Spo(E))
        /\ m_level = 0 /\ x = "o" => Lists(q, With(E, Current, x, c), E, Pos(E))
        /\ m_level = 1 /\ m_state[0] # "p" /\ x # "p" =>
             Lists(q, With(E, Current, x, c), E, IF x = "s" THEN Spo(E) ELSE Osp(E))
  <2> SUFFICES ASSUME m_level < 2
               PROVE  /\ m_level = 0 /\ x = "s" => Lists(q, With(E, Current, x, c), E, Spo(E))
                      /\ m_level = 0 /\ x = "o" => Lists(q, With(E, Current, x, c), E, Pos(E))
                      /\ m_level = 1 /\ m_state[0] # "p" /\ x # "p" =>
                           Lists(q, With(E, Current, x, c), E, IF x = "s" THEN Spo(E) ELSE Osp(E))
    OBVIOUS
  <2>1. m_level \in 0 .. 1
    BY <1>2
  <2> QED
    BY <2>1, PushedLists DEF q
<1>10. CASE m_level = 0
  <2>1. /\ m_ranges_level'[0] = m_ranges_level[0] /\ m_ranges_level'[1] = q
        /\ m_ranges_level'[2] = m_ranges_level[2] /\ m_level' = 1
    BY <1>5, <1>10 DEF q
  <2>2. m_state'[0] = x /\ m_consts'[0] = c
    BY <1>4, <1>5, <1>10
  <2>3. Top = 0 /\ Top' = 1
    BY <1>10, <2>1 DEF Top
  <2>4. Current = Fits(E, pat, m_state, m_consts, 0) /\ Current' = Fits(E, pat, m_state', m_consts', 1)
    BY <1>8, <2>3 DEF Current
  <2>5. Fits(E, pat, m_state', m_consts', 1) = With(E, Current, x, c)
    BY <2>2, <2>4, FitsNext
  <2>6. Ranges0(E, pat, m_state', m_consts', m_ranges_level')
    BY <1>7, <2>1, LevelsStay
  <2>7. Ranges1(E, pat, m_state', m_consts', m_ranges_level')
    BY <1>9, <1>10, <2>1, <2>2, <2>5 DEF Ranges1
  <2>8. \A d \in 0 .. 2 : d > m_level' => m_ranges_level'[d] = <<>>
    <3>1. \A d \in 0 .. 2 : d > m_level' => d = 2
      BY <2>1
    <3>2. m_ranges_level[2] = <<>>
      BY <1>5, <1>7, <1>10
    <3> QED
      BY <2>1, <3>1, <3>2
  <2>9. Ranges'
    BY <1>1, <2>1, <2>6, <2>7, <2>8 DEF Ranges
  <2>10. Current' # {}
    BY <1>6, <2>4, <2>5
  <2> QED
    BY <1>10, <2>9, <2>10
<1>11. CASE m_level = 1
  <2>1. /\ m_ranges_level'[0] = m_ranges_level[0] /\ m_ranges_level'[1] = m_ranges_level[1]
        /\ m_ranges_level'[2] = q /\ m_level' = 2
    BY <1>5, <1>11 DEF q
  <2>2. m_state'[0] = m_state[0] /\ m_consts'[0] = m_consts[0] /\ m_state'[1] = x /\ m_consts'[1] = c
    BY <1>4, <1>5, <1>11
  <2>3. Top = 1 /\ Top' = 2
    BY <1>11, <2>1 DEF Top
  <2>4. Current = Fits(E, pat, m_state, m_consts, 1) /\ Current' = Fits(E, pat, m_state', m_consts', 2)
    BY <1>8, <2>3 DEF Current
  <2>5. Ranges1(E, pat, m_state, m_consts, m_ranges_level)
    BY <1>7, <1>11
  <2>6. Ranges0(E, pat, m_state', m_consts', m_ranges_level')
    BY <1>7, <2>1, LevelsStay
  <2>7. Fits(E, pat, m_state', m_consts', 1) = Current
    BY <2>2, <2>4, LevelsStay
  <2>8. Ranges1(E, pat, m_state', m_consts', m_ranges_level')
    BY <2>1, <2>2, <2>5, LevelsStay
  <2>9. Fits(E, pat, m_state', m_consts', 2) = With(E, Current, x, c)
    BY <2>2, <2>7, FitsNext
  <2>10. Ranges2(E, pat, m_state', m_consts', m_ranges_level')
    BY <1>9, <1>11, <2>1, <2>2, <2>9 DEF Ranges2
  <2>11. \A d \in 0 .. 2 : ~(d > m_level')
    BY <2>1
  <2>12. Ranges'
    BY <1>1, <2>1, <2>6, <2>8, <2>10, <2>11 DEF Ranges
  <2>13. Current' # {}
    BY <1>6, <2>4, <2>9
  <2> QED
    BY <1>11, <2>12, <2>13
<1>12. CASE m_level = 2
  <2>1. m_ranges_level' = m_ranges_level /\ m_level' = 3
    BY <1>12
  <2>2. m_state'[0] = m_state[0] /\ m_consts'[0] = m_consts[0] /\ m_state'[1] = m_state[1] /\ m_consts'[1] = m_consts[1]
    BY <1>4, <1>5, <1>12
  <2>3. Top = 2 /\ Top' = 2
    BY <1>12, <2>1 DEF Top
  <2>4. Current = Fits(E, pat, m_state, m_consts, 2) /\ Current' = Fits(E, pat, m_state', m_consts', 2)
    BY <1>8, <2>3 DEF Current
  <2>5. Ranges1(E, pat, m_state, m_consts, m_ranges_level) /\ Ranges2(E, pat, m_state, m_consts, m_ranges_level)
    BY <1>7, <1>12
  <2>6. Ranges0(E, pat, m_state', m_consts', m_ranges_level')
    BY <1>7, <2>1, LevelsStay
  <2>7. Ranges1(E, pat, m_state', m_consts', m_ranges_level')
    BY <2>1, <2>2, <2>5, LevelsStay
  <2>8. Ranges2(E, pat, m_state', m_consts', m_ranges_level')
    BY <2>1, <2>2, <2>5, LevelsStay
  <2>9. Current' = Current
    BY <2>2, <2>4, LevelsStay
  <2>10. \A d \in 0 .. 2 : ~(d > m_level')
    BY <2>1
  <2>11. Ranges'
    BY <1>1, <2>6, <2>7, <2>8, <2>10 DEF Ranges
  <2>12. Current # {}
    BY DEF CurrentVals
  <2> QED
    BY <2>9, <2>11, <2>12
<1> QED
  BY <1>2, <1>10, <1>11, <1>12

\* down keeps the invariant.
LEMMA DownKeeps ==
  ASSUME IInv, Down
  PROVE  IInv'
<1> DEFINE x == ret.x
           c == ret.v
           n == Len(path)
           q == Pushed(x, c)
           k == m_level + 1
<1>1. /\ mode \in {"leap", "scan"} /\ c # 0
      /\ m_level < 2 => /\ m_state' = [m_state EXCEPT ![m_level] = x]
                        /\ m_ranges_level' = [m_ranges_level EXCEPT ![k] = @ \o q]
                        /\ m_length_level' = [m_length_level EXCEPT ![k] = LengthOf(m_ranges_level'[k])]
      /\ ~(m_level < 2) => /\ m_state' = m_state /\ m_ranges_level' = m_ranges_level
                           /\ m_length_level' = m_length_level
      /\ m_consts' = ConstsBelow(c) /\ path' = PathBelow(x, c)
      /\ m_level' = m_level + 1 /\ ret' = [x |-> x, c |-> c, v |-> 0]
      /\ mode' = IF mode = "scan" THEN "under" ELSE "idle"
      /\ UNCHANGED <<index, scan>>
  BY DEF Down, ConstsBelow, PathBelow
<1>2. m_state' = StateBelow(x)
  BY <1>1 DEF StateBelow
<1>3. /\ StateTypes /\ ~m_is_empty /\ ExprRanges /\ Bindings /\ Ranges /\ Lengths /\ Protocol
      /\ pat.s # 0 \/ pat.o # 0 => (m_is_empty <=> Matching = {})
  BY <1>1 DEF IInv
<1>4. /\ x \in Free /\ (c = LeastFrom(CurrentVals(x), ret.c) \/ c \in CurrentVals(x))
      /\ mode = "scan" => m_level = 2
      /\ mode = "scan" /\ x = "p" => ScanAt(c)
  BY <1>1, <1>3 DEF Protocol
<1>5. x \in Terms /\ ret.c \in Int /\ m_level \in 0 .. 2
  <2>1. x \in Terms /\ m_level # 3 /\ m_level \in 0 .. 3
    BY <1>3, <1>4, FreeIs, PathIs
  <2>2. ret.c \in Int
    BY <1>3 DEF StateTypes
  <2> QED
    BY <2>1, <2>2
<1>6. c \in 0 .. R.n + R.maxSO /\ c \in CurrentVals(x)
  BY <1>1, <1>3, <1>4, <1>5, AnswerTyped, ValTyped
<1>7. c \in Nat
  BY <1>3, <1>5, <1>6, ValIsUsed
<1>8. Went(x, c, m_state', m_consts', path')
  BY <1>1, <1>2, <1>3, <1>4, <1>7, DownBinds
<1>9. /\ edges' = edges /\ R' = R /\ pat' = pat /\ m_is_empty' = m_is_empty
      /\ m_ranges_expr' = m_ranges_expr /\ UNCHANGED index
      /\ m_range_i_last' = m_range_i_last /\ m_triple_j' = m_triple_j
  BY <1>1 DEF index, scan
<1>10. /\ m_ranges_level \in [0 .. 2 -> RangesOver(R.n)]
       /\ \A d \in 0 .. 2 : Len(m_ranges_level[d]) <= R.maxP
       /\ DOMAIN m_length_level = 0 .. 2
  BY <1>3 DEF StateTypes
<1> HIDE DEF x, c, q
<1>11. /\ m_ranges_level' \in [0 .. 2 -> RangesOver(R.n)]
       /\ \A d \in 0 .. 2 : Len(m_ranges_level'[d]) <= R.maxP
       /\ DOMAIN m_length_level' = 0 .. 2
       /\ m_level < 2 => m_ranges_level'[k] = q /\ m_length_level'[k] = LengthOf(q)
       /\ \A d \in 0 .. 2 : d # k => m_ranges_level'[d] = m_ranges_level[d] /\ m_length_level'[d] = m_length_level[d]
  <2>1. CASE m_level < 2
    <3>1. m_level \in 0 .. 1 /\ k \in 0 .. 2 /\ k > m_level
      BY <1>5, <2>1
    <3>2. q \in RangesOver(R.n) /\ Len(q) <= R.maxP
      BY <1>3, <1>4, <1>6, <3>1, PushedLists DEF q
    <3>3. m_ranges_level[k] = <<>>
      BY <1>3, <3>1 DEF Ranges
    <3>4. <<>> \o q = q
      <4>1. q \in Seq((1 .. R.n) \X (1 .. R.n))
        BY <3>2 DEF RangesOver
      <4> QED
        BY <4>1, ConcatEmptySeq
    <3>5. m_ranges_level' = [m_ranges_level EXCEPT ![k] = q]
      BY <1>1, <1>10, <2>1, <3>1, <3>3, <3>4
    <3> HIDE DEF k
    <3>6. /\ m_ranges_level'[k] = q /\ m_ranges_level' \in [0 .. 2 -> RangesOver(R.n)]
          /\ \A d \in 0 .. 2 : d # k => m_ranges_level'[d] = m_ranges_level[d]
      BY <1>10, <3>1, <3>2, <3>5
    <3>7. /\ m_length_level'[k] = LengthOf(q) /\ DOMAIN m_length_level' = 0 .. 2
          /\ \A d \in 0 .. 2 : d # k => m_length_level'[d] = m_length_level[d]
      <4>1. m_length_level' = [m_length_level EXCEPT ![k] = LengthOf(q)]
        BY <1>1, <2>1, <3>6
      <4> QED
        BY <1>10, <3>1, <4>1
    <3>8. \A d \in 0 .. 2 : Len(m_ranges_level'[d]) <= R.maxP
      BY <1>10, <3>2, <3>6
    <3> QED
      BY <3>6, <3>7, <3>8
  <2>2. CASE ~(m_level < 2)
    BY <1>1, <1>10, <2>2
  <2> QED
    BY <2>1, <2>2
<1>12. StateTypes'
  <2>1. m_state \in [0 .. 1 -> Terms \union {"none"}] /\ m_consts \in [0 .. 2 -> 0 .. R.n + R.maxSO]
    BY <1>3 DEF StateTypes
  <2>2. m_state' \in [0 .. 1 -> Terms \union {"none"}]
    BY <1>2, <1>5, <2>1 DEF StateBelow
  <2>3. m_consts' \in [0 .. 2 -> 0 .. R.n + R.maxSO]
    BY <1>1, <1>5, <1>6, <2>1 DEF ConstsBelow
  <2>4. m_level' \in 0 .. 3
    BY <1>1, <1>5
  <2>5. path' \in Seq([x : Terms, v : Nat])
    BY <1>8 DEF Went
  <2>6. ret' \in [x : Terms \union {"none"}, c : Int, v : 0 .. R.n + R.maxSO]
    <3>1. 0 \in 0 .. R.n + R.maxSO /\ c \in Int
      BY <1>3, <1>7, RingHere
    <3> QED
      BY <1>1, <1>5, <3>1
  <2>7. mode' \in {"idle", "leap", "scan", "under", "left", "back"}
    BY <1>1
  <2>8. /\ edges \in Graphs /\ R = Build(edges) /\ pat \in Patterns /\ m_is_empty \in BOOLEAN
        /\ m_triple_j \in Int /\ m_range_i_last \in 1 .. R.maxP
    BY <1>3 DEF StateTypes
  <2> QED
    BY <1>9, <1>11, <2>2, <2>3, <2>4, <2>5, <2>6, <2>7, <2>8 DEF StateTypes
<1>13. Bindings'
  BY <1>1, <1>2, <1>3, <1>4, <1>7, <1>9, DownBindings
<1>14. /\ Ranges' /\ Current' # {}
       /\ m_level = 2 => Current' = Current
  <2>1. m_level < 2 => /\ m_ranges_level'[m_level + 1] = Pushed(x, c)
                       /\ \A d \in 0 .. 2 : d # m_level + 1 => m_ranges_level'[d] = m_ranges_level[d]
    BY <1>11 DEF q
  <2>2. ~(m_level < 2) => m_ranges_level' = m_ranges_level
    BY <1>1
  <2> QED
    BY <1>1, <1>2, <1>3, <1>4, <1>6, <1>9, <2>1, <2>2, DownHolds
<1>15. Lengths'
  <2>1. Offset(pat)' = Offset(pat) /\ Offset(pat) \in 0 .. 2
    BY <1>9 DEF Offset
  <2> SUFFICES ASSUME NEW d \in 0 .. 2, Offset(pat) <= d, d <= m_level'
               PROVE  \/ m_length_level'[d] = LengthOf(m_ranges_level'[d])
                      \/ /\ d = 1 /\ m_length_level'[1] = m_length_level'[0]
                         /\ m_level' = 1 => mode' \in {"leap", "back"}
    BY <2>1 DEF Lengths
  <2>2. CASE d = k
    <3>1. m_level < 2
      BY <1>5, <2>2
    <3> QED
      BY <1>11, <2>2, <3>1
  <2>3. CASE d # k
    <3>1. d <= m_level
      BY <1>1, <1>5, <2>3
    <3>2. m_length_level'[d] = m_length_level[d] /\ m_ranges_level'[d] = m_ranges_level[d]
      BY <1>11, <2>3
    <3>3. \/ m_length_level[d] = LengthOf(m_ranges_level[d])
          \/ d = 1 /\ m_length_level[1] = m_length_level[0]
      BY <1>3, <3>1 DEF Lengths
    <3>4. CASE m_length_level[d] = LengthOf(m_ranges_level[d])
      BY <3>2, <3>4
    <3>5. CASE d = 1 /\ m_length_level[1] = m_length_level[0]
      <4>1. 0 # k /\ m_level' # 1
        BY <1>1, <1>5, <3>1, <3>5
      <4>2. m_length_level'[0] = m_length_level[0]
        BY <1>11, <4>1
      <4> QED
        BY <3>2, <3>5, <4>1, <4>2
    <3> QED
      BY <3>3, <3>4, <3>5
  <2> QED
    BY <2>2, <2>3
<1>16. ret'.x = x /\ ret'.c = c /\ ret'.v = 0
  BY <1>1
<1>17. Protocol'
  <2>1. CASE mode = "leap"
    <3>1. mode' = "idle"
      BY <1>1, <2>1
    <3> QED
      BY <1>16, <3>1 DEF Protocol
  <2>2. CASE mode = "scan"
    <3>1. mode' = "under" /\ m_level = 2 /\ m_level' = 3
      BY <1>1, <1>4, <2>2
    <3>2. Len(path') = n + 1 /\ path'[n + 1] = [x |-> x, v |-> c] /\ n \in Nat
      BY <1>3, <1>8, PathIs DEF Went
    <3>3. path' # <<>>
      <4>1. n + 1 # 0
        <5>1. n \in Nat
          BY <3>2
        <5> HIDE DEF n
        <5> QED
          BY <5>1
      <4>2. Len(path') # 0
        BY <3>2, <4>1
      <4> QED
        BY <4>2
    <3>4. path'[Len(path')].x = x /\ path'[Len(path')].v = c
      BY <3>2
    <3>5. path'[Len(path')].v \in CurrentVals(path[Len(path)].x)'
      <4>1. CurrentVals(path[Len(path)].x)' = CurrentVals(x)
        BY <1>9, <1>14, <3>1, <3>4 DEF CurrentVals
      <4> QED
        BY <1>6, <3>4, <4>1
    <3>6. ASSUME x = "p" PROVE ScanAt(path[Len(path)].v)'
      <4>1. ScanAt(c)
        BY <1>4, <2>2, <3>6
      <4>2. m_state'[1] = m_state[1] /\ m_consts'[0] = m_consts[0]
        <5>1. 1 \in 0 .. 1 /\ 0 \in 0 .. 2 /\ 1 # m_level /\ 0 # m_level
          BY <3>1
        <5> QED
          BY <1>8, <5>1 DEF Went
      <4>3. EdgeAt(m_triple_j)' = EdgeAt(m_triple_j)
        BY <1>9, <4>2 DEF EdgeAt
      <4>4. m_ranges_level' = m_ranges_level
        BY <1>1, <3>1
      <4> QED
        BY <1>9, <3>4, <4>1, <4>3, <4>4 DEF ScanAt
    <3> QED
      BY <1>16, <3>1, <3>3, <3>4, <3>5, <3>6 DEF Protocol
  <2> QED
    BY <1>1, <2>1, <2>2
<1>18. Matching' = Matching /\ ExprRanges'
  BY <1>3, <1>9 DEF Matching, ExprRanges
<1> QED
  BY <1>3, <1>9, <1>12, <1>13, <1>14, <1>15, <1>17, <1>18 DEF IInv

-----------------------------------------------------------------------------
(***************************************************************************)
(* The invariant holds.                                                    *)
(***************************************************************************)
\* So does a step in which nothing changes.
LEMMA StutterKeeps ==
  ASSUME IInv, UNCHANGED vars
  PROVE  IInv'
<1>1. /\ UNCHANGED <<index, trie, path>>
      /\ edges' = edges /\ R' = R /\ pat' = pat /\ m_is_empty' = m_is_empty
      /\ m_level' = m_level /\ m_state' = m_state /\ m_consts' = m_consts
      /\ m_ranges_level' = m_ranges_level /\ m_length_level' = m_length_level
      /\ m_range_i_last' = m_range_i_last /\ m_triple_j' = m_triple_j
      /\ path' = path /\ mode' = mode /\ ret' = ret
  BY DEF vars, index, trie, scan
<1>2. /\ Bindings => Bindings'
      /\ Ranges => Ranges'
      /\ ExprRanges => ExprRanges'
      /\ Free' = Free /\ Current' = Current /\ Matching' = Matching
  BY <1>1, Frame
<1>3. StateTypes'
  BY <1>1 DEF IInv, StateTypes
<1>4. Lengths => Lengths'
  BY <1>1 DEF Lengths
<1>5. Protocol => Protocol'
  <2>1. CurrentVals(ret.x)' = CurrentVals(ret.x) /\ CurrentVals(path[Len(path)].x)' = CurrentVals(path[Len(path)].x)
    BY <1>1, <1>2 DEF CurrentVals
  <2>2. ScanAt(ret.v)' = ScanAt(ret.v) /\ ScanAt(ret.c)' = ScanAt(ret.c)
        /\ ScanAt(path[Len(path)].v)' = ScanAt(path[Len(path)].v)
        /\ MaySkip(ret.x, ret.c)' = MaySkip(ret.x, ret.c)
    BY <1>1 DEF ScanAt, EdgeAt, MaySkip
  <2> QED
    BY <1>1, <1>2, <2>1, <2>2 DEF Protocol
<1> QED
  BY <1>1, <1>2, <1>3, <1>4, <1>5 DEF IInv

\* Every step keeps the invariant.
LEMMA NextInv == IInv /\ [Next]_vars => IInv'
<1> SUFFICES ASSUME IInv, [Next]_vars PROVE IInv'
  OBVIOUS
<1>1. ASSUME NEW x \in Terms, NEW c \in Asked(x), Leap(x, c) PROVE IInv'
  BY <1>1, LeapKeeps
<1>2. ASSUME NEW x \in Terms, SeekLast(x) PROVE IInv'
  BY <1>2, SeekLastKeeps
<1>3. CASE SeekLastNext
  BY <1>3, SeekLastNextKeeps
<1>4. CASE Down
  BY <1>4, DownKeeps
<1>5. CASE Up
  BY <1>5, UpKeeps
<1>6. CASE UNCHANGED vars
  BY <1>6, StutterKeeps
<1> QED
  BY <1>1, <1>2, <1>3, <1>4, <1>5, <1>6 DEF Next

\* The constructor computes the ranges of the expression.
LEMMA InitRanges == Init => ExprRanges
<1> SUFFICES ASSUME Init PROVE ExprRanges
  OBVIOUS
<1>1. edges \in Graphs /\ R = Build(edges) /\ pat \in Patterns /\ m_ranges_expr = RangesOfExpr(pat.expr, R.maxP)
  BY DEF Init
<1>2. IsRing(R, edges) /\ R.maxP \in Nat /\ pat.expr \in Exprs
  BY <1>1, RingAt
<1> DEFINE n == R.maxP
           e == pat.expr
<1>3. n \in Nat /\ e \in Exprs /\ m_ranges_expr = RangesOfExpr(e, n)
  BY <1>1, <1>2
<1>4. \A x \in Exprs : IsExpr(x) /\ LabelsIn(x, n)
  BY <1>1, <1>2, ExprsAre
<1> HIDE DEF n, e
<1>5. PICK h \in [Exprs -> ListsOver(n)] : GivesRanges(h, n)
  BY <1>3, <1>4, RangesExist
<1>6. m_ranges_expr = h[e]
  BY <1>3, <1>4, <1>5, RangesOfExprIs
<1>7. \A l \in 1 .. n : Holds(e, l) <=> InList(h[e], l)
  BY <1>3, <1>4, <1>5, HoldsInRanges
<1>8. h[e] \in RangesOver(n) /\ IsList(h[e])
  BY <1>3, <1>5 DEF ListsOver
<1> QED
  BY <1>6, <1>7, <1>8 DEF ExprRanges, n, e

\* The ranges hold what is bound, at every step of the join.
THEOREM InvariantHolds == Spec => []IInv
<1>1. Init => IInv
  BY InitInv, InitRanges
<1>2. IInv /\ [Next]_vars => IInv'
  BY NextInv
<1> QED
  BY <1>1, <1>2, PTL DEF Spec

\* TypeOK: positions stay in the columns, and values in the alphabets.
THEOREM TypesHold == Spec => []TypeOK
<1>1. IInv => TypeOK
  <2> SUFFICES ASSUME IInv PROVE TypeOK
    OBVIOUS
  <2>1. StateTypes
    BY DEF IInv
  <2>2. m_ranges_level \in [0 .. 2 -> RangesOver(R.n)] /\ R.n \in Nat
    BY <2>1, RingHere DEF StateTypes
  <2>3. ASSUME NEW d \in 0 .. 2, NEW k \in DOMAIN m_ranges_level[d]
        PROVE  m_ranges_level[d][k][1] \in 1 .. R.n /\ m_ranges_level[d][k][2] \in 1 .. R.n
    <3> DEFINE ranges == m_ranges_level[d]
    <3>1. ranges \in RangesOver(R.n) /\ k \in DOMAIN ranges
      BY <2>2
    <3> HIDE DEF ranges
    <3>2. ranges[k][1] \in 1 .. R.n /\ ranges[k][2] \in 1 .. R.n
      BY <2>2, <3>1, RangesTyped
    <3> QED
      BY <3>2 DEF ranges
  <2>4. ret.v \in 0 .. R.n + R.maxSO
    BY <2>1 DEF StateTypes
  <2> QED
    BY <2>1, <2>3, <2>4 DEF TypeOK, StateTypes
<1> QED
  BY <1>1, InvariantHolds, PTL

\* RangesAreExpr: merging and intersecting leave ranges that are apart, rising, and hold exactly
\* the labels of the expression.
THEOREM RangesHold == Spec => []RangesAreExpr
<1>1. Init => RangesAreExpr
  <2> SUFFICES ASSUME Init PROVE RangesAreExpr
    OBVIOUS
  <2>1. ExprRanges
    BY InitRanges
  <2>2. R.maxP \in Nat
    BY RingAt DEF Init
  <2> DEFINE labels == m_ranges_expr
  <2>3. labels \in RangesOver(R.maxP) /\ IsList(labels)
        /\ \A l \in 1 .. R.maxP : Holds(pat.expr, l) <=> InList(labels, l)
    BY <2>1 DEF ExprRanges
  <2> HIDE DEF labels
  <2>4. /\ labels \in Seq(Int \X Int) /\ DOMAIN labels = 1 .. Len(labels) /\ Len(labels) \in Nat
        /\ \A k \in DOMAIN labels : labels[k][1] \in 1 .. R.maxP /\ labels[k][2] \in 1 .. R.maxP
    BY <2>2, <2>3, RangesTyped
  <2>5. \A l : l \in Covered(labels) <=> l \in Int /\ InList(labels, l)
    BY <2>4, CoveredIs
  <2>6. ASSUME NEW l \in Int, InList(labels, l) PROVE l \in 1 .. R.maxP
    <3>1. PICK k \in DOMAIN labels : labels[k][1] <= l /\ l <= labels[k][2]
      BY <2>6 DEF InList
    <3> QED
      BY <2>2, <2>4, <3>1
  <2>7. Covered(labels) = {l \in 1 .. R.maxP : Holds(pat.expr, l)}
    BY <2>3, <2>5, <2>6
  <2>8. ASSUME NEW k \in 1 .. Len(labels) - 1 PROVE labels[k][2] < labels[k + 1][1]
    <3>1. k \in DOMAIN labels /\ k + 1 \in DOMAIN labels /\ k < k + 1
      BY <2>4
    <3> QED
      BY <2>3, <3>1 DEF IsList
  <2> QED
    BY <2>7, <2>8 DEF RangesAreExpr, labels
<1>2. RangesAreExpr /\ [Next]_vars => RangesAreExpr'
  <2> SUFFICES ASSUME RangesAreExpr, [Next]_vars PROVE RangesAreExpr'
    OBVIOUS
  <2>1. UNCHANGED index
    BY DEF Next, Leap, SeekLast, SeekLastNext, Down, Up, vars
  <2>2. R' = R /\ pat' = pat /\ m_ranges_expr' = m_ranges_expr
    BY <2>1 DEF index
  <2> QED
    BY <2>2 DEF RangesAreExpr
<1> QED
  BY <1>1, <1>2, PTL DEF Spec

\* EmptyIffNoMatch: the constructor reports a pattern with a constant empty exactly when no
\* edge matches.
THEOREM EmptyHolds == Spec => []EmptyIffNoMatch
<1>1. IInv => EmptyIffNoMatch
  BY DEF IInv, EmptyIffNoMatch, Matches
<1> QED
  BY <1>1, InvariantHolds, PTL

\* Matches are as many as the edges they come from.
LEMMA TermsCount ==
  ASSUME StateTypes, NEW A \in SUBSET edges
  PROVE  Cardinality({Term(e) : e \in A}) = Cardinality(A)
<1> DEFINE E == edges
           T == {Term(e) : e \in A}
           f == [e \in A |-> Term(e)]
<1>1. IsFiniteSet(A)
  BY RingHere, FS_Subset DEF IsGraph
<1>2. IsNumbering(E, Pos(E))
  BY RingHere, EdgeFacts
<1>3. \A e \in E : Term(e)["p"] = Pos(E)[e]
  <2>1. \A e \in E : Term(e)["p"] = ValOf(edges, e, "p")
    BY TermIs DEF Terms
  <2> QED
    BY <2>1 DEF ValOf
<1>4. \A e, g \in A : Term(e) = Term(g) => e = g
  BY <1>2, <1>3 DEF IsNumbering
<1>5. f \in Bijection(A, T)
  <2>1. f \in [A -> T]
    OBVIOUS
  <2>2. \A e, g \in A : f[e] = f[g] => e = g
    BY <1>4
  <2>3. \A t \in T : \E e \in A : f[e] = t
    OBVIOUS
  <2> HIDE DEF f, T
  <2> QED
    BY <2>1, <2>2, <2>3 DEF Bijection, Injection, Surjection, IsInjective
<1>6. ExistsBijection(A, T)
  BY <1>5 DEF ExistsBijection
<1> QED
  BY <1>1, <1>6, FS_Bijection

\* LengthCountsMatches: while no edge is bound, the ranges by whose length the join sorts the
\* iterators hold exactly the edges that still match.
THEOREM LengthsHold == Spec => []LengthCountsMatches
<1>1. IInv => LengthCountsMatches
  <2> SUFFICES ASSUME IInv, ~m_is_empty, m_level <= 2, \A d \in DOMAIN path : path[d].x # "p"
               PROVE  /\ LengthOf(m_ranges_level[m_level]) = Cardinality(Agreeing)
                      /\ \/ m_length_level[m_level] = Cardinality(Agreeing)
                         \/ m_level = 1 /\ mode \in {"back", "leap"} /\ m_length_level[1] = m_length_level[0]
    BY DEF LengthCountsMatches
  <2>1. StateTypes /\ Bindings /\ Ranges /\ Lengths
    BY DEF IInv
  <2>2. IsGraph(edges) /\ IsFiniteSet(edges) /\ Current \in SUBSET edges
    BY <2>1, RingHere, ValsAre DEF IsGraph
  <2>3. Agreeing = {Term(e) : e \in Current}
    BY <2>1, AgreeingIs
  <2>4. Cardinality(Agreeing) = Cardinality(Current)
    BY <2>1, <2>2, <2>3, TermsCount
  <2>5. "p" \in Free
    BY DEF Free, Variables
  <2>6. /\ m_level = 1 => m_state[0] \in Terms \ {"p"}
        /\ m_level = 2 => m_state[0] # "p" /\ m_state[1] # "p"
    BY <2>1, <2>5, FreeIs
  <2>7. m_level \in 0 .. 2 /\ Offset(pat) <= m_level
    <3>1. m_level \in 0 .. 3 /\ Offset(pat) \in 0 .. 2 /\ m_level = Offset(pat) + Len(path) /\ Len(path) \in Nat
      BY <2>1, PathIs
    <3> QED
      BY <3>1
  <2>8. PICK pos : IsNumbering(edges, pos) /\ Lists(m_ranges_level[m_level], Current, edges, pos)
    <3>1. IsNumbering(edges, Pos(edges)) /\ IsNumbering(edges, Spo(edges)) /\ IsNumbering(edges, Osp(edges))
      BY <2>1, RingHere, EdgeFacts
    <3>2. CASE m_level = 0
      BY <2>1, <3>1, <3>2, LevelHolds
    <3>3. CASE m_level = 1 /\ m_state[0] = "s"
      BY <2>1, <3>1, <3>3, LevelHolds
    <3>4. CASE m_level = 1 /\ m_state[0] = "o"
      BY <2>1, <3>1, <3>4, LevelHolds
    <3>5. CASE m_level = 2
      BY <2>1, <2>6, <3>5, LastLevel
    <3> QED
      BY <2>6, <2>7, <3>2, <3>3, <3>4, <3>5 DEF Terms
  <2>9. LengthOf(m_ranges_level[m_level]) = Cardinality(Current)
    BY <2>2, <2>8, LengthIs
  <2>10. \/ m_length_level[m_level] = LengthOf(m_ranges_level[m_level])
         \/ m_level = 1 /\ m_length_level[1] = m_length_level[0] /\ mode \in {"leap", "back"}
    BY <2>1, <2>7 DEF Lengths
  <2> QED
    BY <2>4, <2>9, <2>10
<1> QED
  BY <1>1, InvariantHolds, PTL

\* LeapIsNext: a leap answers the next value greater or equal than its bound, unless the join
\* asked with a bound for the edge of a subject and an object.
THEOREM LeapsHold == Spec => [](EdgeBounds = FALSE \/ ~MaySkip(ret.x, ret.c) => LeapIsNext)
<1>1. IInv => (EdgeBounds = FALSE \/ ~MaySkip(ret.x, ret.c) => LeapIsNext)
  <2> SUFFICES ASSUME IInv, mode = "leap", EdgeBounds = FALSE \/ ~MaySkip(ret.x, ret.c)
               PROVE  ret.v = LeastFrom({m[ret.x] : m \in Agreeing}, ret.c)
    BY DEF LeapIsNext
  <2>1. StateTypes /\ Bindings /\ Protocol
    BY DEF IInv
  <2>2. ret.x \in Free /\ ret.v = LeastFrom(CurrentVals(ret.x), ret.c)
    BY <2>1 DEF Protocol
  <2>3. m_level <= 2 /\ ret.x \in Terms
    <3>1. m_level \in 0 .. 3 /\ m_level # 3 /\ ret.x \in Terms
      BY <2>1, <2>2, FreeIs, PathIs
    <3> QED
      BY <3>1
  <2> QED
    BY <2>1, <2>2, <2>3, AgreeingIs
<1> QED
  BY <1>1, InvariantHolds, PTL

\* Whatever the join asks, a leap that answers gives a value of a matching edge, from the bound
\* on: what the search of the edges between two ends does wrong is to leave some out.
THEOREM LeapsMatch ==
  Spec => [](mode = "leap" /\ ret.v # 0 => ret.v \in {m[ret.x] : m \in Agreeing} /\ ret.c <= ret.v)
<1>1. IInv => (mode = "leap" /\ ret.v # 0 => ret.v \in {m[ret.x] : m \in Agreeing} /\ ret.c <= ret.v)
  <2> SUFFICES ASSUME IInv, mode = "leap", ret.v # 0
               PROVE  ret.v \in {m[ret.x] : m \in Agreeing} /\ ret.c <= ret.v
    OBVIOUS
  <2>1. StateTypes /\ Bindings /\ Protocol
    BY DEF IInv
  <2>2. /\ ret.x \in Free
        /\ \/ ret.v = LeastFrom(CurrentVals(ret.x), ret.c)
           \/ ret.v \in CurrentVals(ret.x) /\ ret.c <= ret.v
    BY <2>1 DEF Protocol
  <2>3. m_level <= 2 /\ ret.x \in Terms /\ ret.c \in Int
    <3>1. m_level \in 0 .. 3 /\ m_level # 3 /\ ret.x \in Terms
      BY <2>1, <2>2, FreeIs, PathIs
    <3>2. ret.c \in Int
      BY <2>1 DEF StateTypes
    <3> QED
      BY <3>1, <3>2
  <2>4. CurrentVals(ret.x) \in SUBSET (Nat \ {0})
    BY <2>1, <2>3, ValsAre
  <2>5. ret.v \in CurrentVals(ret.x) /\ ret.c <= ret.v
    BY <2>2, <2>3, <2>4, LeastFromCorrect
  <2> QED
    BY <2>1, <2>3, <2>5, AgreeingIs
<1> QED
  BY <1>1, InvariantHolds, PTL

-----------------------------------------------------------------------------
(***************************************************************************)
(* The iterator implements its contract.                                   *)
(***************************************************************************)
\* The values the join can be given for a term are those of the edges of the level.
LEMMA GivenIs ==
  ASSUME IInv, ~m_is_empty, NEW x \in Free
  PROVE  Contract!Free = Free /\ Contract!Given(x) = CurrentVals(x)
<1>1. StateTypes /\ Bindings
  BY DEF IInv
<1>2. m_level <= 2 /\ x \in Terms
  <2>1. m_level \in 0 .. 3 /\ m_level # 3 /\ x \in Terms
    BY <1>1, FreeIs, PathIs
  <2> QED
    BY <2>1
<1>3. {m[x] : m \in Agreeing} = CurrentVals(x)
  BY <1>1, <1>2, AgreeingIs
<1>4. Contract!Agreeing = Agreeing
  BY DEF Contract!Agreeing, Agreeing
<1>5. Contract!Free = Free
  BY DEF Contract!Free, Free
<1> QED
  BY <1>3, <1>4, <1>5 DEF Contract!Given

\* The pattern and its matches never change.
LEMMA PatternStays ==
  ASSUME UNCHANGED index
  PROVE  UNCHANGED Contract!pattern
<1>1. edges' = edges /\ pat' = pat
  BY DEF index
<1>2. Variables' = Variables /\ Matches' = Matches
  BY <1>1 DEF Variables, Matches, Matching, Term
<1> QED
  BY <1>2 DEF Contract!pattern

\* The join asks for ids, and for the one after the last.
LEMMA AskedInBounds ==
  ASSUME StateTypes, NEW x \in Terms, NEW c \in Asked(x)
  PROVE  c \in {NoBound} \union 1 .. MaxAsked
<1>1. IsGraph(edges) /\ IsFiniteSet(edges) /\ R = Build(edges) /\ edges \in Graphs /\ R.n \in Nat /\ R.maxSO \in Nat
  BY RingHere DEF StateTypes, IsGraph
<1>2. MaxAsked \in Nat /\ Cardinality(edges) < MaxAsked /\ \A e \in edges : e.s < MaxAsked /\ e.o < MaxAsked
  BY <1>1, GraphAssumption, PatternAssumption
<1>3. R.n = Cardinality(edges)
  BY <1>1 DEF Build
<1> DEFINE S == {e.s : e \in edges}
           O == {e.o : e \in edges}
<1>4. R.maxSO = LargestOf(S \union O)
  BY <1>1 DEF Build
<1>5. S \in SUBSET Nat /\ O \in SUBSET Nat /\ S # {}
  BY <1>1 DEF IsGraph
<1>6. IsFiniteSet(S) /\ IsFiniteSet(O)
  <2> DEFINE f == [e \in edges |-> e.s]
             g == [e \in edges |-> e.o]
  <2>1. f \in Surjection(edges, S) /\ g \in Surjection(edges, O)
    BY DEF Surjection
  <2> HIDE DEF f, g, S, O
  <2> QED
    BY <1>1, <2>1, FS_Surjection
<1>7. LargestOf(S \union O) \in S \union O
  <2>1. S \union O \in SUBSET Nat /\ S \union O # {}
    BY <1>5
  <2>2. IsFiniteSet(S \union O)
    BY <1>6, FS_Union
  <2> HIDE DEF S, O
  <2> QED
    BY <2>1, <2>2, LargestIs
<1>8. R.maxSO < MaxAsked
  BY <1>2, <1>4, <1>7
<1> QED
  BY <1>1, <1>2, <1>3, <1>8 DEF Asked

\* A leap, or a step of a scan, answers the least value from the bound on.
LEMMA AsksLeast ==
  ASSUME EdgeBounds = FALSE, IInv, IInv', ~m_is_empty, NEW x \in Free, NEW c,
         UNCHANGED <<index, trie, path>>,
         ret'.x = x, ret'.c = c, mode' \in {"leap", "scan"}
  PROVE  Contract!Ask(x, c)
<1>1. m_is_empty' = m_is_empty
  BY DEF index
<1>2. StateTypes' /\ Protocol'
  BY <1>1 DEF IInv
<1>3. ret'.v = LeastFrom(CurrentVals(ret.x)', ret'.c)
  BY <1>2 DEF Protocol
<1>4. Current' = Current /\ edges' = edges
  BY Frame DEF index
<1>5. CurrentVals(ret.x)' = CurrentVals(x)
  BY <1>4 DEF CurrentVals
<1>6. ret' \in [x : Terms \union {"none"}, c : Int, v : 0 .. R'.n + R'.maxSO]
  BY <1>2 DEF StateTypes
<1>7. ret' = [x |-> x, c |-> c, v |-> LeastFrom(CurrentVals(x), c)]
  BY <1>3, <1>5, <1>6
<1>8. Contract!Given(x) = CurrentVals(x)
  BY GivenIs
<1> QED
  BY <1>7, <1>8 DEF Contract!Ask, Contract!LeastFrom, LeastFrom

\* Every step of the iterator is a step of its contract, or none.
LEMMA StepImplements ==
  EdgeBounds = FALSE /\ IInv /\ IInv' /\ [Next]_vars => [Contract!Next]_(Contract!vars)
<1> SUFFICES ASSUME EdgeBounds = FALSE, IInv, IInv', [Next]_vars PROVE [Contract!Next]_(Contract!vars)
  OBVIOUS
<1>1. ASSUME NEW x \in Terms, NEW c \in Asked(x), Leap(x, c)
      PROVE  c \in {NoBound} \union 1 .. MaxAsked /\ Contract!Leap(x, c)
  <2>1. /\ ~m_is_empty /\ MayAsk(x, c) /\ mode' = "leap"
        /\ ret' = [x |-> x, c |-> c, v |-> Answer(x, c)]
        /\ UNCHANGED <<index, trie, path>>
    BY <1>1 DEF Leap, MayAsk
  <2>2. StateTypes /\ Protocol
    BY <2>1 DEF IInv
  <2>3. x \in Free /\ mode # "under"
    BY <2>1, <2>2 DEF MayAsk, Protocol
  <2>4. ret'.x = x /\ ret'.c = c
    BY <2>1
  <2>5. Contract!Ask(x, c)
    BY <2>1, <2>3, <2>4, AsksLeast
  <2>6. Contract!Free = Free
    BY <2>1, <2>3, GivenIs
  <2>7. UNCHANGED <<Contract!pattern, path>>
    BY <2>1, PatternStays
  <2>8. c \in {NoBound} \union 1 .. MaxAsked
    BY <2>2, AskedInBounds
  <2> QED
    BY <2>1, <2>3, <2>5, <2>6, <2>7, <2>8 DEF Contract!Leap
<1>2. ASSUME NEW x \in Terms, SeekLast(x) PROVE Contract!SeekLast(x)
  <2>1. /\ ~m_is_empty /\ mode = "idle" /\ m_level = 2 /\ x \in Free /\ mode' = "scan"
        /\ UNCHANGED <<index, trie, path>>
    BY <1>2 DEF SeekLast
  <2>2. ret'.x = x /\ ret'.c = NoBound
    BY <1>2 DEF SeekLast
  <2>3. Contract!Ask(x, NoBound)
    BY <2>1, <2>2, AsksLeast
  <2>4. Contract!Free = Free
    BY <2>1, GivenIs
  <2>5. Free = {x}
    <3>1. StateTypes /\ Bindings
      BY <2>1 DEF IInv
    <3>2. /\ m_state[0] \in Terms /\ m_state[1] \in Terms /\ m_state[0] # m_state[1]
          /\ Free = Terms \ {m_state[0], m_state[1]}
      BY <2>1, <3>1, FreeIs
    <3> QED
      BY <2>1, <3>2 DEF Terms
  <2>6. UNCHANGED <<Contract!pattern, path>>
    BY <2>1, PatternStays
  <2>7. Contract!NoBound = NoBound
    BY DEF Contract!NoBound, NoBound
  <2> QED
    BY <2>1, <2>3, <2>4, <2>5, <2>6, <2>7 DEF Contract!SeekLast
<1>3. ASSUME SeekLastNext PROVE Contract!SeekLastNext
  <2>1. /\ mode = "left" /\ mode' = "scan"
        /\ UNCHANGED <<index, trie, path>>
    BY <1>3 DEF SeekLastNext
  <2>2. ~m_is_empty /\ StateTypes /\ Protocol
    BY <2>1 DEF IInv
  <2>3. ret.x \in Free
    BY <2>1, <2>2 DEF Protocol
  <2>4. ret \in [x : Terms \union {"none"}, c : Int, v : 0 .. R.n + R.maxSO]
    BY <2>2 DEF StateTypes
  <2>5. ret'.x = ret.x /\ ret'.c = ret.c + 1
    BY <1>3, <2>4 DEF SeekLastNext
  <2>6. Contract!Ask(ret.x, ret.c + 1)
    BY <2>1, <2>2, <2>3, <2>5, AsksLeast
  <2>7. UNCHANGED <<Contract!pattern, path>>
    BY <2>1, PatternStays
  <2> QED
    BY <2>1, <2>6, <2>7 DEF Contract!SeekLastNext
<1>4. ASSUME Down PROVE Contract!Down
  BY <1>4, PatternStays DEF Down, Contract!Down
<1>5. ASSUME Up PROVE Contract!Up
  BY <1>5, PatternStays DEF Up, Contract!Up
<1>6. CASE UNCHANGED vars
  BY <1>6, PatternStays DEF vars, Contract!vars
<1> QED
  BY <1>1, <1>2, <1>3, <1>4, <1>5, <1>6 DEF Next, Contract!Next

\* AnswersLeastMatch: whatever the order in which the join binds the terms, every leap and every
\* step of a scan answers the least value that an edge matching what is bound gives.
THEOREM ImplementsContract == EdgeBounds = FALSE /\ Spec => AnswersLeastMatch
<1> SUFFICES ASSUME EdgeBounds = FALSE PROVE Spec => AnswersLeastMatch
  OBVIOUS
<1>1. Init => Contract!Init
  BY DEF Init, Contract!Init
<1>2. IInv /\ IInv' /\ [Next]_vars => [Contract!Next]_(Contract!vars)
  BY StepImplements
<1>3. Spec => Contract!Spec
  BY <1>1, <1>2, InvariantHolds, PTL DEF Spec, Contract!Spec
<1> QED
  BY <1>3 DEF AnswersLeastMatch
=============================================================================
