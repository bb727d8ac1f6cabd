--------------------------- MODULE NodeLabelsProofs ---------------------------
(***************************************************************************)
(* The iterator of an expression over node labels, for every number of     *)
(* nodes, every length of runs, all labels and all expressions: what it    *)
(* answers are nodes, none or the largest number; and it answers the least *)
(* node the expression holds of, unless a label ends in a run at the last  *)
(* node.                                                                   *)
(***************************************************************************)
EXTENDS NodeLabels, BasicTheorems, FiniteSetTheorems

-----------------------------------------------------------------------------
(***************************************************************************)
(* The search in a label.                                                  *)
(***************************************************************************)
Asks == Values \ {0}

LEMMA Numbers ==
  /\ MaxS \in Nat /\ MaxS # 0 /\ RunLength \in Nat /\ RunLength # 0
  /\ AllOnes \in Nat /\ AllOnes > MaxS + 1
  /\ Sentinel = MaxS + 1 /\ BvSize = MaxS + 2
  /\ \A n : n \in Asks <=> n \in 1 .. MaxS + 1 \/ n = AllOnes
BY NodesAssumption DEF Sentinel, BvSize, Asks, Values

\* The successor of n is above n just when n is neither in the label nor the sentinel.
LEMMA SuccIs ==
  ASSUME NEW V \in SUBSET Ids, NEW n \in 1 .. Sentinel
  PROVE  /\ Succ(V, n) \in Nat /\ n <= Succ(V, n) /\ Succ(V, n) <= Sentinel
         /\ Succ(V, n) > n <=> n \notin BvNodes(V)
         /\ InRange(Succ(V, n)) = LeastFrom(V, n)
<1> DEFINE W == BvNodes(V)
           v == LeastFrom(W, n)
<1>1. /\ V \in SUBSET (Nat \ {0}) /\ W \in SUBSET (Nat \ {0}) /\ Sentinel \in W
      /\ n \in Int /\ n <= Sentinel /\ \A u \in W : u <= Sentinel
      /\ \A u : u \in W <=> u \in V \/ u = Sentinel
      /\ \A u \in V : u <= MaxS
  BY Numbers DEF BvNodes, Ids
<1> HIDE DEF W
<1>2. v # 0 /\ v \in W /\ n <= v /\ \A u \in W : n <= u => v <= u
  <2>1. ~(Sentinel < n)
    BY <1>1, Numbers
  <2>2. v # 0
    BY <1>1, <2>1, LeastFromCorrect
  <2> QED
    BY <1>1, <2>2, LeastFromCorrect
<1>3. Succ(V, n) = v
  BY <1>2 DEF Succ, W
<1> HIDE DEF v
<1>4. v \in Nat /\ v <= Sentinel
  BY <1>1, <1>2
<1>5. v > n <=> n \notin W
  <2>1. n \in W => v <= n
    BY <1>1, <1>2
  <2>2. v = n => n \in W
    BY <1>2
  <2> QED
    BY <1>1, <1>2, <1>4, <2>1, <2>2
<1>6. InRange(v) = LeastFrom(V, n)
  <2>1. CASE v \in V
    <3>1. LeastFrom(V, n) = v
      <4>1. \A u \in V : n <= u => v <= u
        BY <1>1, <1>2
      <4> QED
        BY <1>1, <1>2, <2>1, <4>1, LeastFromIs
    <3>2. ~(v > MaxS)
      BY <1>1, <1>4, <2>1, Numbers
    <3> QED
      BY <3>1, <3>2 DEF InRange
  <2>2. CASE v \notin V
    <3>1. v = Sentinel
      BY <1>1, <1>2, <2>2
    <3>2. \A u \in V : u < n
      <4> SUFFICES ASSUME NEW u \in V, ~(u < n) PROVE FALSE
        OBVIOUS
      <4>1. u \in W /\ u \in Nat /\ u <= MaxS /\ n <= u
        BY <1>1
      <4>2. v <= u
        BY <1>2, <4>1
      <4> QED
        BY <3>1, <4>1, <4>2, Numbers
    <3>3. LeastFrom(V, n) = 0
      BY <1>1, <3>2, LeastFromNone
    <3>4. v > MaxS
      BY <3>1, Numbers
    <3> QED
      BY <3>3, <3>4 DEF InRange
  <2> QED
    BY <2>1, <2>2
<1> QED
  BY <1>2, <1>3, <1>4, <1>5, <1>6 DEF W

\* Beyond the last node there is none.
LEMMA NoneBeyond ==
  ASSUME NEW A \in SUBSET Ids, NEW n \in Int, n > MaxS
  PROVE  LeastFrom(A, n) = 0
<1>1. A \in SUBSET (Nat \ {0}) /\ \A v \in A : v < n
  BY Numbers DEF Ids
<1> QED
  BY <1>1, LeastFromNone

LEMMA NextNodeIs ==
  ASSUME NEW V \in SUBSET Ids, NEW n \in Asks
  PROVE  InRange(NextNode(V, n)) = LeastFrom(V, n)
<1>1. CASE n >= BvSize
  <2>1. NextNode(V, n) = 0 /\ n \in Int /\ n > MaxS
    BY <1>1, Numbers DEF NextNode
  <2>2. LeastFrom(V, n) = 0
    BY <2>1, NoneBeyond
  <2> QED
    BY <2>1, <2>2, Numbers DEF InRange
<1>2. CASE ~(n >= BvSize)
  <2>1. n \in 1 .. Sentinel /\ NextNode(V, n) = Succ(V, n)
    BY <1>2, Numbers DEF NextNode
  <2> QED
    BY <2>1, SuccIs
<1> QED
  BY <1>1, <1>2

LEMMA TriedIs ==
  ASSUME NEW V \in SUBSET Ids, NEW n \in 1 .. Sentinel
  PROVE  \A m : m \in Tried(V, n) <=> m \in n .. n + RunLength - 1 /\ m \in Ids \ V
<1> SUFFICES ASSUME NEW m \in n .. n + RunLength - 1
             PROVE  Succ(V, m) > m <=> m \in Ids \ V
  BY DEF Tried
<1>1. m \in Int /\ 1 <= m
  BY Numbers
<1>2. CASE m <= Sentinel
  <2>1. m \in 1 .. Sentinel
    BY <1>1, <1>2, Numbers
  <2>2. Succ(V, m) > m <=> m \notin BvNodes(V)
    BY <2>1, SuccIs
  <2> QED
    BY <2>1, <2>2, Numbers DEF BvNodes, Ids
<1>3. CASE ~(m <= Sentinel)
  <2>1. \A u \in BvNodes(V) : u \in Nat \ {0} /\ u < m
    BY <1>1, <1>3, Numbers DEF BvNodes, Ids
  <2>2. LeastFrom(BvNodes(V), m) = 0
    BY <1>1, <2>1, LeastFromNone
  <2>3. Succ(V, m) = BvSize
    BY <2>2 DEF Succ
  <2> QED
    BY <1>1, <1>3, <2>3, Numbers DEF Ids
<1> QED
  BY <1>2, <1>3

\* Least of a set of naturals passes over 0.
LEMMA LeastIs ==
  ASSUME NEW S \in SUBSET Nat
  PROVE  /\ Least(S) \in Nat /\ (Least(S) # 0 => Least(S) \in S)
         /\ Least(S) = 0 <=> S \subseteq {0}
         /\ \A v \in S : v # 0 => Least(S) <= v
<1> DEFINE T == S \ {0}
<1>1. T \in SUBSET (Nat \ {0})
  OBVIOUS
<1>2. Least(S) = LeastFrom(T, 1)
  <2> DEFINE A == {v \in S : 1 <= v}
             B == {v \in T : 1 <= v}
  <2>1. A = B
    OBVIOUS
  <2>2. Least(S) = IF A = {} THEN 0 ELSE CHOOSE v \in A : \A w \in A : v <= w
    BY DEF Least, LeastFrom
  <2>3. LeastFrom(T, 1) = IF B = {} THEN 0 ELSE CHOOSE v \in B : \A w \in B : v <= w
    BY DEF LeastFrom
  <2> HIDE DEF A, B
  <2> QED
    BY <2>1, <2>2, <2>3
<1> HIDE DEF T
<1>3. /\ LeastFrom(T, 1) = 0 <=> \A v \in T : v < 1
      /\ LeastFrom(T, 1) # 0 => /\ LeastFrom(T, 1) \in T
                                /\ \A v \in T : 1 <= v => LeastFrom(T, 1) <= v
  BY <1>1, LeastFromCorrect
<1> DEFINE u == LeastFrom(T, 1)
<1>4. u = 0 <=> T = {}
  BY <1>1, <1>3
<1>5. u # 0 => u \in T /\ \A v \in T : u <= v
  BY <1>1, <1>3
<1> HIDE DEF u
<1>6. u \in Nat
  <2>1. u = 0 \/ u \in T
    BY <1>5
  <2>2. \A v \in T : v \in Nat
    BY <1>1
  <2> QED
    BY <2>1, <2>2
<1>7. \A v : v \in T <=> v \in S /\ v # 0
  BY DEF T
<1>8. \A v \in S : v # 0 => u <= v
  BY <1>4, <1>5, <1>7
<1>9. u = 0 <=> S \subseteq {0}
  BY <1>4, <1>7
<1> QED
  BY <1>2, <1>5, <1>6, <1>7, <1>8, <1>9 DEF u

\* The members of a finite set are numbered by how many lie below them.
Below(S, b) == {a \in S : a < b}

LEMMA RanksDiffer ==
  ASSUME NEW S \in SUBSET Nat, IsFiniteSet(S), NEW a \in S, NEW b \in S, a < b
  PROVE  Cardinality(Below(S, a)) < Cardinality(Below(S, b))
<1>1. Below(S, a) \subseteq Below(S, b) /\ a \in Below(S, b) /\ a \notin Below(S, a)
  <2>1. \A x \in S : x \in Nat
    OBVIOUS
  <2>2. \A x \in S : x < a => x < b
    BY <2>1
  <2>3. ~(a < a)
    BY <2>1
  <2> QED
    BY <2>2, <2>3 DEF Below
<1>2. IsFiniteSet(Below(S, b))
  BY FS_Subset DEF Below
<1>3. IsFiniteSet(Below(S, a)) /\ Cardinality(Below(S, a)) <= Cardinality(Below(S, b))
      /\ (Cardinality(Below(S, a)) = Cardinality(Below(S, b)) => Below(S, a) = Below(S, b))
  BY <1>1, <1>2, FS_Subset
<1>4. Cardinality(Below(S, a)) \in Nat /\ Cardinality(Below(S, b)) \in Nat
  BY <1>2, <1>3, FS_CardinalityType
<1> QED
  BY <1>1, <1>3, <1>4

LEMMA RankOf ==
  ASSUME NEW S \in SUBSET Nat, IsFiniteSet(S), NEW b \in S
  PROVE  Cardinality(Below(S, b)) \in Nat /\ Cardinality(Below(S, b)) < Cardinality(S)
<1>1. Below(S, b) \subseteq S /\ b \notin Below(S, b)
  BY DEF Below
<1>2. IsFiniteSet(Below(S, b)) /\ Cardinality(Below(S, b)) <= Cardinality(S)
      /\ (Cardinality(Below(S, b)) = Cardinality(S) => Below(S, b) = S)
  BY <1>1, FS_Subset
<1>3. Cardinality(Below(S, b)) \in Nat /\ Cardinality(S) \in Nat
  BY <1>2, FS_CardinalityType
<1> QED
  BY <1>1, <1>2, <1>3

LEMMA RankHasMember ==
  ASSUME NEW S \in SUBSET Nat, IsFiniteSet(S), NEW r \in Nat, r < Cardinality(S)
  PROVE  \E b \in S : Cardinality(Below(S, b)) = r
<1> DEFINE n == Cardinality(S)
           Bad == {k \in Nat : k < n /\ ~\E b \in S : Cardinality(Below(S, b)) = k}
<1>1. n \in Nat
  BY FS_CardinalityType
<1> SUFFICES ASSUME Bad # {} PROVE FALSE
  OBVIOUS
<1>2. PICK k \in Bad : \A j \in Bad : k <= j
  <2>1. Bad \in SUBSET Nat
    OBVIOUS
  <2> HIDE DEF Bad
  <2> QED
    BY <2>1, NatHasLeast
<1>3. k \in Nat /\ k < n /\ ~\E b \in S : Cardinality(Below(S, b)) = k
  OBVIOUS
<1>4. CASE k = 0
  <2>1. S # {}
    BY <1>3, <1>4, FS_EmptySet
  <2>2. PICK b \in S : \A a \in S : b <= a
    BY <2>1, NatHasLeast
  <2>3. Below(S, b) = {}
    <3>1. \A a \in S : ~(a < b)
      BY <2>2
    <3> QED
      BY <3>1 DEF Below
  <2> QED
    BY <1>3, <1>4, <2>3, FS_EmptySet
<1>5. CASE k # 0
  <2>1. k - 1 \in Nat /\ k - 1 < n /\ k - 1 \notin Bad
    <3>1. k - 1 \in Nat /\ k - 1 < n /\ k - 1 < k
      BY <1>1, <1>3, <1>5
    <3> HIDE DEF Bad
    <3> QED
      BY <1>2, <1>3, <3>1
  <2>2. PICK b \in S : Cardinality(Below(S, b)) = k - 1
    BY <2>1
  <2> DEFINE Upto == Below(S, b) \cup {b}
  <2>3. Cardinality(Upto) = k
    <3>1. IsFiniteSet(Below(S, b)) /\ b \notin Below(S, b)
      BY FS_Subset DEF Below
    <3>2. Cardinality(Upto) = Cardinality(Below(S, b)) + 1
      BY <3>1, FS_AddElement
    <3> QED
      BY <1>3, <2>2, <3>2
  <2>4. Upto \subseteq S /\ \A a \in S : a \in Upto <=> a <= b
    BY DEF Below
  <2> HIDE DEF Upto
  <2>5. PICK x \in S : b < x /\ \A y \in S : b < y => x <= y
    <3> DEFINE Above == {y \in S : b < y}
    <3>1. Above # {}
      <4> SUFFICES ASSUME Above = {} PROVE FALSE
        OBVIOUS
      <4>1. \A a \in S : a <= b
        OBVIOUS
      <4>2. S = Upto
        BY <2>4, <4>1
      <4> QED
        BY <1>1, <1>3, <2>3, <4>2
    <3>2. Above \in SUBSET Nat
      OBVIOUS
    <3> HIDE DEF Above
    <3>3. PICK x \in Above : \A y \in Above : x <= y
      BY <3>1, <3>2, NatHasLeast
    <3> QED
      BY <3>3 DEF Above
  <2>6. Below(S, x) = Upto
    <3>1. \A a \in S : a < x <=> a <= b
      BY <2>5
    <3> QED
      BY <2>4, <3>1 DEF Below
  <2> QED
    BY <1>3, <2>3, <2>6
<1> QED
  BY <1>4, <1>5

\* The runs noted lie in the label, before the sentinel.
LEMMA RunsAre ==
  ASSUME NEW V \in SUBSET Ids
  PROVE  Runs(V) \in SUBSET Nat /\ IsFiniteSet(Runs(V)) /\ \A b \in Runs(V) : b \in V
<1>1. BvNodes(V) \subseteq 1 .. Sentinel /\ Sentinel \in Nat
  BY Numbers DEF BvNodes, Ids
<1>2. IsFiniteSet(1 .. Sentinel)
  BY <1>1, Numbers, FS_Interval
<1>3. Runs(V) \subseteq 1 .. Sentinel
  BY <1>1 DEF Runs
<1>4. \A b \in Runs(V) : b # Sentinel
  <2> SUFFICES ASSUME Sentinel \in Runs(V) PROVE FALSE
    OBVIOUS
  <2>1. NextZero(V, Sentinel) < Sentinel
    BY DEF Runs
  <2> DEFINE Z == {z \in Sentinel .. BvSize : z \notin BvNodes(V)}
  <2>2. Z \in SUBSET Nat /\ BvSize \in Z /\ \A z \in Z : Sentinel <= z
    BY <1>1, Numbers
  <2> HIDE DEF Z
  <2>3. Least(Z) \in Nat /\ (Least(Z) # 0 => Least(Z) \in Z) /\ (Least(Z) = 0 => BvSize = 0)
    BY <2>2, LeastIs
  <2>4. NextZero(V, Sentinel) = Least(Z)
    BY DEF NextZero, Z
  <2> QED
    BY <2>1, <2>2, <2>3, <2>4, Numbers
<1>5. \A b \in Runs(V) : b \in V
  BY <1>4 DEF Runs, BvNodes
<1> QED
  BY <1>1, <1>2, <1>3, <1>5, FS_Subset

\* The run of rank k is the one with k runs before it.
LEMMA Next0Is ==
  ASSUME NEW V \in SUBSET Ids, NEW w, NEW b \in Runs(V)
  PROVE  Next0(V, w, Cardinality(Below(Runs(V), b))) = NextZero(V, b)
<1> DEFINE S == Runs(V)
           k == Cardinality(Below(S, b))
           Here(x) == x \in S /\ Cardinality({a \in S : a < x}) = k
<1>1. S \in SUBSET Nat /\ IsFiniteSet(S)
  BY RunsAre
<1>2. k \in Nat /\ k < Cardinality(S) /\ Cardinality(S) \in Nat
  BY <1>1, RankOf, FS_CardinalityType
<1>3. \A x \in S : Cardinality({a \in S : a < x}) = k => x = b
  <2> SUFFICES ASSUME NEW x \in S, Cardinality(Below(S, x)) = k, x # b PROVE FALSE
    BY DEF Below
  <2>1. x \in Nat /\ b \in Nat
    BY <1>1
  <2>2. x < b \/ b < x
    BY <2>1
  <2>3. k < k
    <3> HIDE DEF S, k
    <3>1. x < b => Cardinality(Below(S, x)) < Cardinality(Below(S, b))
      BY <1>1, RanksDiffer DEF S
    <3>2. b < x => Cardinality(Below(S, b)) < Cardinality(Below(S, x))
      BY <1>1, RanksDiffer DEF S
    <3> QED
      BY <2>2, <3>1, <3>2 DEF k
  <2> QED
    BY <1>2, <2>3
<1>4. Cardinality({a \in S : a < b}) = k /\ b \in S
  BY DEF Below
<1> HIDE DEF k
<1>5. (CHOOSE x \in S : Cardinality({a \in S : a < x}) = k) = b
  BY <1>3, <1>4
<1>6. Next0(V, w, k) = NextZero(V, CHOOSE x \in S : Cardinality({a \in S : a < x}) = k)
  BY <1>2 DEF Next0
<1>7. Next0(V, w, k) = NextZero(V, b)
  BY <1>5, <1>6
<1> QED
  BY <1>7 DEF k

LEMMA ZeroTyped ==
  ASSUME NEW V \in SUBSET Ids, NEW b \in Nat
  PROVE  NextZero(V, b) \in Nat
<1>1. {z \in b .. BvSize : z \notin BvNodes(V)} \in SUBSET Nat
  OBVIOUS
<1> QED
  BY <1>1, LeastIs DEF NextZero

\* Whatever is looked up is a number.
LEMMA Next0Typed ==
  ASSUME NEW V \in SUBSET Ids, NEW w \in Nat, NEW k \in Int
  PROVE  Next0(V, w, k) \in Nat
<1> DEFINE S == Runs(V)
<1>1. S \in SUBSET Nat /\ IsFiniteSet(S) /\ Cardinality(S) \in Nat
  BY RunsAre, FS_CardinalityType
<1>2. CASE k < 0 \/ k >= Cardinality(S)
  BY <1>2 DEF Next0
<1>3. CASE ~(k < 0) /\ ~(k >= Cardinality(S))
  <2>1. k \in Nat /\ k < Cardinality(S)
    BY <1>1, <1>3
  <2> HIDE DEF S
  <2>2. PICK b \in S : Cardinality(Below(S, b)) = k
    BY <1>1, <2>1, RankHasMember
  <2>3. Next0(V, w, k) = NextZero(V, b) /\ b \in Nat
    BY <1>1, <2>2, Next0Is DEF S
  <2> QED
    BY <2>3, ZeroTyped
<1> QED
  BY <1>2, <1>3

LEMMA NextNegTyped ==
  ASSUME NEW V \in SUBSET Ids, NEW w \in Nat, NEW n \in Nat
  PROVE  NextNegNode(V, w, n) \in Nat
<1>1. Least(Tried(V, n)) \in Nat
  <2>1. Tried(V, n) \in SUBSET Nat
    BY Numbers DEF Tried
  <2> QED
    BY <2>1, LeastIs
<1>2. \A m : RankRuns(V, m) - 1 \in Int
  <2> SUFFICES ASSUME NEW m PROVE RankRuns(V, m) - 1 \in Int
    OBVIOUS
  <2> DEFINE S == {b \in Runs(V) \union {Sentinel} : b < m}
  <2>1. IsFiniteSet(Runs(V) \union {Sentinel})
    BY RunsAre, FS_AddElement
  <2>2. S \subseteq Runs(V) \union {Sentinel}
    OBVIOUS
  <2> HIDE DEF S
  <2>3. Cardinality(S) \in Nat
    BY <2>1, <2>2, FS_Subset, FS_CardinalityType
  <2>4. RankRuns(V, m) = Cardinality(S)
    BY DEF RankRuns, S
  <2> QED
    BY <2>3, <2>4
<1>3. Next0(V, w, RankRuns(V, n + RunLength) - 1) \in Nat
  BY <1>2, Next0Typed
<1> QED
  BY <1>1, <1>3 DEF NextNegNode

\* A run of tried ids that the last node does not end begins at a noted run, which is the
\* last one before its end.
LEMMA RunNoted ==
  ASSUME NEW V \in SUBSET Ids, NEW n \in 1 .. Sentinel, NEW z \in Ids \ V, n + RunLength <= z,
         \A m \in n .. z - 1 : m \in V
  PROVE  \E b \in Runs(V) : /\ NextZero(V, b) = z
                            /\ RankRuns(V, n + RunLength) = Cardinality(Below(Runs(V), b)) + 1
<1>1. /\ n \in Nat /\ n # 0 /\ z \in Nat /\ z <= MaxS /\ n < z /\ n + RunLength \in Nat
      /\ \A v \in V : v \in Nat /\ v # 0
  BY Numbers DEF Ids
\* the node after the last id before n that is not in the label
<1> DEFINE Begin(b) == b \in 1 .. n /\ \A m \in b .. z - 1 : m \in V
<1>2. PICK b \in {x \in Nat : Begin(x)} : \A x \in {y \in Nat : Begin(y)} : b <= x
  <2>1. n \in {x \in Nat : Begin(x)}
    BY <1>1
  <2>2. {x \in Nat : Begin(x)} \in SUBSET Nat
    OBVIOUS
  <2> HIDE DEF Begin
  <2> QED
    BY <2>1, <2>2, NatHasLeast
<1>3. b \in Nat /\ b # 0 /\ b <= n /\ \A m \in b .. z - 1 : m \in V
  BY <1>2
<1>4. b - 1 \notin V
  <2> SUFFICES ASSUME b - 1 \in V PROVE FALSE
    OBVIOUS
  <2>1. b - 1 \in Nat /\ b - 1 # 0
    BY <1>1
  <2>2. \A m \in b - 1 .. z - 1 : m = b - 1 \/ m \in b .. z - 1
    BY <1>1, <1>3
  <2>3. Begin(b - 1)
    BY <1>1, <1>3, <2>1, <2>2
  <2>4. b <= b - 1
    BY <1>2, <2>1, <2>3
  <2> QED
    BY <1>3, <2>4
<1> HIDE DEF Begin
<1>5. NextZero(V, b) = z
  <2> DEFINE Z == {y \in b .. BvSize : y \notin BvNodes(V)}
  <2>1. z \in Z
    BY <1>1, <1>3, Numbers DEF BvNodes, Ids
  <2>2. \A y \in Z : z <= y
    <3> SUFFICES ASSUME NEW y \in b .. BvSize, y \notin V, ~(z <= y) PROVE FALSE
      BY DEF BvNodes
    <3>1. y \in b .. z - 1
      BY <1>1, <1>3
    <3> QED
      BY <1>3, <3>1
  <2>3. Z \in SUBSET Nat
    BY <1>3
  <2> HIDE DEF Z
  <2>4. Least(Z) \in Nat /\ Least(Z) # 0 /\ Least(Z) \in Z /\ Least(Z) <= z
    BY <1>1, <2>1, <2>3, LeastIs
  <2>5. Least(Z) = z
    BY <1>1, <2>2, <2>4
  <2> QED
    BY <2>5 DEF NextZero, Z
<1>6. b \in Runs(V)
  <2>1. b \in V
    BY <1>1, <1>3
  <2>2. b .. b + RunLength - 1 \subseteq BvNodes(V)
    <3> SUFFICES ASSUME NEW m \in b .. b + RunLength - 1 PROVE m \in V
      BY DEF BvNodes
    <3>1. m \in b .. z - 1
      BY <1>1, <1>3, Numbers
    <3> QED
      BY <1>3, <3>1
  <2>3. z < Sentinel
    BY <1>1, Numbers
  <2> QED
    BY <1>4, <1>5, <2>1, <2>2, <2>3 DEF Runs, BvNodes
<1> DEFINE S == Runs(V)
<1>7. S \in SUBSET Nat /\ IsFiniteSet(S) /\ \A a \in S : a - 1 \notin V
  BY RunsAre DEF Runs
<1>8. {a \in S \union {Sentinel} : a < n + RunLength} = Below(S, b) \cup {b}
  <2>1. ~(Sentinel < n + RunLength)
    BY <1>1, Numbers
  <2>2. ASSUME NEW a \in S PROVE a < n + RunLength <=> a < b \/ a = b
    <3>1. a \in Nat
      BY <1>7
    <3>2. a <= b => a < n + RunLength
      BY <1>1, <1>3, <3>1, Numbers
    <3>3. ASSUME a < n + RunLength, b < a PROVE FALSE
      <4>1. a - 1 \in b .. z - 1
        BY <1>1, <1>3, <3>1, <3>3
      <4> QED
        BY <1>3, <1>7, <4>1
    <3> QED
      BY <1>3, <3>1, <3>2, <3>3
  <2> HIDE DEF S
  <2>3. b \in S
    BY <1>6 DEF S
  <2> QED
    BY <2>1, <2>2, <2>3 DEF Below
<1>9. Cardinality(Below(S, b) \cup {b}) = Cardinality(Below(S, b)) + 1
  <2> HIDE DEF S
  <2>1. IsFiniteSet(Below(S, b))
    BY <1>7, FS_Subset DEF Below
  <2>2. b \notin Below(S, b)
    BY <1>3 DEF Below
  <2> QED
    BY <2>1, <2>2, FS_AddElement
<1> QED
  BY <1>5, <1>6, <1>8, <1>9 DEF RankRuns

\* Leaving a label finds the least node from a bound on that is not in it, if the last node
\* is in no run that is noted or long enough to be.
LEMMA NextNegNodeIs ==
  ASSUME NEW V \in SUBSET Ids, LeavesTheEnd(V), NEW w \in Nat, NEW n \in Asks
  PROVE  InRange(NextNegNode(V, w, n)) = LeastFrom(Ids \ V, n)
<1> DEFINE A == Ids \ V
           T == Tried(V, n)
<1>1. A \in SUBSET (Nat \ {0}) /\ A \in SUBSET Ids /\ n \in Nat /\ n # 0 /\ \A v \in A : v <= MaxS
  BY Numbers DEF Ids
<1>2. CASE n >= BvSize
  <2>1. NextNegNode(V, w, n) = 0 /\ n > MaxS
    BY <1>2, Numbers DEF NextNegNode
  <2>2. LeastFrom(A, n) = 0
    BY <1>1, <2>1, NoneBeyond
  <2> QED
    BY <2>1, <2>2, Numbers DEF InRange
<1>3. CASE ~(n >= BvSize)
  <2>1. n \in 1 .. Sentinel
    BY <1>1, <1>3, Numbers
  <2>2. \A m : m \in T <=> m \in n .. n + RunLength - 1 /\ m \in A
    BY <2>1, TriedIs
  <2> HIDE DEF T
  <2>3. CASE T # {}
    <3>1. NextNegNode(V, w, n) = Least(T)
      BY <1>3, <2>3 DEF NextNegNode, T
    <3>2. T \in SUBSET Nat /\ \A v \in T : v # 0
      BY <1>1, <2>2
    <3>3. Least(T) \in T /\ \A v \in T : Least(T) <= v
      <4>1. ~(T \subseteq {0})
        BY <2>3, <3>2
      <4>2. Least(T) # 0
        BY <3>2, <4>1, LeastIs
      <4> QED
        BY <3>2, <4>2, LeastIs
    <3> DEFINE u == Least(T)
    <3>4. u \in A /\ n <= u /\ u <= n + RunLength - 1 /\ u \in Nat
      BY <1>1, <2>2, <3>3
    <3>5. \A v \in A : n <= v => u <= v
      <4> SUFFICES ASSUME NEW v \in A, n <= v PROVE u <= v
        OBVIOUS
      <4>1. v \in Nat
        BY <1>1
      <4>2. CASE v <= n + RunLength - 1
        <5>1. v \in T
          BY <1>1, <2>2, <4>1, <4>2
        <5> QED
          BY <3>3, <5>1
      <4>3. CASE ~(v <= n + RunLength - 1)
        BY <1>1, <3>4, <4>1, <4>3, Numbers
      <4> QED
        BY <4>2, <4>3
    <3> HIDE DEF u
    <3>6. LeastFrom(A, n) = u
      BY <1>1, <3>4, <3>5, LeastFromIs
    <3>7. InRange(u) = u
      BY <1>1, <3>4, Numbers DEF InRange
    <3> QED
      BY <3>1, <3>6, <3>7 DEF u
  <2>4. CASE T = {}
    <3>1. NextNegNode(V, w, n) = Next0(V, w, RankRuns(V, n + RunLength) - 1)
      BY <1>3, <2>4 DEF NextNegNode, T
    <3>2. ASSUME NEW m \in n .. n + RunLength - 1, m <= MaxS PROVE m \in V
      <4>1. m \notin A
        BY <2>2, <2>4, <3>2
      <4>2. m \in Ids
        BY <1>1, <3>2 DEF Ids
      <4> QED
        BY <4>1, <4>2
    <3>3. CASE n + RunLength - 1 > MaxS
      <4>1. LeastFrom(A, n) = 0
        <5>1. ASSUME NEW v \in A PROVE v < n
          <6>1. v \in Nat /\ v <= MaxS /\ v \notin V
            BY <1>1
          <6>2. n <= v => v \in n .. n + RunLength - 1
            BY <1>1, <3>3, <6>1, Numbers
          <6> QED
            BY <1>1, <3>2, <6>1, <6>2
        <5> QED
          BY <1>1, <5>1, LeastFromNone
      <4>2. RankRuns(V, n + RunLength) = Cardinality(Runs(V)) + 1
        <5>1. /\ Runs(V) \in SUBSET Nat /\ IsFiniteSet(Runs(V)) /\ Sentinel \notin Runs(V)
              /\ \A b \in Runs(V) : b <= MaxS
          <6>1. Sentinel \notin V /\ \A b \in V : b <= MaxS
            BY Numbers DEF Ids
          <6> QED
            BY <6>1, RunsAre
        <5>2. Sentinel < n + RunLength /\ \A b \in Runs(V) : b < n + RunLength
          BY <1>1, <3>3, <5>1, Numbers
        <5>3. {b \in Runs(V) \union {Sentinel} : b < n + RunLength} = Runs(V) \cup {Sentinel}
          BY <5>2
        <5>4. Cardinality(Runs(V) \cup {Sentinel}) = Cardinality(Runs(V)) + 1
          BY <5>1, FS_AddElement
        <5> QED
          BY <5>3, <5>4 DEF RankRuns
      <4>3. Next0(V, w, RankRuns(V, n + RunLength) - 1) = 0
        <5>1. Cardinality(Runs(V)) \in Nat
          BY RunsAre, FS_CardinalityType
        <5> QED
          BY <4>2, <5>1 DEF Next0
      <4> QED
        BY <3>1, <4>1, <4>3, Numbers DEF InRange
    <3>4. CASE ~(n + RunLength - 1 > MaxS)
      <4>1. A # {} /\ \E v \in A : n <= v
        <5> SUFFICES ASSUME \A v \in A : ~(n <= v) PROVE FALSE
          OBVIOUS
        <5>1. ASSUME NEW m \in MaxS - RunLength + 1 .. MaxS PROVE m \in V
          <6>1. m \in Ids /\ n <= m
            BY <1>1, <3>4, Numbers DEF Ids
          <6> QED
            BY <6>1
        <5> QED
          BY <5>1 DEF LeavesTheEnd
      <4> DEFINE z == LeastFrom(A, n)
      <4>2. z \in A /\ n <= z /\ \A v \in A : n <= v => z <= v
        <5>1. ~\A v \in A : v < n
          BY <1>1, <4>1
        <5>2. z # 0
          BY <1>1, <5>1, LeastFromCorrect
        <5> QED
          BY <1>1, <5>2, LeastFromCorrect
      <4> HIDE DEF z
      <4>3. z \in Nat /\ z <= MaxS /\ z \notin V
        BY <1>1, <4>2
      <4>4. n + RunLength <= z
        <5> SUFFICES ASSUME ~(n + RunLength <= z) PROVE FALSE
          OBVIOUS
        <5>1. z \in n .. n + RunLength - 1
          BY <1>1, <4>2, <4>3, Numbers
        <5> QED
          BY <3>2, <4>3, <5>1
      <4>5. ASSUME NEW m \in n .. z - 1 PROVE m \in V
        <5>1. m \in Ids /\ n <= m /\ m < z
          BY <1>1, <4>3, Numbers DEF Ids
        <5>2. m \notin A
          BY <4>2, <4>3, <5>1 DEF Ids
        <5> QED
          BY <5>1, <5>2
      <4>6. PICK b \in Runs(V) :
              /\ NextZero(V, b) = z
              /\ RankRuns(V, n + RunLength) = Cardinality(Below(Runs(V), b)) + 1
        BY <2>1, <4>2, <4>4, <4>5, RunNoted
      <4>7. Next0(V, w, RankRuns(V, n + RunLength) - 1) = z
        <5>1. Cardinality(Below(Runs(V), b)) \in Nat
          BY RunsAre, RankOf
        <5>2. RankRuns(V, n + RunLength) - 1 = Cardinality(Below(Runs(V), b))
          BY <4>6, <5>1
        <5> QED
          BY <4>6, <5>2, Next0Is
      <4>8. InRange(z) = z
        BY <4>3, Numbers DEF InRange
      <4> QED
        BY <3>1, <4>7, <4>8 DEF z
    <3> QED
      BY <3>3, <3>4
  <2> QED
    BY <2>3, <2>4
<1> QED
  BY <1>2, <1>3

-----------------------------------------------------------------------------
(***************************************************************************)
(* The loop of a conjunction and the recursion over the parts of an        *)
(* expression have results, and what they answer is typed.                 *)
(***************************************************************************)
\* What two loops have agrees when it does before the first turn, and after a turn if it did
\* before it.
LEMMA NoFirstDifference ==
  ASSUME NEW n \in Nat, NEW f, NEW g, f[0] = g[0], \A k \in 1 .. n : f[k - 1] = g[k - 1] => f[k] = g[k]
  PROVE  f[n] = g[n]
<1> DEFINE Bad == {k \in 0 .. n : f[k] # g[k]}
<1> SUFFICES ASSUME Bad # {} PROVE FALSE
  OBVIOUS
<1>1. PICK k \in Bad : \A j \in Bad : k <= j
  <2>1. Bad \in SUBSET Nat
    OBVIOUS
  <2> HIDE DEF Bad
  <2> QED
    BY <2>1, NatHasLeast
<1>2. k \in 0 .. n /\ f[k] # g[k] /\ k # 0
  OBVIOUS
<1>3. k \in 1 .. n /\ k - 1 \in 0 .. n /\ k - 1 < k
  BY <1>2
<1>4. k - 1 \notin Bad
  <2> HIDE DEF Bad
  <2> QED
    BY <1>1, <1>2, <1>3
<1>5. f[k - 1] = g[k - 1]
  BY <1>3, <1>4
<1> QED
  BY <1>2, <1>3, <1>5

\* The part after the last one is the first.
LEMMA NextPart ==
  ASSUME NEW N \in Nat \ {0}, NEW k \in 0 .. N - 1
  PROVE  (k + 1) % N = IF k + 1 = N THEN 0 ELSE k + 1
OBVIOUS

\* A conjunction of parts that answer values.
Answers(args, of) ==
  /\ Len(args) \in Nat \ {0}
  /\ \A k \in 1 .. Len(args) : of[args[k]] \in [Values -> Values]

LEMMA TurnTyped ==
  ASSUME NEW args, NEW of, Answers(args, of), NEW t \in Locals(args), ~Ended(args, t)
  PROVE  /\ NextTurn(args, of, t) \in Locals(args)
         /\ NextTurn(args, of, t).ans = of[args[t.i + 1]][t.ans]
         /\ NextTurn(args, of, t).ok = IF of[args[t.i + 1]][t.ans] = t.ans THEN t.ok + 1 ELSE 1
         /\ NextTurn(args, of, t).i = IF t.i + 1 = Len(args) THEN 0 ELSE t.i + 1
<1> DEFINE N == Len(args)
           aux == of[args[t.i + 1]][t.ans]
           ok1 == IF aux = t.ans THEN t.ok + 1 ELSE 1
           i1 == (t.i + 1) % N
<1>1. /\ N \in Nat \ {0} /\ t.ans \in Values /\ t.ok \in 0 .. N /\ t.i \in 0 .. N - 1
      /\ t.ok # N /\ t.i + 1 \in 1 .. N
  BY DEF Answers, Locals, Ended
<1>2. aux \in Values
  BY <1>1 DEF Answers
<1>3. ok1 \in 0 .. N
  <2> HIDE DEF aux
  <2> QED
    BY <1>1
<1>4. i1 = (IF t.i + 1 = N THEN 0 ELSE t.i + 1) /\ i1 \in 0 .. N - 1
  <2> HIDE DEF N
  <2> QED
    BY <1>1, NextPart
<1>5. NextTurn(args, of, t) = [ans |-> aux, ok |-> ok1, i |-> i1]
  BY DEF NextTurn, Asked
<1> HIDE DEF aux, ok1, i1
<1>6. [ans |-> aux, ok |-> ok1, i |-> i1] \in Locals(args)
  BY <1>2, <1>3, <1>4 DEF Locals
<1> QED
  BY <1>4, <1>5, <1>6 DEF aux, ok1

\* What the loop answers in at most k turns, from each locals on.
IsLoop(args, of, h) ==
  h = [k \in 0 .. MostTurns(args) |->
        [t \in Locals(args) |->
           IF k = 0 \/ Ended(args, t) THEN t.ans ELSE h[k - 1][NextTurn(args, of, t)]]]

LEMMA LoopExists ==
  ASSUME NEW args, NEW of, Answers(args, of)
  PROVE  \E h \in [0 .. MostTurns(args) -> [Locals(args) -> Values]] : IsLoop(args, of, h)
<1> DEFINE M == MostTurns(args)
           S == [Locals(args) -> Values]
           base == [t \in Locals(args) |-> t.ans]
           turn(x) == [t \in Locals(args) |->
                         IF Ended(args, t) THEN t.ans ELSE x[NextTurn(args, of, t)]]
           next == [p \in (1 .. M) \X S |-> turn(p[2])]
<1>1. M \in Nat
  BY Numbers DEF MostTurns, Answers
<1>2. \A t \in Locals(args) : t.ans \in Values
  BY DEF Locals
<1>3. base \in S
  BY <1>2
<1>4. ASSUME NEW x \in S PROVE turn(x) \in S
  <2>1. ASSUME NEW t \in Locals(args), ~Ended(args, t) PROVE x[NextTurn(args, of, t)] \in Values
    BY <2>1, TurnTyped
  <2> QED
    BY <1>2, <2>1
<1>5. next \in [(1 .. M) \X S -> S] /\ \A k \in 1 .. M, x \in S : next[<<k, x>>] = turn(x)
  <2> HIDE DEF turn, S
  <2>1. \A p \in (1 .. M) \X S : p[2] \in S
    OBVIOUS
  <2> QED
    BY <1>4, <2>1
<1> HIDE DEF M, S, base, next
<1>6. PICK h : LoopIs(h, M, S, base, next)
  BY <1>1, <1>3, <1>5, LoopHasResult
<1>7. h \in [0 .. M -> S] /\ h[0] = base /\ \A k \in 1 .. M : h[k] = turn(h[k - 1])
  <2>1. h \in [0 .. M -> S] /\ h[0] = base /\ \A k \in 1 .. M : h[k] = next[<<k, h[k - 1]>>]
    BY <1>6 DEF LoopIs
  <2>2. \A k \in 1 .. M : h[k - 1] \in S
    BY <1>1, <2>1
  <2> HIDE DEF turn
  <2> QED
    BY <1>5, <2>1, <2>2
<1> DEFINE row(k) == [t \in Locals(args) |->
                        IF k = 0 \/ Ended(args, t) THEN t.ans ELSE h[k - 1][NextTurn(args, of, t)]]
<1>8. ASSUME NEW k \in 0 .. M PROVE h[k] = row(k)
  <2>1. CASE k = 0
    <3>1. base = row(0)
      BY DEF base
    <3> QED
      BY <1>7, <2>1, <3>1
  <2>2. CASE k # 0
    <3>1. h[k] = turn(h[k - 1])
      <4>1. k \in 1 .. M
        BY <1>1, <2>2
      <4> HIDE DEF turn, row
      <4> QED
        BY <1>7, <4>1
    <3>2. turn(h[k - 1]) = row(k)
      BY <2>2
    <3> QED
      BY <3>1, <3>2
  <2> QED
    BY <2>1, <2>2
<1>9. h = [k \in 0 .. M |-> row(k)]
  <2> HIDE DEF row
  <2> QED
    BY <1>7, <1>8
<1> QED
  BY <1>7, <1>9 DEF IsLoop, M, S

\* It depends on the answers of the parts only.
LEMMA LoopsAgree ==
  ASSUME NEW args, NEW of, Answers(args, of), NEW of2, \A k \in 1 .. Len(args) : of2[args[k]] = of[args[k]],
         NEW h, IsLoop(args, of, h), NEW g, IsLoop(args, of2, g)
  PROVE  h[MostTurns(args)] = g[MostTurns(args)]
<1>1. MostTurns(args) \in Nat
  BY Numbers DEF MostTurns, Answers
<1>2. ASSUME NEW t \in Locals(args) PROVE NextTurn(args, of, t) = NextTurn(args, of2, t)
  <2>1. t.i + 1 \in 1 .. Len(args)
    BY DEF Locals, Answers
  <2> QED
    BY <2>1 DEF NextTurn, Asked
<1> DEFINE row(f, k) == [t \in Locals(args) |->
                           IF k = 0 \/ Ended(args, t) THEN t.ans ELSE f[k - 1][NextTurn(args, of, t)]]
<1>3. ASSUME NEW k \in 0 .. MostTurns(args) PROVE h[k] = row(h, k) /\ g[k] = row(g, k)
  <2>1. h[k] = row(h, k)
    BY DEF IsLoop
  <2>2. g[k] = [t \in Locals(args) |->
                  IF k = 0 \/ Ended(args, t) THEN t.ans ELSE g[k - 1][NextTurn(args, of2, t)]]
    BY DEF IsLoop
  <2> QED
    BY <1>2, <2>1, <2>2
<1>4. h[0] = g[0]
  <2>1. 0 \in 0 .. MostTurns(args) /\ row(h, 0) = row(g, 0)
    BY <1>1
  <2> HIDE DEF row
  <2> QED
    BY <1>3, <2>1
<1>5. ASSUME NEW k \in 1 .. MostTurns(args), h[k - 1] = g[k - 1] PROVE h[k] = g[k]
  <2>1. k \in 0 .. MostTurns(args) /\ row(h, k) = row(g, k)
    BY <1>1, <1>5
  <2> HIDE DEF row
  <2> QED
    BY <1>3, <2>1
<1> QED
  BY <1>1, <1>4, <1>5, NoFirstDifference

First(from) == [ans |-> from, ok |-> 0, i |-> 0]

LEMMA ConjunctionIs ==
  ASSUME NEW args, NEW of, Answers(args, of)
  PROVE  \E h \in [0 .. MostTurns(args) -> [Locals(args) -> Values]] :
           /\ IsLoop(args, of, h)
           /\ \A from : Conjunction(args, of, from) = h[MostTurns(args)][First(from)]
<1>1. PICK h \in [0 .. MostTurns(args) -> [Locals(args) -> Values]] : IsLoop(args, of, h)
  BY LoopExists
<1> DEFINE loop == CHOOSE f : f = [k \in 0 .. MostTurns(args) |->
                                    [t \in Locals(args) |->
                                       IF k = 0 \/ Ended(args, t) THEN t.ans
                                       ELSE f[k - 1][NextTurn(args, of, t)]]]
<1>2. \A from : Conjunction(args, of, from) = loop[MostTurns(args)][First(from)]
  BY DEF Conjunction, First
<1>3. IsLoop(args, of, loop)
  BY <1>1 DEF IsLoop
<1> HIDE DEF loop
<1>4. h[MostTurns(args)] = loop[MostTurns(args)]
  BY <1>1, <1>3, LoopsAgree
<1> QED
  BY <1>1, <1>2, <1>4

LEMMA FirstTyped ==
  ASSUME NEW args, Len(args) \in Nat \ {0}, NEW from \in Values
  PROVE  First(from) \in Locals(args)
BY DEF First, Locals

LEMMA ConjunctionTyped ==
  ASSUME NEW args, NEW of, Answers(args, of), NEW from \in Values
  PROVE  Conjunction(args, of, from) \in Values
<1>1. PICK h \in [0 .. MostTurns(args) -> [Locals(args) -> Values]] :
        \A n : Conjunction(args, of, n) = h[MostTurns(args)][First(n)]
  BY ConjunctionIs
<1>2. First(from) \in Locals(args) /\ MostTurns(args) \in 0 .. MostTurns(args)
  BY FirstTyped, Numbers DEF Answers, MostTurns
<1>3. h[MostTurns(args)] \in [Locals(args) -> Values]
  BY <1>2
<1> QED
  BY <1>1, <1>2, <1>3

LEMMA ConjunctionReads ==
  ASSUME NEW args, NEW of, Answers(args, of), NEW of2, \A k \in 1 .. Len(args) : of2[args[k]] = of[args[k]],
         NEW from
  PROVE  Conjunction(args, of, from) = Conjunction(args, of2, from)
<1>1. Answers(args, of2)
  BY DEF Answers
<1>2. PICK h : /\ IsLoop(args, of, h)
               /\ \A n : Conjunction(args, of, n) = h[MostTurns(args)][First(n)]
  BY ConjunctionIs
<1>3. PICK g : /\ IsLoop(args, of2, g)
               /\ \A n : Conjunction(args, of2, n) = g[MostTurns(args)][First(n)]
  BY <1>1, ConjunctionIs
<1>4. h[MostTurns(args)] = g[MostTurns(args)]
  BY <1>2, <1>3, LoopsAgree
<1> QED
  BY <1>2, <1>3, <1>4

LEMMA ExprIs ==
  ASSUME NEW e \in Exprs
  PROVE  /\ e.type \in {"LAB", "NEG", "OR", "AND"} /\ Parts(e) \subseteq Exprs
         /\ e.type \in {"LAB", "NEG"} => \A L \in LabelSets : /\ e.label \in DOMAIN L
                                                             /\ L[e.label] \in SUBSET Ids
         /\ e.type \in {"OR", "AND"} =>
              /\ Len(e.args) \in Nat \ {0} /\ DOMAIN e.args = 1 .. Len(e.args)
              /\ Parts(e) = {e.args[k] : k \in 1 .. Len(e.args)}
<1>1. CASE e.type \in {"LAB", "NEG"}
  <2>1. \A L \in LabelSets : e.label \in DOMAIN L
    BY <1>1, ExprAssumption
  <2>2. ASSUME NEW L \in LabelSets PROVE L[e.label] \in SUBSET Ids
    <3>1. L \in Seq(SUBSET Ids)
      BY NodesAssumption DEF Ids
    <3> QED
      BY <2>1, <3>1
  <2> QED
    BY <1>1, <2>1, <2>2 DEF Parts
<1>2. CASE ~(e.type \in {"LAB", "NEG"})
  <2>1. e.type \in {"OR", "AND"} /\ e.args \in Seq(Exprs) /\ e.args # <<>>
    BY <1>2, ExprAssumption
  <2> DEFINE args == e.args
  <2>2. Parts(e) = {args[k] : k \in DOMAIN args}
    BY <2>1 DEF Parts
  <2>3. args \in Seq(Exprs) /\ args # <<>>
    BY <2>1
  <2> HIDE DEF args
  <2>4. Len(args) \in Nat \ {0} /\ DOMAIN args = 1 .. Len(args) /\ \A k \in DOMAIN args : args[k] \in Exprs
    BY <2>3
  <2> QED
    BY <1>2, <2>1, <2>2, <2>4 DEF args
<1> QED
  BY <1>1, <1>2

\* What the parts of an expression answer, and those of a conjunction.
LEMMA PartsAnswer ==
  ASSUME NEW e \in Exprs, e.type \in {"OR", "AND"}, NEW of,
         \A d \in Parts(e) : of[d] \in [Values -> Values]
  PROVE  Answers(e.args, of)
BY ExprIs DEF Answers

LEMMA InRangeTyped ==
  ASSUME NEW n \in Nat
  PROVE  InRange(n) \in 0 .. MaxS /\ InRange(n) \in Values
BY Numbers DEF InRange, Values

LEMMA OrIs ==
  ASSUME NEW args, NEW of, Answers(args, of), NEW n \in Values,
         NEW S, S = {AllOnes} \union {of[args[k]][n] : k \in 1 .. Len(args)}
  PROVE  S \in SUBSET Nat /\ S \subseteq Values /\ Least(S) \in Values
<1>1. Values \subseteq Nat /\ AllOnes \in Values /\ 0 \in Values
  BY Numbers DEF Values
<1>2. \A k \in 1 .. Len(args) : of[args[k]][n] \in Values
  BY DEF Answers
<1>3. S \subseteq Values
  BY <1>1, <1>2
<1>4. S \in SUBSET Nat
  BY <1>1, <1>3
<1>5. Least(S) \in Values
  BY <1>1, <1>3, <1>4, LeastIs
<1> QED
  BY <1>3, <1>4, <1>5

LEMMA NextOfTyped ==
  ASSUME NEW L \in LabelSets, NEW w \in Strays, NEW e \in Exprs, NEW of,
         \A d \in Parts(e) : of[d] \in [Values -> Values], NEW n \in Values
  PROVE  NextOf(L, w, e, of, n) \in Values
<1>1. n \in Nat /\ w \in Nat
  BY Numbers, NodesAssumption DEF Values
<1>2. CASE e.type = "LAB"
  <2>1. L[e.label] \in SUBSET Ids
    BY <1>2, ExprIs
  <2>2. InRange(NextNode(L[e.label], n)) \in Values
    <3>1. CASE n = 0
      <4> DEFINE B == BvNodes(L[e.label])
      <4>1. B \in SUBSET (Nat \ {0})
        BY <2>1, Numbers DEF BvNodes, Ids
      <4>2. LeastFrom(B, 0) \in Nat
        <5> HIDE DEF B
        <5>1. LeastFrom(B, 0) = 0 \/ LeastFrom(B, 0) \in B
          BY <4>1, LeastFromCorrect
        <5>2. \A b \in B : b \in Nat
          BY <4>1
        <5> QED
          BY <5>1, <5>2
      <4>3. NextNode(L[e.label], 0) \in Nat
        BY <4>2, Numbers DEF NextNode, Succ
      <4> QED
        BY <3>1, <4>3, InRangeTyped
    <3>2. CASE n # 0
      <4>1. n \in Asks
        BY <3>2 DEF Asks
      <4>2. InRange(NextNode(L[e.label], n)) = LeastFrom(L[e.label], n)
        BY <2>1, <4>1, NextNodeIs
      <4> DEFINE V == L[e.label]
      <4>3. V \in SUBSET (Nat \ {0}) /\ V \subseteq Values
        BY <2>1, Numbers DEF Ids, Values
      <4> HIDE DEF V
      <4>4. LeastFrom(V, n) = 0 \/ LeastFrom(V, n) \in V
        BY <1>1, <4>3, LeastFromCorrect
      <4>5. 0 \in Values
        BY Numbers DEF Values
      <4> QED
        BY <4>2, <4>3, <4>4, <4>5 DEF V
    <3> QED
      BY <3>1, <3>2
  <2> QED
    BY <1>2, <2>2 DEF NextOf
<1>3. CASE e.type = "NEG"
  <2>1. L[e.label] \in SUBSET Ids
    BY <1>3, ExprIs
  <2>2. NextNegNode(L[e.label], w, n) \in Nat
    BY <1>1, <2>1, NextNegTyped
  <2> QED
    BY <1>3, <2>2, InRangeTyped DEF NextOf
<1>4. CASE e.type = "OR"
  <2>1. Answers(e.args, of) /\ DOMAIN e.args = 1 .. Len(e.args)
    BY <1>4, ExprIs, PartsAnswer
  <2>2. NextOf(L, w, e, of, n) = Least({AllOnes} \union {of[e.args[k]][n] : k \in 1 .. Len(e.args)})
    BY <1>4, <2>1 DEF NextOf
  <2> QED
    BY <2>1, <2>2, OrIs
<1>5. CASE e.type = "AND"
  <2>1. Answers(e.args, of)
    BY <1>5, PartsAnswer
  <2>2. NextOf(L, w, e, of, n) = Conjunction(e.args, of, n)
    BY <1>5 DEF NextOf
  <2> QED
    BY <2>1, <2>2, ConjunctionTyped
<1> QED
  BY <1>2, <1>3, <1>4, <1>5, ExprIs

LEMMA NextOfReads ==
  ASSUME NEW L, NEW w, NEW e \in Exprs, NEW of, \A d \in Parts(e) : of[d] \in [Values -> Values],
         NEW of2, \A d \in Parts(e) : of2[d] = of[d], NEW n
  PROVE  NextOf(L, w, e, of2, n) = NextOf(L, w, e, of, n)
<1>1. CASE e.type = "LAB"
  BY <1>1 DEF NextOf
<1>2. CASE e.type = "NEG"
  BY <1>2 DEF NextOf
<1>3. ASSUME e.type \in {"OR", "AND"}
      PROVE  DOMAIN e.args = 1 .. Len(e.args) /\ \A k \in 1 .. Len(e.args) : of2[e.args[k]] = of[e.args[k]]
  BY <1>3, ExprIs
<1>4. CASE e.type = "OR"
  <2>1. DOMAIN e.args = 1 .. Len(e.args) /\ \A k \in 1 .. Len(e.args) : of2[e.args[k]] = of[e.args[k]]
    BY <1>3, <1>4
  <2>2. {of2[e.args[k]][n] : k \in DOMAIN e.args} = {of[e.args[k]][n] : k \in DOMAIN e.args}
    BY <2>1
  <2> QED
    BY <1>4, <2>2 DEF NextOf
<1>5. CASE e.type = "AND"
  <2>1. \A k \in 1 .. Len(e.args) : of2[e.args[k]] = of[e.args[k]]
    BY <1>3, <1>5
  <2>2. Answers(e.args, of)
    BY <1>5, PartsAnswer
  <2>3. Conjunction(e.args, of, n) = Conjunction(e.args, of2, n)
    BY <2>1, <2>2, ConjunctionReads
  <2> QED
    BY <1>5, <2>3 DEF NextOf
<1> QED
  BY <1>1, <1>2, <1>4, <1>5, ExprIs

\* What holds of an expression whenever it holds of its parts holds of all: they are trees.
LEMMA NoneIsWrong ==
  ASSUME NEW W \in SUBSET Exprs, \A e \in W : Parts(e) \cap W # {}
  PROVE  W = {}
BY ExprAssumption

\* The answers of all expressions, by recursion over their parts.
GivesAnswers(h, L, w) == \A e \in Exprs : h[e] = [n \in Values |-> NextOf(L, w, e, h, n)]

LEMMA AnswersExist ==
  ASSUME NEW L \in LabelSets, NEW w \in Strays
  PROVE  \E h \in [Exprs -> [Values -> Values]] : GivesAnswers(h, L, w)
<1> DEFINE S == [Values -> Values]
           parts == [e \in Exprs |-> Parts(e)]
           row(e, f) == [n \in Values |-> NextOf(L, w, e, f, n)]
           step == [p \in Exprs \X [Exprs -> S] |-> row(p[1], p[2])]
<1>1. \A e \in Exprs : parts[e] = Parts(e)
  OBVIOUS
<1>2. ASSUME NEW e \in Exprs, NEW f \in [Exprs -> S] PROVE row(e, f) \in S
  <2>1. \A d \in Parts(e) : f[d] \in S
    BY ExprIs
  <2>2. ASSUME NEW n \in Values PROVE NextOf(L, w, e, f, n) \in Values
    BY <2>1, NextOfTyped
  <2> QED
    BY <2>2
<1>3. ASSUME NEW e \in Exprs, NEW f \in [Exprs -> S], NEW g \in [Exprs -> S],
             \A d \in parts[e] : f[d] = g[d]
      PROVE  row(e, f) = row(e, g)
  <2>1. \A d \in Parts(e) : f[d] = g[d] /\ g[d] \in S
    BY <1>1, <1>3, ExprIs
  <2>2. ASSUME NEW n \in Values PROVE NextOf(L, w, e, f, n) = NextOf(L, w, e, g, n)
    BY <2>1, NextOfReads
  <2> QED
    BY <2>2
<1>4. ASSUME NEW e \in Exprs, NEW f \in [Exprs -> S] PROVE step[<<e, f>>] = row(e, f)
  <2> HIDE DEF row
  <2> QED
    OBVIOUS
<1>5. step \in [Exprs \X [Exprs -> S] -> S]
  <2>1. ASSUME NEW p \in Exprs \X [Exprs -> S] PROVE row(p[1], p[2]) \in S
    <3>1. p[1] \in Exprs /\ p[2] \in [Exprs -> S]
      OBVIOUS
    <3> HIDE DEF row, S
    <3> QED
      BY <1>2, <3>1
  <2> HIDE DEF row
  <2> QED
    BY <2>1
<1>6. S # {}
  <2>1. [n \in Values |-> n] \in S
    OBVIOUS
  <2> QED
    BY <2>1
<1> HIDE DEF S, parts, row, step
<1>7. Founded(Exprs, parts)
  BY <1>1, ExprIs, ExprAssumption DEF Founded
<1>8. ReadsParts(Exprs, parts, S, step)
  <2>1. \A e \in Exprs : \A f, g \in [Exprs -> S] :
          (\A d \in parts[e] : f[d] = g[d]) => step[<<e, f>>] = step[<<e, g>>]
    BY <1>3, <1>4
  <2> QED
    BY <1>5, <2>1 DEF ReadsParts
<1>9. PICK h : Defines(h, Exprs, S, step)
  BY <1>6, <1>7, <1>8, TreeHasResult
<1>10. h \in [Exprs -> S] /\ \A e \in Exprs : h[e] = row(e, h)
  BY <1>4, <1>9 DEF Defines
<1> QED
  BY <1>10 DEF S, row, GivesAnswers

\* There is one such function, so it is the one that the definition takes.
LEMMA NextNodeRecIs ==
  ASSUME NEW L, NEW w, NEW h \in [Exprs -> [Values -> Values]], GivesAnswers(h, L, w),
         NEW e \in Exprs, NEW n
  PROVE  NextNodeRec(L, w, e, n) = h[e][n]
<1> DEFINE row(x, f) == [m \in Values |-> NextOf(L, w, x, f, m)]
           of == CHOOSE f : f = [x \in Exprs |-> row(x, f)]
<1>1. NextNodeRec(L, w, e, n) = of[e][n]
  BY DEF NextNodeRec
<1>2. h = [x \in Exprs |-> row(x, h)]
  <2>1. \A x \in Exprs : h[x] = row(x, h)
    BY DEF GivesAnswers
  <2> HIDE DEF row
  <2> QED
    BY <2>1
<1>3. of = [x \in Exprs |-> row(x, of)]
  <2> HIDE DEF row
  <2> QED
    BY <1>2
<1> HIDE DEF of
<1> DEFINE W == {x \in Exprs : of[x] # h[x]}
<1>4. ASSUME NEW x \in W PROVE Parts(x) \cap W # {}
  <2> SUFFICES ASSUME Parts(x) \cap W = {} PROVE FALSE
    OBVIOUS
  <2>1. x \in Exprs /\ of[x] # h[x]
    OBVIOUS
  <2>2. \A d \in Parts(x) : of[d] = h[d] /\ h[d] \in [Values -> Values]
    BY <2>1, ExprIs
  <2>3. row(x, of) = row(x, h)
    <3>1. ASSUME NEW m \in Values PROVE NextOf(L, w, x, of, m) = NextOf(L, w, x, h, m)
      BY <2>1, <2>2, NextOfReads
    <3> QED
      BY <3>1
  <2> HIDE DEF row, W
  <2>4. of[x] = row(x, of) /\ h[x] = row(x, h)
    BY <1>2, <1>3, <2>1
  <2> QED
    BY <2>1, <2>3, <2>4
<1>5. W = {}
  <2>1. W \in SUBSET Exprs
    OBVIOUS
  <2> HIDE DEF W
  <2> QED
    BY <1>4, <2>1, NoneIsWrong
<1> QED
  BY <1>1, <1>5

\* What is asked, and what is answered.
LEMMA AskTyped ==
  ASSUME labels \in LabelSets, stray \in Strays, NEW e \in Exprs, NEW n \in Values
  PROVE  Ask(e, n) \in Values
<1>1. PICK h \in [Exprs -> [Values -> Values]] : GivesAnswers(h, labels, stray)
  BY AnswersExist
<1>2. Ask(e, n) = h[e][n]
  BY <1>1, NextNodeRecIs DEF Ask
<1> QED
  BY <1>2

-----------------------------------------------------------------------------
(***************************************************************************)
(* The types.                                                              *)
(***************************************************************************)
TypeInv ==
  /\ TypeOK
  /\ ret \in [x : {"none", "x"}, c : 0 .. Sentinel, v : Values] /\ c \in 0 .. Sentinel
  /\ busy \in BOOLEAN /\ (busy => expr.type = "AND")

LEMMA TypeInit == Init => TypeInv
<1> SUFFICES ASSUME Init PROVE TypeInv
  OBVIOUS
<1>1. 0 \in 0 .. Sentinel /\ 0 \in 0 .. MaxS /\ 0 \in Values
  BY Numbers DEF Values
<1>2. busy = FALSE
  BY DEF Init
<1>3. ret \in [x : {"none", "x"}, c : 0 .. Sentinel, v : Values]
  BY <1>1 DEF Init
<1>4. ret.v \in Values
  BY <1>3
<1> QED
  BY <1>1, <1>2, <1>3, <1>4 DEF Init, TypeInv, TypeOK

\* A turn of the loop of a conjunction stays among its parts.
LEMMA TurnTypes ==
  ASSUME TypeInv, Turn
  PROVE  /\ TypeInv' /\ UNCHANGED <<index, m_value, c>>
         /\ ans' \in Values /\ ans' = Ask(expr.args[i + 1], ans)
         /\ ok' = (IF ans' = ans THEN ok + 1 ELSE 1)
         /\ i' = (IF i + 1 = Len(expr.args) THEN 0 ELSE i + 1)
         /\ IF ans' = 0 \/ ok' = Len(expr.args) THEN Answered(c, ans') /\ busy' = FALSE
            ELSE UNCHANGED <<mode, ret, busy>>
<1> DEFINE N == Len(expr.args)
           e == expr.args[i + 1]
<1>1. /\ busy /\ expr.type = "AND" /\ expr \in Exprs /\ N \in Nat \ {0}
      /\ ok \in 0 .. N - 1 /\ i \in 0 .. N - 1 /\ i + 1 \in 1 .. N
      /\ labels \in LabelSets /\ stray \in Strays /\ ans \in Values /\ c \in 0 .. Sentinel
      /\ ret \in [x : {"none", "x"}, c : 0 .. Sentinel, v : Values]
      /\ m_value \in 0 .. MaxS /\ mode \in {"idle", "leap", "down", "back"}
  <2>1. busy /\ expr.type = "AND" /\ expr \in Exprs
    BY DEF TypeInv, TypeOK, Turn
  <2>2. N \in Nat \ {0}
    BY <2>1, ExprIs
  <2>3. ok \in 0 .. N - 1 /\ i \in 0 .. N - 1
    BY <2>1 DEF TypeInv, TypeOK
  <2> HIDE DEF N
  <2>4. i + 1 \in 1 .. N
    BY <2>2, <2>3
  <2> QED
    BY <2>1, <2>2, <2>3, <2>4 DEF TypeInv, TypeOK
<1>2. e \in Exprs
  BY <1>1, ExprIs
<1>3. Ask(e, ans) \in Values
  BY <1>1, <1>2, AskTyped
<1>4. /\ ans' = Ask(e, ans) /\ ok' = (IF ans' = ans THEN ok + 1 ELSE 1) /\ i' = (i + 1) % N
      /\ IF ans' = 0 \/ ok' = N THEN Answered(c, ans') /\ busy' = FALSE
         ELSE UNCHANGED <<mode, ret, busy>>
      /\ UNCHANGED <<index, m_value, c>>
  BY DEF Turn, Proceed, Asked
<1> HIDE DEF e
<1>5. i' = (IF i + 1 = N THEN 0 ELSE i + 1) /\ i' \in 0 .. N - 1
  <2> HIDE DEF N
  <2> QED
    BY <1>1, <1>4, NextPart
<1>6. ok' \in 0 .. N /\ N' = N
  <2>1. N' = N
    BY <1>4 DEF index
  <2> HIDE DEF N
  <2> QED
    BY <1>1, <1>4, <2>1
<1>7. TypeInv'
  <2>1. CASE ans' = 0 \/ ok' = N
    <3>1. busy' = FALSE /\ mode' = "leap" /\ ret' = [x |-> "x", c |-> c, v |-> ans']
      BY <1>4, <2>1 DEF Answered
    <3>2. ret' \in [x : {"none", "x"}, c : 0 .. Sentinel, v : Values] /\ ret'.v \in Values
      BY <1>1, <1>3, <1>4, <3>1
    <3> QED
      BY <1>1, <1>3, <1>4, <3>1, <3>2 DEF TypeInv, TypeOK, index
  <2>2. CASE ~(ans' = 0 \/ ok' = N)
    <3>1. ok' \in 0 .. N - 1
      <4> HIDE DEF N
      <4> QED
        BY <1>1, <1>6, <2>2
    <3> QED
      BY <1>1, <1>3, <1>4, <1>5, <1>6, <2>2, <3>1 DEF TypeInv, TypeOK, index
  <2> QED
    BY <2>1, <2>2
<1> QED
  BY <1>3, <1>4, <1>5, <1>7 DEF e

LEMMA TypeNext == TypeInv /\ [Next]_vars => TypeInv'
<1> SUFFICES ASSUME TypeInv, [Next]_vars PROVE TypeInv'
  OBVIOUS
<1>1. 1 .. Sentinel \subseteq Values /\ 1 .. Sentinel \subseteq 0 .. Sentinel
      /\ Ids \subseteq 0 .. MaxS /\ 0 .. MaxS \subseteq 0 .. Sentinel /\ 0 \in Values
  BY Numbers DEF Values, Ids
<1>2. ASSUME NEW b \in 1 .. Sentinel, Leap(b) PROVE TypeInv'
  <2>1. Ask(expr, b) \in Values
    BY <1>1, AskTyped DEF TypeInv, TypeOK
  <2> QED
    BY <1>1, <1>2, <2>1 DEF Leap, Answered, TypeInv, TypeOK, index, call
<1>3. ASSUME NEW b \in 1 .. Sentinel, LeapAnd(b) PROVE TypeInv'
  <2>1. expr \in Exprs /\ expr.type = "AND"
    BY <1>3 DEF LeapAnd, TypeInv, TypeOK
  <2>2. 0 \in 0 .. Len(expr.args) - 1
    <3>1. Len(expr.args) \in Nat \ {0}
      BY <2>1, ExprIs
    <3> QED
      BY <3>1
  <2> QED
    BY <1>1, <1>3, <2>1, <2>2 DEF LeapAnd, TypeInv, TypeOK, index
<1>4. ASSUME Turn PROVE TypeInv'
  BY <1>4, TurnTypes
<1>5. ASSUME Down PROVE TypeInv'
  BY <1>1, <1>5 DEF Down, TypeInv, TypeOK, index, call
<1>6. ASSUME Up PROVE TypeInv'
  <2>1. ret' \in [x : {"none", "x"}, c : 0 .. Sentinel, v : Values] /\ ret'.v \in Values
    BY <1>1, <1>6 DEF Up, TypeInv, TypeOK
  <2>2. 0 \in 0 .. MaxS
    BY Numbers
  <2> QED
    BY <1>6, <2>1, <2>2 DEF Up, TypeInv, TypeOK, index, call
<1>7. ASSUME UNCHANGED vars PROVE TypeInv'
  BY <1>7 DEF vars, TypeInv, TypeOK
<1> QED
  BY <1>2, <1>3, <1>4, <1>5, <1>6, <1>7 DEF Next

\* next_node_rec of ltj_iterator_node_expr: whatever the labels, the runs noted of them and the
\* nesting of the expression, it answers a node, none or the largest number, and a
\* conjunction asks only the parts that it has.
THEOREM TypesHold == Spec => []TypeOK
<1>1. TypeInv => TypeOK
  BY DEF TypeInv
<1> QED
  BY <1>1, TypeInit, TypeNext, PTL DEF Spec

-----------------------------------------------------------------------------
(***************************************************************************)
(* A conjunction answers the least node that all its parts hold of.        *)
(***************************************************************************)
\* v answers for the nodes A from n on; g always does.
RightAnswer(v, A, n) == InRange(v) = LeastFrom(A, n) /\ v \in Ids \union {0, AllOnes}
Right(g, A) == \A n \in Asks : RightAnswer(g[n], A, n)

\* The parts that answered the value reached, and what is known of it.
Agreed(N, t) == {j \in 1 .. N : (t.i - t.ok < j /\ j <= t.i) \/ j > t.i + N - t.ok}
KnownOf(M, N, t) == \A j \in Agreed(N, t) : t.ans \in M[j] \/ t.ans = AllOnes
Common(M, N) == {n \in Ids : \A j \in 1 .. N : n \in M[j]}
Rank(v) == IF v = AllOnes THEN MaxS + 2 ELSE v

\* A higher bound that passes no member finds the same.
LEMMA SameLeast ==
  ASSUME NEW A \in SUBSET (Nat \ {0}), NEW n \in Int, NEW m \in Int, n <= m,
         \A v \in A : n <= v => m <= v
  PROVE  LeastFrom(A, n) = LeastFrom(A, m)
<1>1. CASE \A v \in A : v < m
  <2>1. \A v \in A : v < n
    BY <1>1
  <2> QED
    BY <1>1, <2>1, LeastFromNone
<1>2. CASE ~\A v \in A : v < m
  <2> DEFINE u == LeastFrom(A, m)
  <2>1. u \in A /\ m <= u /\ \A v \in A : m <= v => u <= v
    BY <1>2, LeastFromCorrect
  <2> HIDE DEF u
  <2>2. n <= u /\ \A v \in A : n <= v => u <= v
    BY <2>1
  <2>3. LeastFrom(A, n) = u
    BY <2>1, <2>2, LeastFromIs
  <2> QED
    BY <2>3 DEF u
<1> QED
  BY <1>1, <1>2

\* What a right answer says.
LEMMA RightAnswerSays ==
  ASSUME NEW A \in SUBSET Ids, NEW n \in Asks, NEW v, RightAnswer(v, A, n)
  PROVE  /\ v \in Ids => v \in A /\ n <= v /\ \A u \in A : n <= u => v <= u
         /\ v \notin Ids => (v = 0 \/ v = AllOnes) /\ \A u \in A : u < n
<1>1. A \in SUBSET (Nat \ {0}) /\ n \in Int
  BY Numbers DEF Ids
<1>2. CASE v \in Ids
  <2>1. InRange(v) = v /\ v # 0
    BY <1>2, Numbers DEF InRange, Ids
  <2>2. v = LeastFrom(A, n)
    BY <2>1 DEF RightAnswer
  <2> QED
    BY <1>1, <1>2, <2>1, <2>2, LeastFromCorrect
<1>3. CASE v \notin Ids
  <2>1. v = 0 \/ v = AllOnes
    BY <1>3 DEF RightAnswer
  <2>2. InRange(v) = 0
    BY <2>1, Numbers DEF InRange
  <2>3. LeastFrom(A, n) = 0
    BY <2>2 DEF RightAnswer
  <2> QED
    BY <1>1, <1>3, <2>1, <2>3, LeastFromCorrect
<1> QED
  BY <1>2, <1>3

LEMMA RightAnswerIs ==
  ASSUME NEW A \in SUBSET Ids, NEW n \in Asks, NEW v,
         \/ v \in A /\ n <= v /\ \A u \in A : n <= u => v <= u
         \/ v \in {0, AllOnes} /\ \A u \in A : u < n
  PROVE  RightAnswer(v, A, n)
<1>1. A \in SUBSET (Nat \ {0}) /\ n \in Int
  BY Numbers DEF Ids
<1>2. CASE v \in A /\ n <= v /\ \A u \in A : n <= u => v <= u
  <2>1. LeastFrom(A, n) = v
    BY <1>1, <1>2, LeastFromIs
  <2>2. v \in Ids /\ InRange(v) = v
    BY <1>2, Numbers DEF InRange, Ids
  <2> QED
    BY <2>1, <2>2 DEF RightAnswer
<1>3. CASE v \in {0, AllOnes} /\ \A u \in A : u < n
  <2>1. LeastFrom(A, n) = 0
    BY <1>1, <1>3, LeastFromNone
  <2>2. InRange(v) = 0
    BY <1>3, Numbers DEF InRange
  <2> QED
    BY <1>3, <2>1, <2>2 DEF RightAnswer
<1> QED
  BY <1>2, <1>3

\* A turn adds the part asked to those that agree, or leaves it alone.
LEMMA AgreedIs ==
  ASSUME NEW N \in Nat \ {0}, NEW t, t.ok \in 0 .. N - 1, t.i \in 0 .. N - 1, NEW u,
         u.i = (IF t.i + 1 = N THEN 0 ELSE t.i + 1)
  PROVE  /\ u.ok = t.ok + 1 => Agreed(N, u) = Agreed(N, t) \union {t.i + 1}
         /\ u.ok = 1 => Agreed(N, u) = {t.i + 1}
<1>1. ASSUME u.ok = t.ok + 1, NEW j \in 1 .. N
      PROVE  (u.i - u.ok < j /\ j <= u.i) \/ j > u.i + N - u.ok
             <=> (t.i - t.ok < j /\ j <= t.i) \/ j > t.i + N - t.ok \/ j = t.i + 1
  <2>1. CASE t.i + 1 = N
    BY <1>1, <2>1
  <2>2. CASE t.i + 1 # N
    BY <1>1, <2>2
  <2> QED
    BY <2>1, <2>2
<1>2. ASSUME u.ok = 1, NEW j \in 1 .. N
      PROVE  (u.i - u.ok < j /\ j <= u.i) \/ j > u.i + N - u.ok <=> j = t.i + 1
  <2>1. CASE t.i + 1 = N
    BY <1>2, <2>1
  <2>2. CASE t.i + 1 # N
    BY <1>2, <2>2
  <2> QED
    BY <2>1, <2>2
<1>3. t.i + 1 \in 1 .. N
  OBVIOUS
<1> QED
  BY <1>1, <1>2, <1>3 DEF Agreed

\* A turn of the loop leaves what is searched as it was, and knows of the value reached
\* what it should; the value rises when it changes.
LEMMA TurnRight ==
  ASSUME NEW N \in Nat \ {0}, NEW M \in [1 .. N -> SUBSET Ids], NEW t,
         t.ans \in Asks, t.ok \in 0 .. N - 1, t.i \in 0 .. N - 1, KnownOf(M, N, t), NEW u,
         RightAnswer(u.ans, M[t.i + 1], t.ans), u.ok = (IF u.ans = t.ans THEN t.ok + 1 ELSE 1),
         u.i = (IF t.i + 1 = N THEN 0 ELSE t.i + 1)
  PROVE  /\ u.ans = 0 => LeastFrom(Common(M, N), t.ans) = 0
         /\ u.ans # 0 => /\ u.ans \in Asks /\ KnownOf(M, N, u)
                         /\ LeastFrom(Common(M, N), u.ans) = LeastFrom(Common(M, N), t.ans)
                         /\ u.ans # t.ans => Rank(t.ans) < Rank(u.ans)
<1> DEFINE A == M[t.i + 1]
           C == Common(M, N)
<1>1. t.i + 1 \in 1 .. N /\ A \in SUBSET Ids
  <2>1. t.i + 1 \in 1 .. N
    OBVIOUS
  <2> QED
    BY <2>1
<1>2. C \in SUBSET (Nat \ {0}) /\ C \subseteq A /\ C \subseteq Ids
  <2>1. \A n \in Ids : n \in Nat \ {0}
    BY Numbers DEF Ids
  <2> QED
    BY <1>1, <2>1 DEF Common
<1>3. t.ans \in Nat /\ t.ans # 0 /\ (t.ans <= MaxS + 1 \/ t.ans = AllOnes) /\ \A n \in Ids : n \in 1 .. MaxS
  BY Numbers DEF Ids
<1> HIDE DEF C
<1>4. /\ u.ans \in Ids => u.ans \in A /\ t.ans <= u.ans /\ \A v \in A : t.ans <= v => u.ans <= v
      /\ u.ans \notin Ids => (u.ans = 0 \/ u.ans = AllOnes) /\ \A v \in A : v < t.ans
  <2> DEFINE v == u.ans
             n == t.ans
  <2>1. RightAnswer(v, A, n) /\ n \in Asks
    OBVIOUS
  <2> HIDE DEF A, v, n
  <2>2. /\ v \in Ids => v \in A /\ n <= v /\ \A w \in A : n <= w => v <= w
        /\ v \notin Ids => (v = 0 \/ v = AllOnes) /\ \A w \in A : w < n
    BY <1>1, <2>1, RightAnswerSays
  <2> QED
    BY <2>2 DEF v, n
<1>5. u.ans = 0 => LeastFrom(C, t.ans) = 0
  <2> SUFFICES ASSUME u.ans = 0 PROVE LeastFrom(C, t.ans) = 0
    OBVIOUS
  <2>1. u.ans \notin Ids
    BY Numbers DEF Ids
  <2>2. \A v \in C : v < t.ans
    BY <1>2, <1>4, <2>1
  <2> QED
    BY <1>2, <1>3, <2>2, LeastFromNone
<1>6. ASSUME u.ans # 0 PROVE u.ans \in A \/ u.ans = AllOnes
  BY <1>4, <1>6
<1>7. ASSUME u.ans # 0 PROVE KnownOf(M, N, u)
  <2>1. CASE u.ans = t.ans
    <3>1. Agreed(N, u) = Agreed(N, t) \union {t.i + 1}
      BY <2>1, AgreedIs
    <3> QED
      BY <1>6, <1>7, <2>1, <3>1 DEF KnownOf
  <2>2. CASE u.ans # t.ans
    <3>1. Agreed(N, u) = {t.i + 1}
      BY <2>2, AgreedIs
    <3> QED
      BY <1>6, <1>7, <3>1 DEF KnownOf
  <2> QED
    BY <2>1, <2>2
<1>8. ASSUME u.ans # 0 PROVE u.ans \in Asks /\ LeastFrom(C, u.ans) = LeastFrom(C, t.ans)
  <2>1. CASE u.ans \in Ids
    <3>1. u.ans \in Asks /\ u.ans \in Int /\ t.ans <= u.ans
      BY <1>4, <2>1, Numbers DEF Ids
    <3>2. \A v \in C : t.ans <= v => u.ans <= v
      BY <1>2, <1>4, <2>1
    <3> QED
      BY <1>2, <1>3, <3>1, <3>2, SameLeast
  <2>2. CASE u.ans \notin Ids
    <3>1. u.ans = AllOnes /\ u.ans \in Asks /\ u.ans \in Int
      BY <1>4, <1>8, <2>2, Numbers
    <3>2. \A v \in C : v < t.ans /\ v < u.ans
      BY <1>2, <1>3, <1>4, <2>2, <3>1, Numbers
    <3> QED
      BY <1>2, <1>3, <3>1, <3>2, LeastFromNone
  <2> QED
    BY <2>1, <2>2
<1>9. ASSUME u.ans # 0, u.ans # t.ans PROVE Rank(t.ans) < Rank(u.ans)
  <2>1. CASE u.ans \in Ids
    <3>1. t.ans < u.ans /\ u.ans <= MaxS /\ u.ans \in Nat
      BY <1>3, <1>4, <1>9, <2>1
    <3> QED
      BY <1>3, <3>1, Numbers DEF Rank
  <2>2. CASE u.ans \notin Ids
    <3>1. u.ans = AllOnes /\ t.ans # AllOnes
      BY <1>4, <1>9, <2>2
    <3> QED
      BY <1>3, <3>1, Numbers DEF Rank
  <2> QED
    BY <2>1, <2>2
<1> QED
  BY <1>5, <1>7, <1>8, <1>9 DEF C

\* When all parts agreed, the value reached is the answer.
LEMMA AllAgreed ==
  ASSUME NEW N \in Nat \ {0}, NEW M \in [1 .. N -> SUBSET Ids], NEW t,
         t.ans \in Asks, t.ok = N, t.i \in 0 .. N - 1, KnownOf(M, N, t)
  PROVE  RightAnswer(t.ans, Common(M, N), t.ans)
<1>1. Agreed(N, t) = 1 .. N
  <2>1. \A j \in 1 .. N : (t.i - t.ok < j /\ j <= t.i) \/ j > t.i + N - t.ok
    OBVIOUS
  <2> QED
    BY <2>1 DEF Agreed
<1>2. \A j \in 1 .. N : t.ans \in M[j] \/ t.ans = AllOnes
  BY <1>1 DEF KnownOf
<1>3. Common(M, N) \in SUBSET Ids /\ t.ans \in Int
  BY Numbers DEF Common
<1>4. CASE t.ans = AllOnes
  <2>1. \A v \in Common(M, N) : v < t.ans
    BY <1>4, Numbers DEF Common, Ids
  <2> QED
    BY <1>3, <1>4, <2>1, RightAnswerIs
<1>5. CASE t.ans # AllOnes
  <2>1. 1 \in 1 .. N
    OBVIOUS
  <2>2. t.ans \in Ids
    BY <1>2, <1>5, <2>1
  <2>3. t.ans \in Common(M, N)
    BY <1>2, <1>5, <2>2 DEF Common
  <2>4. t.ans <= t.ans
    BY <1>3
  <2> QED
    BY <1>3, <2>3, <2>4, RightAnswerIs
<1> QED
  BY <1>4, <1>5

\* The turns that are left: a value has at most one for each part.
Left(N, t) == (MaxS + 2 - Rank(t.ans)) * N + N - t.ok

LEMMA Multiples ==
  ASSUME NEW a \in Nat, NEW b \in Nat, NEW N \in Nat \ {0}
  PROVE  a * N \in Nat /\ (a < b => a * N + N <= b * N)
<1>1. a * N \in Nat
  OBVIOUS
<1>2. ASSUME a < b PROVE a * N + N <= b * N
  <2> DEFINE d == b - a - 1
  <2>1. d \in Nat /\ b = a + 1 + d
    BY <1>2
  <2> HIDE DEF d
  <2>2. d * N \in Nat
    BY <2>1
  <2>3. b * N = a * N + N + d * N
    BY <2>1
  <2> QED
    BY <1>1, <2>2, <2>3
<1> QED
  BY <1>1, <1>2

LEMMA LeftFalls ==
  ASSUME NEW N \in Nat \ {0}, NEW t, t.ans \in Asks, t.ok \in 0 .. N - 1,
         NEW u, u.ans \in Asks, u.ok = (IF u.ans = t.ans THEN t.ok + 1 ELSE 1),
         u.ans # t.ans => Rank(t.ans) < Rank(u.ans)
  PROVE  /\ Left(N, t) \in Nat /\ Left(N, u) \in Nat
         /\ Left(N, u) < Left(N, t) /\ Left(N, t) # 0
<1> DEFINE a == MaxS + 2 - Rank(t.ans)
           b == MaxS + 2 - Rank(u.ans)
<1>1. a \in Nat /\ b \in Nat /\ (u.ans # t.ans => b < a) /\ (u.ans = t.ans => a = b)
  BY Numbers DEF Rank
<1>2. Left(N, t) = a * N + N - t.ok /\ Left(N, u) = b * N + N - u.ok
  BY DEF Left
<1> HIDE DEF a, b
<1>3. a * N \in Nat /\ b * N \in Nat /\ (b < a => b * N + N <= a * N)
  BY <1>1, Multiples
<1> DEFINE aN == a * N
           bN == b * N
<1>4. aN \in Nat /\ bN \in Nat /\ (b < a => bN + N <= aN) /\ (a = b => aN = bN)
  BY <1>3
<1>5. Left(N, t) = aN + N - t.ok /\ Left(N, u) = bN + N - u.ok
  BY <1>2
<1> HIDE DEF aN, bN
<1>6. CASE u.ans = t.ans
  BY <1>1, <1>4, <1>5, <1>6
<1>7. CASE u.ans # t.ans
  BY <1>1, <1>4, <1>5, <1>7
<1> QED
  BY <1>6, <1>7

\* What a loop that may take as many turns as are left answers.
LEMMA LoopRight ==
  ASSUME NEW args, NEW of, Answers(args, of), NEW M \in [1 .. Len(args) -> SUBSET Ids],
         \A j \in 1 .. Len(args) : Right(of[args[j]], M[j]), NEW h, IsLoop(args, of, h)
  PROVE  \A k \in 0 .. MostTurns(args) : \A t \in Locals(args) :
           t.ans # 0 /\ KnownOf(M, Len(args), t) /\ Left(Len(args), t) <= k =>
             RightAnswer(h[k][t], Common(M, Len(args)), t.ans)
<1> DEFINE N == Len(args)
           C == Common(M, N)
           Wrong(k, t) == /\ t.ans # 0 /\ KnownOf(M, N, t) /\ Left(N, t) <= k
                          /\ ~RightAnswer(h[k][t], C, t.ans)
           Bad == {k \in 0 .. MostTurns(args) : \E t \in Locals(args) : Wrong(k, t)}
<1> SUFFICES ASSUME Bad # {} PROVE FALSE
  OBVIOUS
<1>1. PICK k \in Bad : \A j \in Bad : k <= j
  <2>1. Bad \in SUBSET Nat
    OBVIOUS
  <2> HIDE DEF Bad
  <2> QED
    BY <2>1, NatHasLeast
<1>2. PICK t \in Locals(args) : Wrong(k, t)
  OBVIOUS
<1>3. k \in 0 .. MostTurns(args) /\ MostTurns(args) \in Nat
  BY Numbers DEF MostTurns, Answers
<1>4. /\ N \in Nat \ {0} /\ t.ans \in Asks /\ t.ok \in 0 .. N /\ t.i \in 0 .. N - 1
      /\ KnownOf(M, N, t) /\ Left(N, t) <= k /\ ~RightAnswer(h[k][t], C, t.ans)
  BY <1>2 DEF Locals, Answers, Asks
<1>5. h[k][t] = IF k = 0 \/ Ended(args, t) THEN t.ans ELSE h[k - 1][NextTurn(args, of, t)]
  <2> HIDE DEF Wrong
  <2>1. h[k] = [s \in Locals(args) |->
                  IF k = 0 \/ Ended(args, s) THEN s.ans ELSE h[k - 1][NextTurn(args, of, s)]]
    BY ONLY <1>3, IsLoop(args, of, h) DEF IsLoop
  <2>2. t \in Locals(args)
    BY <1>2
  <2> QED
    BY ONLY <2>1, <2>2
<1>6. t.ok # N
  <2> SUFFICES ASSUME t.ok = N PROVE FALSE
    OBVIOUS
  <2>1. h[k][t] = t.ans
    BY <1>5 DEF Ended
  <2>2. RightAnswer(t.ans, C, t.ans)
    <3> HIDE DEF N
    <3>1. M \in [1 .. N -> SUBSET Ids]
      BY DEF N
    <3> QED
      BY <1>4, <3>1, AllAgreed
  <2> QED
    BY <1>4, <2>1, <2>2
<1>7. ~Ended(args, t) /\ t.ok \in 0 .. N - 1
  <2>1. t.ans # 0
    BY <1>2
  <2>2. t.ok \in 0 .. N - 1
    <3> HIDE DEF N
    <3> QED
      BY <1>4, <1>6
  <2> QED
    BY <1>6, <2>1, <2>2 DEF Ended
<1> DEFINE u == NextTurn(args, of, t)
<1>8. /\ u \in Locals(args) /\ u.ans = of[args[t.i + 1]][t.ans]
      /\ u.ok = IF u.ans = t.ans THEN t.ok + 1 ELSE 1
      /\ u.i = IF t.i + 1 = N THEN 0 ELSE t.i + 1
  BY <1>7, TurnTyped
<1> HIDE DEF u
<1>9. RightAnswer(u.ans, M[t.i + 1], t.ans)
  <2>1. t.i + 1 \in 1 .. N
    <3> HIDE DEF N
    <3> QED
      BY <1>4
  <2> QED
    BY <1>4, <1>8, <2>1 DEF Right
<1>10. /\ u.ans = 0 => LeastFrom(C, t.ans) = 0
       /\ u.ans # 0 => /\ u.ans \in Asks /\ KnownOf(M, N, u)
                       /\ LeastFrom(C, u.ans) = LeastFrom(C, t.ans)
                       /\ u.ans # t.ans => Rank(t.ans) < Rank(u.ans)
  <2> HIDE DEF N
  <2>1. M \in [1 .. N -> SUBSET Ids]
    BY DEF N
  <2> QED
    BY <1>4, <1>7, <1>8, <1>9, <2>1, TurnRight
<1>11. k # 0
  <2>1. Left(N, t) \in Nat /\ Left(N, t) # 0
    <3> HIDE DEF N
    <3> DEFINE same == [ans |-> t.ans, ok |-> t.ok + 1]
    <3>1. same.ans = t.ans /\ same.ok = t.ok + 1
      OBVIOUS
    <3> HIDE DEF same
    <3> QED
      BY <1>4, <1>7, <3>1, LeftFalls
  <2> QED
    BY <1>4, <2>1
<1>12. h[k][t] = h[k - 1][u] /\ k - 1 \in 0 .. MostTurns(args) /\ k - 1 < k
  BY <1>3, <1>5, <1>7, <1>11 DEF u
<1>13. CASE u.ans = 0
  <2>1. h[k - 1][u] = u.ans
    BY <1>8, <1>12, <1>13 DEF IsLoop, Ended
  <2>2. InRange(0) = 0
    BY Numbers DEF InRange
  <2> QED
    BY <1>4, <1>10, <1>12, <1>13, <2>1, <2>2 DEF RightAnswer
<1>14. CASE u.ans # 0
  <2>1. Left(N, u) <= k - 1
    <3>1. Left(N, t) \in Nat /\ Left(N, u) \in Nat /\ Left(N, u) < Left(N, t)
      <4> HIDE DEF N
      <4> QED
        BY <1>4, <1>7, <1>8, <1>10, <1>14, LeftFalls
    <3> HIDE DEF N
    <3> QED
      BY <1>3, <1>4, <3>1
  <2>2. ~Wrong(k - 1, u)
    <3>1. k - 1 \notin Bad
      <4> HIDE DEF Bad
      <4> QED
        BY <1>1, <1>3, <1>12
    <3> HIDE DEF Wrong
    <3> QED
      BY <1>8, <1>12, <3>1
  <2>3. RightAnswer(h[k - 1][u], C, u.ans)
    BY <1>10, <1>14, <2>1, <2>2
  <2> QED
    BY <1>4, <1>10, <1>12, <1>14, <2>3 DEF RightAnswer
<1> QED
  BY <1>13, <1>14

LEMMA ConjunctionRight ==
  ASSUME NEW args, NEW of, Answers(args, of), NEW M \in [1 .. Len(args) -> SUBSET Ids],
         \A j \in 1 .. Len(args) : Right(of[args[j]], M[j]), NEW n \in Asks
  PROVE  RightAnswer(Conjunction(args, of, n), Common(M, Len(args)), n)
<1> DEFINE N == Len(args)
           t == First(n)
<1>1. PICK h : IsLoop(args, of, h) /\ Conjunction(args, of, n) = h[MostTurns(args)][First(n)]
  BY ConjunctionIs
<1>2. t.ans = n /\ t.ok = 0 /\ t.i = 0 /\ n # 0 /\ n \in Values
  BY DEF First, Asks
<1>3. t \in Locals(args) /\ N \in Nat \ {0}
  BY <1>2, FirstTyped DEF Answers
<1> HIDE DEF t
<1>4. KnownOf(M, N, t)
  <2> HIDE DEF N
  <2>1. Agreed(N, t) = {}
    BY <1>2, <1>3 DEF Agreed
  <2> QED
    BY <2>1 DEF KnownOf
<1>5. MostTurns(args) \in Nat /\ Left(N, t) <= MostTurns(args)
  <2> HIDE DEF N
  <2> DEFINE a == MaxS + 2 - Rank(n)
             b == MaxS + 2
  <2>1. a \in Nat /\ b \in Nat /\ a < b
    BY Numbers DEF Rank
  <2>2. Left(N, t) = a * N + N /\ MostTurns(args) = N * b
    BY <1>2, <1>3, <2>1 DEF Left, MostTurns, N
  <2> HIDE DEF a, b
  <2>3. a * N + N <= b * N /\ b * N \in Nat
    BY <1>3, <2>1, Multiples
  <2>4. N * b = b * N
    BY <1>3, <2>1
  <2> QED
    BY <2>2, <2>3, <2>4
<1>6. MostTurns(args) \in 0 .. MostTurns(args)
  BY <1>5
<1>7. RightAnswer(h[MostTurns(args)][t], Common(M, N), t.ans)
  BY <1>1, <1>2, <1>3, <1>4, <1>5, <1>6, LoopRight
<1> QED
  BY <1>1, <1>2, <1>7 DEF t

-----------------------------------------------------------------------------
(***************************************************************************)
(* An expression answers the least node that it holds of.                  *)
(***************************************************************************)
LEMMA OrRight ==
  ASSUME NEW args, NEW of, Answers(args, of), NEW M \in [1 .. Len(args) -> SUBSET Ids],
         \A j \in 1 .. Len(args) : Right(of[args[j]], M[j]), NEW n \in Asks
  PROVE  RightAnswer(Least({AllOnes} \union {of[args[k]][n] : k \in 1 .. Len(args)}),
                     {v \in Ids : \E j \in 1 .. Len(args) : v \in M[j]}, n)
<1> DEFINE N == Len(args)
           a(j) == of[args[j]][n]
           S == {AllOnes} \union {a(k) : k \in 1 .. N}
           A == {v \in Ids : \E j \in 1 .. N : v \in M[j]}
           w == Least(S)
<1>1. n \in Values /\ n \in Int /\ \A v \in Ids : v \in Nat /\ v # 0 /\ v < AllOnes
  BY Numbers DEF Asks, Values, Ids
<1>2. S \in SUBSET Nat
  <2>1. AllOnes \in Nat /\ Values \subseteq Nat
    BY Numbers DEF Values
  <2>2. \A k \in 1 .. N : a(k) \in Values
    BY <1>1 DEF Answers
  <2> HIDE DEF N, a
  <2> QED
    BY <2>1, <2>2
<1>3. AllOnes \in S /\ \A j \in 1 .. N : a(j) \in S
  OBVIOUS
<1>4. ASSUME NEW j \in 1 .. N
      PROVE  /\ a(j) \in Ids => a(j) \in M[j] /\ n <= a(j) /\ \A u \in M[j] : n <= u => a(j) <= u
             /\ a(j) \notin Ids => (a(j) = 0 \/ a(j) = AllOnes) /\ \A u \in M[j] : u < n
  <2>1. RightAnswer(a(j), M[j], n) /\ M[j] \in SUBSET Ids
    BY DEF Right
  <2> HIDE DEF a
  <2> QED
    BY <2>1, RightAnswerSays
<1>5. \A v \in S : v = AllOnes \/ \E j \in 1 .. N : v = a(j)
  OBVIOUS
<1> HIDE DEF S, a, N
<1>6. w \in Nat /\ w # 0 /\ w \in S /\ \A v \in S : v # 0 => w <= v
  <2>1. ~(S \subseteq {0})
    BY <1>3, Numbers
  <2>2. w # 0
    BY <1>2, <2>1, LeastIs
  <2> QED
    BY <1>2, <2>2, LeastIs
<1> HIDE DEF w
<1>7. ASSUME NEW u \in A, n <= u PROVE w \in Ids /\ w <= u
  <2>1. u \in Ids
    OBVIOUS
  <2>2. PICK j \in 1 .. N : u \in M[j]
    OBVIOUS
  <2>3. a(j) \in Ids /\ a(j) <= u
    <3>1. ~(u < n)
      BY <1>1, <1>7, <2>1
    <3> QED
      BY <1>4, <1>7, <2>2, <3>1
  <2>4. a(j) \in Nat /\ a(j) # 0 /\ w <= a(j) /\ w # AllOnes /\ u \in Nat
    BY <1>1, <1>3, <1>6, <2>1, <2>3, Numbers
  <2>5. PICK l \in 1 .. N : w = a(l)
    BY <1>5, <1>6, <2>4
  <2>6. w \in Ids
    BY <1>4, <1>6, <2>4, <2>5
  <2> QED
    BY <1>6, <2>3, <2>4, <2>6
<1>8. w \in Ids => w \in A /\ n <= w
  <2> SUFFICES ASSUME w \in Ids PROVE w \in A /\ n <= w
    OBVIOUS
  <2>1. w # AllOnes
    BY <1>1, Numbers
  <2>2. PICK l \in 1 .. N : w = a(l)
    BY <1>5, <1>6, <2>1
  <2> QED
    BY <1>4, <2>2
<1>9. w \notin Ids => w = AllOnes
  BY <1>4, <1>5, <1>6
<1>10. A \in SUBSET Ids
  OBVIOUS
<1>11. RightAnswer(w, A, n)
  <2> HIDE DEF A
  <2>1. CASE w \in Ids
    BY <1>7, <1>8, <1>10, <2>1, RightAnswerIs
  <2>2. CASE w \notin Ids
    <3>1. \A u \in A : u < n
      <4> SUFFICES ASSUME NEW u \in A, ~(u < n) PROVE FALSE
        OBVIOUS
      <4>1. u \in Ids
        BY <1>10
      <4>2. n <= u
        BY <1>1, <4>1
      <4> QED
        BY <1>7, <2>2, <4>2
    <3> QED
      BY <1>9, <1>10, <2>2, <3>1, RightAnswerIs
  <2> QED
    BY <2>1, <2>2
<1> QED
  BY <1>11 DEF A, w, S, a, N

\* The meanings of all expressions, by recursion over their parts.
GivesMeanings(m, L) == \A e \in Exprs : m[e] = MeaningOf(L, e, m)

LEMMA MeaningOfIs ==
  ASSUME NEW L \in LabelSets, NEW e \in Exprs, NEW f, \A d \in Parts(e) : f[d] \in SUBSET Ids
  PROVE  /\ MeaningOf(L, e, f) \in SUBSET Ids
         /\ e.type = "OR" => MeaningOf(L, e, f) = {v \in Ids : \E j \in 1 .. Len(e.args) : v \in f[e.args[j]]}
         /\ e.type = "AND" => MeaningOf(L, e, f) = {v \in Ids : \A j \in 1 .. Len(e.args) : v \in f[e.args[j]]}
<1>1. CASE e.type = "LAB"
  BY <1>1, ExprIs DEF MeaningOf
<1>2. CASE e.type = "NEG"
  BY <1>2, ExprIs DEF MeaningOf
<1>3. CASE e.type = "OR"
  <2>1. DOMAIN e.args = 1 .. Len(e.args) /\ \A j \in 1 .. Len(e.args) : f[e.args[j]] \in SUBSET Ids
    BY <1>3, ExprIs
  <2>2. MeaningOf(L, e, f) = UNION {f[e.args[k]] : k \in DOMAIN e.args}
    BY <1>3 DEF MeaningOf
  <2>3. UNION {f[e.args[k]] : k \in DOMAIN e.args} = {v \in Ids : \E j \in 1 .. Len(e.args) : v \in f[e.args[j]]}
    BY <2>1
  <2> QED
    BY <1>3, <2>2, <2>3
<1>4. CASE e.type = "AND"
  <2>1. DOMAIN e.args = 1 .. Len(e.args)
    BY <1>4, ExprIs
  <2>2. MeaningOf(L, e, f) = {v \in Ids : \A k \in DOMAIN e.args : v \in f[e.args[k]]}
    BY <1>4 DEF MeaningOf
  <2> QED
    BY <1>4, <2>1, <2>2
<1> QED
  BY <1>1, <1>2, <1>3, <1>4, ExprIs

LEMMA MeaningReads ==
  ASSUME NEW L, NEW e \in Exprs, NEW f, NEW g, \A d \in Parts(e) : f[d] = g[d]
  PROVE  MeaningOf(L, e, f) = MeaningOf(L, e, g)
<1>1. CASE e.type = "LAB"
  BY <1>1 DEF MeaningOf
<1>2. CASE e.type = "NEG"
  BY <1>2 DEF MeaningOf
<1>3. ASSUME e.type \in {"OR", "AND"} PROVE \A k \in DOMAIN e.args : f[e.args[k]] = g[e.args[k]]
  BY <1>3, ExprIs
<1>4. CASE e.type = "OR"
  <2>1. {f[e.args[k]] : k \in DOMAIN e.args} = {g[e.args[k]] : k \in DOMAIN e.args}
    BY <1>3, <1>4
  <2> QED
    BY <1>4, <2>1 DEF MeaningOf
<1>5. CASE e.type = "AND"
  <2>1. {n \in Ids : \A k \in DOMAIN e.args : n \in f[e.args[k]]}
          = {n \in Ids : \A k \in DOMAIN e.args : n \in g[e.args[k]]}
    BY <1>3, <1>5
  <2> QED
    BY <1>5, <2>1 DEF MeaningOf
<1> QED
  BY <1>1, <1>2, <1>4, <1>5, ExprIs

LEMMA MeaningsExist ==
  ASSUME NEW L \in LabelSets
  PROVE  \E m \in [Exprs -> SUBSET Ids] : GivesMeanings(m, L)
<1> DEFINE S == SUBSET Ids
           parts == [e \in Exprs |-> Parts(e)]
           step == [p \in Exprs \X [Exprs -> S] |-> MeaningOf(L, p[1], p[2])]
<1>1. \A e \in Exprs : parts[e] = Parts(e)
  OBVIOUS
<1>2. ASSUME NEW e \in Exprs, NEW f \in [Exprs -> S] PROVE step[<<e, f>>] = MeaningOf(L, e, f)
  OBVIOUS
<1>3. step \in [Exprs \X [Exprs -> S] -> S]
  <2>1. ASSUME NEW p \in Exprs \X [Exprs -> S] PROVE MeaningOf(L, p[1], p[2]) \in S
    <3>1. p[1] \in Exprs /\ p[2] \in [Exprs -> S]
      OBVIOUS
    <3>2. \A d \in Parts(p[1]) : p[2][d] \in SUBSET Ids
      BY <3>1, ExprIs
    <3> QED
      BY <3>1, <3>2, MeaningOfIs
  <2> QED
    BY <2>1
<1>4. ASSUME NEW e \in Exprs, NEW f \in [Exprs -> S], NEW g \in [Exprs -> S],
             \A d \in parts[e] : f[d] = g[d]
      PROVE  MeaningOf(L, e, f) = MeaningOf(L, e, g)
  BY <1>1, <1>4, MeaningReads
<1>5. S # {}
  OBVIOUS
<1> HIDE DEF S, parts, step
<1>6. Founded(Exprs, parts)
  BY <1>1, ExprIs, ExprAssumption DEF Founded
<1>7. ReadsParts(Exprs, parts, S, step)
  <2>1. \A e \in Exprs : \A f, g \in [Exprs -> S] :
          (\A d \in parts[e] : f[d] = g[d]) => step[<<e, f>>] = step[<<e, g>>]
    BY <1>2, <1>4
  <2> QED
    BY <1>3, <2>1 DEF ReadsParts
<1>8. PICK m : Defines(m, Exprs, S, step)
  BY <1>5, <1>6, <1>7, TreeHasResult
<1>9. m \in [Exprs -> S] /\ \A e \in Exprs : m[e] = MeaningOf(L, e, m)
  BY <1>2, <1>8 DEF Defines
<1> QED
  BY <1>9 DEF S, GivesMeanings

LEMMA MeaningIs ==
  ASSUME NEW L, NEW m \in [Exprs -> SUBSET Ids], GivesMeanings(m, L), NEW e \in Exprs
  PROVE  Meaning(L, e) = m[e]
<1> DEFINE of == CHOOSE f : f = [x \in Exprs |-> MeaningOf(L, x, f)]
<1>1. Meaning(L, e) = of[e]
  BY DEF Meaning
<1>2. m = [x \in Exprs |-> MeaningOf(L, x, m)]
  <2>1. \A x \in Exprs : m[x] = MeaningOf(L, x, m)
    BY DEF GivesMeanings
  <2> QED
    BY <2>1
<1>3. of = [x \in Exprs |-> MeaningOf(L, x, of)]
  BY <1>2
<1> HIDE DEF of
<1> DEFINE W == {x \in Exprs : of[x] # m[x]}
<1>4. ASSUME NEW x \in W PROVE Parts(x) \cap W # {}
  <2> SUFFICES ASSUME Parts(x) \cap W = {} PROVE FALSE
    OBVIOUS
  <2>1. x \in Exprs /\ of[x] # m[x]
    OBVIOUS
  <2>2. \A d \in Parts(x) : of[d] = m[d]
    BY <2>1, ExprIs
  <2>3. MeaningOf(L, x, of) = MeaningOf(L, x, m)
    BY <2>1, <2>2, MeaningReads
  <2>4. of[x] = MeaningOf(L, x, of) /\ m[x] = MeaningOf(L, x, m)
    BY <1>2, <1>3, <2>1
  <2> QED
    BY <2>1, <2>3, <2>4
<1>5. W = {}
  <2>1. W \in SUBSET Exprs
    OBVIOUS
  <2> HIDE DEF W
  <2> QED
    BY <1>4, <2>1, NoneIsWrong
<1> QED
  BY <1>1, <1>5

\* No label ends in a run at the last node.
AllLeave(L) == \A l \in DOMAIN L : LeavesTheEnd(L[l])

LEMMA ExprRight ==
  ASSUME NEW L \in LabelSets, AllLeave(L), NEW w \in Strays, NEW e \in Exprs, NEW of,
         \A d \in Parts(e) : of[d] \in [Values -> Values], NEW m,
         \A d \in Parts(e) : m[d] \in SUBSET Ids /\ Right(of[d], m[d]), NEW n \in Asks
  PROVE  RightAnswer(NextOf(L, w, e, of, n), MeaningOf(L, e, m), n)
<1>1. n \in Nat /\ n \in Int /\ w \in Nat
  BY Numbers, NodesAssumption
<1>2. CASE e.type = "LAB" \/ e.type = "NEG"
  <2>1. L[e.label] \in SUBSET Ids /\ LeavesTheEnd(L[e.label])
    BY <1>2, ExprIs DEF AllLeave
  <2> DEFINE V == L[e.label]
             A == MeaningOf(L, e, m)
             v == NextOf(L, w, e, of, n)
  <2>2. v = LeastFrom(A, n)
    <3>1. CASE e.type = "LAB"
      <4>1. v = InRange(NextNode(V, n)) /\ A = V
        BY <3>1 DEF NextOf, MeaningOf
      <4> QED
        BY <2>1, <4>1, NextNodeIs
    <3>2. CASE e.type = "NEG"
      <4>1. v = InRange(NextNegNode(V, w, n)) /\ A = Ids \ V
        BY <3>2 DEF NextOf, MeaningOf
      <4> QED
        BY <1>1, <2>1, <4>1, NextNegNodeIs
    <3> QED
      BY <1>2, <3>1, <3>2
  <2>3. A \in SUBSET Ids
    BY MeaningOfIs
  <2> HIDE DEF A, v
  <2>4. A \in SUBSET (Nat \ {0})
    BY <2>3, Numbers DEF Ids
  <2>5. \/ v \in A /\ n <= v /\ \A u \in A : n <= u => v <= u
        \/ v = 0 /\ \A u \in A : u < n
    BY <1>1, <2>2, <2>4, LeastFromCorrect
  <2>6. RightAnswer(v, A, n)
    BY <2>3, <2>5, RightAnswerIs
  <2> QED
    BY <2>6 DEF A, v
<1>3. ASSUME e.type = "OR" \/ e.type = "AND"
      PROVE  /\ Answers(e.args, of) /\ DOMAIN e.args = 1 .. Len(e.args)
             /\ \A j \in 1 .. Len(e.args) : m[e.args[j]] \in SUBSET Ids /\ Right(of[e.args[j]], m[e.args[j]])
  BY <1>3, ExprIs, PartsAnswer
<1> DEFINE M == [j \in 1 .. Len(e.args) |-> m[e.args[j]]]
<1>4. ASSUME e.type = "OR" \/ e.type = "AND"
      PROVE  /\ M \in [1 .. Len(e.args) -> SUBSET Ids]
             /\ \A j \in 1 .. Len(e.args) : M[j] = m[e.args[j]] /\ Right(of[e.args[j]], M[j])
  BY <1>3, <1>4
<1> HIDE DEF M
<1>5. CASE e.type = "OR"
  <2>1. NextOf(L, w, e, of, n) = Least({AllOnes} \union {of[e.args[k]][n] : k \in 1 .. Len(e.args)})
    BY <1>3, <1>5 DEF NextOf
  <2>2. MeaningOf(L, e, m) = {v \in Ids : \E j \in 1 .. Len(e.args) : v \in m[e.args[j]]}
    BY <1>5, MeaningOfIs
  <2>3. MeaningOf(L, e, m) = {v \in Ids : \E j \in 1 .. Len(e.args) : v \in M[j]}
    BY <1>4, <1>5, <2>2
  <2> QED
    BY <1>3, <1>4, <1>5, <2>1, <2>3, OrRight
<1>6. CASE e.type = "AND"
  <2>1. NextOf(L, w, e, of, n) = Conjunction(e.args, of, n)
    BY <1>6 DEF NextOf
  <2>2. MeaningOf(L, e, m) = {v \in Ids : \A j \in 1 .. Len(e.args) : v \in m[e.args[j]]}
    BY <1>6, MeaningOfIs
  <2>3. MeaningOf(L, e, m) = Common(M, Len(e.args))
    BY <1>4, <1>6, <2>2 DEF Common
  <2> QED
    BY <1>3, <1>4, <1>6, <2>1, <2>3, ConjunctionRight
<1> QED
  BY <1>2, <1>5, <1>6, ExprIs

LEMMA AskRight ==
  ASSUME labels \in LabelSets, AllLeave(labels), stray \in Strays, NEW e \in Exprs, NEW n \in Asks
  PROVE  /\ Meaning(labels, e) \in SUBSET Ids
         /\ RightAnswer(Ask(e, n), Meaning(labels, e), n)
<1>1. PICK h \in [Exprs -> [Values -> Values]] : GivesAnswers(h, labels, stray)
  BY AnswersExist
<1>2. PICK m \in [Exprs -> SUBSET Ids] : GivesMeanings(m, labels)
  BY MeaningsExist
<1> DEFINE W == {x \in Exprs : ~Right(h[x], m[x])}
<1>3. ASSUME NEW x \in W PROVE Parts(x) \cap W # {}
  <2> SUFFICES ASSUME Parts(x) \cap W = {} PROVE FALSE
    OBVIOUS
  <2>1. x \in Exprs /\ ~Right(h[x], m[x])
    OBVIOUS
  <2>2. \A d \in Parts(x) : h[d] \in [Values -> Values] /\ m[d] \in SUBSET Ids /\ Right(h[d], m[d])
    BY <2>1, ExprIs
  <2> HIDE DEF W
  <2>3. ASSUME NEW k \in Asks PROVE RightAnswer(h[x][k], m[x], k)
    <3>1. RightAnswer(NextOf(labels, stray, x, h, k), MeaningOf(labels, x, m), k)
      BY <2>1, <2>2, ExprRight
    <3>2. k \in Values
      BY DEF Asks
    <3>3. h[x][k] = NextOf(labels, stray, x, h, k) /\ m[x] = MeaningOf(labels, x, m)
      BY <1>1, <1>2, <2>1, <3>2 DEF GivesAnswers, GivesMeanings
    <3> QED
      BY <3>1, <3>3
  <2> QED
    BY <2>1, <2>3 DEF Right
<1>4. W = {}
  <2>1. W \in SUBSET Exprs
    OBVIOUS
  <2> HIDE DEF W
  <2> QED
    BY <1>3, <2>1, NoneIsWrong
<1>5. Right(h[e], m[e])
  BY <1>4
<1>6. Ask(e, n) = h[e][n] /\ Meaning(labels, e) = m[e]
  BY <1>1, <1>2, NextNodeRecIs, MeaningIs DEF Ask
<1> QED
  BY <1>2, <1>5, <1>6 DEF Right

\* A conjunction holds of what all its parts hold of.
LEMMA MeaningOfAnd ==
  ASSUME NEW L \in LabelSets, NEW e \in Exprs, e.type = "AND"
  PROVE  Meaning(L, e) = Common([j \in 1 .. Len(e.args) |-> Meaning(L, e.args[j])], Len(e.args))
<1>1. PICK m \in [Exprs -> SUBSET Ids] : GivesMeanings(m, L)
  BY MeaningsExist
<1>2. \A x \in Exprs : Meaning(L, x) = m[x]
  BY <1>1, MeaningIs
<1>3. \A j \in 1 .. Len(e.args) : e.args[j] \in Exprs
  BY ExprIs
<1>4. m[e] = {v \in Ids : \A j \in 1 .. Len(e.args) : v \in m[e.args[j]]}
  <2>1. \A d \in Parts(e) : m[d] \in SUBSET Ids
    BY <1>1, ExprIs
  <2>2. m[e] = MeaningOf(L, e, m)
    BY <1>1 DEF GivesMeanings
  <2> QED
    BY <2>1, <2>2, MeaningOfIs
<1> QED
  BY <1>2, <1>3, <1>4 DEF Common

-----------------------------------------------------------------------------
(***************************************************************************)
(* The iterator answers what its contract says.                            *)
(***************************************************************************)
NoEndRuns == \A L \in LabelSets : AllLeave(L)

PartMeanings == [j \in 1 .. Len(expr.args) |-> Meaning(labels, expr.args[j])]
Locals3 == [ans |-> ans, ok |-> ok, i |-> i]

\* In the middle of a conjunction, the parts that agree are known to, and what is searched
\* from the value reached is what is searched from the bound.
MidCall ==
  /\ mode # "down" /\ c \in 1 .. Sentinel /\ ans # 0
  /\ KnownOf(PartMeanings, Len(expr.args), Locals3)
  /\ LeastFrom(Meaning(labels, expr), ans) = LeastFrom(Meaning(labels, expr), c)

IInv ==
  /\ TypeInv
  /\ mode # "idle" => ret.x = "x"
  /\ mode = "leap" => ret.c \in 1 .. Sentinel /\ RightAnswer(ret.v, Meaning(labels, expr), ret.c)
  /\ busy => MidCall

LEMMA InitHolds == Init => IInv
BY TypeInit DEF Init, IInv

LEMMA AndParts ==
  ASSUME NEW L \in LabelSets, NEW e \in Exprs, e.type = "AND", NEW M,
         M = [j \in 1 .. Len(e.args) |-> Meaning(L, e.args[j])]
  PROVE  /\ Len(e.args) \in Nat \ {0} /\ M \in [1 .. Len(e.args) -> SUBSET Ids]
         /\ Meaning(L, e) = Common(M, Len(e.args))
<1>1. Len(e.args) \in Nat \ {0} /\ \A j \in 1 .. Len(e.args) : e.args[j] \in Exprs
  BY ExprIs
<1>2. ASSUME NEW x \in Exprs PROVE Meaning(L, x) \in SUBSET Ids
  <2>1. PICK m \in [Exprs -> SUBSET Ids] : GivesMeanings(m, L)
    BY MeaningsExist
  <2> QED
    BY <2>1, MeaningIs
<1>3. Meaning(L, e) = Common([j \in 1 .. Len(e.args) |-> Meaning(L, e.args[j])], Len(e.args))
  BY MeaningOfAnd
<1> QED
  BY <1>1, <1>2, <1>3

\* A turn knows of the value it reaches what it should; the last one answers.
LEMMA TurnAnswers ==
  ASSUME NoEndRuns, IInv, Turn
  PROVE  IF ans' = 0 \/ ok' = Len(expr.args)
         THEN RightAnswer(ans', Meaning(labels, expr), c) /\ c \in 1 .. Sentinel
         ELSE MidCall'
<1> DEFINE N == Len(expr.args)
           M == PartMeanings
           t == Locals3
           u == [ans |-> ans', ok |-> ok', i |-> i']
           A == Meaning(labels, expr)
<1>1. /\ busy /\ labels \in LabelSets /\ stray \in Strays /\ expr \in Exprs /\ expr.type = "AND"
      /\ AllLeave(labels) /\ MidCall
      /\ ans \in Values /\ ok \in 0 .. N - 1 /\ i \in 0 .. N - 1
  <2>1. busy
    BY DEF Turn
  <2> QED
    BY <2>1 DEF IInv, TypeInv, TypeOK, NoEndRuns
<1>2. /\ UNCHANGED <<index, m_value, c>> /\ ans' \in Values /\ ans' = Ask(expr.args[i + 1], ans)
      /\ ok' = (IF ans' = ans THEN ok + 1 ELSE 1)
      /\ i' = (IF i + 1 = N THEN 0 ELSE i + 1)
      /\ ~(ans' = 0 \/ ok' = N) => UNCHANGED <<mode, ret, busy>>
  BY TurnTypes DEF IInv
<1>3. N \in Nat \ {0} /\ M \in [1 .. N -> SUBSET Ids] /\ A = Common(M, N)
  BY <1>1, AndParts DEF PartMeanings
<1>4. t.ans = ans /\ t.ok = ok /\ t.i = i /\ u.ans = ans' /\ u.ok = ok' /\ u.i = i'
  BY DEF Locals3
<1>5. ans \in Asks /\ i + 1 \in 1 .. N
  <2>1. ans \in Asks
    BY <1>1 DEF MidCall, Asks
  <2> HIDE DEF N
  <2> QED
    BY <1>1, <1>3, <2>1
<1>6. RightAnswer(u.ans, M[i + 1], ans)
  <2>1. expr.args[i + 1] \in Exprs
    BY <1>1, <1>5, ExprIs
  <2>2. RightAnswer(Ask(expr.args[i + 1], ans), Meaning(labels, expr.args[i + 1]), ans)
    BY <1>1, <1>5, <2>1, AskRight
  <2>3. M[i + 1] = Meaning(labels, expr.args[i + 1])
    BY <1>5 DEF PartMeanings
  <2> QED
    BY <1>2, <1>4, <2>2, <2>3
<1>7. KnownOf(M, N, t) /\ LeastFrom(A, ans) = LeastFrom(A, c) /\ c \in 1 .. Sentinel /\ mode # "down"
  BY <1>1 DEF MidCall
<1> HIDE DEF N, M, t, u, A
<1>8. /\ u.ans = 0 => LeastFrom(A, ans) = 0
      /\ u.ans # 0 => /\ u.ans \in Asks /\ KnownOf(M, N, u)
                      /\ LeastFrom(A, u.ans) = LeastFrom(A, ans)
  <2>1. /\ t.ans \in Asks /\ t.ok \in 0 .. N - 1 /\ t.i \in 0 .. N - 1
        /\ RightAnswer(u.ans, M[t.i + 1], t.ans) /\ u.ok = (IF u.ans = t.ans THEN t.ok + 1 ELSE 1)
        /\ u.i = (IF t.i + 1 = N THEN 0 ELSE t.i + 1)
    BY <1>1, <1>2, <1>4, <1>5, <1>6 DEF N
  <2>2. /\ u.ans = 0 => LeastFrom(Common(M, N), t.ans) = 0
        /\ u.ans # 0 => /\ u.ans \in Asks /\ KnownOf(M, N, u)
                        /\ LeastFrom(Common(M, N), u.ans) = LeastFrom(Common(M, N), t.ans)
    BY <1>3, <1>7, <2>1, TurnRight
  <2> QED
    BY <1>3, <1>4, <2>2
<1>9. CASE ans' = 0
  <2>1. InRange(0) = 0
    BY Numbers DEF InRange
  <2>2. RightAnswer(ans', A, c)
    BY <1>4, <1>7, <1>8, <1>9, <2>1 DEF RightAnswer
  <2> QED
    BY <1>7, <1>9, <2>2 DEF A
<1>10. CASE ans' # 0 /\ ok' = N
  <2>1. u.i \in 0 .. N - 1
    BY <1>1, <1>2, <1>3, <1>4
  <2>2. RightAnswer(u.ans, Common(M, N), u.ans)
    BY <1>3, <1>4, <1>8, <1>10, <2>1, AllAgreed
  <2>3. RightAnswer(ans', A, c)
    BY <1>3, <1>4, <1>7, <1>8, <1>10, <2>2 DEF RightAnswer
  <2> QED
    BY <1>7, <1>10, <2>3 DEF A, N
<1>11. CASE ~(ans' = 0 \/ ok' = N)
  <2>1. labels' = labels /\ expr' = expr /\ c' = c /\ mode' = mode
    BY <1>2, <1>11 DEF index
  <2>2. KnownOf(M, N, u) /\ LeastFrom(A, ans') = LeastFrom(A, c) /\ ans' # 0
    BY <1>4, <1>7, <1>8, <1>11
  <2>3. M' = M /\ N' = N /\ A' = A /\ t' = u
    BY <2>1 DEF M, N, A, t, u, PartMeanings, Locals3
  <2>4. MidCall'
    BY <1>7, <2>1, <2>2, <2>3 DEF MidCall, M, N, A, t, u
  <2> QED
    BY <1>11, <2>4 DEF N
<1> QED
  BY <1>9, <1>10, <1>11

LEMMA NextHolds == NoEndRuns /\ IInv /\ [Next]_vars => IInv'
<1> SUFFICES ASSUME NoEndRuns, IInv, [Next]_vars PROVE IInv'
  OBVIOUS
<1>1. TypeInv /\ TypeInv'
  BY TypeNext DEF IInv
<1>2. labels \in LabelSets /\ stray \in Strays /\ expr \in Exprs /\ AllLeave(labels)
  BY <1>1 DEF TypeInv, TypeOK, NoEndRuns
<1>3. \A b \in 1 .. Sentinel : b \in Asks
  BY Numbers
<1>4. ASSUME NEW b \in 1 .. Sentinel, Leap(b) PROVE IInv'
  <2>1. /\ labels' = labels /\ expr' = expr /\ busy' = FALSE
        /\ mode' = "leap" /\ ret' = [x |-> "x", c |-> b, v |-> Ask(expr, b)]
    BY <1>1, <1>4 DEF Leap, MayAsk, Answered, index, call, TypeInv
  <2>2. RightAnswer(Ask(expr, b), Meaning(labels, expr), b)
    BY <1>2, <1>3, AskRight
  <2> QED
    BY <1>1, <2>1, <2>2 DEF IInv
<1>5. ASSUME NEW b \in 1 .. Sentinel, LeapAnd(b) PROVE IInv'
  <2>1. /\ labels' = labels /\ expr' = expr /\ mode' = mode /\ ret' = ret /\ expr.type = "AND"
        /\ c' = b /\ ans' = b /\ ok' = 0 /\ i' = 0 /\ mode # "down"
    BY <1>5 DEF LeapAnd, MayAsk, index
  <2>2. Len(expr.args) \in Nat \ {0}
    BY <1>2, <2>1, ExprIs
  <2>3. Meaning(labels, expr)' = Meaning(labels, expr) /\ PartMeanings' = PartMeanings
    BY <2>1 DEF PartMeanings
  <2>4. Locals3'.i = 0 /\ Locals3'.ok = 0
    BY <2>1 DEF Locals3
  <2>5. Agreed(Len(expr.args), Locals3') = {}
    BY <2>2, <2>4 DEF Agreed
  <2>6. KnownOf(PartMeanings, Len(expr.args), Locals3)'
    BY <2>1, <2>3, <2>5 DEF KnownOf
  <2>7. b # 0
    BY <1>3 DEF Asks
  <2>8. MidCall'
    BY <2>1, <2>3, <2>6, <2>7 DEF MidCall
  <2> QED
    BY <1>1, <2>1, <2>3, <2>8 DEF IInv
<1>6. ASSUME Turn PROVE IInv'
  <2>1. /\ UNCHANGED <<index, m_value, c>> /\ busy
        /\ IF ans' = 0 \/ ok' = Len(expr.args) THEN Answered(c, ans') /\ busy' = FALSE
           ELSE UNCHANGED <<mode, ret, busy>>
    BY <1>1, <1>6, TurnTypes DEF Turn
  <2>2. labels' = labels /\ expr' = expr
    BY <2>1 DEF index
  <2>3. CASE ans' = 0 \/ ok' = Len(expr.args)
    <3>1. RightAnswer(ans', Meaning(labels, expr), c) /\ c \in 1 .. Sentinel
      BY <1>6, <2>3, TurnAnswers
    <3>2. busy' = FALSE /\ mode' = "leap" /\ ret' = [x |-> "x", c |-> c, v |-> ans']
      BY <2>1, <2>3 DEF Answered
    <3> QED
      BY <1>1, <2>2, <3>1, <3>2 DEF IInv
  <2>4. CASE ~(ans' = 0 \/ ok' = Len(expr.args))
    <3>1. MidCall'
      BY <1>6, <2>4, TurnAnswers
    <3>2. mode' = mode /\ ret' = ret
      BY <2>1, <2>4
    <3> QED
      BY <1>1, <2>2, <3>1, <3>2 DEF IInv
  <2> QED
    BY <2>3, <2>4
<1>7. ASSUME Down PROVE IInv'
  <2>1. ret' = [ret EXCEPT !.c = ret.v, !.v = 0] /\ mode' = "down" /\ busy' = FALSE /\ mode = "leap"
    BY <1>1, <1>7 DEF Down, call, TypeInv
  <2>2. ret'.x = ret.x
    BY <1>1, <2>1 DEF TypeInv
  <2> QED
    BY <1>1, <2>1, <2>2 DEF IInv
<1>8. ASSUME Up PROVE IInv'
  <2>1. ret' = [ret EXCEPT !.c = m_value, !.v = 0] /\ mode' = "back" /\ busy' = busy /\ mode = "down"
    BY <1>8 DEF Up, call
  <2>2. ret'.x = ret.x /\ ~busy
    BY <1>1, <2>1 DEF TypeInv, IInv, MidCall
  <2> QED
    BY <1>1, <2>1, <2>2 DEF IInv
<1>9. ASSUME UNCHANGED vars PROVE IInv'
  BY <1>1, <1>9 DEF vars, IInv, MidCall, PartMeanings, Locals3
<1> QED
  BY <1>4, <1>5, <1>6, <1>7, <1>8, <1>9 DEF Next

THEOREM InvariantHolds == NoEndRuns /\ Spec => []IInv
<1> SUFFICES ASSUME NoEndRuns PROVE Spec => []IInv
  OBVIOUS
<1>1. IInv /\ [Next]_vars => IInv'
  BY NextHolds
<1> QED
  BY <1>1, InitHolds, PTL DEF Spec

-----------------------------------------------------------------------------
\* The state of the contract.
PathOf == IF mode = "down" THEN <<[x |-> "x", v |-> m_value]>> ELSE <<>>
ModeOf == IF mode = "down" THEN "idle" ELSE mode
RetOf == [ret EXCEPT !.v = InRange(@)]
Matching == {[x |-> n] : n \in Meaning(labels, expr)}

LEMMA GivenIs ==
  ASSUME mode # "down"
  PROVE  Contract!Free = {"x"} /\ Contract!Given("x") = Meaning(labels, expr)
<1>1. PathOf = <<>>
  BY DEF PathOf
<1>2. Contract!Free = {"x"}
  <2>1. Contract!Free = {"x"} \ {PathOf[d].x : d \in DOMAIN PathOf}
    BY DEF Contract!Free, PathOf
  <2>2. DOMAIN PathOf = {}
    BY <1>1
  <2> QED
    BY <2>1, <2>2
<1>3. Contract!Agreeing = Matching
  <2>1. Contract!Agreeing = {m \in Matching : \A d \in DOMAIN PathOf : m[PathOf[d].x] = PathOf[d].v}
    BY DEF Contract!Agreeing, PathOf, Matching
  <2>2. DOMAIN PathOf = {}
    BY <1>1
  <2> QED
    BY <2>1, <2>2
<1>4. Contract!Given("x") = {m["x"] : m \in Matching}
  BY <1>3 DEF Contract!Given
<1>5. {m["x"] : m \in Matching} = Meaning(labels, expr)
  <2> DEFINE A == Meaning(labels, expr)
  <2>1. Matching = {[x |-> n] : n \in A}
    BY DEF Matching
  <2> HIDE DEF A
  <2>2. \A n : [x |-> n]["x"] = n
    OBVIOUS
  <2>3. ASSUME NEW n \in A PROVE \E m \in Matching : m["x"] = n
    <3>1. [x |-> n] \in Matching
      BY <2>1
    <3> QED
      BY <2>2, <3>1
  <2>4. ASSUME NEW m \in Matching PROVE m["x"] \in A
    BY <2>1, <2>2
  <2>5. {m["x"] : m \in Matching} = A
    BY <2>3, <2>4
  <2> QED
    BY <2>5 DEF A
<1> QED
  BY <1>2, <1>4, <1>5

LEMMA RetOfIs ==
  ASSUME TypeInv
  PROVE  RetOf = [x |-> ret.x, c |-> ret.c, v |-> InRange(ret.v)]
<1>1. ret \in [x : {"none", "x"}, c : 0 .. Sentinel, v : Values]
  BY DEF TypeInv
<1> QED
  BY <1>1 DEF RetOf

\* The answer of a leap is the answer of the contract.
LEMMA LeapImplements ==
  ASSUME IInv, IInv', NEW b \in 1 .. Sentinel, mode # "down", mode' = "leap",
         labels' = labels, expr' = expr, ret'.c = b
  PROVE  Contract!Leap("x", b)
<1>1. Contract!Free = {"x"} /\ Contract!Given("x") = Meaning(labels, expr)
  BY GivenIs
<1>2. InRange(ret'.v) = LeastFrom(Meaning(labels, expr), b) /\ ret'.x = "x" /\ TypeInv'
  BY DEF IInv, RightAnswer
<1>3. RetOf' = [x |-> ret'.x, c |-> ret'.c, v |-> InRange(ret'.v)]
  <2>1. ret' \in [x : {"none", "x"}, c : 0 .. Sentinel, v : Values]
    BY <1>2 DEF TypeInv
  <2> QED
    BY <2>1 DEF RetOf
<1>4. RetOf' = [x |-> "x", c |-> b, v |-> LeastFrom(Meaning(labels, expr), b)]
  BY <1>2, <1>3
<1>5. Contract!Ask("x", b)
  BY <1>1, <1>4 DEF Contract!Ask, Contract!LeastFrom, LeastFrom, RetOf
<1>6. ModeOf # "under" /\ ModeOf' = "leap" /\ PathOf' = PathOf
  BY DEF ModeOf, PathOf, IInv, TypeInv, TypeOK
<1>7. UNCHANGED Contract!pattern
  BY DEF Contract!pattern
<1> QED
  BY <1>1, <1>5, <1>6, <1>7 DEF Contract!Leap, ModeOf, PathOf

LEMMA StepImplements == IInv /\ IInv' /\ [Next]_vars => [Contract!Next]_(Contract!vars)
<1> SUFFICES ASSUME IInv, IInv', [Next]_vars PROVE [Contract!Next]_(Contract!vars)
  OBVIOUS
<1>1. TypeInv /\ TypeInv'
  BY DEF IInv
<1>2. ASSUME NEW b \in 1 .. Sentinel, Contract!Leap("x", b) PROVE Contract!Next
  BY <1>2 DEF Contract!Next
<1>3. ASSUME NEW b \in 1 .. Sentinel, Leap(b) PROVE Contract!Next
  <2>1. /\ mode # "down" /\ mode' = "leap" /\ labels' = labels /\ expr' = expr /\ ret'.c = b
    BY <1>3 DEF Leap, MayAsk, Answered, index
  <2> QED
    BY <1>2, <2>1, LeapImplements
<1>4. ASSUME UNCHANGED <<labels, expr, m_value, mode, ret>> PROVE UNCHANGED Contract!vars
  BY <1>4 DEF Contract!vars, Contract!pattern
<1>5. ASSUME NEW b \in 1 .. Sentinel, LeapAnd(b) PROVE UNCHANGED Contract!vars
  BY <1>4, <1>5 DEF LeapAnd, index
<1>6. ASSUME Turn PROVE [Contract!Next]_(Contract!vars)
  <2>1. /\ UNCHANGED <<index, m_value, c>> /\ busy
        /\ IF ans' = 0 \/ ok' = Len(expr.args) THEN Answered(c, ans') /\ busy' = FALSE
           ELSE UNCHANGED <<mode, ret, busy>>
    BY <1>1, <1>6, TurnTypes DEF Turn
  <2>2. mode # "down" /\ c \in 1 .. Sentinel
    BY <2>1 DEF IInv, MidCall
  <2>3. CASE ans' = 0 \/ ok' = Len(expr.args)
    <3>1. mode' = "leap" /\ ret' = [x |-> "x", c |-> c, v |-> ans']
      BY <2>1, <2>3 DEF Answered
    <3>2. labels' = labels /\ expr' = expr /\ ret'.c = c
      BY <2>1, <3>1 DEF index
    <3> QED
      BY <1>2, <2>2, <3>1, <3>2, LeapImplements
  <2>4. CASE ~(ans' = 0 \/ ok' = Len(expr.args))
    BY <1>4, <2>1, <2>4 DEF index
  <2> QED
    BY <2>3, <2>4
<1>7. ASSUME Down PROVE Contract!Down
  <2>1. /\ mode = "leap" /\ ret.v \in Ids /\ m_value' = ret.v /\ mode' = "down"
        /\ ret' = [ret EXCEPT !.c = ret.v, !.v = 0] /\ labels' = labels /\ expr' = expr
    BY <1>7 DEF Down, index
  <2>2. ret \in [x : {"none", "x"}, c : 0 .. Sentinel, v : Values] /\ ret.x = "x"
    BY <1>1, <2>1 DEF TypeInv, IInv
  <2>3. InRange(ret.v) = ret.v /\ ret.v # 0 /\ InRange(0) = 0
    BY <2>1, Numbers DEF InRange, Ids
  <2>4. RetOf = [x |-> "x", c |-> ret.c, v |-> ret.v]
    BY <1>1, <2>2, <2>3, RetOfIs
  <2>5. RetOf' = [x |-> "x", c |-> ret.v, v |-> 0]
    <3>1. ret' = [x |-> "x", c |-> ret.v, v |-> 0]
      BY <2>1, <2>2
    <3> QED
      BY <2>3, <3>1 DEF RetOf
  <2>6. ModeOf = "leap" /\ ModeOf' = "idle" /\ PathOf = <<>>
        /\ PathOf' = <<[x |-> "x", v |-> ret.v]>>
    BY <2>1 DEF ModeOf, PathOf
  <2>7. PathOf' = Append(PathOf, [x |-> RetOf.x, v |-> RetOf.v])
    BY <2>4, <2>6
  <2>8. RetOf' = [x |-> RetOf.x, c |-> RetOf.v, v |-> 0] /\ RetOf.v # 0
    BY <2>3, <2>4, <2>5
  <2>9. UNCHANGED Contract!pattern
    BY <2>1 DEF Contract!pattern
  <2> QED
    BY <2>6, <2>7, <2>8, <2>9 DEF Contract!Down, PathOf, ModeOf, RetOf
<1>8. ASSUME Up PROVE Contract!Up
  <2>1. /\ mode = "down" /\ mode' = "back" /\ labels' = labels /\ expr' = expr
        /\ ret' = [ret EXCEPT !.c = m_value, !.v = 0]
    BY <1>8 DEF Up, index
  <2>2. ret \in [x : {"none", "x"}, c : 0 .. Sentinel, v : Values] /\ ret.x = "x"
    BY <1>1, <2>1 DEF TypeInv, IInv
  <2>3. RetOf' = [x |-> "x", c |-> m_value, v |-> 0]
    <3>1. ret' = [x |-> "x", c |-> m_value, v |-> 0]
      BY <2>1, <2>2
    <3>2. InRange(0) = 0
      BY Numbers DEF InRange
    <3> QED
      BY <3>1, <3>2 DEF RetOf
  <2>4. ModeOf = "idle" /\ ModeOf' = "back" /\ PathOf' = <<>>
        /\ PathOf = <<[x |-> "x", v |-> m_value]>>
    BY <2>1 DEF ModeOf, PathOf
  <2>5. PathOf # <<>> /\ Len(PathOf) = 1 /\ PathOf[Len(PathOf)] = [x |-> "x", v |-> m_value]
        /\ PathOf' = SubSeq(PathOf, 1, Len(PathOf) - 1)
    BY <2>4
  <2>6. RetOf' = [x |-> PathOf[Len(PathOf)].x, c |-> PathOf[Len(PathOf)].v, v |-> 0]
    BY <2>3, <2>5
  <2>7. UNCHANGED Contract!pattern
    BY <2>1 DEF Contract!pattern
  <2> QED
    BY <2>4, <2>5, <2>6, <2>7 DEF Contract!Up, PathOf, ModeOf, RetOf
<1>9. ASSUME UNCHANGED vars PROVE UNCHANGED Contract!vars
  BY <1>4, <1>9 DEF vars
<1> QED
  BY <1>3, <1>5, <1>6, <1>7, <1>8, <1>9 DEF Next, Contract!Next

\* AnswersLeastMatch: if no label ends in a run at the last node, every leap answers the least
\* node from its bound on that the expression holds of, for all labels, runs and expressions.
THEOREM ImplementsContract == NoEndRuns /\ Spec => AnswersLeastMatch
<1> SUFFICES ASSUME NoEndRuns PROVE Spec => AnswersLeastMatch
  OBVIOUS
<1>1. Init => Contract!Init
  BY Numbers DEF Init, Contract!Init, InRange
<1>2. IInv /\ IInv' /\ [Next]_vars => [Contract!Next]_(Contract!vars)
  BY StepImplements
<1>3. Spec => Contract!Spec
  BY <1>1, <1>2, InvariantHolds, PTL DEF Spec, Contract!Spec
<1> QED
  BY <1>3 DEF AnswersLeastMatch

\* LeavesForward: on the same condition an answer never lies below the bound.
THEOREM LeavesRuns == NoEndRuns /\ Spec => []LeavesForward
<1>1. ASSUME IInv PROVE LeavesForward
  <2> SUFFICES ASSUME mode = "leap", ret.v \in Ids PROVE ret.c <= ret.v
    BY DEF LeavesForward
  <2>1. labels \in LabelSets /\ expr \in Exprs
    BY <1>1 DEF IInv, TypeInv, TypeOK
  <2>2. PICK m \in [Exprs -> SUBSET Ids] : GivesMeanings(m, labels)
    BY <2>1, MeaningsExist
  <2>3. Meaning(labels, expr) \in SUBSET Ids
    BY <2>1, <2>2, MeaningIs
  <2>4. ret.c \in Asks /\ RightAnswer(ret.v, Meaning(labels, expr), ret.c)
    BY <1>1, Numbers DEF IInv
  <2> QED
    BY <2>3, <2>4, RightAnswerSays
<1> QED
  BY <1>1, InvariantHolds, PTL
=============================================================================
