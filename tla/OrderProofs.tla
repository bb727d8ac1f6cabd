----------------------------- MODULE OrderProofs ----------------------------
(***************************************************************************)
(* The two elimination orders.  For every query and whatever the iterators *)
(* report: the stacks of the adaptive order follow the search, the order   *)
(* of the variables is legal, and the weights come back.  For every query  *)
(* and all weights: the static order holds each variable once, in a legal  *)
(* order, and it never leaves a connected part of the query while a        *)
(* variable of it is left.                                                 *)
(***************************************************************************)
EXTENDS VEO, SimpleOrder, BasicTheorems, FiniteSetTheorems, SequenceTheorems

(***************************************************************************)
(* The adaptive order.                                                     *)
(***************************************************************************)
\* How many of the d outermost nodes have a variable that is not lonely.
Capped(d) == IF d <= NotLonelySize THEN d ELSE NotLonelySize

IndexInv ==
  /\ m_index = Depth /\ Len(m_bound) = Capped(Depth)
  /\ Len(m_versions) = Capped(IF pc = "loop" THEN Depth - 1 ELSE Depth)
  /\ pc = "choose" => Depth < Cardinality(profile.vars)
  /\ pc \in {"loop", "below"} => Depth >= 1
  /\ pc = "done" => Depth = 0

\* m_bound holds different variables, first all nodes and then edges.
BoundInv ==
  /\ \A d \in 1 .. Len(m_bound) :
       m_bound[d] = order[d] /\ (m_bound[d] \in profile.nodes <=> d <= NodesCount)
  /\ \A d, e \in 1 .. Len(m_bound) : m_bound[d] = m_bound[e] => d = e
  /\ \A v \in NotLonely : is_bound[v] <=> \E d \in 1 .. Len(m_bound) : m_bound[d] = v

LonelyInv == \A d \in 1 .. Depth : d > NotLonelySize => order[d] = LonelyAt(d - NotLonelySize)

\* The version of depth d holds v.
Changed(d, v) == d <= Len(m_versions) /\ v \in DOMAIN m_versions[d]
Near(a, b) == a = b \/ a = Whole(b)

\* Versions hold the whole part of the weights at the opening of their node; what a
\* version does not hold has not moved between the openings of two nodes.
VersionInv ==
  /\ \A d \in 1 .. Len(m_versions) : \A v \in DOMAIN m_versions[d] :
       m_versions[d][v] = Whole(saved[d][v])
  /\ \A d \in 1 .. Depth - 1 : \A v \in NotLonely :
       Changed(d, v) \/ Near(saved[d + 1][v], saved[d][v])
  /\ Depth >= 1 => \A v \in NotLonely : Changed(Depth, v) \/ Near(weight[v], saved[Depth][v])

VersionType == m_versions \in Seq(UNION {[V -> Nat] : V \in SUBSET NotLonely})

IInv == TypeOK /\ VersionType /\ IndexInv /\ BoundInv /\ LonelyInv /\ VersionInv

-----------------------------------------------------------------------------
(***************************************************************************)
(* Whole parts.                                                            *)
(***************************************************************************)
LEMMA MultipleMod ==
  ASSUME NEW q \in Nat, NEW u \in Nat \ {0}
  PROVE  (u * q) % u = 0
<1> DEFINE x == u * q
           y == x \div u
           r == x % u
<1>1. x \in Nat /\ y \in Nat /\ r \in 0 .. u - 1 /\ x = u * y + r
  BY SMT
<1> HIDE DEF y, r
<1>2. u * (q - y) = r
  BY <1>1, SMT
<1>3. q - y \in Int
  BY <1>1, SMT
<1>4. CASE q - y >= 1
  <2>1. u * (q - y) >= u BY <1>3, <1>4, SMT
  <2>2. QED BY <1>1, <1>2, <2>1, SMT
<1>5. CASE q - y <= -1
  <2>1. u * (q - y) <= -u BY <1>3, <1>5, SMT
  <2>2. QED BY <1>1, <1>2, <2>1, SMT
<1>6. CASE q - y = 0
  <2>1. r = 0 BY <1>2, <1>6, SMT
  <2>2. QED BY <2>1 DEF r
<1>7. QED BY <1>3, <1>4, <1>5, <1>6, SMT

LEMMA WholeFacts ==
  ASSUME NEW w \in Nat
  PROVE  Whole(w) \in Nat /\ Whole(Whole(w)) = Whole(w)
<1>1. Unit \in Nat \ {0}
  BY WeightAssumption
<1>2. w - (w % Unit) \in Nat
  BY <1>1, SMT
<1>3. (w \div Unit) \in Nat /\ w - (w % Unit) = Unit * (w \div Unit)
  BY <1>1, SMT
<1>4. (w - (w % Unit)) % Unit = 0
  BY <1>1, <1>3, MultipleMod
<1>5. QED BY <1>2, <1>4 DEF Whole

LEMMA NearTransitive ==
  ASSUME NEW a \in Nat, NEW b \in Nat, NEW c \in Nat, Near(a, b), Near(b, c)
  PROVE  Near(a, c)
BY WholeFacts DEF Near

(***************************************************************************)
(* Stacks.                                                                 *)
(***************************************************************************)
LEMMA AppendFacts ==
  ASSUME NEW S, NEW s \in Seq(S), NEW x \in S
  PROVE  /\ Append(s, x) \in Seq(S) /\ Len(Append(s, x)) = Len(s) + 1
         /\ \A d \in 1 .. Len(s) : Append(s, x)[d] = s[d]
         /\ Append(s, x)[Len(s) + 1] = x
OBVIOUS

LEMMA PopFacts ==
  ASSUME NEW S, NEW s \in Seq(S), Len(s) >= 1
  PROVE  /\ Pop(s) \in Seq(S) /\ Len(Pop(s)) = Len(s) - 1
         /\ \A d \in 1 .. Len(s) - 1 : Pop(s)[d] = s[d]
         /\ Top(s) \in S /\ Top(s) = s[Len(s)]
<1>1. Len(s) \in Nat /\ \A d \in 1 .. Len(s) : s[d] \in S
  OBVIOUS
<1>2. Len(s) - 1 \in Int /\ \A d \in 1 .. Len(s) - 1 : s[d] \in S
  BY <1>1
<1> DEFINE t == SubSeq(s, 1, Len(s) - 1)
<1>3. /\ t \in Seq(S) /\ Len(t) = IF 1 <= Len(s) - 1 THEN (Len(s) - 1) - 1 + 1 ELSE 0
      /\ \A d \in 1 .. (Len(s) - 1) - 1 + 1 : t[d] = s[1 + d - 1]
  BY <1>2, SubSeqProperties
<1>4. t = Pop(s)
  BY DEF Pop
<1> HIDE DEF t
<1> DEFINE n == Len(s)
<1>7. n \in Nat /\ n >= 1 /\ Len(t) = IF 1 <= n - 1 THEN (n - 1) - 1 + 1 ELSE 0
  BY <1>1, <1>3, Zenon
<1>5. Len(t) = Len(s) - 1
  <2>1. Len(t) = n - 1
    <3> HIDE DEF n
    <3>1. QED BY <1>7
  <2>2. QED BY <2>1
<1>6. ASSUME NEW d \in 1 .. Len(s) - 1 PROVE t[d] = s[d]
  <2>1. d \in 1 .. (Len(s) - 1) - 1 + 1 /\ 1 + d - 1 = d
    BY <1>1
  <2>2. QED BY <1>3, <2>1
<1>8. QED BY <1>1, <1>3, <1>4, <1>5, <1>6 DEF Top

(***************************************************************************)
(* Queries.                                                                *)
(***************************************************************************)
LEMMA ProfileFacts ==
  ASSUME profile \in Profiles
  PROVE  /\ IsFiniteSet(profile.vars) /\ profile.vars \in SUBSET Nat
         /\ Cardinality(profile.vars) \in Nat \ {0}
         /\ IsFiniteSet(NotLonely) /\ NotLonely \in SUBSET profile.vars
         /\ NotLonelySize \in Nat /\ NodesCount \in 0 .. NotLonelySize
         /\ IsFiniteSet(NotLonely \cap profile.nodes)
         /\ IsFiniteSet(profile.lonely) /\ profile.lonely \in SUBSET profile.vars
         /\ Cardinality(profile.lonely) \in Nat
         /\ NotLonelySize + Cardinality(profile.lonely) = Cardinality(profile.vars)
         /\ \A v \in profile.vars : profile.related[v] \in SUBSET NotLonely
<1>1. IsProfile(profile)
  BY ProfileAssumption
<1>2. /\ IsFiniteSet(profile.vars) /\ profile.vars # {}
      /\ profile.vars = 1 .. Cardinality(profile.vars) /\ profile.lonely \subseteq profile.vars
      /\ profile.related \in [profile.vars -> SUBSET (profile.vars \ profile.lonely)]
  BY <1>1 DEF IsProfile
<1>3. Cardinality(profile.vars) \in Nat /\ Cardinality(profile.vars) # 0
  BY <1>2, FS_CardinalityType, FS_EmptySet
<1>4. profile.vars \in SUBSET Nat
  BY <1>2, <1>3
<1>5. IsFiniteSet(NotLonely) /\ NotLonely \in SUBSET profile.vars
  BY <1>2, FS_Difference DEF NotLonely
<1>6. NotLonelySize \in Nat
  BY <1>5, FS_CardinalityType DEF NotLonelySize
<1>7. /\ IsFiniteSet(NotLonely \cap profile.nodes)
      /\ NodesCount \in Nat /\ NodesCount <= NotLonelySize
  BY <1>5, FS_Intersection, FS_CardinalityType DEF NodesCount, NotLonelySize
<1>8. IsFiniteSet(profile.lonely) /\ Cardinality(profile.lonely) \in Nat
  BY <1>2, FS_Subset, FS_CardinalityType
<1>9. NotLonelySize + Cardinality(profile.lonely) = Cardinality(profile.vars)
  <2>1. profile.vars \cap profile.lonely = profile.lonely
    BY <1>2
  <2>2. NotLonelySize = Cardinality(profile.vars) - Cardinality(profile.lonely)
    BY <1>2, <2>1, FS_Difference DEF NotLonelySize, NotLonely
  <2>3. QED BY <1>3, <1>8, <2>2
<1>10. \A v \in profile.vars : profile.related[v] \in SUBSET NotLonely
  BY <1>2 DEF NotLonely
<1>11. QED
  BY <1>2, <1>3, <1>4, <1>5, <1>6, <1>7, <1>8, <1>9, <1>10

\* A query stays what it is.
LEMMA ProfileStays ==
  ASSUME UNCHANGED profile
  PROVE  /\ NotLonely' = NotLonely /\ NotLonelySize' = NotLonelySize
         /\ NodesCount' = NodesCount
         /\ \A k : LonelyAt(k)' = LonelyAt(k)
BY DEF NotLonely, NotLonelySize, NodesCount, LonelyAt, LonelyBefore

-----------------------------------------------------------------------------
(***************************************************************************)
(* What next gives: m_lonely enumerates the lonely variables, and as long  *)
(* as there are others one of them is eligible.                            *)
(***************************************************************************)
BeforeIt(v) == {w \in profile.lonely : LonelyBefore(w, v)}

LEMMA LonelyRank ==
  ASSUME profile \in Profiles
  PROVE  /\ \A v \in profile.lonely :
              Cardinality(BeforeIt(v)) \in 0 .. Cardinality(profile.lonely) - 1
         /\ \A v, w \in profile.lonely :
              LonelyBefore(v, w) => Cardinality(BeforeIt(v)) < Cardinality(BeforeIt(w))
<1>1. /\ IsFiniteSet(profile.lonely) /\ profile.lonely \subseteq Nat
      /\ Cardinality(profile.lonely) \in Nat
  BY ProfileFacts
<1>2. \A v \in profile.lonely :
        IsFiniteSet(BeforeIt(v)) /\ Cardinality(BeforeIt(v)) \in Nat /\ v \notin BeforeIt(v)
  <2>1. \A v \in profile.lonely : BeforeIt(v) \in SUBSET profile.lonely /\ v \notin BeforeIt(v)
    BY <1>1 DEF BeforeIt, LonelyBefore
  <2>2. QED BY <1>1, <2>1, FS_Subset, FS_CardinalityType
<1>3. ASSUME NEW v \in profile.lonely, NEW B \in SUBSET profile.lonely, BeforeIt(v) \cup {v} \subseteq B
      PROVE  Cardinality(BeforeIt(v)) + 1 <= Cardinality(B)
  <2>1. Cardinality(BeforeIt(v) \cup {v}) = Cardinality(BeforeIt(v)) + 1
    BY <1>2, FS_AddElement
  <2>2. IsFiniteSet(B)
    BY <1>1, FS_Subset
  <2>3. QED BY <1>3, <2>1, <2>2, FS_Subset
<1>4. \A v \in profile.lonely : Cardinality(BeforeIt(v)) + 1 <= Cardinality(profile.lonely)
  <2>1. \A v \in profile.lonely : BeforeIt(v) \cup {v} \subseteq profile.lonely
    BY DEF BeforeIt
  <2>2. QED BY <1>3, <2>1
<1>5. ASSUME NEW v \in profile.lonely, NEW w \in profile.lonely, LonelyBefore(v, w)
      PROVE  Cardinality(BeforeIt(v)) < Cardinality(BeforeIt(w))
  <2>1. BeforeIt(v) \cup {v} \subseteq BeforeIt(w) /\ BeforeIt(w) \in SUBSET profile.lonely
    BY <1>1, <1>5 DEF BeforeIt, LonelyBefore
  <2>2. Cardinality(BeforeIt(v)) + 1 <= Cardinality(BeforeIt(w))
    BY <1>3, <2>1
  <2>3. QED BY <1>2, <2>2
<1>6. QED BY <1>1, <1>2, <1>4, <1>5

LEMMA LonelyEnumerated ==
  ASSUME profile \in Profiles, NEW k \in 1 .. Cardinality(profile.lonely)
  PROVE  LonelyAt(k) \in profile.lonely /\ Cardinality(BeforeIt(LonelyAt(k))) = k - 1
<1> DEFINE n == Cardinality(profile.lonely)
           f == [v \in profile.lonely |-> Cardinality(BeforeIt(v))]
<1>1. /\ IsFiniteSet(profile.lonely) /\ profile.lonely \subseteq Nat /\ n \in Nat
  BY ProfileFacts
<1>2. f \in [profile.lonely -> 0 .. n - 1]
  BY LonelyRank
<1>3. ASSUME NEW v \in profile.lonely, NEW w \in profile.lonely, f[v] = f[w] PROVE v = w
  <2>1. v \in Nat /\ w \in Nat /\ Cardinality(BeforeIt(v)) = Cardinality(BeforeIt(w))
    BY <1>1, <1>3
  <2>2. ~LonelyBefore(v, w) /\ ~LonelyBefore(w, v)
    BY <1>2, <2>1, LonelyRank
  <2>3. QED BY <2>1, <2>2 DEF LonelyBefore
<1>4. f \in Injection(profile.lonely, 0 .. n - 1)
  BY <1>2, <1>3 DEF Injection, IsInjective
<1>5. IsFiniteSet(0 .. n - 1) /\ Cardinality(0 .. n - 1) = n
  <2>1. 0 \in Int /\ n - 1 \in Int /\ (IF 0 > n - 1 THEN 0 ELSE (n - 1) - 0 + 1) = n
    BY <1>1
  <2>2. QED BY <2>1, FS_Interval
<1>6. f \in Surjection(profile.lonely, 0 .. n - 1)
  BY <1>4, <1>5, FS_Injection
<1>7. PICK v \in profile.lonely : f[v] = k - 1
  BY <1>1, <1>6 DEF Surjection
<1>8. Cardinality({w \in profile.lonely : LonelyBefore(w, v)}) = k - 1
  BY <1>7 DEF BeforeIt
<1>9. QED BY <1>8 DEF LonelyAt, BeforeIt

\* Different positions of the stack for different variables: no more variables of
\* one kind are bound than the stack has positions of that kind.
LEMMA SomeUnbound ==
  ASSUME IInv, NEW V \in SUBSET NotLonely, NEW lo \in Int, NEW hi \in Int,
         hi <= Len(m_bound), lo >= 1, hi - lo + 1 < Cardinality(V),
         lo <= hi + 1,
         \A d \in 1 .. Len(m_bound) : m_bound[d] \in V => d \in lo .. hi
  PROVE  \E v \in V : ~is_bound[v]
<1> SUFFICES ASSUME \A v \in V : is_bound[v] PROVE FALSE
  OBVIOUS
<1> DEFINE Pos(v) == CHOOSE d \in 1 .. Len(m_bound) : m_bound[d] = v
           f == [v \in V |-> Pos(v)]
<1>1. \A v \in V : Pos(v) \in 1 .. Len(m_bound) /\ m_bound[Pos(v)] = v
  BY DEF IInv, BoundInv
<1>2. \A v \in V : Pos(v) \in lo .. hi
  BY <1>1
<1>3. f \in [V -> lo .. hi]
  BY <1>2
<1>4. \A v, w \in V : f[v] = f[w] => v = w
  BY <1>1
<1>5. f \in Injection(V, lo .. hi)
  BY <1>3, <1>4 DEF Injection, IsInjective
<1>6. IsFiniteSet(lo .. hi) /\ Cardinality(lo .. hi) = hi - lo + 1
  <2>1. (IF lo > hi THEN 0 ELSE hi - lo + 1) = hi - lo + 1
    OBVIOUS
  <2>2. QED BY <2>1, FS_Interval
<1>7. Cardinality(V) <= hi - lo + 1
  BY <1>5, <1>6, FS_Injection
<1>8. IsFiniteSet(V)
  BY <1>5, <1>6, FS_Injection
<1>9. QED BY <1>7, <1>8, FS_CardinalityType

LEMMA SomeEligible ==
  ASSUME IInv, m_index < NotLonelySize
  PROVE  \E v \in profile.vars : Eligible(v)
<1>1. /\ NotLonelySize \in Nat /\ NodesCount \in 0 .. NotLonelySize
      /\ NotLonely \subseteq profile.vars /\ IsFiniteSet(NotLonely)
      /\ IsFiniteSet(NotLonely \cap profile.nodes)
  BY ProfileFacts DEF IInv, TypeOK
<1>2. m_index \in Nat /\ Len(m_bound) = m_index
  BY <1>1 DEF IInv, IndexInv, Capped, TypeOK
<1>3. \A d \in 1 .. Len(m_bound) : m_bound[d] \in profile.nodes <=> d <= NodesCount
  BY DEF IInv, BoundInv
<1>4. CASE m_index < NodesCount
  <2> DEFINE V == NotLonely \cap profile.nodes
  <2>1. \E v \in V : ~is_bound[v]
    <3>1. m_index - 1 + 1 < Cardinality(V)
      BY <1>2, <1>4 DEF NodesCount
    <3>2. \A d \in 1 .. Len(m_bound) : m_bound[d] \in V => d \in 1 .. m_index
      BY <1>2
    <3>3. V \in SUBSET NotLonely /\ 1 \in Int /\ m_index \in Int /\ m_index <= Len(m_bound)
          /\ 1 >= 1 /\ 1 <= m_index + 1
      BY <1>2
    <3>4. QED BY <3>1, <3>2, <3>3, SomeUnbound
  <2>2. QED BY <1>1, <1>4, <2>1 DEF Eligible
<1>5. CASE m_index >= NodesCount
  <2> DEFINE V == NotLonely \ profile.nodes
  <2>1. Cardinality(V) = NotLonelySize - NodesCount
    BY <1>1, FS_Difference DEF NotLonelySize, NodesCount
  <2>2. \E v \in V : ~is_bound[v]
    <3>1. m_index - (NodesCount + 1) + 1 < Cardinality(V)
      BY <1>1, <1>2, <2>1
    <3>2. \A d \in 1 .. Len(m_bound) : m_bound[d] \in V => d \in NodesCount + 1 .. m_index
      BY <1>1, <1>2, <1>3
    <3>3. V \in SUBSET NotLonely /\ NodesCount + 1 \in Int /\ m_index \in Int
          /\ m_index <= Len(m_bound) /\ NodesCount + 1 >= 1 /\ NodesCount + 1 <= m_index + 1
      BY <1>1, <1>2, <1>5
    <3>4. QED BY <3>1, <3>2, <3>3, SomeUnbound
  <2>3. QED BY <1>1, <1>2, <1>5, <2>2 DEF Eligible
<1>6. QED BY <1>1, <1>2, <1>4, <1>5

LEMMA LightestEligible ==
  ASSUME IInv, m_index < NotLonelySize
  PROVE  Eligible(Lightest)
<1> DEFINE S == {v \in profile.vars : Eligible(v)}
           heaviness == {Whole(weight[v]) : v \in S}
<1>1. profile.vars \subseteq Nat /\ S # {}
  BY SomeEligible, ProfileFacts DEF IInv, TypeOK
<1>2. \A v \in S : Whole(weight[v]) \in Nat
  BY WholeFacts DEF IInv, TypeOK, Eligible
<1>3. PICK least \in heaviness : \A w \in heaviness : least <= w
  <2>1. heaviness \in SUBSET Nat /\ heaviness # {}
    BY <1>1, <1>2
  <2> HIDE DEF heaviness
  <2>2. QED BY <2>1, NatHasLeast
<1> DEFINE T == {v \in S : Whole(weight[v]) = least}
<1>4. PICK first \in T : \A w \in T : first <= w
  <2>1. T \in SUBSET Nat /\ T # {}
    BY <1>1, <1>3
  <2> HIDE DEF T
  <2>2. QED BY <2>1, NatHasLeast
<1>5. \A w \in S :
        \/ Whole(weight[first]) < Whole(weight[w])
        \/ Whole(weight[first]) = Whole(weight[w]) /\ first <= w
  <2> SUFFICES ASSUME NEW w \in S
               PROVE  \/ Whole(weight[first]) < Whole(weight[w])
                      \/ Whole(weight[first]) = Whole(weight[w]) /\ first <= w
    OBVIOUS
  <2>1. Whole(weight[first]) <= Whole(weight[w]) /\ first \in S
    BY <1>3
  <2>2. Whole(weight[w]) \in Nat /\ Whole(weight[first]) \in Nat
    BY <1>2, <2>1
  <2>3. Whole(weight[w]) = Whole(weight[first]) => first <= w
    BY <1>4
  <2>4. QED BY <2>1, <2>2, <2>3
<1>6. Lightest \in S
  <2> HIDE DEF heaviness, T
  <2>1. first \in S
    BY DEF T
  <2>2. QED BY <1>5, <2>1 DEF Lightest
<1>7. QED BY <1>6

-----------------------------------------------------------------------------
(***************************************************************************)
(* Each action keeps the invariant.                                        *)
(***************************************************************************)
LEMMA InitInv ==
  ASSUME Init
  PROVE  IInv
<1>1. profile \in Profiles
  BY DEF Init
<1>2. /\ NotLonelySize \in Nat /\ Cardinality(profile.vars) \in Nat \ {0}
  BY <1>1, ProfileFacts
<1>3. /\ m_index = 0 /\ m_bound = <<>> /\ m_versions = <<>> /\ order = <<>> /\ saved = <<>>
      /\ pc = "choose" /\ is_bound = [v \in NotLonely |-> FALSE] /\ weight \in [NotLonely -> Nat]
  BY WeightAssumption DEF Init
<1>4. TypeOK
  BY <1>1, <1>2, <1>3 DEF TypeOK, Depth
<1>5. VersionType /\ IndexInv /\ BoundInv /\ LonelyInv /\ VersionInv
  BY <1>2, <1>3 DEF VersionType, IndexInv, BoundInv, LonelyInv, VersionInv, Capped, Depth
<1>6. QED BY <1>4, <1>5 DEF IInv

\* What every step starts from.
LEMMA Before ==
  ASSUME IInv
  PROVE  /\ NotLonelySize \in Nat /\ NodesCount \in 0 .. NotLonelySize
         /\ Cardinality(profile.vars) \in Nat /\ NotLonelySize <= Cardinality(profile.vars)
         /\ NotLonely \subseteq profile.vars
         /\ m_index = Depth /\ Depth \in Nat /\ Depth <= Cardinality(profile.vars)
         /\ order \in Seq(profile.vars) /\ saved \in Seq([NotLonely -> Nat])
         /\ Len(order) = Depth /\ Len(saved) = Depth
         /\ weight \in [NotLonely -> Nat] /\ is_bound \in [NotLonely -> BOOLEAN]
         /\ m_bound \in Seq(NotLonely) /\ Len(m_bound) = Capped(Depth) /\ Len(m_versions) \in Nat
         /\ \A d \in 1 .. Depth : saved[d] \in [NotLonely -> Nat]
<1>1. TypeOK /\ VersionType /\ IndexInv
  BY DEF IInv
<1>2. /\ NotLonelySize \in Nat /\ NodesCount \in 0 .. NotLonelySize
      /\ Cardinality(profile.vars) \in Nat /\ NotLonelySize <= Cardinality(profile.vars)
      /\ NotLonely \subseteq profile.vars
  BY <1>1, ProfileFacts DEF TypeOK
<1>3. /\ order \in Seq(profile.vars) /\ saved \in Seq([NotLonely -> Nat])
      /\ Len(order) = Depth /\ Len(saved) = Depth
      /\ weight \in [NotLonely -> Nat] /\ is_bound \in [NotLonely -> BOOLEAN]
      /\ m_bound \in Seq(NotLonely)
  BY <1>1 DEF TypeOK, Depth
<1>4. Len(m_bound) = Capped(Depth) /\ Len(m_versions) \in Nat /\ m_index = Depth
  BY <1>1 DEF IndexInv, VersionType
<1>5. Depth \in Nat /\ Depth <= Cardinality(profile.vars)
  BY <1>1, <1>3, <1>4 DEF TypeOK
<1>6. \A d \in 1 .. Depth : saved[d] \in [NotLonely -> Nat]
  BY <1>3, <1>5
<1>7. QED BY <1>2, <1>3, <1>4, <1>5, <1>6

\* A node that opens keeps the weights of its opening.
LEMMA OpenKeepsVersions ==
  ASSUME IInv, profile' = profile, weight' = weight, m_versions' = m_versions,
         saved' = Append(saved, weight), Depth' = Depth + 1, Len(m_versions) <= Depth
  PROVE  VersionInv'
<1> USE Before
<1>1. NotLonely' = NotLonely
  BY ProfileStays
<1>2. /\ saved' \in Seq([NotLonely -> Nat]) /\ Len(saved') = Depth + 1
      /\ \A d \in 1 .. Depth : saved'[d] = saved[d]
      /\ saved'[Depth + 1] = weight
  BY AppendFacts
<1>3. \A d \in 1 .. Len(m_versions)' : \A w \in DOMAIN m_versions'[d] :
        m_versions'[d][w] = Whole(saved'[d][w])
  <2> SUFFICES ASSUME NEW d \in 1 .. Len(m_versions), NEW w \in DOMAIN m_versions[d]
               PROVE  m_versions[d][w] = Whole(saved'[d][w])
    OBVIOUS
  <2>1. saved'[d] = saved[d]
    BY <1>2
  <2>2. QED BY <2>1 DEF IInv, VersionInv
<1>4. \A d \in 1 .. Depth : \A w \in NotLonely :
        Changed(d, w) \/ Near(saved'[d + 1][w], saved[d][w])
  <2> SUFFICES ASSUME NEW d \in 1 .. Depth, NEW w \in NotLonely
               PROVE  Changed(d, w) \/ Near(saved'[d + 1][w], saved[d][w])
    OBVIOUS
  <2>1. CASE d = Depth
    BY <1>2, <2>1 DEF IInv, VersionInv
  <2>2. CASE d # Depth
    <3>1. d \in 1 .. Depth - 1 /\ saved'[d + 1] = saved[d + 1]
      <4>1. d \in 1 .. Depth - 1 /\ d + 1 \in 1 .. Depth
        BY <2>2
      <4>2. QED BY <1>2, <4>1
    <3>2. QED BY <3>1 DEF IInv, VersionInv
  <2>3. QED BY <2>1, <2>2
<1>5. \A w \in NotLonely : Near(weight'[w], saved'[Depth + 1][w])
  BY <1>2 DEF Near
<1>6. \A d, w : Changed(d, w)' = Changed(d, w)
  BY DEF Changed
<1>7. \A d \in 1 .. Depth' - 1 : \A w \in NotLonely :
        Changed(d, w)' \/ Near(saved'[d + 1][w], saved'[d][w])
  <2> SUFFICES ASSUME NEW d \in 1 .. Depth' - 1, NEW w \in NotLonely
               PROVE  Changed(d, w)' \/ Near(saved'[d + 1][w], saved'[d][w])
    OBVIOUS
  <2>1. d \in 1 .. Depth /\ saved'[d] = saved[d]
    BY <1>2
  <2>2. QED BY <1>4, <1>6, <2>1
<1>8. QED BY <1>1, <1>3, <1>5, <1>7 DEF VersionInv, Near

LEMMA NextNotLonelyInv ==
  ASSUME IInv, NextNotLonely
  PROVE  IInv'
<1> USE Before
<1>1. /\ NotLonely' = NotLonely /\ NotLonelySize' = NotLonelySize /\ NodesCount' = NodesCount
      /\ \A k : LonelyAt(k)' = LonelyAt(k)
  BY ProfileStays DEF NextNotLonely
<1> DEFINE v == Lightest
<1>2. /\ v \in NotLonely /\ ~is_bound[v] /\ (v \in profile.nodes <=> Depth < NodesCount)
      /\ Depth < NotLonelySize /\ Len(m_bound) = Depth
  BY LightestEligible DEF NextNotLonely, Eligible, Capped
<1>3. /\ pc = "choose" /\ pc' = "loop" /\ m_index' = m_index + 1 /\ profile' = profile
      /\ is_bound' = [is_bound EXCEPT ![v] = TRUE] /\ m_bound' = Append(m_bound, v)
      /\ order' = Append(order, v) /\ saved' = Append(saved, weight)
      /\ weight' = weight /\ m_versions' = m_versions
  BY DEF NextNotLonely, Open
<1> HIDE DEF v
<1>4. /\ order' \in Seq(profile.vars) /\ Len(order') = Depth + 1
      /\ \A d \in 1 .. Depth : order'[d] = order[d]
      /\ order'[Depth + 1] = v
  BY <1>2, <1>3, AppendFacts
<1>5. /\ m_bound' \in Seq(NotLonely) /\ Len(m_bound') = Depth + 1
      /\ \A d \in 1 .. Depth : m_bound'[d] = m_bound[d]
      /\ m_bound'[Depth + 1] = v
  <2>1. /\ m_bound' \in Seq(NotLonely) /\ Len(m_bound') = Len(m_bound) + 1
        /\ \A d \in 1 .. Len(m_bound) : m_bound'[d] = m_bound[d]
        /\ m_bound'[Len(m_bound) + 1] = v
    <3>1. m_bound \in Seq(NotLonely) /\ v \in NotLonely /\ m_bound' = Append(m_bound, v)
      BY <1>2, <1>3
    <3>2. QED BY ONLY <3>1, AppendFacts
  <2>2. QED BY <1>2, <2>1
<1>6. /\ saved' \in Seq([NotLonely -> Nat]) /\ Len(saved') = Depth + 1
      /\ \A d \in 1 .. Depth : saved'[d] = saved[d]
      /\ saved'[Depth + 1] = weight
  BY <1>3, AppendFacts
<1>7. Depth' = Depth + 1
  BY <1>4 DEF Depth
<1>8. TypeOK' /\ VersionType'
  <2>1. profile' \in Profiles /\ is_bound' \in [NotLonely -> BOOLEAN] /\ VersionType'
    BY <1>1, <1>3 DEF IInv, TypeOK, VersionType
  <2>2. \A d \in 1 .. Len(m_versions) :
          /\ DOMAIN m_versions[d] \subseteq NotLonely
          /\ m_versions[d] \in [DOMAIN m_versions[d] -> Nat]
    BY DEF IInv, TypeOK
  <2>3. m_index' \in 0 .. Cardinality(profile.vars) /\ Len(m_bound') <= NotLonelySize
    BY <1>2, <1>3, <1>5
  <2>4. QED
    BY <1>1, <1>3, <1>4, <1>5, <1>6, <1>7, <2>1, <2>2, <2>3 DEF TypeOK
<1>9. IndexInv' /\ Len(m_versions) = Depth
  BY <1>1, <1>2, <1>3, <1>5, <1>7 DEF IInv, IndexInv, Capped
<1>10. BoundInv'
  <2>1. \A d \in 1 .. Depth : m_bound[d] # v /\ m_bound[d] \in NotLonely
    BY <1>2 DEF IInv, BoundInv
  <2>2. \A d \in 1 .. Len(m_bound)' :
          m_bound'[d] = order'[d] /\ (m_bound'[d] \in profile.nodes <=> d <= NodesCount)
    <3> SUFFICES ASSUME NEW d \in 1 .. Depth + 1
                 PROVE  m_bound'[d] = order'[d] /\ (m_bound'[d] \in profile.nodes <=> d <= NodesCount)
      BY <1>5
    <3>1. CASE d = Depth + 1
      BY <1>2, <1>4, <1>5, <3>1
    <3>2. CASE d \in 1 .. Depth
      BY <1>2, <1>4, <1>5, <3>2 DEF IInv, BoundInv
    <3>3. QED BY <3>1, <3>2
  <2>3. \A d, e \in 1 .. Len(m_bound)' : m_bound'[d] = m_bound'[e] => d = e
    <3>1. \A d, e \in 1 .. Depth : m_bound'[d] = m_bound'[e] => d = e
      BY <1>2, <1>5 DEF IInv, BoundInv
    <3>2. \A d \in 1 .. Depth : m_bound'[d] # m_bound'[Depth + 1]
      BY <1>2, <1>5, <2>1
    <3>3. \A d \in 1 .. Len(m_bound)' : d \in 1 .. Depth \/ d = Depth + 1
      BY <1>5
    <3>4. QED BY <3>1, <3>2, <3>3
  <2>4. \A w \in NotLonely : is_bound'[w] <=> \E d \in 1 .. Len(m_bound)' : m_bound'[d] = w
    BY <1>2, <1>3, <1>5 DEF IInv, BoundInv
  <2>5. QED BY <1>1, <1>3, <2>2, <2>3, <2>4 DEF BoundInv
<1>11. LonelyInv'
  BY <1>1, <1>2, <1>4, <1>7 DEF IInv, LonelyInv
<1>12. VersionInv'
  BY <1>3, <1>7, <1>9, OpenKeepsVersions
<1>13. QED BY <1>8, <1>9, <1>10, <1>11, <1>12 DEF IInv

LEMMA NextLonelyInv ==
  ASSUME IInv, NextLonely
  PROVE  IInv'
<1> USE Before
<1>1. /\ NotLonely' = NotLonely /\ NotLonelySize' = NotLonelySize /\ NodesCount' = NodesCount
      /\ \A k : LonelyAt(k)' = LonelyAt(k)
  BY ProfileStays DEF NextLonely
<1> DEFINE v == LonelyAt(m_index + 1 - NotLonelySize)
<1>2. /\ Depth >= NotLonelySize /\ Depth < Cardinality(profile.vars) /\ pc = "choose"
      /\ Len(m_versions) = NotLonelySize /\ Len(m_bound) = NotLonelySize
  BY DEF NextLonely, IInv, IndexInv, Capped
<1>3. v \in profile.vars
  <2>1. m_index + 1 - NotLonelySize \in 1 .. Cardinality(profile.lonely)
    <3>1. /\ NotLonelySize + Cardinality(profile.lonely) = Cardinality(profile.vars)
          /\ Cardinality(profile.lonely) \in Nat
      BY ProfileFacts DEF IInv, TypeOK
    <3>2. QED BY <1>2, <3>1
  <2>2. QED BY <2>1, LonelyEnumerated, ProfileFacts DEF IInv, TypeOK
<1>4. /\ pc' = "loop" /\ m_index' = m_index + 1 /\ profile' = profile
      /\ is_bound' = is_bound /\ m_bound' = m_bound
      /\ order' = Append(order, v) /\ saved' = Append(saved, weight)
      /\ weight' = weight /\ m_versions' = m_versions
  BY DEF NextLonely, Open
<1>5. v = LonelyAt(Depth + 1 - NotLonelySize)
  OBVIOUS
<1> HIDE DEF v
<1>6. /\ order' \in Seq(profile.vars) /\ Len(order') = Depth + 1
      /\ \A d \in 1 .. Depth : order'[d] = order[d]
      /\ order'[Depth + 1] = v
  BY <1>3, <1>4, AppendFacts
<1>7. saved' \in Seq([NotLonely -> Nat]) /\ Len(saved') = Depth + 1
  BY <1>4, AppendFacts
<1>8. Depth' = Depth + 1
  BY <1>6 DEF Depth
<1>9. TypeOK' /\ VersionType'
  <2>1. profile' \in Profiles /\ is_bound' \in [NotLonely -> BOOLEAN] /\ VersionType'
    BY <1>1, <1>4 DEF IInv, TypeOK, VersionType
  <2>2. \A d \in 1 .. Len(m_versions) :
          /\ DOMAIN m_versions[d] \subseteq NotLonely
          /\ m_versions[d] \in [DOMAIN m_versions[d] -> Nat]
    BY DEF IInv, TypeOK
  <2>3. m_index' \in 0 .. Cardinality(profile.vars) /\ Len(m_bound') <= NotLonelySize
    BY <1>2, <1>4
  <2>4. QED BY <1>1, <1>4, <1>6, <1>7, <1>8, <2>1, <2>2, <2>3 DEF TypeOK
<1>10. IndexInv'
  BY <1>1, <1>2, <1>4, <1>8 DEF IndexInv, Capped
<1>11. BoundInv'
  <2>1. \A d \in 1 .. Len(m_bound) : order'[d] = order[d]
    BY <1>2, <1>6
  <2>2. QED BY <1>1, <1>4, <2>1 DEF IInv, BoundInv
<1>12. LonelyInv'
  <2>1. \A d \in 1 .. Depth + 1 : d > NotLonelySize => order'[d] = LonelyAt(d - NotLonelySize)
    <3>1. \A d \in 1 .. Depth : d > NotLonelySize => order'[d] = LonelyAt(d - NotLonelySize)
      BY <1>6 DEF IInv, LonelyInv
    <3>2. order'[Depth + 1] = LonelyAt((Depth + 1) - NotLonelySize)
      BY <1>5, <1>6
    <3>3. \A d \in 1 .. Depth + 1 : d \in 1 .. Depth \/ d = Depth + 1
      OBVIOUS
    <3> HIDE DEF LonelyAt
    <3>4. QED BY <3>1, <3>2, <3>3
  <2>2. QED BY <1>1, <1>8, <2>1 DEF LonelyInv
<1>13. VersionInv'
  BY <1>2, <1>4, <1>8, OpenKeepsVersions
<1>14. QED BY <1>9, <1>10, <1>11, <1>12, <1>13 DEF IInv

LEMMA DownLonelyInv ==
  ASSUME IInv, DownLonely
  PROVE  IInv'
<1> USE Before
<1>1. /\ NotLonely' = NotLonely /\ NotLonelySize' = NotLonelySize /\ NodesCount' = NodesCount
      /\ \A k : LonelyAt(k)' = LonelyAt(k)
  BY ProfileStays DEF DownLonely
<1>2. UNCHANGED <<profile, is_bound, weight, m_index, m_bound, m_versions, order, saved>>
  BY DEF DownLonely
<1>3. /\ pc = "loop" /\ Depth - 1 >= NotLonelySize
      /\ pc' = IF Depth = Cardinality(profile.vars) THEN "below" ELSE "choose"
  BY DEF DownLonely, Enter
<1>4. Depth' = Depth
  BY <1>2 DEF Depth
<1>5. IndexInv'
  BY <1>1, <1>2, <1>3, <1>4 DEF IInv, IndexInv, Capped
<1>6. TypeOK' /\ VersionType'
  BY <1>1, <1>2, <1>3, <1>4 DEF IInv, TypeOK, VersionType
<1>7. BoundInv' /\ LonelyInv'
  BY <1>1, <1>2, <1>4 DEF IInv, BoundInv, LonelyInv
<1>8. VersionInv'
  BY <1>1, <1>2, <1>4 DEF IInv, VersionInv, Changed, Near
<1>9. QED BY <1>5, <1>6, <1>7, <1>8 DEF IInv

LEMMA DownNotLonelyInv ==
  ASSUME IInv, NEW report \in [NotLonely -> Reported], DownNotLonely(report)
  PROVE  IInv'
<1> USE Before
<1>1. /\ NotLonely' = NotLonely /\ NotLonelySize' = NotLonelySize /\ NodesCount' = NodesCount
      /\ \A k : LonelyAt(k)' = LonelyAt(k)
  BY ProfileStays DEF DownNotLonely
<1> DEFINE V == Lowered(report)
           version == [v \in V |-> Whole(weight[v])]
           Versions == UNION {[U -> Nat] : U \in SUBSET NotLonely}
<1>2. /\ UNCHANGED <<profile, is_bound, m_index, m_bound, order, saved>>
      /\ pc = "loop" /\ pc' = IF Depth = Cardinality(profile.vars) THEN "below" ELSE "choose"
      /\ m_versions' = Append(m_versions, version)
      /\ weight' = [v \in NotLonely |-> IF v \in V THEN report[v] ELSE weight[v]]
  BY DEF DownNotLonely, Enter
<1>3. Depth \in 1 .. NotLonelySize /\ Len(m_versions) = Depth - 1 /\ Len(m_bound) = Depth
  <2>1. Depth >= 1 /\ Depth - 1 < NotLonelySize
    BY DEF DownNotLonely, IInv, IndexInv
  <2>2. QED BY <2>1 DEF DownNotLonely, IInv, IndexInv, Capped
<1>4. V \in SUBSET NotLonely
  <2>1. Top(m_bound) \in NotLonely
    BY <1>3, PopFacts
  <2>2. QED BY <2>1, ProfileFacts DEF Lowered, IInv, TypeOK
<1>5. version \in [V -> Nat] /\ version \in Versions
  <2>1. \A v \in V : Whole(weight[v]) \in Nat
    BY <1>4, WholeFacts
  <2>2. QED BY <1>4, <2>1
<1> HIDE DEF V, Versions
<1>6. /\ m_versions' \in Seq(Versions) /\ Len(m_versions') = Depth
      /\ \A d \in 1 .. Depth - 1 : m_versions'[d] = m_versions[d]
      /\ m_versions'[Depth] = version
  <2>1. m_versions \in Seq(Versions)
    BY DEF IInv, VersionType, Versions
  <2>2. /\ m_versions' \in Seq(Versions) /\ Len(m_versions') = Len(m_versions) + 1
        /\ \A d \in 1 .. Len(m_versions) : m_versions'[d] = m_versions[d]
        /\ m_versions'[Len(m_versions) + 1] = version
    <3> HIDE DEF version
    <3>1. QED BY ONLY <1>2, <1>5, <2>1, AppendFacts
  <2>3. QED BY <1>3, <2>2
<1>7. Depth' = Depth
  BY <1>2 DEF Depth
<1>8. weight' \in [NotLonely -> Nat]
  BY <1>2, <1>4, WeightAssumption
<1>9. VersionType'
  BY <1>1, <1>6 DEF VersionType, Versions
<1>10. TypeOK'
  <2>1. \A d \in 1 .. Len(m_versions') :
          /\ DOMAIN m_versions'[d] \subseteq NotLonely
          /\ m_versions'[d] \in [DOMAIN m_versions'[d] -> Nat]
    <3>1. \A d \in 1 .. Len(m_versions') : d \in 1 .. Depth - 1 \/ d = Depth
      BY <1>3, <1>6
    <3>2. \A d \in 1 .. Depth - 1 :
            /\ DOMAIN m_versions'[d] \subseteq NotLonely
            /\ m_versions'[d] \in [DOMAIN m_versions'[d] -> Nat]
      BY <1>3, <1>6 DEF IInv, TypeOK
    <3>3. /\ DOMAIN m_versions'[Depth] \subseteq NotLonely
          /\ m_versions'[Depth] \in [DOMAIN m_versions'[Depth] -> Nat]
      BY <1>4, <1>5, <1>6
    <3>4. QED BY <3>1, <3>2, <3>3
  <2>2. QED BY <1>1, <1>2, <1>7, <1>8, <2>1 DEF IInv, TypeOK
<1>11. IndexInv'
  BY <1>1, <1>2, <1>3, <1>6, <1>7 DEF IInv, IndexInv, Capped
<1>12. BoundInv' /\ LonelyInv'
  BY <1>1, <1>2, <1>7 DEF IInv, BoundInv, LonelyInv
<1>13. VersionInv'
  <2>1. \A v \in NotLonely : Near(weight[v], saved[Depth][v])
    BY <1>3 DEF IInv, VersionInv, Changed
  <2>2. \A v \in V : version[v] = Whole(saved[Depth][v])
    <3> SUFFICES ASSUME NEW v \in V PROVE Whole(weight[v]) = Whole(saved[Depth][v])
      OBVIOUS
    <3>1. v \in NotLonely /\ weight[v] \in Nat /\ saved[Depth][v] \in Nat
      BY <1>3, <1>4
    <3>2. QED BY <2>1, <3>1, WholeFacts DEF Near
  <2>3. \A d \in 1 .. Len(m_versions)' : \A v \in DOMAIN m_versions'[d] :
          m_versions'[d][v] = Whole(saved'[d][v])
    <3>1. \A d \in 1 .. Len(m_versions)' : d \in 1 .. Depth - 1 \/ d = Depth
      BY <1>3, <1>6
    <3>2. \A d \in 1 .. Depth - 1 : \A v \in DOMAIN m_versions[d] :
            m_versions[d][v] = Whole(saved[d][v])
      BY <1>3 DEF IInv, VersionInv
    <3>3. \A v \in DOMAIN version : version[v] = Whole(saved[Depth][v])
      BY <2>2
    <3>4. QED BY <1>2, <1>6, <3>1, <3>2, <3>3
  <2>4. \A d \in 1 .. Depth - 1 : \A v : Changed(d, v)' <=> Changed(d, v)
    BY <1>3, <1>6, SMTT(60) DEF Changed
  <2>5. \A v \in V : Changed(Depth, v)'
    BY <1>3, <1>6, <1>7 DEF Changed
  <2>6. \A v \in NotLonely \ V : Near(weight'[v], saved'[Depth][v])
    BY <1>2, <2>1
  <2>7. \A d \in 1 .. Depth' - 1 : \A v \in NotLonely :
          Changed(d, v)' \/ Near(saved'[d + 1][v], saved'[d][v])
    BY <1>2, <1>7, <2>4 DEF IInv, VersionInv
  <2>8. \A v \in NotLonely : Changed(Depth, v)' \/ Near(weight'[v], saved'[Depth][v])
    BY <2>5, <2>6
  <2>9. QED BY <1>1, <1>7, <2>3, <2>7, <2>8 DEF VersionInv, Near
<1>14. QED BY <1>9, <1>10, <1>11, <1>12, <1>13 DEF IInv

LEMMA UpInv ==
  ASSUME IInv, Up
  PROVE  IInv'
<1> USE Before
<1>1. /\ NotLonely' = NotLonely /\ NotLonelySize' = NotLonelySize /\ NodesCount' = NodesCount
      /\ \A k : LonelyAt(k)' = LonelyAt(k)
  BY ProfileStays DEF Up
<1> DEFINE version == Top(m_versions)
           Versions == UNION {[U -> Nat] : U \in SUBSET NotLonely}
<1>2. /\ UNCHANGED <<profile, is_bound, m_index, m_bound, order, saved>>
      /\ pc = "below" /\ pc' = "loop" /\ Depth >= 1 /\ Depth' = Depth
      /\ Len(m_versions) = Capped(Depth)
  BY DEF Up, IInv, IndexInv, Depth
<1>3. BoundInv' /\ LonelyInv'
  BY <1>1, <1>2 DEF IInv, BoundInv, LonelyInv
<1>4. CASE Depth - 1 < NotLonelySize
  <2>1. /\ m_versions' = Pop(m_versions) /\ Len(m_versions) = Depth
        /\ weight' = [v \in NotLonely |-> IF v \in DOMAIN version THEN version[v] ELSE weight[v]]
    BY <1>2, <1>4 DEF Up, Capped
  <2> HIDE DEF Versions
  <2>2. /\ m_versions' \in Seq(Versions) /\ Len(m_versions') = Depth - 1
        /\ \A d \in 1 .. Depth - 1 : m_versions'[d] = m_versions[d]
        /\ version = m_versions[Depth]
    <3>1. m_versions \in Seq(Versions)
      BY DEF IInv, VersionType, Versions
    <3>2. QED BY <1>2, <2>1, <3>1, PopFacts
  <2>3. DOMAIN version \subseteq NotLonely /\ version \in [DOMAIN version -> Nat]
    BY <1>2, <2>1, <2>2 DEF IInv, TypeOK
  <2> HIDE DEF version
  <2>4. weight' \in [NotLonely -> Nat]
    BY <2>1, <2>3
  <2>5. VersionType'
    BY <1>1, <2>2 DEF VersionType, Versions
  <2>6. TypeOK'
    <3>1. \A d \in 1 .. Len(m_versions') :
            /\ DOMAIN m_versions'[d] \subseteq NotLonely
            /\ m_versions'[d] \in [DOMAIN m_versions'[d] -> Nat]
      BY <2>1, <2>2 DEF IInv, TypeOK
    <3>2. QED BY <1>1, <1>2, <2>4, <3>1 DEF IInv, TypeOK
  <2>7. IndexInv'
    BY <1>1, <1>2, <1>4, <2>2 DEF IInv, IndexInv, Capped
  <2>8. VersionInv'
    <3>1. \A d \in 1 .. Len(m_versions)' : \A v \in DOMAIN m_versions'[d] :
            m_versions'[d][v] = Whole(saved'[d][v])
      BY <1>2, <2>1, <2>2 DEF IInv, VersionInv
    <3>2. \A d \in 1 .. Depth - 1 : \A v : Changed(d, v)' <=> Changed(d, v)
      <4> SUFFICES ASSUME NEW d \in 1 .. Depth - 1, NEW v
                   PROVE  Changed(d, v)' <=> Changed(d, v)
        OBVIOUS
      <4>1. d <= Len(m_versions) /\ d <= Len(m_versions') /\ m_versions'[d] = m_versions[d]
        BY <2>1, <2>2
      <4>2. QED BY <4>1 DEF Changed
    <3>3. \A d \in 1 .. Depth' - 1 : \A v \in NotLonely :
            Changed(d, v)' \/ Near(saved'[d + 1][v], saved'[d][v])
      BY <1>2, <3>2 DEF IInv, VersionInv
    <3>4. \A v \in DOMAIN version : version[v] = Whole(saved[Depth][v])
      BY <1>2, <2>1, <2>2 DEF IInv, VersionInv
    <3>5. \A v \in NotLonely \ DOMAIN version : Near(weight[v], saved[Depth][v])
      BY <1>2, <2>1, <2>2 DEF IInv, VersionInv, Changed
    <3>6. \A v \in NotLonely : Near(weight'[v], saved'[Depth][v])
      BY <1>2, <2>1, <3>4, <3>5 DEF Near
    <3>7. QED BY <1>1, <1>2, <3>1, <3>3, <3>6 DEF VersionInv, Near
  <2>9. QED BY <1>3, <2>5, <2>6, <2>7, <2>8 DEF IInv
<1>5. CASE Depth - 1 >= NotLonelySize
  <2>1. weight' = weight /\ m_versions' = m_versions
    BY <1>2, <1>5 DEF Up
  <2>2. IndexInv'
    BY <1>1, <1>2, <1>5, <2>1 DEF IInv, IndexInv, Capped
  <2>3. TypeOK' /\ VersionType'
    BY <1>1, <1>2, <2>1 DEF IInv, TypeOK, VersionType
  <2>4. VersionInv'
    BY <1>1, <1>2, <2>1 DEF IInv, VersionInv, Changed, Near
  <2>5. QED BY <1>3, <2>2, <2>3, <2>4 DEF IInv
<1>6. QED BY <1>4, <1>5

LEMMA DoneInv ==
  ASSUME IInv, Done
  PROVE  IInv'
<1> USE Before
<1>1. /\ NotLonely' = NotLonely /\ NotLonelySize' = NotLonelySize /\ NodesCount' = NodesCount
      /\ \A k : LonelyAt(k)' = LonelyAt(k)
  BY ProfileStays DEF Done
<1>2. /\ UNCHANGED <<profile, weight, m_versions>> /\ m_index' = m_index - 1
      /\ order' = Pop(order) /\ saved' = Pop(saved)
      /\ pc = "loop" /\ pc' = IF Depth = 1 THEN "done" ELSE "below"
      /\ Depth >= 1 /\ Len(m_versions) = Capped(Depth - 1)
  BY DEF Done, IInv, IndexInv
<1>3. /\ order' \in Seq(profile.vars) /\ Len(order') = Depth - 1
      /\ \A d \in 1 .. Depth - 1 : order'[d] = order[d]
  BY <1>2, PopFacts
<1>4. /\ saved' \in Seq([NotLonely -> Nat]) /\ Len(saved') = Depth - 1
      /\ \A d \in 1 .. Depth - 1 : saved'[d] = saved[d]
  BY <1>2, PopFacts
<1>5. Depth' = Depth - 1
  BY <1>3 DEF Depth
<1>6. LonelyInv'
  <2>1. \A d \in 1 .. Depth - 1 : d > NotLonelySize => order'[d] = LonelyAt(d - NotLonelySize)
    <3>1. \A d \in 1 .. Depth - 1 : d \in 1 .. Depth
      OBVIOUS
    <3>2. QED BY <1>3, <3>1 DEF IInv, LonelyInv
  <2>2. QED BY <1>1, <1>5, <2>1 DEF LonelyInv
<1>7. Len(m_versions) <= Depth - 1
  BY <1>2 DEF Capped
<1>8. VersionInv'
  <2>1. \A d \in 1 .. Len(m_versions)' : \A v \in DOMAIN m_versions'[d] :
          m_versions'[d][v] = Whole(saved'[d][v])
    <3>1. \A d \in 1 .. Len(m_versions)' : saved'[d] = saved[d]
      BY <1>2, <1>4, <1>7
    <3>2. QED BY <1>2, <3>1 DEF IInv, VersionInv
  <2>2. \A d, v : Changed(d, v)' <=> Changed(d, v)
    BY <1>2 DEF Changed
  <2>3. ASSUME NEW d \in 1 .. Depth' - 1, NEW v \in NotLonely
        PROVE  Changed(d, v)' \/ Near(saved'[d + 1][v], saved'[d][v])
    <3>1. d \in 1 .. Depth - 1 /\ d + 1 \in 1 .. Depth - 1
      <4>1. d \in 1 .. Depth - 1 - 1 /\ Depth \in Nat
        BY <1>5
      <4>2. QED BY ONLY <4>1
    <3>2. saved'[d] = saved[d] /\ saved'[d + 1] = saved[d + 1]
      BY <1>4, <3>1
    <3>3. QED BY <2>2, <3>1, <3>2 DEF IInv, VersionInv
  <2>4. ASSUME Depth' >= 1, NEW v \in NotLonely
        PROVE  Changed(Depth, v)' \/ Near(weight'[v], saved'[Depth'][v])
    <3>1. Near(weight[v], saved[Depth][v])
      BY <1>2, <1>7 DEF IInv, VersionInv, Changed
    <3>2. Depth - 1 \in 1 .. Depth - 1 /\ Depth - 1 + 1 = Depth
      BY <1>5, <2>4
    <3>3. Changed(Depth - 1, v) \/ Near(saved[Depth][v], saved[Depth - 1][v])
      BY <3>2 DEF IInv, VersionInv
    <3>4. weight[v] \in Nat /\ saved[Depth][v] \in Nat /\ saved[Depth - 1][v] \in Nat
      BY <1>2, <3>2
    <3>5. Changed(Depth - 1, v) \/ Near(weight[v], saved[Depth - 1][v])
      BY <3>1, <3>3, <3>4, NearTransitive
    <3>6. saved'[Depth - 1] = saved[Depth - 1]
      BY <1>4, <3>2
    <3>7. Changed(Depth, v)' <=> Changed(Depth - 1, v)
      BY <1>2, <1>5 DEF Changed
    <3>8. QED BY <1>2, <1>5, <3>5, <3>6, <3>7
  <2>5. Depth' >= 1 => \A v \in NotLonely :
          Changed(Depth, v)' \/ Near(weight'[v], saved'[Depth'][v])
    BY <2>4
  <2>6. \A d \in 1 .. Depth' - 1 : \A v \in NotLonely :
          Changed(d, v)' \/ Near(saved'[d + 1][v], saved'[d][v])
    BY <2>3
  <2>7. QED BY <1>1, <2>1, <2>5, <2>6 DEF VersionInv, Near
<1>9. CASE Depth - 1 < NotLonelySize
  <2>1. /\ is_bound' = [is_bound EXCEPT ![Top(m_bound)] = FALSE] /\ m_bound' = Pop(m_bound)
        /\ Len(m_bound) = Depth
    BY <1>2, <1>9 DEF Done, Capped
  <2> DEFINE v == Top(m_bound)
  <2>2. /\ m_bound' \in Seq(NotLonely) /\ Len(m_bound') = Depth - 1
        /\ \A d \in 1 .. Depth - 1 : m_bound'[d] = m_bound[d]
        /\ v \in NotLonely /\ v = m_bound[Depth]
    BY <1>2, <2>1, PopFacts
  <2> HIDE DEF v
  <2>3. TypeOK' /\ VersionType'
    <3>1. \A d \in 1 .. Len(m_versions) :
            /\ DOMAIN m_versions[d] \subseteq NotLonely
            /\ m_versions[d] \in [DOMAIN m_versions[d] -> Nat]
      BY DEF IInv, TypeOK
    <3>2. profile' \in Profiles /\ is_bound' \in [NotLonely -> BOOLEAN] /\ VersionType'
      BY <1>1, <1>2, <2>1 DEF IInv, TypeOK, VersionType
    <3>3. m_index' \in 0 .. Cardinality(profile.vars) /\ Len(m_bound') <= NotLonelySize
      BY <1>2, <1>9, <2>2
    <3>4. QED BY <1>1, <1>2, <1>3, <1>4, <1>5, <2>2, <3>1, <3>2, <3>3 DEF TypeOK
  <2>4. IndexInv'
    BY <1>1, <1>2, <1>5, <1>9, <2>2, SMTT(60) DEF IndexInv, Capped
  <2>5. BoundInv'
    <3>1. \A d \in 1 .. Depth - 1 :
            m_bound'[d] = order'[d] /\ (m_bound'[d] \in profile.nodes <=> d <= NodesCount)
      <4> SUFFICES ASSUME NEW d \in 1 .. Depth - 1
                   PROVE  m_bound'[d] = order'[d] /\ (m_bound'[d] \in profile.nodes <=> d <= NodesCount)
        OBVIOUS
      <4>1. d \in 1 .. Len(m_bound) /\ m_bound'[d] = m_bound[d] /\ order'[d] = order[d]
        BY <1>3, <2>1, <2>2
      <4>2. QED BY <4>1 DEF IInv, BoundInv
    <3>2. \A d, e \in 1 .. Depth - 1 : m_bound'[d] = m_bound'[e] => d = e
      BY <2>1, <2>2 DEF IInv, BoundInv
    <3>3. \A d \in 1 .. Depth - 1 : m_bound[d] # v
      BY <1>2, <2>1, <2>2 DEF IInv, BoundInv
    <3>4. \A w \in NotLonely : is_bound'[w] <=> \E d \in 1 .. Depth - 1 : m_bound'[d] = w
      <4> SUFFICES ASSUME NEW w \in NotLonely
                   PROVE  is_bound'[w] <=> \E d \in 1 .. Depth - 1 : m_bound'[d] = w
        OBVIOUS
      <4>1. CASE w = v
        BY <2>1, <2>2, <3>3, <4>1 DEF v
      <4>2. CASE w # v
        <5>1. is_bound'[w] = is_bound[w]
          BY <2>1, <4>2 DEF v
        <5>2. is_bound[w] <=> \E d \in 1 .. Depth : m_bound[d] = w
          BY <2>1 DEF IInv, BoundInv
        <5>3. (\E d \in 1 .. Depth : m_bound[d] = w) <=> \E d \in 1 .. Depth - 1 : m_bound[d] = w
          <6>1. \A d \in 1 .. Depth : d \in 1 .. Depth - 1 \/ d = Depth
            OBVIOUS
          <6>2. \A d \in 1 .. Depth - 1 : d \in 1 .. Depth
            OBVIOUS
          <6>3. QED BY <2>2, <4>2, <6>1, <6>2
        <5>4. QED BY <2>2, <5>1, <5>2, <5>3
      <4>3. QED BY <4>1, <4>2
    <3>5. QED BY <1>1, <1>2, <2>2, <3>1, <3>2, <3>4 DEF BoundInv
  <2>6. QED BY <1>6, <1>8, <2>3, <2>4, <2>5 DEF IInv
<1>10. CASE Depth - 1 >= NotLonelySize
  <2>1. UNCHANGED <<is_bound, m_bound>> /\ Len(m_bound) = NotLonelySize
    BY <1>2, <1>10 DEF Done, Capped
  <2>2. TypeOK' /\ VersionType'
    <3>1. m_index' \in 0 .. Cardinality(profile.vars)
      BY <1>2
    <3>2. QED BY <1>1, <1>2, <1>3, <1>4, <1>5, <2>1, <3>1 DEF IInv, TypeOK, VersionType
  <2>3. IndexInv'
    BY <1>1, <1>2, <1>5, <1>10, <2>1 DEF IInv, IndexInv, Capped
  <2>4. BoundInv'
    <3>1. \A d \in 1 .. Len(m_bound) : order'[d] = order[d]
      BY <1>3, <1>10, <2>1
    <3>2. QED BY <1>1, <1>2, <2>1, <3>1 DEF IInv, BoundInv
  <2>5. QED BY <1>6, <1>8, <2>2, <2>3, <2>4 DEF IInv
<1>11. QED BY <1>9, <1>10

\* The invariant holds always.
THEOREM InvariantHolds == Spec => []IInv
<1>1. Init => IInv
  BY InitInv
<1>2. IInv /\ [Next]_vars => IInv'
  <2> SUFFICES ASSUME IInv, [Next]_vars PROVE IInv'
    OBVIOUS
  <2>1. CASE NextNotLonely BY <2>1, NextNotLonelyInv
  <2>2. CASE NextLonely BY <2>2, NextLonelyInv
  <2>3. ASSUME NEW report \in [NotLonely -> Reported], DownNotLonely(report) PROVE IInv'
    BY <2>3, DownNotLonelyInv
  <2>4. CASE DownLonely BY <2>4, DownLonelyInv
  <2>5. CASE Up BY <2>5, UpInv
  <2>6. CASE Done BY <2>6, DoneInv
  <2>7. CASE UNCHANGED vars
    <3>1. UNCHANGED <<profile, is_bound, weight, m_index, m_bound, m_versions, order, saved, pc>>
      BY <2>7 DEF vars
    <3>2. /\ NotLonely' = NotLonely /\ NotLonelySize' = NotLonelySize /\ NodesCount' = NodesCount
          /\ Depth' = Depth /\ \A k : LonelyAt(k)' = LonelyAt(k)
      BY <3>1, ProfileStays DEF Depth
    <3>3. TypeOK' /\ VersionType'
      BY <3>1, <3>2 DEF IInv, TypeOK, VersionType
    <3>4. IndexInv' /\ BoundInv' /\ LonelyInv'
      BY <3>1, <3>2 DEF IInv, IndexInv, BoundInv, LonelyInv, Capped
    <3>5. VersionInv'
      BY <3>1, <3>2 DEF IInv, VersionInv, Changed, Near
    <3>6. QED BY <3>3, <3>4, <3>5 DEF IInv
  <2>8. QED BY <2>1, <2>2, <2>3, <2>4, <2>5, <2>6, <2>7 DEF Next
<1>3. QED BY <1>1, <1>2, PTL DEF Spec

\* Every variable of the order stays within its type.
THEOREM TypeCorrect == Spec => []TypeOK
<1>1. IInv => TypeOK
  BY DEF IInv
<1>2. QED BY <1>1, InvariantHolds, PTL

-----------------------------------------------------------------------------
\* The nodes beyond the stack have the lonely variables.
LEMMA LonelyNodes ==
  ASSUME IInv, NEW d \in 1 .. Depth
  PROVE  /\ d <= Len(m_bound) =>
              order[d] = m_bound[d] /\ order[d] \in NotLonely /\ d <= NotLonelySize
         /\ d > Len(m_bound) =>
              /\ d > NotLonelySize /\ order[d] \in profile.lonely
              /\ Cardinality(BeforeIt(order[d])) = d - NotLonelySize - 1
<1> USE Before
<1>1. ASSUME d <= Len(m_bound)
      PROVE  order[d] = m_bound[d] /\ order[d] \in NotLonely /\ d <= NotLonelySize
  <2>1. d \in 1 .. Len(m_bound) /\ d <= NotLonelySize
    <3>1. Len(m_bound) \in Nat /\ Len(m_bound) <= NotLonelySize /\ d \in Nat /\ d >= 1
      BY DEF Capped
    <3>2. NotLonelySize \in Nat
      OBVIOUS
    <3>3. QED BY ONLY <1>1, <3>1, <3>2
  <2>2. order[d] = m_bound[d]
    BY <2>1 DEF IInv, BoundInv
  <2>3. m_bound[d] \in NotLonely
    BY <2>1
  <2>4. QED BY <2>1, <2>2, <2>3
<1>2. ASSUME d > Len(m_bound)
      PROVE  /\ d > NotLonelySize /\ order[d] \in profile.lonely
             /\ Cardinality(BeforeIt(order[d])) = d - NotLonelySize - 1
  <2>1. d > NotLonelySize
    BY <1>2 DEF Capped
  <2>2. profile \in Profiles /\ order[d] = LonelyAt(d - NotLonelySize)
    BY <2>1 DEF IInv, TypeOK, LonelyInv
  <2>3. d - NotLonelySize \in 1 .. Cardinality(profile.lonely)
    <3>1. /\ NotLonelySize + Cardinality(profile.lonely) = Cardinality(profile.vars)
          /\ Cardinality(profile.lonely) \in Nat
      BY <2>2, ProfileFacts
    <3>2. QED BY <2>1, <3>1
  <2>4. QED BY <2>1, <2>2, <2>3, LonelyEnumerated
<1>3. QED BY <1>1, <1>2

LEMMA RankFacts ==
  ASSUME NEW v
  PROVE  /\ v \in NotLonely => Rank(v) = IF v \in profile.nodes THEN 1 ELSE 2
         /\ v \in profile.lonely /\ v \notin NotLonely =>
              Rank(v) = IF v \in profile.nodes THEN 3 ELSE 4
<1>1. CASE v \in NotLonely \cap profile.nodes
  BY <1>1 DEF Rank, NotLonely
<1>2. CASE v \in NotLonely \ profile.nodes
  BY <1>2 DEF Rank, NotLonely
<1>3. CASE v \notin NotLonely /\ v \in profile.lonely \cap profile.nodes
  BY <1>3 DEF Rank
<1>4. CASE v \notin NotLonely /\ v \in profile.lonely \ profile.nodes
  BY <1>4 DEF Rank
<1>5. QED BY <1>1, <1>2, <1>3, <1>4

\* However next, down, up and done follow each other in a search, the stacks hold
\* what the open nodes have: done frees the variable of the node that ends.
THEOREM StacksFollow == Spec => []StacksFollowSearch
<1>1. ASSUME IInv PROVE StacksFollowSearch
  <2> USE <1>1, Before
  <2>1. /\ m_index = Depth /\ Len(m_bound) <= Depth
        /\ \A d \in 1 .. Len(m_bound) : m_bound[d] = order[d]
    BY SMTT(60) DEF IInv, BoundInv, Capped
  <2>2. \A v \in NotLonely : is_bound[v] <=> \E d \in 1 .. Len(m_bound) : m_bound[d] = v
    BY DEF IInv, BoundInv
  <2>3. Given \ profile.lonely = {m_bound[d] : d \in 1 .. Len(m_bound)}
    <3>1. ASSUME NEW v \in Given \ profile.lonely
          PROVE  v \in {m_bound[d] : d \in 1 .. Len(m_bound)}
      <4>1. PICK d \in 1 .. Depth : v = order[d]
        BY DEF Given
      <4>2. Len(m_bound) \in Nat
        BY DEF Capped
      <4>3. d <= Len(m_bound)
        <5>1. ~(d > Len(m_bound))
          BY <3>1, <4>1, LonelyNodes
        <5>2. QED BY <4>2, <5>1
      <4>4. order[d] = m_bound[d]
        BY <4>3, LonelyNodes
      <4>5. QED BY <4>1, <4>2, <4>3, <4>4
    <3>2. ASSUME NEW d \in 1 .. Len(m_bound) PROVE m_bound[d] \in Given \ profile.lonely
      <4>1. d \in 1 .. Depth
        BY <2>1
      <4>2. order[d] = m_bound[d] /\ order[d] \in NotLonely
        BY <4>1, LonelyNodes
      <4>3. QED BY <4>1, <4>2 DEF Given, NotLonely
    <3>3. QED BY <3>1, <3>2
  <2>4. pc = "loop" /\ Depth <= NotLonelySize => Len(m_versions) = Depth - 1
    BY DEF IInv, IndexInv, Capped
  <2>5. QED BY <2>1, <2>2, <2>3, <2>4 DEF StacksFollowSearch
<1>2. QED BY <1>1, InvariantHolds, PTL

\* Whatever the iterators report, the join binds each variable once: nodes before
\* edges, lonely variables last.
THEOREM OrderLegal == Spec => []OrderIsLegal
<1>1. ASSUME IInv PROVE OrderIsLegal
  <2> USE <1>1, Before
  <2> SUFFICES ASSUME NEW d \in 1 .. Depth, NEW e \in 1 .. Depth, d < e
               PROVE  order[d] # order[e] /\ Rank(order[d]) <= Rank(order[e])
    BY DEF OrderIsLegal
  <2>1. CASE e <= Len(m_bound)
    <3>1. /\ order[d] = m_bound[d] /\ order[d] \in NotLonely /\ d \in 1 .. Len(m_bound)
          /\ order[e] = m_bound[e] /\ order[e] \in NotLonely /\ e \in 1 .. Len(m_bound)
      <4>1. Len(m_bound) \in Nat
        BY DEF Capped
      <4>2. d <= Len(m_bound) /\ d \in 1 .. Len(m_bound) /\ e \in 1 .. Len(m_bound)
        BY <2>1, <4>1
      <4>3. QED BY <2>1, <4>2, LonelyNodes
    <3>2. order[d] # order[e]
      <4>1. m_bound[d] = m_bound[e] => d = e
        BY <3>1 DEF IInv, BoundInv
      <4>2. QED BY <3>1, <4>1
    <3>3. order[e] \in profile.nodes => order[d] \in profile.nodes
      BY <3>1 DEF IInv, BoundInv
    <3>4. /\ Rank(order[d]) = IF order[d] \in profile.nodes THEN 1 ELSE 2
          /\ Rank(order[e]) = IF order[e] \in profile.nodes THEN 1 ELSE 2
      BY <3>1, RankFacts
    <3>5. Rank(order[d]) <= Rank(order[e])
      BY <3>3, <3>4
    <3>6. QED BY <3>2, <3>5
  <2>2. CASE d <= Len(m_bound) /\ e > Len(m_bound)
    <3>1. order[d] \in NotLonely /\ order[e] \in profile.lonely
      BY <2>2, LonelyNodes
    <3>2. QED BY <3>1 DEF NotLonely, Rank
  <2>3. CASE d > Len(m_bound)
    <3>1. /\ order[d] \in profile.lonely /\ order[e] \in profile.lonely
          /\ Cardinality(BeforeIt(order[d])) = d - NotLonelySize - 1
          /\ Cardinality(BeforeIt(order[e])) = e - NotLonelySize - 1
      <4>1. e > Len(m_bound)
        BY <2>3
      <4>2. QED BY <2>3, <4>1, LonelyNodes
    <3>2. Cardinality(BeforeIt(order[d])) < Cardinality(BeforeIt(order[e]))
      BY <3>1
    <3>3. order[d] # order[e]
      BY <3>1, <3>2
    <3>4. ~LonelyBefore(order[e], order[d])
      BY <3>1, <3>2, LonelyRank DEF IInv, TypeOK
    <3>5. order[e] \in profile.nodes => order[d] \in profile.nodes
      BY <3>4 DEF LonelyBefore
    <3>6. order[d] \notin NotLonely /\ order[e] \notin NotLonely
      BY <3>1 DEF NotLonely
    <3>7. /\ Rank(order[d]) = IF order[d] \in profile.nodes THEN 3 ELSE 4
          /\ Rank(order[e]) = IF order[e] \in profile.nodes THEN 3 ELSE 4
      BY <3>1, <3>6, RankFacts
    <3>8. Rank(order[d]) <= Rank(order[e])
      BY <3>5, <3>7
    <3>9. QED BY <3>3, <3>8
  <2>4. Len(m_bound) \in Nat /\ d \in Nat /\ e \in Nat
    BY DEF Capped
  <2>5. e <= Len(m_bound) \/ (d <= Len(m_bound) /\ e > Len(m_bound)) \/ d > Len(m_bound)
    BY ONLY <2>4
  <2>6. QED BY ONLY <2>1, <2>2, <2>3, <2>5
<1>2. QED BY <1>1, InvariantHolds, PTL

\* Back at a node after any search below it, the weights are those of its opening,
\* but for the fractions that weight_type cuts off.
THEOREM WeightsReturn == Spec => []WeightsRestored
<1>1. ASSUME IInv PROVE WeightsRestored
  <2> SUFFICES ASSUME pc = "loop", NEW v \in NotLonely
               PROVE  weight[v] \in {saved[Depth][v], Whole(saved[Depth][v])}
    BY DEF WeightsRestored
  <2>1. Depth >= 1 /\ Len(m_versions) < Depth
    BY <1>1, Before DEF IInv, IndexInv, Capped
  <2>2. Near(weight[v], saved[Depth][v])
    BY <1>1, <2>1, Before DEF IInv, VersionInv, Changed
  <2>3. QED BY <2>2 DEF Near
<1>2. QED BY <1>1, InvariantHolds, PTL

-----------------------------------------------------------------------------
(***************************************************************************)
(* The static order.                                                       *)
(***************************************************************************)
Shared == {v \in query.vars : ~Alone(v)}
Placed == {m_order[k] : k \in 1 .. Len(m_order)}
Running == at \in {"next", "heap", "search"}

QueryInv ==
  /\ IsStaticQuery(query) /\ Part \in Nat /\ Part > 0
  /\ weights \in [Shared -> Nat]
  /\ at \in {"sort", "thrown", "next", "heap", "search"}
  /\ at \in {"sort", "thrown"} => m_order = <<>> /\ given = <<>> /\ checked = {} /\ heap = {}

\* s holds the variables once each, and no one before a lesser one.
InAuxOrder(s) ==
  /\ s \in Seq(query.vars) /\ Len(s) \in Nat
  /\ \A j, k \in 1 .. Len(s) : s[j] = s[k] => j = k
  /\ \A v \in query.vars : \E j \in 1 .. Len(s) : s[j] = v
  /\ \A j, k \in 1 .. Len(s) : j < k => ~compare_var_info(s[k], s[j])

SortedInv ==
  /\ InAuxOrder(aux) /\ i \in 1 .. Len(aux) + 1
  /\ \A j \in 1 .. Len(aux) : Alone(aux[j]) <=> j > nolonely_size

HeapInv ==
  /\ heap \subseteq checked /\ checked \subseteq Shared
  /\ at # "heap" => heap = {}
  /\ at = "heap" => i <= nolonely_size /\ aux[i] \in checked
  /\ at = "search" => i > Len(aux)
  /\ at # "search" => given = <<>>

\* A variable is checked once it is placed or in the heap; those of aux before i are
\* placed, or checked if they are shared.
PlacedInv ==
  /\ m_order \in Seq(query.vars)
  /\ Placed \cap Shared = checked \ heap
  /\ \A k \in 1 .. Len(m_order) : Alone(m_order[k]) => \E j \in 1 .. Len(aux) : j < i /\ m_order[k] = aux[j]
  /\ \A j \in 1 .. Len(aux) : j < i => IF Alone(aux[j]) THEN aux[j] \in Placed ELSE aux[j] \in checked

InOrder(s) ==
  \A j, k \in 1 .. Len(s) : j < k =>
    /\ s[j] # s[k]
    /\ Alone(s[j]) => Alone(s[k]) /\ VarType(s[j]) <= VarType(s[k])

\* The heap is what the placed variables are related to and the order still lacks.
NearInv ==
  /\ \A w \in checked \ heap : \A v \in related(w) : Alone(v) \/ v \in checked
  /\ \A v \in heap : \E k \in 1 .. Len(m_order) : v \in related(m_order[k])

GivenInv ==
  /\ given \in Seq(query.vars) /\ index = Len(given) /\ Len(given) <= Len(m_order)
  /\ \A d \in 1 .. Len(given) : given[d] = m_order[d]

StaticIInv ==
  /\ QueryInv
  /\ Running => SortedInv /\ HeapInv /\ PlacedInv /\ InOrder(m_order) /\ NearInv
  /\ at = "search" => GivenInv
  /\ StaysConnected

-----------------------------------------------------------------------------
(***************************************************************************)
(* Sequences; the sorted variables.                                        *)
(***************************************************************************)
LEMMA AppendGives ==
  ASSUME NEW S, NEW t \in Seq(S), NEW x \in S
  PROVE  /\ Append(t, x) \in Seq(S) /\ Len(t) \in Nat /\ Len(Append(t, x)) = Len(t) + 1
         /\ \A d \in 1 .. Len(t) : Append(t, x)[d] = t[d] /\ d \in 1 .. Len(t) + 1
         /\ Append(t, x)[Len(t) + 1] = x
<1>1. Len(t) \in Nat
  OBVIOUS
<1>2. \A d \in 1 .. Len(t) : d \in 1 .. Len(t) + 1
  BY <1>1
<1>3. QED
  BY <1>1, <1>2

LEMMA FrontFacts ==
  ASSUME NEW S, NEW t \in Seq(S), Len(t) >= 1
  PROVE  LET f == SubSeq(t, 1, Len(t) - 1) IN
         f \in Seq(S) /\ Len(f) = Len(t) - 1 /\ \A d \in 1 .. Len(t) - 1 : f[d] = t[d]
<1>1. PICK n \in Nat : n = Len(t)
  OBVIOUS
<1>2. n - 1 \in Nat /\ \A d \in 1 .. n - 1 : t[d] \in S
  BY <1>1
<1>3. QED
  BY <1>1, <1>2

LEMMA TypeFacts ==
  ASSUME NEW v
  PROVE  /\ VarType(v) \in 0 .. 3 /\ (Alone(v) <=> VarType(v) >= 2)
BY DEF VarType, Alone

LEMMA CountFacts ==
  ASSUME IsStaticQuery(query)
  PROVE  /\ IsFiniteSet(query.vars) /\ Cardinality(query.vars) \in Nat
         /\ IsFiniteSet(Shared) /\ nolonely_size = Cardinality(Shared) /\ nolonely_size \in Nat
<1>1. IsFiniteSet(query.vars)
  BY DEF IsStaticQuery
<1>2. Shared \in SUBSET query.vars /\ nolonely_size = Cardinality(Shared)
  BY DEF Shared, nolonely_size
<1>3. IsFiniteSet(Shared)
  BY <1>1, <1>2, FS_Subset
<1>4. QED
  BY <1>1, <1>2, <1>3, FS_CardinalityType

\* The variables that occur once are the last ones.
LEMMA LonelyLast ==
  ASSUME IsStaticQuery(query), NEW s, InAuxOrder(s)
  PROVE  \A j \in 1 .. Len(s) : Alone(s[j]) <=> j > nolonely_size
<1> DEFINE D == {j \in 1 .. Len(s) : ~Alone(s[j])}
           m == nolonely_size
           f == [j \in D |-> s[j]]
<1>1. /\ Len(s) \in Nat /\ \A j \in 1 .. Len(s) : s[j] \in query.vars
      /\ \A j, k \in 1 .. Len(s) : s[j] = s[k] => j = k
      /\ \A v \in query.vars : \E j \in 1 .. Len(s) : s[j] = v
  <2>1. s \in Seq(query.vars)
    BY DEF InAuxOrder
  <2>2. \A j \in 1 .. Len(s) : s[j] \in query.vars
    BY <2>1
  <2>3. QED BY <2>2 DEF InAuxOrder
<1>2. m \in Nat /\ m = Cardinality(Shared) /\ IsFiniteSet(Shared)
  BY CountFacts
<1>3. f \in Injection(D, Shared) /\ f \in Surjection(D, Shared)
  <2>1. f \in [D -> Shared]
    BY <1>1 DEF Shared
  <2>2. \A j, k \in D : f[j] = f[k] => j = k
    BY <1>1
  <2>3. \A v \in Shared : \E j \in D : f[j] = v
    BY <1>1 DEF Shared
  <2>4. QED BY <2>1, <2>2, <2>3 DEF Injection, IsInjective, Surjection
<1>4. IsFiniteSet(D) /\ Cardinality(D) = m
  BY <1>2, <1>3, FS_Injection
<1>5. \A j \in D : \A k \in 1 .. j : k \in D
  <2> SUFFICES ASSUME NEW j \in D, NEW k \in 1 .. j PROVE k \in D
    OBVIOUS
  <2>1. k \in 1 .. Len(s)
    BY <1>1
  <2>2. CASE k = j
    BY <2>2
  <2>3. CASE k < j
    <3>1. ~compare_var_info(s[j], s[k])
      BY <2>1, <2>3 DEF InAuxOrder
    <3>2. VarType(s[k]) <= VarType(s[j])
      BY <3>1, TypeFacts DEF compare_var_info
    <3>3. QED BY <2>1, <3>2, TypeFacts
  <2>4. QED BY <2>2, <2>3
<1>6. D \subseteq 1 .. m
  <2> SUFFICES ASSUME NEW j \in D PROVE j <= m
    BY <1>1, <1>2
  <2>1. 1 .. j \in SUBSET D /\ j \in Nat
    BY <1>1, <1>5
  <2>2. Cardinality(1 .. j) <= m
    BY <1>4, <2>1, FS_Subset
  <2>3. Cardinality(1 .. j) = j
    BY <2>1, FS_Interval
  <2>4. QED BY <2>2, <2>3
<1>7. D = 1 .. m
  <2>1. IsFiniteSet(1 .. m) /\ Cardinality(1 .. m) = m
    BY <1>2, FS_Interval
  <2>2. QED BY <1>4, <1>6, <2>1, FS_Subset
<1> HIDE DEF m, f
<1>8. \A j \in 1 .. Len(s) : ~Alone(s[j]) <=> j <= m
  BY <1>1, <1>2, <1>7
<1>9. QED
  BY <1>1, <1>2, <1>8 DEF m

\* No more variables are shared than s has entries.
LEMMA SharedFit ==
  ASSUME IsStaticQuery(query), NEW s, InAuxOrder(s)
  PROVE  Len(s) \in Nat /\ nolonely_size \in Nat /\ nolonely_size <= Len(s)
<1>1. PICK n \in Nat : n = Len(s)
  BY DEF InAuxOrder
<1>2. /\ IsFiniteSet(query.vars) /\ Cardinality(query.vars) \in Nat
      /\ nolonely_size = Cardinality(Shared) /\ nolonely_size \in Nat
  BY CountFacts
<1>3. Cardinality(Shared) <= Cardinality(query.vars)
  <2>1. Shared \in SUBSET query.vars
    BY DEF Shared
  <2>2. QED BY <1>2, <2>1, FS_Subset
<1>4. Cardinality(query.vars) <= n
  <2>1. s \in Surjection(1 .. n, query.vars)
    BY <1>1 DEF InAuxOrder, Surjection
  <2>2. IsFiniteSet(1 .. n) /\ Cardinality(1 .. n) = n
    BY FS_Interval
  <2>3. QED BY <2>1, <2>2, FS_Surjection
<1>5. QED
  BY <1>1, <1>2, <1>3, <1>4

LEMMA SortIsSorted ==
  ASSUME IsStaticQuery(query), NEW s \in SetToSeqs(query.vars),
         \A j, k \in DOMAIN s : j < k => ~compare_var_info(s[k], s[j])
  PROVE  InAuxOrder(s)
<1> DEFINE n == Cardinality(query.vars)
<1>1. s \in [1 .. n -> query.vars] /\ \A j, k \in 1 .. n : j # k => s[j] # s[k]
  BY DEF SetToSeqs
<1>2. n \in Nat /\ IsFiniteSet(query.vars)
  BY CountFacts
<1>3. s \in Seq(query.vars) /\ Len(s) = n
  BY <1>1, <1>2
<1>4. s \in Injection(1 .. n, query.vars)
  BY <1>1 DEF Injection, IsInjective
<1>5. Cardinality(1 .. n) = n
  BY <1>2, FS_Interval
<1>6. s \in Surjection(1 .. n, query.vars)
  BY <1>2, <1>4, <1>5, FS_Injection
<1>7. QED
  BY <1>1, <1>2, <1>3, <1>6 DEF InAuxOrder, Surjection

-----------------------------------------------------------------------------
(***************************************************************************)
(* Placing a variable.                                                     *)
(***************************************************************************)
\* What StaysConnected says of position k.
Best(k) ==
  ~Alone(m_order[k]) =>
    IF Frontier(k) # {}
    THEN /\ m_order[k] \in Frontier(k)
         /\ \A w \in Frontier(k) : Cut(weights[m_order[k]]) <= Cut(weights[w])
    ELSE \A w \in Left(k) :
           IF w \in query.nodes <=> m_order[k] \in query.nodes
           THEN weights[m_order[k]] <= weights[w]
           ELSE w \notin query.nodes

LEMMA FrontierStays ==
  ASSUME UNCHANGED query, NEW k, \A j \in 1 .. k - 1 : m_order'[j] = m_order[j]
  PROVE  Left(k)' = Left(k) /\ Frontier(k)' = Frontier(k)
<1>1. \A v : Alone(v)' = Alone(v) /\ related(v)' = related(v)
  BY DEF Alone, related
<1>2. Left(k)' = Left(k)
  BY <1>1 DEF Left
<1>3. QED
  BY <1>1, <1>2 DEF Frontier

LEMMA BestStays ==
  ASSUME UNCHANGED <<query, weights>>, NEW k \in Nat, k >= 1,
         \A j \in 1 .. k : m_order'[j] = m_order[j]
  PROVE  Best(k)' = Best(k)
<1>1. Left(k)' = Left(k) /\ Frontier(k)' = Frontier(k)
  BY FrontierStays
<1>2. m_order'[k] = m_order[k]
  OBVIOUS
<1>3. QED
  BY <1>1, <1>2 DEF Best, Alone, Cut

\* As long as only shared variables are placed, the frontier is the heap.
LEMMA FrontierIsHeap ==
  ASSUME QueryInv, SortedInv, HeapInv, PlacedInv, NearInv, i <= nolonely_size
  PROVE  /\ \A k \in 1 .. Len(m_order) : m_order[k] \in checked \ heap /\ ~Alone(m_order[k])
         /\ Left(Len(m_order) + 1) = Shared \ (checked \ heap)
         /\ Frontier(Len(m_order) + 1) = heap
<1> DEFINE n == Len(m_order)
<1>1. m_order \in Seq(query.vars) /\ n \in Nat /\ \A k \in 1 .. n : m_order[k] \in query.vars
  BY DEF PlacedInv
<1>2. \A k \in 1 .. n : ~Alone(m_order[k])
  <2> SUFFICES ASSUME NEW k \in 1 .. n, Alone(m_order[k]) PROVE FALSE
    OBVIOUS
  <2>1. PICK j \in 1 .. Len(aux) : j < i /\ m_order[k] = aux[j]
    BY DEF PlacedInv
  <2>2. j > nolonely_size
    BY <2>1 DEF SortedInv
  <2>3. nolonely_size \in Nat /\ i \in Int
    BY CountFacts DEF QueryInv, SortedInv, InAuxOrder
  <2>4. QED BY <2>1, <2>2, <2>3
<1>3. \A k \in 1 .. n : m_order[k] \in checked \ heap
  BY <1>1, <1>2 DEF PlacedInv, Placed, Shared
<1>4. Placed = checked \ heap
  <2>1. Placed \subseteq Shared
    BY <1>1, <1>2 DEF Placed, Shared
  <2>2. QED BY <2>1 DEF PlacedInv
<1>5. Left(n + 1) = Shared \ Placed
  <2>1. (n + 1) - 1 = n
    BY <1>1
  <2>2. QED BY <2>1 DEF Left, Shared, Placed
<1>6. Frontier(n + 1) = {v \in Left(n + 1) : \E j \in 1 .. n : v \in related(m_order[j])}
  <2>1. (n + 1) - 1 = n
    BY <1>1
  <2>2. QED BY <2>1 DEF Frontier
<1>7. ASSUME NEW v \in Frontier(n + 1) PROVE v \in heap
  <2>1. v \in Shared /\ v \notin checked \ heap
    BY <1>4, <1>5, <1>6, <1>7
  <2>2. v \in checked
    BY <1>3, <1>6, <1>7, <2>1 DEF NearInv, Shared
  <2>3. QED BY <2>1, <2>2
<1>8. ASSUME NEW v \in heap PROVE v \in Frontier(n + 1)
  BY <1>4, <1>5, <1>6, <1>8 DEF HeapInv, NearInv
<1>9. QED
  BY <1>2, <1>3, <1>4, <1>5, <1>7, <1>8

\* What taking a shared variable does, from aux or from the heap.
LEMMA TakeInv ==
  ASSUME QueryInv, SortedInv, HeapInv, PlacedInv, InOrder(m_order), NearInv, StaysConnected,
         i <= nolonely_size, NEW v \in Shared, v \notin checked \ heap, aux[i] \in checked \union {v},
         Take(v, checked \union {v}, heap \ {v}),
         at' = "heap", UNCHANGED <<query, weights, aux, i, index, given>>, given = <<>>,
         IF heap # {} THEN v \in heap /\ \A w \in heap : Cut(weights[v]) <= Cut(weights[w])
         ELSE \A w \in Shared \ checked :
                IF w \in query.nodes <=> v \in query.nodes THEN weights[v] <= weights[w]
                ELSE w \notin query.nodes
  PROVE  StaticIInv'
<1>0. PICK n \in Nat : n = Len(m_order)
  BY DEF PlacedInv
<1> DEFINE new == fill_heap(v, checked \union {v})
<1>1. /\ n \in Nat /\ m_order \in Seq(query.vars) /\ v \in query.vars /\ ~Alone(v)
      /\ \A k \in 1 .. n : m_order[k] \in checked \ heap /\ ~Alone(m_order[k])
      /\ Left(n + 1) = Shared \ (checked \ heap) /\ Frontier(n + 1) = heap
  BY <1>0, FrontierIsHeap DEF PlacedInv, Shared
<1>2. /\ m_order' = Append(m_order, v)
      /\ heap' = (heap \ {v}) \union new /\ checked' = (checked \union {v}) \union new
  BY DEF Take
<1>3. /\ m_order' \in Seq(query.vars) /\ Len(m_order') = n + 1 /\ m_order'[n + 1] = v
      /\ \A k \in 1 .. n : m_order'[k] = m_order[k]
      /\ \A k \in 1 .. n + 1 : k \in 1 .. n \/ k = n + 1
  BY <1>0, <1>1, <1>2
<1>4. /\ \A w : Alone(w)' = Alone(w) /\ related(w)' = related(w) /\ VarType(w)' = VarType(w)
      /\ Shared' = Shared /\ nolonely_size' = nolonely_size /\ query' = query
  BY DEF Alone, related, VarType, Shared, nolonely_size
<1>5. new = {w \in related(v) : w \notin checked \union {v} /\ ~Alone(w)} /\ new \subseteq Shared
  BY DEF fill_heap, related, Shared
<1>6. checked' \ heap' = (checked \ heap) \union {v}
  BY <1>2, <1>5 DEF HeapInv
<1>7. QueryInv'
  <2>1. IsStaticQuery(query)' /\ (weights \in [Shared -> Nat])'
    BY <1>4 DEF QueryInv
  <2>2. QED BY <2>1 DEF QueryInv
<1>8. SortedInv'
  <2>1. InAuxOrder(aux)'
    BY <1>4 DEF SortedInv, InAuxOrder, compare_var_info, WeightOf
  <2>2. QED BY <1>4, <2>1 DEF SortedInv
<1>9. HeapInv'
  BY <1>2, <1>4, <1>5 DEF HeapInv
<1>10. PlacedInv'
  <2>1. Placed' = Placed \union {v}
    <3>1. Placed = {m_order[k] : k \in 1 .. n} /\ Placed' = {m_order'[k] : k \in 1 .. n + 1}
      BY <1>0, <1>3 DEF Placed
    <3>2. \A k \in 1 .. n : k \in 1 .. n + 1
      BY <1>1
    <3>3. n + 1 \in 1 .. n + 1
      BY <1>1
    <3>4. QED BY <1>3, <3>1, <3>2, <3>3
  <2>2. Placed' \cap Shared = checked' \ heap'
    BY <1>6, <2>1 DEF PlacedInv
  <2>3. \A k \in 1 .. n + 1 : ~Alone(m_order'[k])
    BY <1>1, <1>3
  <2>4. \A j \in 1 .. Len(aux) : j < i =>
          IF Alone(aux[j]) THEN aux[j] \in Placed' ELSE aux[j] \in checked'
    BY <1>2, <2>1 DEF PlacedInv
  <2>5. QED BY <1>3, <1>4, <2>2, <2>3, <2>4 DEF PlacedInv
<1>11. InOrder(m_order)'
  <2>1. ASSUME NEW j \in 1 .. n + 1, NEW k \in 1 .. n + 1, j < k
        PROVE  m_order'[j] # m_order'[k] /\ ~Alone(m_order'[j])
    <3>1. j \in 1 .. n /\ m_order'[j] = m_order[j] /\ ~Alone(m_order[j])
      BY <1>1, <1>3, <2>1
    <3>2. CASE k \in 1 .. n
      BY <1>0, <1>3, <2>1, <3>1, <3>2 DEF InOrder
    <3>3. CASE k = n + 1
      BY <1>1, <1>3, <3>1, <3>3
    <3>4. QED BY <1>3, <3>1, <3>2, <3>3
  <2>2. QED BY <1>3, <1>4, <2>1 DEF InOrder
<1>12. NearInv'
  <2>1. \A w \in checked' \ heap' : \A u \in related(w) : Alone(u) \/ u \in checked'
    BY <1>2, <1>5, <1>6 DEF NearInv
  <2>2. ASSUME NEW u \in heap' PROVE \E k \in 1 .. n + 1 : u \in related(m_order'[k])
    <3>1. CASE u \in heap
      <4>1. PICK k \in 1 .. n : u \in related(m_order[k])
        BY <1>0, <3>1 DEF NearInv
      <4>2. k \in 1 .. n + 1 /\ m_order'[k] = m_order[k]
        BY <1>1, <1>3
      <4>3. QED BY <4>1, <4>2
    <3>2. CASE u \in new
      <4>1. u \in related(v)
        BY <1>5, <3>2
      <4>2. n + 1 \in 1 .. n + 1 /\ m_order'[n + 1] = v
        BY <1>1, <1>3
      <4>3. QED BY <4>1, <4>2
    <3>3. QED BY <1>2, <2>2, <3>1, <3>2
  <2>3. QED BY <1>3, <1>4, <2>1, <2>2 DEF NearInv
<1>13. StaysConnected'
  <2>1. \A k \in 1 .. n : Best(k)'
    <3>1. \A k \in 1 .. n : Best(k)
      BY <1>0 DEF StaysConnected, Best
    <3>2. ASSUME NEW k \in 1 .. n PROVE Best(k)' = Best(k)
      BY <1>1, <1>3, BestStays
    <3>3. QED BY <3>1, <3>2
  <2>2. Best(n + 1)'
    <3>1. Left(n + 1)' = Shared \ (checked \ heap) /\ Frontier(n + 1)' = heap
      <4>1. \A j \in 1 .. (n + 1) - 1 : m_order'[j] = m_order[j]
        BY <1>1, <1>3
      <4>2. QED BY <1>1, <1>4, <4>1, FrontierStays
    <3>2. QED BY <1>3, <3>1 DEF Best, Cut
  <2>3. \A k \in 1 .. n + 1 : Best(k)'
    BY <1>3, <2>1, <2>2
  <2>4. QED BY <1>3, <2>3 DEF StaysConnected, Best
<1>14. QED
  BY <1>7, <1>8, <1>9, <1>10, <1>11, <1>12, <1>13 DEF StaticIInv

-----------------------------------------------------------------------------
(***************************************************************************)
(* Each step keeps the invariant.                                          *)
(***************************************************************************)
LEMMA StaticInitInv == StaticConstants /\ SInit => StaticIInv
<1> SUFFICES ASSUME StaticConstants, SInit PROVE StaticIInv
  OBVIOUS
<1>1. QueryInv
  <2>1. weights \in [Shared -> StaticWeights]
    BY DEF SInit, Shared
  <2>2. weights \in [Shared -> Nat]
    BY <2>1 DEF StaticConstants
  <2>3. QED BY <2>2 DEF StaticConstants, SInit, QueryInv
<1>2. at = "sort" /\ m_order = <<>>
  BY DEF SInit
<1>3. StaysConnected
  BY <1>2 DEF StaysConnected
<1>4. QED
  BY <1>1, <1>2, <1>3 DEF StaticIInv, Running

\* The steps that leave the order and what it was made from alone.
LEMMA Unmoved ==
  ASSUME StaticIInv, UNCHANGED <<query, weights, aux, checked, heap, m_order>>
  PROVE  /\ StaysConnected'
         /\ \/ at' \in {"next", "heap", "search"}
            \/ {at, at'} \subseteq {"sort", "thrown"} /\ given' = given
            => QueryInv'
         /\ SortedInv /\ i' \in 1 .. Len(aux) + 1 => SortedInv'
         /\ InOrder(m_order) => InOrder(m_order)'
         /\ NearInv => NearInv'
         /\ Placed' = Placed /\ Shared' = Shared /\ nolonely_size' = nolonely_size
<1>1. /\ \A w : Alone(w)' = Alone(w) /\ related(w)' = related(w) /\ VarType(w)' = VarType(w)
      /\ Shared' = Shared /\ nolonely_size' = nolonely_size /\ Placed' = Placed
  BY DEF Alone, related, VarType, Shared, nolonely_size, Placed
<1>2. StaysConnected'
  <2>1. \A k : Left(k)' = Left(k)
    BY <1>1 DEF Left
  <2>2. \A k : Frontier(k)' = Frontier(k)
    BY <1>1, <2>1 DEF Frontier
  <2>3. QED BY <1>1, <2>1, <2>2 DEF StaysConnected, Cut, StaticIInv
<1>3. ASSUME \/ at' \in {"next", "heap", "search"}
             \/ {at, at'} \subseteq {"sort", "thrown"} /\ given' = given
      PROVE  QueryInv'
  <2>1. IsStaticQuery(query)' /\ (weights \in [Shared -> Nat])'
    BY <1>1 DEF StaticIInv, QueryInv
  <2>2. QED BY <1>3, <2>1 DEF StaticIInv, QueryInv
<1>4. ASSUME SortedInv, i' \in 1 .. Len(aux) + 1 PROVE SortedInv'
  <2>1. InAuxOrder(aux)'
    BY <1>1, <1>4 DEF SortedInv, InAuxOrder, compare_var_info, WeightOf
  <2>2. QED BY <1>1, <1>4, <2>1 DEF SortedInv
<1>5. InOrder(m_order) => InOrder(m_order)'
  BY <1>1 DEF InOrder
<1>6. NearInv => NearInv'
  BY <1>1 DEF NearInv
<1>7. QED
  BY <1>1, <1>2, <1>3, <1>4, <1>5, <1>6

LEMMA ThrowInv == StaticIInv /\ Throw => StaticIInv'
<1> SUFFICES ASSUME StaticIInv, Throw PROVE StaticIInv'
  OBVIOUS
<1>1. /\ at = "sort" /\ at' = "thrown"
      /\ UNCHANGED <<query, weights, aux, checked, heap, m_order, i, index, given>>
  BY DEF Throw
<1>2. QueryInv' /\ StaysConnected'
  BY <1>1, Unmoved
<1>3. QED
  BY <1>1, <1>2 DEF StaticIInv, Running

LEMMA SortInv == StaticIInv /\ Sort => StaticIInv'
<1> SUFFICES ASSUME StaticIInv, Sort PROVE StaticIInv'
  OBVIOUS
<1>1. /\ at = "sort" /\ at' = "next" /\ i' = 1
      /\ aux' \in SetToSeqs(query.vars)
      /\ \A j, k \in DOMAIN aux' : j < k => ~compare_var_info(aux'[k], aux'[j])
      /\ UNCHANGED <<query, weights, checked, heap, m_order, index, given>>
      /\ m_order = <<>> /\ given = <<>> /\ checked = {} /\ heap = {} /\ IsStaticQuery(query)
  BY DEF Sort, StaticIInv, QueryInv
<1>2. PICK s \in SetToSeqs(query.vars) :
        s = aux' /\ \A j, k \in DOMAIN s : j < k => ~compare_var_info(s[k], s[j])
  BY <1>1
<1>3. InAuxOrder(s) /\ \A j \in 1 .. Len(s) : Alone(s[j]) <=> j > nolonely_size
  BY <1>1, <1>2, SortIsSorted, LonelyLast
<1>4. /\ \A w : Alone(w)' = Alone(w) /\ VarType(w)' = VarType(w)
      /\ Shared' = Shared /\ nolonely_size' = nolonely_size
  BY <1>1 DEF Alone, VarType, Shared, nolonely_size
<1>5. QueryInv'
  <2>1. IsStaticQuery(query)' /\ (weights \in [Shared -> Nat])'
    BY <1>1, <1>4 DEF StaticIInv, QueryInv
  <2>2. QED BY <1>1, <2>1 DEF StaticIInv, QueryInv
<1>6. SortedInv'
  <2>1. InAuxOrder(aux)'
    BY <1>1, <1>2, <1>3, <1>4 DEF InAuxOrder, compare_var_info, WeightOf
  <2>2. Len(s) \in Nat
    BY <1>3 DEF InAuxOrder
  <2>3. QED BY <1>1, <1>2, <1>3, <1>4, <2>1, <2>2 DEF SortedInv
<1>7. HeapInv' /\ InOrder(m_order)' /\ NearInv' /\ StaysConnected'
  BY <1>1 DEF HeapInv, InOrder, NearInv, StaysConnected
<1>8. PlacedInv'
  <2>1. \A j \in 1 .. Len(aux') : ~(j < i')
    BY <1>1
  <2>2. Placed' = {}
    BY <1>1 DEF Placed
  <2>3. QED BY <1>1, <2>1, <2>2 DEF PlacedInv
<1>9. QED
  BY <1>1, <1>5, <1>6, <1>7, <1>8 DEF StaticIInv

LEMMA TakeNextInv == StaticIInv /\ TakeNext => StaticIInv'
<1> SUFFICES ASSUME StaticIInv, TakeNext PROVE StaticIInv'
  OBVIOUS
<1> DEFINE v == aux[i]
<1>1. /\ at = "next" /\ i <= nolonely_size /\ v \notin checked /\ Take(v, checked \union {v}, {})
      /\ at' = "heap" /\ UNCHANGED <<query, weights, aux, i, index, given>>
  BY DEF TakeNext
<1>2. /\ QueryInv /\ SortedInv /\ HeapInv /\ PlacedInv /\ InOrder(m_order) /\ NearInv /\ StaysConnected
      /\ heap = {} /\ given = <<>>
  BY <1>1 DEF StaticIInv, Running, HeapInv
<1>3. /\ InAuxOrder(aux) /\ i \in 1 .. Len(aux) + 1 /\ Len(aux) \in Nat /\ nolonely_size \in Nat
      /\ nolonely_size <= Len(aux)
  BY <1>2, SharedFit DEF SortedInv, QueryInv
<1>4. i \in 1 .. Len(aux) /\ v \in Shared
  <2>1. i \in 1 .. Len(aux)
    BY <1>1, <1>3
  <2>2. v \in query.vars
    BY <1>3, <2>1 DEF InAuxOrder
  <2>3. ~Alone(v)
    BY <1>1, <1>2, <1>3, <2>1 DEF SortedInv
  <2>4. QED BY <2>1, <2>2, <2>3 DEF Shared
<1>5. ASSUME NEW w \in Shared \ checked
      PROVE  IF w \in query.nodes <=> v \in query.nodes THEN weights[v] <= weights[w]
             ELSE w \notin query.nodes
  <2>1. PICK j \in 1 .. Len(aux) : aux[j] = w
    BY <1>3, <1>5 DEF InAuxOrder, Shared
  <2>2. ~(j < i)
    BY <1>2, <1>5, <2>1 DEF PlacedInv, Shared
  <2>3. ~Alone(w) /\ ~Alone(v) /\ weights[w] \in Nat /\ weights[v] \in Nat
    BY <1>2, <1>4, <1>5 DEF Shared, QueryInv
  <2>4. CASE j = i
    BY <2>1, <2>3, <2>4
  <2>5. CASE i < j
    <3>1. ~compare_var_info(w, v)
      BY <1>3, <1>4, <2>1, <2>5 DEF InAuxOrder
    <3>2. QED BY <2>3, <3>1 DEF compare_var_info, VarType, WeightOf
  <2>6. QED BY <1>3, <2>2, <2>4, <2>5
<1>6. heap \ {v} = {}
  BY <1>2
<1>7. QED
  BY <1>1, <1>2, <1>4, <1>5, <1>6, TakeInv

LEMMA PopHeapInv == StaticIInv /\ PopHeap => StaticIInv'
<1> SUFFICES ASSUME StaticIInv, PopHeap PROVE StaticIInv'
  OBVIOUS
<1>1. PICK v \in heap :
        (\A w \in heap \ {v} : PairBefore(v, w)) /\ Take(v, checked, heap \ {v})
  BY DEF PopHeap
<1>2. at = "heap" /\ at' = "heap" /\ UNCHANGED <<query, weights, aux, i, index, given>>
  BY DEF PopHeap, Take
<1>3. /\ QueryInv /\ SortedInv /\ HeapInv /\ PlacedInv /\ InOrder(m_order) /\ NearInv /\ StaysConnected
      /\ given = <<>> /\ i <= nolonely_size /\ v \in checked /\ v \in Shared /\ aux[i] \in checked
  BY <1>1, <1>2 DEF StaticIInv, Running, HeapInv
<1>4. checked \union {v} = checked /\ Take(v, checked \union {v}, heap \ {v})
  <2>1. checked \union {v} = checked
    BY <1>3
  <2>2. QED BY <1>1, <2>1
<1>5. ASSUME NEW w \in heap PROVE Cut(weights[v]) <= Cut(weights[w])
  <2>1. Cut(weights[v]) \in Int /\ Cut(weights[w]) \in Int
    <3>1. weights[v] \in Nat /\ weights[w] \in Nat /\ Part \in Nat /\ Part > 0
      BY <1>3, <1>5 DEF QueryInv, HeapInv
    <3>2. QED BY <3>1 DEF Cut
  <2>2. CASE w = v
    BY <2>1, <2>2
  <2>3. CASE w # v
    BY <1>1, <1>5, <2>1, <2>3 DEF PairBefore
  <2>4. QED BY <2>2, <2>3
<1>6. heap # {} /\ v \notin checked \ heap
  BY <1>1
<1>7. QED
  BY <1>1, <1>2, <1>3, <1>4, <1>5, <1>6, TakeInv

\* The steps that leave i alone as well, once the variables are sorted.
LEMMA StillThere ==
  ASSUME StaticIInv, UNCHANGED <<query, weights, aux, checked, heap, m_order, i>>,
         at' \in {"next", "heap", "search"},
         SortedInv, HeapInv, PlacedInv, InOrder(m_order), NearInv,
         \/ at' = at /\ (at' = "search" \/ given' = given)
         \/ at = "next" /\ at' = "search" /\ i > Len(aux)
  PROVE  /\ SortedInv' /\ QueryInv' /\ StaysConnected' /\ InOrder(m_order)' /\ NearInv'
         /\ HeapInv' /\ PlacedInv'
<1>1. SortedInv' /\ QueryInv' /\ StaysConnected' /\ InOrder(m_order)' /\ NearInv'
  <2>1. i' \in 1 .. Len(aux) + 1
    BY DEF SortedInv
  <2>2. QED BY <2>1, Unmoved
<1>2. Placed' = Placed /\ Shared' = Shared /\ nolonely_size' = nolonely_size
  BY Unmoved
<1>3. HeapInv'
  BY <1>2 DEF HeapInv
<1>4. PlacedInv'
  BY <1>2 DEF PlacedInv, Alone
<1>5. QED
  BY <1>1, <1>3, <1>4

\* The loop over aux moves on past a checked variable.
LEMMA AdvanceInv ==
  ASSUME QueryInv, StaysConnected, SortedInv, HeapInv, PlacedInv, InOrder(m_order), NearInv,
         i <= nolonely_size, aux[i] \in checked, heap = {}, given = <<>>, i' = i + 1, at' = "next",
         UNCHANGED <<query, weights, aux, checked, heap, m_order, index, given>>, StaticIInv
  PROVE  StaticIInv'
<1>1. /\ i \in Int /\ Len(aux) \in Nat /\ i \in 1 .. Len(aux) + 1 /\ nolonely_size \in Nat
      /\ nolonely_size <= Len(aux) /\ aux[i] \in Shared
  BY SharedFit DEF QueryInv, SortedInv, HeapInv
<1>2. SortedInv' /\ QueryInv' /\ StaysConnected' /\ InOrder(m_order)' /\ NearInv'
  BY <1>1, Unmoved
<1>3. HeapInv'
  BY Unmoved DEF HeapInv
<1>4. PlacedInv'
  <2>1. \A w : Alone(w)' = Alone(w)
    BY DEF Alone
  <2>2. \A j \in 1 .. Len(aux) : j < i' => j < i \/ j = i
    BY <1>1
  <2>3. ~Alone(aux[i])
    BY <1>1 DEF Shared
  <2>4. \A j \in 1 .. Len(aux) : j < i' => IF Alone(aux[j]) THEN aux[j] \in Placed ELSE aux[j] \in checked
    BY <2>2, <2>3 DEF PlacedInv
  <2>5. \A k \in 1 .. Len(m_order) : Alone(m_order[k]) => \E j \in 1 .. Len(aux) : j < i' /\ m_order[k] = aux[j]
    <3>1. \A j \in 1 .. Len(aux) : j < i => j < i'
      BY <1>1
    <3>2. QED BY <3>1 DEF PlacedInv
  <2>6. Placed' = Placed /\ Shared' = Shared /\ Placed \cap Shared = checked \ heap /\ m_order \in Seq(query.vars)
    BY Unmoved DEF PlacedInv
  <2>7. QED BY <2>1, <2>4, <2>5, <2>6 DEF PlacedInv
<1>5. QED
  BY <1>2, <1>3, <1>4 DEF StaticIInv

LEMMA SkipCheckedInv == StaticIInv /\ SkipChecked => StaticIInv'
<1> SUFFICES ASSUME StaticIInv, SkipChecked PROVE StaticIInv'
  OBVIOUS
<1>1. /\ at = "next" /\ at' = "next" /\ i <= nolonely_size /\ aux[i] \in checked /\ i' = i + 1
      /\ UNCHANGED <<query, weights, aux, checked, heap, m_order, index, given>>
  BY DEF SkipChecked
<1>2. /\ QueryInv /\ StaysConnected /\ SortedInv /\ HeapInv /\ PlacedInv /\ InOrder(m_order) /\ NearInv
      /\ heap = {} /\ given = <<>>
  BY <1>1 DEF StaticIInv, Running, HeapInv
<1>3. QED
  BY <1>1, <1>2, AdvanceInv

LEMMA HeapEmptyInv == StaticIInv /\ HeapEmpty => StaticIInv'
<1> SUFFICES ASSUME StaticIInv, HeapEmpty PROVE StaticIInv'
  OBVIOUS
<1>1. /\ at = "heap" /\ at' = "next" /\ heap = {} /\ i' = i + 1
      /\ UNCHANGED <<query, weights, aux, checked, heap, m_order, index, given>>
  BY DEF HeapEmpty
<1>2. /\ QueryInv /\ StaysConnected /\ SortedInv /\ HeapInv /\ PlacedInv /\ InOrder(m_order) /\ NearInv
      /\ i <= nolonely_size /\ aux[i] \in checked /\ given = <<>>
  BY <1>1 DEF StaticIInv, Running, HeapInv
<1>3. QED
  BY <1>1, <1>2, AdvanceInv

LEMMA TakeLonelyInv == StaticIInv /\ TakeLonely => StaticIInv'
<1> SUFFICES ASSUME StaticIInv, TakeLonely PROVE StaticIInv'
  OBVIOUS
<1> DEFINE v == aux[i]
<1>1. /\ at = "next" /\ at' = "next" /\ i > nolonely_size /\ i <= Len(aux) /\ i' = i + 1
      /\ m_order' = Append(m_order, v)
      /\ UNCHANGED <<query, weights, aux, checked, heap, index, given>>
      /\ QueryInv /\ StaysConnected /\ SortedInv /\ HeapInv /\ PlacedInv /\ InOrder(m_order) /\ NearInv
      /\ heap = {} /\ given = <<>>
  BY DEF TakeLonely, StaticIInv, Running, HeapInv
<1>2. /\ i \in 1 .. Len(aux) /\ Len(aux) \in Nat /\ InAuxOrder(aux)
      /\ Alone(v) /\ v \in query.vars
  <2>1. InAuxOrder(aux) /\ i \in 1 .. Len(aux) + 1 /\ Len(aux) \in Nat /\ aux \in Seq(query.vars)
    BY <1>1 DEF SortedInv, InAuxOrder
  <2>2. i \in 1 .. Len(aux)
    BY <1>1, <2>1
  <2>3. v \in query.vars
    BY <2>1, <2>2
  <2>4. Alone(v)
    BY <1>1, <2>2 DEF SortedInv
  <2>5. QED BY <2>1, <2>2, <2>3, <2>4
<1>3. PICK n \in Nat : n = Len(m_order)
  BY <1>1 DEF PlacedInv
<1>4. /\ m_order \in Seq(query.vars) /\ m_order' \in Seq(query.vars)
      /\ Len(m_order') = n + 1 /\ m_order'[n + 1] = v
      /\ \A k \in 1 .. n : m_order'[k] = m_order[k] /\ k \in 1 .. n + 1
      /\ \A k \in 1 .. n + 1 : k \in 1 .. n \/ k = n + 1
  <2>1. m_order \in Seq(query.vars)
    BY <1>1 DEF PlacedInv
  <2>2. \A k \in 1 .. n + 1 : k \in 1 .. n \/ k = n + 1
    OBVIOUS
  <2>3. /\ Append(m_order, v) \in Seq(query.vars) /\ Len(Append(m_order, v)) = Len(m_order) + 1
        /\ \A d \in 1 .. Len(m_order) : Append(m_order, v)[d] = m_order[d] /\ d \in 1 .. Len(m_order) + 1
        /\ Append(m_order, v)[Len(m_order) + 1] = v
    <3> HIDE DEF v
    <3>1. QED BY <1>2, <2>1, AppendGives
  <2>4. QED BY <1>1, <1>3, <2>1, <2>2, <2>3
<1>5. /\ \A w : Alone(w)' = Alone(w) /\ related(w)' = related(w) /\ VarType(w)' = VarType(w)
      /\ Shared' = Shared /\ nolonely_size' = nolonely_size
  BY <1>1 DEF Alone, related, VarType, Shared, nolonely_size
\* What is placed and alone stands before i in aux.
<1>6. ASSUME NEW k \in 1 .. n, Alone(m_order[k])
      PROVE  VarType(m_order[k]) <= VarType(v) /\ m_order[k] # v
  <2>1. PICK j \in 1 .. Len(aux) : j < i /\ m_order[k] = aux[j]
    BY <1>1, <1>3, <1>6 DEF PlacedInv
  <2>2. ~compare_var_info(v, aux[j]) /\ aux[j] # v
    <3>1. /\ \A a, b \in 1 .. Len(aux) : aux[a] = aux[b] => a = b
          /\ \A a, b \in 1 .. Len(aux) : a < b => ~compare_var_info(aux[b], aux[a])
      BY <1>2 DEF InAuxOrder
    <3>2. j < i /\ j # i
      BY <1>2, <2>1
    <3>3. aux[j] # v
      BY <1>2, <3>1, <3>2
    <3>4. QED BY <1>2, <3>1, <3>2, <3>3
  <2>3. QED BY <2>1, <2>2, TypeFacts DEF compare_var_info
<1>7. QueryInv'
  <2>1. IsStaticQuery(query)' /\ (weights \in [Shared -> Nat])'
    BY <1>1, <1>5 DEF QueryInv
  <2>2. QED BY <1>1, <2>1 DEF QueryInv
<1>8. SortedInv'
  <2>1. InAuxOrder(aux)'
    BY <1>1, <1>2, <1>5 DEF InAuxOrder, compare_var_info, WeightOf
  <2>2. i' \in 1 .. Len(aux) + 1
    BY <1>1, <1>2
  <2>3. QED BY <1>1, <1>5, <2>1, <2>2 DEF SortedInv
<1>9. HeapInv'
  BY <1>1, <1>5 DEF HeapInv
<1>10. PlacedInv'
  <2>1. Placed' = Placed \union {v}
    <3>1. Placed = {m_order[k] : k \in 1 .. n} /\ Placed' = {m_order'[k] : k \in 1 .. n + 1}
      BY <1>3, <1>4 DEF Placed
    <3>2. n + 1 \in 1 .. n + 1
      BY <1>3
    <3>3. QED BY <1>4, <3>1, <3>2
  <2>2. Placed' \cap Shared = checked \ heap
    BY <1>1, <1>2, <2>1 DEF PlacedInv, Shared
  <2>3. \A j \in 1 .. Len(aux) : j < i => j < i'
    BY <1>1, <1>2
  <2>4. ASSUME NEW k \in 1 .. n + 1, Alone(m_order'[k])
        PROVE  \E j \in 1 .. Len(aux) : j < i' /\ m_order'[k] = aux[j]
    <3>1. CASE k \in 1 .. n
      BY <1>1, <1>3, <1>4, <2>3, <2>4, <3>1 DEF PlacedInv
    <3>2. CASE k = n + 1
      <4>1. i < i'
        BY <1>1, <1>2
      <4>2. QED BY <1>2, <1>4, <3>2, <4>1
    <3>3. QED BY <1>4, <2>4, <3>1, <3>2
  <2>5. ASSUME NEW j \in 1 .. Len(aux), j < i'
        PROVE  IF Alone(aux[j]) THEN aux[j] \in Placed' ELSE aux[j] \in checked
    <3>1. j < i \/ j = i
      BY <1>1, <1>2, <2>5
    <3>2. QED BY <1>1, <1>2, <2>1, <3>1 DEF PlacedInv
  <2>6. QED BY <1>1, <1>4, <1>5, <2>2, <2>4, <2>5 DEF PlacedInv
<1>11. InOrder(m_order)'
  <2>1. ASSUME NEW j \in 1 .. n + 1, NEW k \in 1 .. n + 1, j < k
        PROVE  /\ m_order'[j] # m_order'[k]
               /\ Alone(m_order'[j]) => Alone(m_order'[k]) /\ VarType(m_order'[j]) <= VarType(m_order'[k])
    <3>1. j \in 1 .. n /\ m_order'[j] = m_order[j]
      BY <1>3, <1>4, <2>1
    <3>2. CASE k \in 1 .. n
      BY <1>1, <1>3, <1>4, <2>1, <3>1, <3>2 DEF InOrder
    <3>3. CASE k = n + 1
      BY <1>2, <1>4, <1>6, <3>1, <3>3
    <3>4. QED BY <1>4, <2>1, <3>2, <3>3
  <2>2. QED BY <1>4, <1>5, <2>1 DEF InOrder
<1>12. NearInv'
  BY <1>1, <1>5 DEF NearInv
<1>13. StaysConnected'
  <2>1. \A k \in 1 .. n : Best(k)'
    <3>1. \A k \in 1 .. n : Best(k)
      BY <1>1, <1>3 DEF StaysConnected, Best
    <3>2. ASSUME NEW k \in 1 .. n PROVE Best(k)' = Best(k)
      <4>1. k \in Nat /\ k >= 1 /\ \A j \in 1 .. k : m_order'[j] = m_order[j]
        BY <1>3, <1>4
      <4>2. QED BY <1>1, <4>1, BestStays
    <3>3. QED BY <3>1, <3>2
  <2>2. Best(n + 1)'
    BY <1>2, <1>4, <1>5 DEF Best
  <2>3. \A k \in 1 .. n + 1 : Best(k)'
    BY <1>4, <2>1, <2>2
  <2>4. QED BY <1>4, <2>3 DEF StaysConnected, Best
<1>14. QED
  BY <1>1, <1>7, <1>8, <1>9, <1>10, <1>11, <1>12, <1>13 DEF StaticIInv

LEMMA ConstructedInv == StaticIInv /\ Constructed => StaticIInv'
<1> SUFFICES ASSUME StaticIInv, Constructed PROVE StaticIInv'
  OBVIOUS
<1>1. /\ at = "next" /\ at' = "search" /\ i > Len(aux) /\ index' = 0
      /\ UNCHANGED <<query, weights, aux, checked, heap, m_order, i, given>>
      /\ QueryInv /\ SortedInv /\ HeapInv /\ PlacedInv /\ InOrder(m_order) /\ NearInv
      /\ heap = {} /\ given = <<>>
  BY DEF Constructed, StaticIInv, Running, HeapInv
<1>2. /\ SortedInv' /\ QueryInv' /\ StaysConnected' /\ InOrder(m_order)' /\ NearInv'
      /\ HeapInv' /\ PlacedInv'
  BY <1>1, StillThere
<1>3. GivenInv'
  <2>1. Len(m_order) \in Nat
    BY <1>1 DEF PlacedInv
  <2>2. QED BY <1>1, <2>1 DEF GivenInv
<1>4. QED
  BY <1>2, <1>3 DEF StaticIInv

LEMMA SearchInv == StaticIInv /\ (next \/ done) => StaticIInv'
<1> SUFFICES ASSUME StaticIInv, next \/ done PROVE StaticIInv'
  OBVIOUS
<1>1. /\ at = "search" /\ at' = "search"
      /\ UNCHANGED <<query, weights, aux, checked, heap, m_order, i>>
      /\ QueryInv /\ SortedInv /\ HeapInv /\ PlacedInv /\ InOrder(m_order) /\ NearInv /\ GivenInv
  BY DEF next, done, StaticIInv, Running
<1>2. /\ SortedInv' /\ QueryInv' /\ StaysConnected' /\ InOrder(m_order)' /\ NearInv'
      /\ HeapInv' /\ PlacedInv'
  BY <1>1, StillThere DEF HeapInv
<1>3. /\ given \in Seq(query.vars) /\ Len(given) \in Nat /\ Len(m_order) \in Nat
      /\ m_order \in Seq(query.vars) /\ \A d \in 1 .. Len(given) : given[d] = m_order[d]
      /\ index = Len(given) /\ Len(given) <= Len(m_order)
  BY <1>1 DEF GivenInv, PlacedInv
<1>4. GivenInv'
  <2>1. CASE next
    <3> DEFINE v == m_order[index + 1]
    <3>1. Len(given) < Len(m_order) /\ index' = index + 1 /\ given' = Append(given, v)
      BY <2>1 DEF next
    <3>2. v \in query.vars
      BY <1>3, <3>1
    <3>3. /\ given' \in Seq(query.vars) /\ Len(given') = Len(given) + 1
          /\ given'[Len(given) + 1] = v /\ \A d \in 1 .. Len(given) : given'[d] = given[d]
      <4> HIDE DEF v
      <4>1. QED BY <1>3, <3>1, <3>2, AppendGives
    <3>4. \A d \in 1 .. Len(given) + 1 : d \in 1 .. Len(given) \/ d = Len(given) + 1
      BY <1>3
    <3>5. \A d \in 1 .. Len(given) + 1 : given'[d] = m_order[d]
      BY <1>3, <3>3, <3>4
    <3>6. QED BY <1>1, <1>3, <3>1, <3>3, <3>5 DEF GivenInv
  <2>2. CASE done
    <3>1. given # <<>> /\ index' = index - 1 /\ given' = SubSeq(given, 1, Len(given) - 1)
      BY <2>2 DEF done, Front
    <3>2. Len(given) >= 1
      BY <1>3, <3>1
    <3>3. /\ given' \in Seq(query.vars) /\ Len(given') = Len(given) - 1
          /\ \A d \in 1 .. Len(given) - 1 : given'[d] = given[d]
      BY <1>3, <3>1, <3>2, FrontFacts
    <3>4. \A d \in 1 .. Len(given) - 1 : given'[d] = m_order[d]
      BY <1>3, <3>3, SMTT(60)
    <3>5. QED BY <1>1, <1>3, <3>1, <3>3, <3>4 DEF GivenInv
  <2>3. QED BY <2>1, <2>2
<1>5. QED
  BY <1>2, <1>4 DEF StaticIInv

LEMMA NextInv == StaticIInv /\ [SNext]_svars => StaticIInv'
<1> SUFFICES ASSUME StaticIInv, [SNext]_svars PROVE StaticIInv'
  OBVIOUS
<1>1. CASE UNCHANGED svars
  <2>1. UNCHANGED <<query, weights, aux, checked, heap, m_order, i, index, given, at>>
    BY <1>1 DEF svars
  <2>2. QueryInv' /\ StaysConnected'
    <3>1. \/ at' \in {"next", "heap", "search"}
          \/ {at, at'} \subseteq {"sort", "thrown"} /\ given' = given
      BY <2>1 DEF StaticIInv, QueryInv
    <3>2. QED BY <2>1, <3>1, Unmoved
  <2>3. ASSUME Running
        PROVE  SortedInv' /\ HeapInv' /\ PlacedInv' /\ InOrder(m_order)' /\ NearInv'
    BY <2>1, <2>3, StillThere DEF StaticIInv, HeapInv, Running
  <2>4. ASSUME GivenInv PROVE GivenInv'
    BY <2>1, <2>4 DEF GivenInv
  <2>5. QED BY <2>1, <2>2, <2>3, <2>4 DEF StaticIInv, Running
<1>2. QED
  BY <1>1, ThrowInv, SortInv, TakeNextInv, SkipCheckedInv, PopHeapInv, HeapEmptyInv, TakeLonelyInv,
     ConstructedInv, SearchInv DEF SNext

\* What the constructor has built at any moment, and what next and done leave of it.
THEOREM StaticInvariantHolds == ASSUME StaticConstants PROVE SSpec => []StaticIInv
<1>1. SInit => StaticIInv
  BY StaticInitInv
<1>2. QED
  BY <1>1, NextInv, PTL DEF SSpec

\* For every query and all weights, the static order has each variable once, those that occur
\* once last and edges after nodes among them, and the search is given them in that order.
THEOREM StaticOrderLegal == ASSUME StaticConstants PROVE SSpec => []StaticOrderIsLegal
<1>1. StaticIInv => StaticOrderIsLegal
  <2> SUFFICES ASSUME StaticIInv PROVE StaticOrderIsLegal
    OBVIOUS
  <2>1. Running => InOrder(m_order)
    BY DEF StaticIInv
  <2>2. ASSUME at = "search" PROVE ToSet(m_order) = query.vars /\ IsPrefix(given, m_order)
    <3>1. SortedInv /\ HeapInv /\ PlacedInv /\ GivenInv /\ i > Len(aux) /\ heap = {}
      BY <2>2 DEF StaticIInv, Running, HeapInv
    <3>2. m_order \in Seq(query.vars) /\ DOMAIN m_order = 1 .. Len(m_order)
      BY <3>1 DEF PlacedInv
    <3>3. ToSet(m_order) = Placed
      BY <3>2 DEF ToSet, Placed
    <3>4. Placed \subseteq query.vars
      BY <3>2 DEF Placed
    <3>5. ASSUME NEW v \in query.vars PROVE v \in Placed
      <4>1. PICK j \in 1 .. Len(aux) : aux[j] = v
        BY <3>1 DEF SortedInv, InAuxOrder
      <4>2. j < i
        BY <3>1 DEF SortedInv, InAuxOrder
      <4>3. QED BY <3>1, <4>1, <4>2 DEF PlacedInv
    <3>6. IsPrefix(given, m_order)
      BY <3>1, <3>2 DEF IsPrefix, GivenInv
    <3>7. QED BY <3>3, <3>4, <3>5, <3>6
  <2>3. QED BY <2>1, <2>2 DEF StaticOrderIsLegal, InOrder, Running
<1>2. QED
  BY <1>1, StaticInvariantHolds, PTL

\* And it is greedy: a variable connected to those before it, the lightest there is, whenever
\* there is one.
THEOREM OrderConnected == ASSUME StaticConstants PROVE SSpec => []StaysConnected
<1>1. StaticIInv => StaysConnected
  BY DEF StaticIInv
<1>2. QED
  BY <1>1, StaticInvariantHolds, PTL
=============================================================================
