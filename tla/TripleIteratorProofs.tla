------------------------ MODULE TripleIteratorProofs ------------------------
(***************************************************************************)
(* For every graph: the iterator of a triple pattern keeps, at each level, *)
(* the interval of the edges that match what is bound so far, and answers  *)
(* what its contract says.  A label with both ends constant is apart, as   *)
(* EmptyIffNoMatch fails there.                                            *)
(***************************************************************************)
EXTENDS TripleIterator, RingTheorems, SequenceTheorems

\* A label between two constants is left out: see EmptyHolds and the run label_const.
NoLabelConst == \A t \in Patterns : t.label = 0 \/ t.s = 0 \/ t.o = 0

\* A term of an edge.
ValOf(E, e, x) == IF x = "s" THEN e.s ELSE IF x = "o" THEN e.o ELSE Pos(E)[e]

\* The edges that agree with the label and the first d values bound.
Fits(E, t, st, cs, d) ==
  {e \in E : /\ t.label \in {0, e.p}
             /\ d >= 1 => ValOf(E, e, st[0]) = cs[0]
             /\ d >= 2 => ValOf(E, e, st[1]) = cs[1]}

Holds(I, A, E, pos) == Spans(I.l, I.r, A, E, pos)
IntervalsOf(n) == [l : 1 .. n + 1, r : 0 .. n, val : Int, rank : Int]

\* What the interval of each level holds, and in which order.
Interval0(E, t, st, cs, ints) ==
  ~(t.s = 0 /\ t.o # 0) => Holds(ints[0], Fits(E, t, st, cs, 0), E, Pos(E))
Interval1(E, t, st, cs, ints) ==
  /\ st[0] = "s" => Holds(ints[1], Fits(E, t, st, cs, 1), E, Spo(E))
  /\ st[0] = "o" => Holds(ints[1], Fits(E, t, st, cs, 1), E, IF t.label = 0 THEN Osp(E) ELSE Pos(E))
Interval2(E, t, st, cs, ints) ==
  st[0] # "p" /\ st[1] # "p" =>
    Holds(ints[2], Fits(E, t, st, cs, 2), E, IF t.label # 0 /\ st[1] = "s" THEN Spo(E) ELSE Osp(E))

Top == IF m_level < 2 THEN m_level ELSE 2
Current == Fits(edges, pat, m_state, m_consts, Top)
CurrentVals(x) == {ValOf(edges, e, x) : e \in Current}

Offset(t) == IF t.s # 0 /\ t.o # 0 THEN 2 ELSE IF t.s # 0 \/ t.o # 0 THEN 1 ELSE 0

StateTypes ==
  /\ edges \in Graphs /\ R = Build(edges) /\ pat \in Patterns
  /\ m_is_empty \in BOOLEAN /\ m_level \in 0 .. 3
  /\ m_state \in [0 .. 1 -> Terms \union {"none"}]
  /\ m_consts \in [0 .. 2 -> 0 .. R.n + R.maxSO]
  /\ m_intervals \in [0 .. 2 -> IntervalsOf(R.n)]
  /\ m_triple_j \in Int
  /\ path \in Seq([x : Terms, v : Nat])
  /\ mode \in {"idle", "leap", "scan", "under", "left", "back"}
  /\ ret \in [x : Terms \union {"none"}, c : Int, v : 0 .. R.n + R.maxSO]

\* The levels are the constants of the pattern and then the path.
Bindings ==
  /\ m_level = Offset(pat) + Len(path)
  /\ Offset(pat) = 2 => /\ m_state[0] = "s" /\ m_consts[0] = pat.s
                        /\ m_state[1] = "o" /\ m_consts[1] = pat.o
  /\ Offset(pat) = 1 => IF pat.s # 0 THEN m_state[0] = "s" /\ m_consts[0] = pat.s
                        ELSE m_state[0] = "o" /\ m_consts[0] = pat.o
  /\ \A d \in 1 .. Len(path) :
       /\ path[d].x \in Variables
       /\ \A f \in 1 .. Len(path) : path[d].x = path[f].x => d = f
       /\ Offset(pat) + d - 1 < 2 => /\ m_state[Offset(pat) + d - 1] = path[d].x
                                     /\ m_consts[Offset(pat) + d - 1] = path[d].v

Intervals ==
  /\ Interval0(edges, pat, m_state, m_consts, m_intervals)
  /\ m_level >= 1 => Interval1(edges, pat, m_state, m_consts, m_intervals)
  /\ m_level >= 2 => Interval2(edges, pat, m_state, m_consts, m_intervals)

\* What the last search selected is what a down is about to use.
KeepsO(x) == m_level = 0 /\ pat.label # 0 /\ x = "o"
KeepsS(x) == m_level = 1 /\ pat.label = 0 /\ m_state[0] = "o" /\ x = "s"
KeptIn(ints, x, v) ==
  /\ KeepsO(x) => ints[0].val = v /\ ints[0].rank = BlockRank(R.p, v, pat.label)
  /\ KeepsS(x) => ints[1].val = v /\ ints[1].rank = BlockRank(R.o, v, m_consts[0])
Kept == mode = "leap" /\ ret.v # 0 => KeptIn(m_intervals, ret.x, ret.v)

\* The scan is at the edge whose id is v.
ScanAt(v) ==
  /\ m_triple_j \in m_intervals[2].l .. m_intervals[2].r
  /\ LastEdge(m_triple_j) = v

Protocol ==
  /\ mode \in {"leap", "scan", "left", "back"} => ret.x \in Free
  /\ mode \in {"leap", "scan"} => ret.v = LeastFrom(CurrentVals(ret.x), ret.c)
  /\ mode \in {"idle", "under", "left", "back"} => ret.v = 0
  /\ mode \in {"scan", "left"} => m_level = 2
  /\ mode = "scan" /\ ret.v # 0 /\ ret.x = "p" => ScanAt(ret.v)
  /\ mode = "under" =>
       LET last == path[Len(path)] IN
       /\ m_level = 3 /\ path # <<>> /\ last.v \in CurrentVals(last.x)
       /\ last.x = "p" => ScanAt(last.v)
  /\ mode = "left" =>
       /\ ret.c \in CurrentVals(ret.x)
       /\ ret.x = "p" => ScanAt(ret.c)

IInv ==
  /\ StateTypes
  /\ m_is_empty <=> Matching = {}
  /\ IF m_is_empty THEN path = <<>> /\ mode = "idle" /\ ret.v = 0
     ELSE Bindings /\ Intervals /\ Current # {} /\ Kept /\ Protocol

-----------------------------------------------------------------------------
(***************************************************************************)
(* The graph, the terms, what is free.                                     *)
(***************************************************************************)
LEMMA RingHere ==
  ASSUME StateTypes
  PROVE  /\ IsGraph(edges) /\ IsRing(R, edges)
         /\ R.n \in Nat /\ R.n # 0 /\ R.maxSO \in Nat
         /\ pat.s \in Nat /\ pat.o \in Nat /\ pat.label \in Nat
<1>1. IsGraph(edges)
  BY GraphAssumption DEF StateTypes
<1>2. IsRing(R, edges)
  BY <1>1, BuildIsRing DEF StateTypes
<1>3. pat \in [s : Nat, o : Nat, label : Nat]
  BY PatternAssumption DEF StateTypes
<1>4. QED BY <1>1, <1>2, <1>3 DEF IsRing

\* A match gives to a term what its edge has.
LEMMA TermIs ==
  ASSUME NEW e \in edges, NEW x \in Terms
  PROVE  Term(e)[x] = ValOf(edges, e, x)
<1>1. EdgeId(edges, e) = Pos(edges)[e]
  BY DEF EdgeId, Pos, PositionsOf
<1>2. CASE x = "s"
  BY <1>2 DEF Term, ValOf
<1>3. CASE x = "o"
  BY <1>3 DEF Term, ValOf
<1>4. CASE x = "p"
  BY <1>1, <1>4 DEF Term, ValOf
<1>5. QED BY <1>2, <1>3, <1>4 DEF Terms

\* The levels, and the steps of the path.
LEMMA PathIs ==
  ASSUME StateTypes, Bindings
  PROVE  /\ DOMAIN path = 1 .. Len(path) /\ Len(path) \in Nat
         /\ m_level \in 0 .. 3 /\ Offset(pat) \in 0 .. 2 /\ m_level = Offset(pat) + Len(path)
         /\ \A d \in 1 .. Len(path) : path[d].x \in Terms /\ path[d].v \in Nat
<1>1. path \in Seq([x : Terms, v : Nat])
  BY DEF StateTypes
<1>2. DOMAIN path = 1 .. Len(path) /\ Len(path) \in Nat /\ \A d \in 1 .. Len(path) : path[d] \in [x : Terms, v : Nat]
  BY <1>1, LenProperties, ElementOfSeq
<1>3. \A d \in 1 .. Len(path) : path[d].x \in Terms /\ path[d].v \in Nat
  BY <1>2
<1>4. m_level \in 0 .. 3 /\ m_level = Offset(pat) + Len(path)
  BY DEF Bindings, StateTypes
<1>5. Offset(pat) \in 0 .. 2
  BY DEF Offset
<1>6. QED BY <1>2, <1>3, <1>4, <1>5

\* Where the path lies in the levels.
LEMMA FreeIs ==
  ASSUME StateTypes, Bindings
  PROVE  /\ m_level = 0 => Free = Terms
         /\ m_level = 1 => m_state[0] \in Terms /\ Free = Terms \ {m_state[0]}
         /\ m_level = 2 => /\ m_state[0] \in Terms /\ m_state[1] \in Terms /\ m_state[0] # m_state[1]
                           /\ Free = Terms \ {m_state[0], m_state[1]}
         /\ m_level = 3 => Free = {}
         /\ Free \subseteq Terms
<1> DEFINE k == Offset(pat)
           Path == {path[d].x : d \in 1 .. Len(path)}
<1>1. /\ DOMAIN path = 1 .. Len(path) /\ Len(path) \in Nat /\ m_level \in 0 .. 3 /\ k \in 0 .. 2
      /\ m_level = k + Len(path) /\ \A d \in 1 .. Len(path) : path[d].x \in Terms
  BY PathIs
<1>2. Free = Variables \ Path
  BY <1>1 DEF Free
<1>3. Terms = {"s", "p", "o"} /\ Variables \subseteq Terms
  BY DEF Terms, Variables
<1>4. k = 0 => Variables = Terms
  BY DEF Offset, Variables, Terms
<1>5. k = 1 => Variables = Terms \ {m_state[0]} /\ m_state[0] \in Terms
  BY DEF Offset, Variables, Terms, Bindings
<1>6. k = 2 => Variables = {"p"} /\ m_state[0] = "s" /\ m_state[1] = "o"
  BY DEF Offset, Variables, Terms, Bindings
<1>7. \A d \in 1 .. Len(path) :
        /\ path[d].x \in Variables
        /\ \A f \in 1 .. Len(path) : path[d].x = path[f].x => d = f
        /\ k + d - 1 < 2 => m_state[k + d - 1] = path[d].x
  BY DEF Bindings
<1>8. Free \subseteq Terms
  BY <1>2, <1>3
<1> HIDE DEF k
<1>9. CASE Len(path) = 0
  <2>1. Path = {}
    BY <1>9
  <2>2. Free = Variables /\ m_level = k
    BY <1>1, <1>2, <1>9, <2>1
  <2>3. QED BY <1>1, <1>3, <1>4, <1>5, <1>6, <1>8, <2>2
<1>10. CASE Len(path) = 1
  <2>1. Path = {path[1].x} /\ 1 \in 1 .. Len(path)
    <3>1. 1 .. 1 = {1}
      OBVIOUS
    <3>2. QED BY <1>10, <3>1
  <2>2. Free = Variables \ {path[1].x} /\ m_level = k + 1 /\ path[1].x \in Variables /\ path[1].x \in Terms
    BY <1>1, <1>2, <1>7, <1>10, <2>1
  <2>3. k < 2 => m_state[k] = path[1].x
    <3>1. k + 1 - 1 < 2 => m_state[k + 1 - 1] = path[1].x
      BY <1>7, <2>1
    <3>2. k + 1 - 1 = k
      BY <1>1
    <3>3. QED BY <3>1, <3>2
  <2>4. k = 0 \/ k = 1 \/ k = 2
    BY <1>1
  <2>5. CASE k = 0
    BY <1>4, <1>8, <2>2, <2>3, <2>5
  <2>6. CASE k = 1
    BY <1>5, <1>8, <2>2, <2>3, <2>6
  <2>7. CASE k = 2
    BY <1>6, <1>8, <2>2, <2>3, <2>7
  <2>8. QED BY <2>4, <2>5, <2>6, <2>7
<1>11. CASE Len(path) = 2
  <2>1. Path = {path[1].x, path[2].x} /\ 1 \in 1 .. Len(path) /\ 2 \in 1 .. Len(path)
    <3>1. 1 .. 2 = {1, 2}
      OBVIOUS
    <3>2. QED BY <1>11, <3>1
  <2>2. /\ Free = Variables \ {path[1].x, path[2].x} /\ m_level = k + 2
        /\ path[1].x \in Variables /\ path[2].x \in Variables /\ path[1].x # path[2].x
    BY <1>1, <1>2, <1>7, <1>11, <2>1
  <2>3. k = 0 => m_state[0] = path[1].x /\ m_state[1] = path[2].x
    <3>1. /\ k + 1 - 1 < 2 => m_state[k + 1 - 1] = path[1].x
          /\ k + 2 - 1 < 2 => m_state[k + 2 - 1] = path[2].x
      BY <1>7, <2>1
    <3>2. QED BY <3>1
  <2>4. k = 1 => m_state[1] = path[1].x
    <3>1. k + 1 - 1 < 2 => m_state[k + 1 - 1] = path[1].x
      BY <1>7, <2>1
    <3>2. QED BY <3>1
  <2>5. k = 0 \/ k = 1
    BY <1>1, <2>2
  <2>6. CASE k = 0
    BY <1>3, <1>4, <1>8, <2>2, <2>3, <2>6
  <2>7. CASE k = 1
    BY <1>3, <1>5, <1>8, <2>2, <2>4, <2>7
  <2>8. QED BY <2>5, <2>6, <2>7
<1>12. CASE Len(path) = 3
  <2>1. Path = {path[1].x, path[2].x, path[3].x} /\ 1 \in 1 .. Len(path) /\ 2 \in 1 .. Len(path) /\ 3 \in 1 .. Len(path)
    <3>1. 1 .. 3 = {1, 2, 3}
      OBVIOUS
    <3>2. QED BY <1>12, <3>1
  <2>2. path[1].x # path[2].x /\ path[1].x # path[3].x /\ path[2].x # path[3].x
    BY <1>7, <2>1
  <2>3. path[1].x \in Terms /\ path[2].x \in Terms /\ path[3].x \in Terms
    BY <1>1, <2>1
  <2>4. Free = {}
    BY <1>2, <1>3, <2>1, <2>2, <2>3
  <2>5. m_level = 3
    BY <1>1, <1>12
  <2>6. QED BY <2>4, <2>5
<1>13. QED BY <1>1, <1>9, <1>10, <1>11, <1>12

\* At the last levels two terms are bound.
LEMMA StateIs ==
  ASSUME StateTypes, Bindings
  PROVE  /\ m_level = 2 => m_state[0] \in Terms /\ m_state[1] \in Terms /\ m_state[0] # m_state[1]
         /\ m_level = 3 => m_state[0] \in Terms /\ m_state[1] \in Terms /\ m_state[0] # m_state[1]
<1>1. m_level = 2 => m_state[0] \in Terms /\ m_state[1] \in Terms /\ m_state[0] # m_state[1]
  BY FreeIs
<1>2. ASSUME m_level = 3 PROVE m_state[0] \in Terms /\ m_state[1] \in Terms /\ m_state[0] # m_state[1]
  <2> DEFINE k == Offset(pat)
  <2>1. /\ Len(path) \in Nat /\ k \in 0 .. 2 /\ m_level = k + Len(path)
        /\ \A d \in 1 .. Len(path) : path[d].x \in Terms
    BY PathIs
  <2>2. \A d \in 1 .. Len(path) :
          /\ path[d].x \in Variables
          /\ \A f \in 1 .. Len(path) : path[d].x = path[f].x => d = f
          /\ k + d - 1 < 2 => m_state[k + d - 1] = path[d].x
    BY DEF Bindings
  <2>3. k = 1 => m_state[0] \in {"s", "o"} /\ m_state[0] \notin Variables
    BY DEF Offset, Variables, Bindings
  <2>4. k = 2 => m_state[0] = "s" /\ m_state[1] = "o"
    BY DEF Offset, Bindings
  <2> HIDE DEF k
  <2>5. CASE k = 0
    <3>1. 1 \in 1 .. Len(path) /\ 2 \in 1 .. Len(path)
      BY <1>2, <2>1, <2>5
    <3>2. m_state[0 + 1 - 1] = path[1].x /\ m_state[0 + 2 - 1] = path[2].x /\ path[1].x # path[2].x
      BY <2>2, <2>5, <3>1
    <3>3. QED BY <2>1, <3>1, <3>2
  <2>6. CASE k = 1
    <3>1. 1 \in 1 .. Len(path)
      BY <1>2, <2>1, <2>6
    <3>2. m_state[1 + 1 - 1] = path[1].x /\ path[1].x \in Variables /\ path[1].x \in Terms
      BY <2>1, <2>2, <2>6, <3>1
    <3>3. QED BY <2>3, <2>6, <3>2 DEF Terms
  <2>7. CASE k = 2
    BY <2>4, <2>7 DEF Terms
  <2>8. QED BY <2>1, <2>5, <2>6, <2>7
<1>3. QED BY <1>1, <1>2

\* What the join has bound is what the levels hold.
LEMMA AgreeingIs ==
  ASSUME StateTypes, Bindings, m_level <= 2
  PROVE  /\ Agreeing = {Term(e) : e \in Current}
         /\ \A x \in Terms : {m[x] : m \in Agreeing} = CurrentVals(x)
<1> DEFINE k == Offset(pat)
           Held(e) == \A d \in 1 .. Len(path) : ValOf(edges, e, path[d].x) = path[d].v
<1>1. /\ DOMAIN path = 1 .. Len(path) /\ Len(path) \in Nat /\ k \in 0 .. 2
      /\ m_level = k + Len(path) /\ \A d \in 1 .. Len(path) : path[d].x \in Terms
  BY PathIs
<1>2. Agreeing = {Term(e) : e \in {f \in Matching : Held(f)}}
  <2>1. \A e \in Matching : e \in edges
    BY DEF Matching
  <2>2. \A e \in Matching : (\A d \in DOMAIN path : Term(e)[path[d].x] = path[d].v) <=> Held(e)
    BY <1>1, <2>1, TermIs
  <2>3. QED BY <2>2 DEF Agreeing, Matches
<1>3. pat.s \in Nat /\ pat.o \in Nat /\ Top = m_level
  BY RingHere, <1>1 DEF Top
<1>4. \A e \in edges : ValOf(edges, e, "s") = e.s /\ ValOf(edges, e, "o") = e.o
  BY DEF ValOf
<1>5. \A d \in 1 .. Len(path) :
        k + d - 1 < 2 => m_state[k + d - 1] = path[d].x /\ m_consts[k + d - 1] = path[d].v
  BY DEF Bindings
<1>6. k = 0 => pat.s = 0 /\ pat.o = 0
  BY DEF Offset
<1>7. k = 1 => \/ pat.s # 0 /\ pat.o = 0 /\ m_state[0] = "s" /\ m_consts[0] = pat.s
               \/ pat.s = 0 /\ pat.o # 0 /\ m_state[0] = "o" /\ m_consts[0] = pat.o
  BY DEF Offset, Bindings
<1>8. k = 2 => /\ pat.s # 0 /\ pat.o # 0 /\ m_state[0] = "s" /\ m_consts[0] = pat.s
               /\ m_state[1] = "o" /\ m_consts[1] = pat.o
  BY DEF Offset, Bindings
<1>9. ASSUME NEW e \in edges
      PROVE  e \in Matching /\ Held(e) <=> e \in Current
  <2> DEFINE V0 == ValOf(edges, e, m_state[0]) = m_consts[0]
             V1 == ValOf(edges, e, m_state[1]) = m_consts[1]
             L == pat.label \in {0, e.p}
  <2>1. e \in Matching <=> pat.s \in {0, e.s} /\ pat.o \in {0, e.o} /\ L
    BY DEF Matching
  <2>2. e \in Current <=> L /\ (m_level >= 1 => V0) /\ (m_level >= 2 => V1)
    BY <1>3 DEF Current, Fits
  <2> HIDE DEF L, k
  <2>3. CASE Len(path) = 0
    <3>1. Held(e)
      BY <2>3
    <3> HIDE DEF Held
    <3>2. k = 0 \/ k = 1 \/ k = 2
      BY <1>1
    <3>3. CASE k = 0
      BY <1>1, <1>6, <2>1, <2>2, <2>3, <3>1, <3>3
    <3>4. CASE k = 1
      BY <1>1, <1>4, <1>7, <2>1, <2>2, <2>3, <3>1, <3>4
    <3>5. CASE k = 2
      BY <1>1, <1>4, <1>8, <2>1, <2>2, <2>3, <3>1, <3>5
    <3>6. QED BY <3>2, <3>3, <3>4, <3>5
  <2>4. CASE Len(path) = 1
    <3>1. Held(e) <=> ValOf(edges, e, path[1].x) = path[1].v
      <4>1. \A d : d \in 1 .. Len(path) <=> d = 1
        BY <2>4
      <4>2. QED BY <4>1
    <3>2. k + 1 - 1 < 2 => m_state[k + 1 - 1] = path[1].x /\ m_consts[k + 1 - 1] = path[1].v
      <4>1. 1 \in 1 .. Len(path)
        BY <2>4
      <4>2. QED BY <1>5, <4>1
    <3> HIDE DEF Held
    <3>3. k = 0 \/ k = 1
      BY <1>1, <2>4
    <3>4. CASE k = 0
      BY <1>1, <1>6, <2>1, <2>2, <2>4, <3>1, <3>2, <3>4
    <3>5. CASE k = 1
      BY <1>1, <1>4, <1>7, <2>1, <2>2, <2>4, <3>1, <3>2, <3>5
    <3>6. QED BY <3>3, <3>4, <3>5
  <2>5. CASE Len(path) = 2
    <3>1. Held(e) <=> ValOf(edges, e, path[1].x) = path[1].v /\ ValOf(edges, e, path[2].x) = path[2].v
      <4>1. \A d : d \in 1 .. Len(path) <=> d = 1 \/ d = 2
        BY <2>5
      <4>2. QED BY <4>1
    <3>2. /\ k + 1 - 1 < 2 => m_state[k + 1 - 1] = path[1].x /\ m_consts[k + 1 - 1] = path[1].v
          /\ k + 2 - 1 < 2 => m_state[k + 2 - 1] = path[2].x /\ m_consts[k + 2 - 1] = path[2].v
      <4>1. 1 \in 1 .. Len(path) /\ 2 \in 1 .. Len(path)
        BY <2>5
      <4>2. QED BY <1>5, <4>1
    <3> HIDE DEF Held
    <3>3. k = 0
      BY <1>1, <2>5
    <3>4. QED BY <1>1, <1>6, <2>1, <2>2, <2>5, <3>1, <3>2, <3>3
  <2>6. Len(path) = 0 \/ Len(path) = 1 \/ Len(path) = 2
    BY <1>1
  <2>7. QED BY <2>3, <2>4, <2>5, <2>6
<1> HIDE DEF Held, k
<1>10. {f \in Matching : Held(f)} = Current
  <2>1. Matching \subseteq edges /\ Current \subseteq edges
    BY DEF Matching, Current, Fits
  <2>2. QED BY <1>9, <2>1
<1>11. Agreeing = {Term(e) : e \in Current}
  BY <1>2, <1>10
<1>12. ASSUME NEW x \in Terms PROVE {m[x] : m \in Agreeing} = CurrentVals(x)
  <2>1. {m[x] : m \in Agreeing} = {Term(e)[x] : e \in Current}
    BY <1>11
  <2>2. Current \subseteq edges
    BY DEF Current, Fits
  <2>3. QED BY <2>1, <2>2, TermIs DEF CurrentVals
<1>13. QED BY <1>11, <1>12

-----------------------------------------------------------------------------
(***************************************************************************)
(* The moves of the iterator, as sets of edges.                            *)
(***************************************************************************)
LEMMA IntervalIs ==
  ASSUME NEW l, NEW r
  PROVE  Interval(<<l, r>>) = [l |-> l, r |-> r, val |-> -1, rank |-> -1]
BY DEF Interval, Unset

\* An interval of edges lies in the column.
LEMMA HoldsTyped ==
  ASSUME NEW E, IsGraph(E), NEW R0, IsRing(R0, E), NEW l, NEW r, NEW A, NEW pos,
         Spans(l, r, A, E, pos)
  PROVE  /\ Interval(<<l, r>>) \in IntervalsOf(R0.n)
         /\ Holds(Interval(<<l, r>>), A, E, pos)
<1>1. l \in 1 .. R0.n + 1 /\ r \in 0 .. R0.n
  BY EdgeFacts DEF Spans
<1>2. Interval(<<l, r>>) \in IntervalsOf(R0.n)
  <2>1. Interval(<<l, r>>) = [l |-> l, r |-> r, val |-> -1, rank |-> -1]
    BY IntervalIs
  <2>2. -1 \in Int
    OBVIOUS
  <2>3. QED BY <1>1, <2>1, <2>2 DEF IntervalsOf
<1>3. Interval(<<l, r>>).l = l /\ Interval(<<l, r>>).r = r
  BY DEF Interval
<1>4. QED BY <1>2, <1>3 DEF Holds

Subjects(A) == {e.s : e \in A}
Objects(A) == {e.o : e \in A}
Labels(A) == {e.p : e \in A}

\* min_S, next_S and the like answer from the edges of the interval.
LEMMA Searches ==
  ASSUME NEW E, IsGraph(E), NEW R0, IsRing(R0, E), NEW I, NEW A, NEW c, IsBound(c)
  PROVE  /\ Holds(I, A, E, Pos(E)) => NextIn(R0.s, I, R0.maxSO, c) = LeastFrom(Subjects(A), c)
         /\ Holds(I, A, E, Spo(E)) => NextIn(R0.o, I, R0.maxSO, c) = LeastFrom(Objects(A), c)
         /\ Holds(I, A, E, Osp(E)) => NextIn(R0.p, I, R0.maxP, c) = LeastFrom(Labels(A), c)
<1>1. /\ IsFiniteSet(E) /\ R0.maxSO \in Nat /\ R0.maxP \in Nat
      /\ \A e \in E : /\ Subj(E)[e] = e.s /\ Pred(E)[e] = e.p /\ Obj(E)[e] = e.o
                      /\ e.s \in 1 .. R0.maxSO /\ e.o \in 1 .. R0.maxSO /\ e.p \in 1 .. R0.maxP
  BY EdgeFacts DEF IsRing
<1>2. \A e \in E : Subj(E)[e] <= R0.maxSO /\ Obj(E)[e] <= R0.maxSO /\ Pred(E)[e] <= R0.maxP
  BY <1>1
<1>3. /\ IsColumn(R0.o, E, Spo(E), Obj(E), Subj(E), R0.maxSO)
      /\ IsColumn(R0.p, E, Osp(E), Pred(E), Obj(E), R0.maxSO)
      /\ IsColumn(R0.s, E, Pos(E), Subj(E), Pred(E), R0.maxP)
  BY DEF IsRing
<1>4. ASSUME Holds(I, A, E, Pos(E)) PROVE NextIn(R0.s, I, R0.maxSO, c) = LeastFrom(Subjects(A), c)
  <2>1. NextIn(R0.s, I, R0.maxSO, c) = LeastFrom({Subj(E)[e] : e \in A}, c)
    BY <1>1, <1>2, <1>3, <1>4, NextInAnswers DEF Holds
  <2>2. {Subj(E)[e] : e \in A} = {e.s : e \in A}
    BY <1>1, <1>4 DEF Holds, Spans
  <2>3. QED BY <2>1, <2>2 DEF Subjects
<1>5. ASSUME Holds(I, A, E, Spo(E)) PROVE NextIn(R0.o, I, R0.maxSO, c) = LeastFrom(Objects(A), c)
  <2>1. NextIn(R0.o, I, R0.maxSO, c) = LeastFrom({Obj(E)[e] : e \in A}, c)
    BY <1>1, <1>2, <1>3, <1>5, NextInAnswers DEF Holds
  <2>2. {Obj(E)[e] : e \in A} = {e.o : e \in A}
    BY <1>1, <1>5 DEF Holds, Spans
  <2>3. QED BY <2>1, <2>2 DEF Objects
<1>6. ASSUME Holds(I, A, E, Osp(E)) PROVE NextIn(R0.p, I, R0.maxP, c) = LeastFrom(Labels(A), c)
  <2>1. NextIn(R0.p, I, R0.maxP, c) = LeastFrom({Pred(E)[e] : e \in A}, c)
    BY <1>1, <1>2, <1>3, <1>6, NextInAnswers DEF Holds
  <2>2. {Pred(E)[e] : e \in A} = {e.p : e \in A}
    BY <1>1, <1>6 DEF Holds, Spans
  <2>3. QED BY <2>1, <2>2 DEF Labels
<1>7. QED BY <1>4, <1>5, <1>6

\* The interval of a block holds the edges of its value.
LEMMA BlocksHold ==
  ASSUME NEW E, IsGraph(E), NEW R0, IsRing(R0, E)
  PROVE  /\ \A v \in 1 .. R0.maxSO :
              /\ Interval(Block(R0.o, v)) \in IntervalsOf(R0.n)
              /\ Holds(Interval(Block(R0.o, v)), OfSubject(E, v), E, Spo(E))
              /\ Interval(Block(R0.p, v)) \in IntervalsOf(R0.n)
              /\ Holds(Interval(Block(R0.p, v)), OfObject(E, v), E, Osp(E))
         /\ \A v \in 1 .. R0.maxP :
              /\ Interval(Block(R0.s, v)) \in IntervalsOf(R0.n)
              /\ Holds(Interval(Block(R0.s, v)), OfLabel(E, v), E, Pos(E))
<1>1. /\ IsFiniteSet(E)
      /\ \A e \in E : Subj(E)[e] = e.s /\ Pred(E)[e] = e.p /\ Obj(E)[e] = e.o
  BY EdgeFacts
<1>2. /\ IsColumn(R0.o, E, Spo(E), Obj(E), Subj(E), R0.maxSO)
      /\ IsColumn(R0.p, E, Osp(E), Pred(E), Obj(E), R0.maxSO)
      /\ IsColumn(R0.s, E, Pos(E), Subj(E), Pred(E), R0.maxP)
  BY DEF IsRing
<1>3. \A B, v : Block(B, v) = <<Block(B, v)[1], Block(B, v)[2]>>
  BY DEF Block
<1>4. \A v : {e \in E : Subj(E)[e] = v} = OfSubject(E, v)
  BY <1>1 DEF OfSubject
<1>5. \A v : {e \in E : Obj(E)[e] = v} = OfObject(E, v)
  BY <1>1 DEF OfObject
<1>6. \A v : {e \in E : Pred(E)[e] = v} = OfLabel(E, v)
  BY <1>1 DEF OfLabel
<1>7. ASSUME NEW v \in 1 .. R0.maxSO
      PROVE  /\ Interval(Block(R0.o, v)) \in IntervalsOf(R0.n)
             /\ Holds(Interval(Block(R0.o, v)), OfSubject(E, v), E, Spo(E))
  <2>1. Spans(Block(R0.o, v)[1], Block(R0.o, v)[2], OfSubject(E, v), E, Spo(E))
    BY <1>1, <1>2, <1>4, BlockSpans
  <2>2. QED BY <1>3, <2>1, HoldsTyped
<1>8. ASSUME NEW v \in 1 .. R0.maxSO
      PROVE  /\ Interval(Block(R0.p, v)) \in IntervalsOf(R0.n)
             /\ Holds(Interval(Block(R0.p, v)), OfObject(E, v), E, Osp(E))
  <2>1. Spans(Block(R0.p, v)[1], Block(R0.p, v)[2], OfObject(E, v), E, Osp(E))
    BY <1>1, <1>2, <1>5, BlockSpans
  <2>2. QED BY <1>3, <2>1, HoldsTyped
<1>9. ASSUME NEW v \in 1 .. R0.maxP
      PROVE  /\ Interval(Block(R0.s, v)) \in IntervalsOf(R0.n)
             /\ Holds(Interval(Block(R0.s, v)), OfLabel(E, v), E, Pos(E))
  <2>1. Spans(Block(R0.s, v)[1], Block(R0.s, v)[2], OfLabel(E, v), E, Pos(E))
    BY <1>1, <1>2, <1>6, BlockSpans
  <2>2. QED BY <1>3, <2>1, HoldsTyped
<1>10. QED BY <1>7, <1>8, <1>9

\* A backward step keeps the edges that have the symbol.
LEMMA StepsHold ==
  ASSUME NEW E, IsGraph(E), NEW R0, IsRing(R0, E), NEW I, NEW A
  PROVE  /\ Holds(I, A, E, Pos(E)) => \A v \in 1 .. R0.maxSO :
              LET J == Interval(Step(R0.s, R0.o, <<I.l, I.r>>, v))
              IN  J \in IntervalsOf(R0.n) /\ Holds(J, OfSubject(A, v), E, Spo(E))
         /\ Holds(I, A, E, Spo(E)) => \A v \in 1 .. R0.maxSO :
              LET J == Interval(Step(R0.o, R0.p, <<I.l, I.r>>, v))
              IN  J \in IntervalsOf(R0.n) /\ Holds(J, OfObject(A, v), E, Osp(E))
         /\ Holds(I, A, E, Osp(E)) => \A v \in 1 .. R0.maxP :
              LET J == Interval(Step(R0.p, R0.s, <<I.l, I.r>>, v))
              IN  J \in IntervalsOf(R0.n) /\ Holds(J, OfLabel(A, v), E, Pos(E))
<1>1. /\ IsFiniteSet(E)
      /\ \A e \in E : Subj(E)[e] = e.s /\ Pred(E)[e] = e.p /\ Obj(E)[e] = e.o
  BY EdgeFacts
<1>2. /\ IsColumn(R0.o, E, Spo(E), Obj(E), Subj(E), R0.maxSO)
      /\ IsColumn(R0.p, E, Osp(E), Pred(E), Obj(E), R0.maxSO)
      /\ IsColumn(R0.s, E, Pos(E), Subj(E), Pred(E), R0.maxP)
      /\ Turns(R0.o, R0.p, E, Spo(E), Osp(E), Obj(E))
      /\ Turns(R0.p, R0.s, E, Osp(E), Pos(E), Pred(E))
      /\ Turns(R0.s, R0.o, E, Pos(E), Spo(E), Subj(E))
  BY DEF IsRing
<1>3. \A B, T, int, v : Step(B, T, int, v) = <<Step(B, T, int, v)[1], Step(B, T, int, v)[2]>>
  BY DEF Step
<1> DEFINE int == <<I.l, I.r>>
<1>4. ASSUME Holds(I, A, E, Pos(E)), NEW v \in 1 .. R0.maxSO
      PROVE  LET J == Interval(Step(R0.s, R0.o, int, v))
             IN  J \in IntervalsOf(R0.n) /\ Holds(J, OfSubject(A, v), E, Spo(E))
  <2>1. {e \in A : Subj(E)[e] = v} = OfSubject(A, v)
    BY <1>1, <1>4 DEF Holds, Spans, OfSubject
  <2>2. Spans(Step(R0.s, R0.o, int, v)[1], Step(R0.s, R0.o, int, v)[2], OfSubject(A, v), E, Spo(E))
    <3>1. /\ IsColumn(R0.s, E, Pos(E), Subj(E), Pred(E), R0.maxP)
          /\ IsColumn(R0.o, E, Spo(E), Obj(E), Subj(E), R0.maxSO)
          /\ Turns(R0.s, R0.o, E, Pos(E), Spo(E), Subj(E))
      BY <1>2
    <3>2. Spans(I.l, I.r, A, E, Pos(E))
      BY <1>4 DEF Holds
    <3>3. IsFiniteSet(E) /\ \A e \in E : Subj(E)[e] = Subj(E)[e]
      BY <1>1
    <3>4. Spans(Step(R0.s, R0.o, int, v)[1], Step(R0.s, R0.o, int, v)[2], {e \in A : Subj(E)[e] = v}, E, Spo(E))
      BY <1>4, <3>1, <3>2, <3>3, StepSpans
    <3>5. QED BY <2>1, <3>4
  <2>3. QED BY <1>3, <2>2, HoldsTyped
<1>5. ASSUME Holds(I, A, E, Spo(E)), NEW v \in 1 .. R0.maxSO
      PROVE  LET J == Interval(Step(R0.o, R0.p, int, v))
             IN  J \in IntervalsOf(R0.n) /\ Holds(J, OfObject(A, v), E, Osp(E))
  <2>1. {e \in A : Obj(E)[e] = v} = OfObject(A, v)
    BY <1>1, <1>5 DEF Holds, Spans, OfObject
  <2>2. Spans(Step(R0.o, R0.p, int, v)[1], Step(R0.o, R0.p, int, v)[2], OfObject(A, v), E, Osp(E))
    BY <1>1, <1>2, <1>5, <2>1, StepSpans DEF Holds
  <2>3. QED BY <1>3, <2>2, HoldsTyped
<1>6. ASSUME Holds(I, A, E, Osp(E)), NEW v \in 1 .. R0.maxP
      PROVE  LET J == Interval(Step(R0.p, R0.s, int, v))
             IN  J \in IntervalsOf(R0.n) /\ Holds(J, OfLabel(A, v), E, Pos(E))
  <2>1. {e \in A : Pred(E)[e] = v} = OfLabel(A, v)
    BY <1>1, <1>6 DEF Holds, Spans, OfLabel
  <2>2. Spans(Step(R0.p, R0.s, int, v)[1], Step(R0.p, R0.s, int, v)[2], OfLabel(A, v), E, Pos(E))
    <3>1. /\ IsColumn(R0.p, E, Osp(E), Pred(E), Obj(E), R0.maxSO)
          /\ IsColumn(R0.s, E, Pos(E), Subj(E), Pred(E), R0.maxP)
          /\ Turns(R0.p, R0.s, E, Osp(E), Pos(E), Pred(E))
      BY <1>2
    <3>2. Spans(I.l, I.r, A, E, Osp(E))
      BY <1>6 DEF Holds
    <3>3. IsFiniteSet(E) /\ \A e \in E : Pred(E)[e] = Pred(E)[e]
      BY <1>1
    <3>4. Spans(Step(R0.p, R0.s, int, v)[1], Step(R0.p, R0.s, int, v)[2], {e \in A : Pred(E)[e] = v}, E, Pos(E))
      BY <3>1, <3>2, <3>3, StepSpans
    <3>5. QED BY <2>1, <3>4
  <2>3. QED BY <1>3, <2>2, HoldsTyped
<1>7. QED BY <1>4, <1>5, <1>6

\* From the interval in which the object (of the label) or the subject (of the object)
\* was selected, a down holds the edges of what was selected.
LEMMA KeptDowns ==
  ASSUME NEW E, IsGraph(E), NEW R0, IsRing(R0, E), NEW I, NEW A, A # {}, NEW c \in 1 .. R0.maxSO
  PROVE  /\ \A w \in 1 .. R0.maxP :
              /\ A = OfLabel(E, w) /\ Holds(I, A, E, Pos(E))
              /\ I.val = c /\ I.rank = BlockRank(R0.p, c, w)
              => LET J == DownKept(R0.p, I, w, c)
                 IN  J \in IntervalsOf(R0.n) /\ Holds(J, OfObject(A, c), E, Pos(E))
         /\ \A w \in 1 .. R0.maxSO :
              /\ A = OfObject(E, w) /\ Holds(I, A, E, Osp(E))
              /\ I.val = c /\ I.rank = BlockRank(R0.o, c, w)
              => LET J == DownKept(R0.o, I, w, c)
                 IN  J \in IntervalsOf(R0.n) /\ Holds(J, OfSubject(A, c), E, Osp(E))
<1>1. /\ IsFiniteSet(E) /\ Cardinality(E) = R0.n
      /\ IsNumbering(E, Pos(E)) /\ IsNumbering(E, Osp(E))
      /\ \A e \in E : Subj(E)[e] = e.s /\ Pred(E)[e] = e.p /\ Obj(E)[e] = e.o
  BY EdgeFacts
<1>2. /\ IsColumn(R0.o, E, Spo(E), Obj(E), Subj(E), R0.maxSO)
      /\ IsColumn(R0.p, E, Osp(E), Pred(E), Obj(E), R0.maxSO)
      /\ IsColumn(R0.s, E, Pos(E), Subj(E), Pred(E), R0.maxP)
      /\ Turns(R0.o, R0.p, E, Spo(E), Osp(E), Obj(E))
      /\ Turns(R0.p, R0.s, E, Osp(E), Pos(E), Pred(E))
  BY DEF IsRing
<1>3. ASSUME NEW w \in 1 .. R0.maxP, A = OfLabel(E, w), Holds(I, A, E, Pos(E)),
             I.val = c, I.rank = BlockRank(R0.p, c, w), NEW J, J = DownKept(R0.p, I, w, c)
      PROVE  J \in IntervalsOf(R0.n) /\ Holds(J, OfObject(A, c), E, Pos(E))
  <2>1. Spans(Block(R0.s, w)[1], Block(R0.s, w)[2], {e \in E : Pred(E)[e] = w}, E, Pos(E))
    BY <1>1, <1>2, BlockSpans
  <2>2. {e \in E : Pred(E)[e] = w} = A
    BY <1>1, <1>3 DEF OfLabel
  <2>3. I.l = R0.s.C[w]
    <3>1. I.l = Block(R0.s, w)[1]
      <4>1. Spans(I.l, I.r, A, E, Pos(E)) /\ Spans(Block(R0.s, w)[1], Block(R0.s, w)[2], A, E, Pos(E))
        BY <1>3, <2>1, <2>2 DEF Holds
      <4>2. IsFiniteSet(E) /\ IsNumbering(E, Pos(E))
        BY <1>1
      <4>3. QED BY <4>1, <4>2, SpansUnique
    <3>2. QED BY <3>1 DEF Block
  <2>4. IsInterval(J) /\ Spans(J.l, J.r, {e \in E : Obj(E)[e] = c /\ Pred(E)[e] = w}, E, Pos(E))
    <3>1. \A e \in E : Pred(E)[e] = Pred(E)[e]
      OBVIOUS
    <3>2. QED BY <1>1, <1>2, <1>3, <2>3, <3>1, DownKeptSpans
  <2>5. {e \in E : Obj(E)[e] = c /\ Pred(E)[e] = w} = OfObject(A, c)
    BY <1>1, <1>3 DEF OfLabel, OfObject
  <2>6. J.l \in 1 .. R0.n + 1 /\ J.r \in 0 .. R0.n
    BY <1>1, <2>4 DEF Spans
  <2>7. J \in IntervalsOf(R0.n)
    BY <2>4, <2>6 DEF IsInterval, IntervalsOf
  <2>8. QED BY <2>4, <2>5, <2>7 DEF Holds
<1>4. ASSUME NEW w \in 1 .. R0.maxSO, A = OfObject(E, w), Holds(I, A, E, Osp(E)),
             I.val = c, I.rank = BlockRank(R0.o, c, w), NEW J, J = DownKept(R0.o, I, w, c)
      PROVE  J \in IntervalsOf(R0.n) /\ Holds(J, OfSubject(A, c), E, Osp(E))
  <2>1. Spans(Block(R0.p, w)[1], Block(R0.p, w)[2], {e \in E : Obj(E)[e] = w}, E, Osp(E))
    BY <1>1, <1>2, BlockSpans
  <2>2. {e \in E : Obj(E)[e] = w} = A
    BY <1>1, <1>4 DEF OfObject
  <2>3. I.l = R0.p.C[w]
    <3>1. I.l = Block(R0.p, w)[1]
      <4>1. Spans(I.l, I.r, A, E, Osp(E)) /\ Spans(Block(R0.p, w)[1], Block(R0.p, w)[2], A, E, Osp(E))
        BY <1>4, <2>1, <2>2 DEF Holds
      <4>2. IsFiniteSet(E) /\ IsNumbering(E, Osp(E))
        BY <1>1
      <4>3. QED BY <4>1, <4>2, SpansUnique
    <3>2. QED BY <3>1 DEF Block
  <2>4. IsInterval(J) /\ Spans(J.l, J.r, {e \in E : Subj(E)[e] = c /\ Obj(E)[e] = w}, E, Osp(E))
    <3>1. \A e \in E : Obj(E)[e] = Obj(E)[e]
      OBVIOUS
    <3>2. /\ IsColumn(R0.o, E, Spo(E), Obj(E), Subj(E), R0.maxSO)
          /\ IsColumn(R0.p, E, Osp(E), Pred(E), Obj(E), R0.maxSO)
          /\ Turns(R0.o, R0.p, E, Spo(E), Osp(E), Obj(E)) /\ IsFiniteSet(E)
      BY <1>1, <1>2
    <3>3. I.val = c /\ I.rank = BlockRank(R0.o, c, w) /\ J = DownKept(R0.o, I, w, c)
      BY <1>4
    <3>4. QED BY <2>3, <3>1, <3>2, <3>3, DownKeptSpans
  <2>5. {e \in E : Subj(E)[e] = c /\ Obj(E)[e] = w} = OfSubject(A, c)
    BY <1>1, <1>4 DEF OfObject, OfSubject
  <2>6. J.l \in 1 .. R0.n + 1 /\ J.r \in 0 .. R0.n
    BY <1>1, <2>4 DEF Spans
  <2>7. J \in IntervalsOf(R0.n)
    BY <2>4, <2>6 DEF IsInterval, IntervalsOf
  <2>8. QED BY <2>4, <2>5, <2>7 DEF Holds
<1>5. QED BY <1>3, <1>4

-----------------------------------------------------------------------------
(***************************************************************************)
(* What the iterator answers.                                              *)
(***************************************************************************)
Answers(x, c, a) ==
  /\ a.v = LeastFrom(CurrentVals(x), c)
  /\ a.ints \in [0 .. 2 -> IntervalsOf(R.n)]
  /\ \A d \in 0 .. 2 : a.ints[d].l = m_intervals[d].l /\ a.ints[d].r = m_intervals[d].r
  /\ a.v # 0 => KeptIn(a.ints, x, a.v)

\* The values that the edges of the level give to a term, and the alphabets they are from.
LEMMA ValsAre ==
  ASSUME StateTypes
  PROVE  /\ Current \in SUBSET edges
         /\ CurrentVals("s") = Subjects(Current) /\ CurrentVals("o") = Objects(Current)
         /\ CurrentVals("p") = Ids(edges, Current)
         /\ \A x \in Terms : /\ CurrentVals(x) \in SUBSET (Nat \ {0})
                             /\ CurrentVals(x) \in SUBSET (1 .. IF x = "p" THEN R.n ELSE R.maxSO)
                             /\ CurrentVals(x) \in SUBSET (0 .. R.n + R.maxSO)
<1>1. Current \in SUBSET edges
  BY DEF Current, Fits
<1>2. /\ CurrentVals("s") = Subjects(Current) /\ CurrentVals("o") = Objects(Current)
      /\ CurrentVals("p") = Ids(edges, Current)
  BY DEF CurrentVals, ValOf, Ids, Subjects, Objects
<1>3. R.n \in Nat /\ R.maxSO \in Nat
  BY RingHere
<1>4. \A e \in edges : e.s \in 1 .. R.maxSO /\ e.o \in 1 .. R.maxSO /\ Pos(edges)[e] \in 1 .. R.n
  BY RingHere, EdgeFacts
<1>5. ASSUME NEW x \in Terms, NEW v \in CurrentVals(x)
      PROVE  v \in 1 .. (IF x = "p" THEN R.n ELSE R.maxSO)
  <2>1. PICK e \in Current : v = ValOf(edges, e, x)
    BY DEF CurrentVals
  <2>2. QED BY <1>1, <1>4, <2>1 DEF ValOf, Terms
<1>6. QED BY <1>1, <1>2, <1>3, <1>5

\* A search that keeps nothing has only to answer right.
LEMMA JustAnswers ==
  ASSUME StateTypes, NEW x, NEW c, NEW v, v = LeastFrom(CurrentVals(x), c), ~KeepsO(x), ~KeepsS(x)
  PROVE  Answers(x, c, Just(v))
BY DEF Answers, Just, StateTypes, KeptIn

\* The least of one value.
LEMMA OneValue ==
  ASSUME NEW v \in Nat \ {0}, NEW c, IsBound(c)
  PROVE  (IF v >= c THEN v ELSE 0) = LeastFrom({v}, c)
<1>1. {v} \in SUBSET (Nat \ {0}) /\ c \in Int
  BY DEF IsBound, NoBound
<1>2. CASE v >= c
  BY <1>1, <1>2, LeastFromIs
<1>3. CASE ~(v >= c)
  BY <1>1, <1>3, LeastFromNone
<1>4. QED BY <1>2, <1>3

\* What the levels hold at each level.
LEMMA LevelHolds ==
  ASSUME StateTypes, Bindings, Intervals
  PROVE  /\ m_level = 0 => /\ Current = {e \in edges : pat.label \in {0, e.p}}
                           /\ Holds(m_intervals[0], Current, edges, Pos(edges))
         /\ m_level = 1 =>
              LET v == m_consts[0]
                  A == {e \in edges : pat.label \in {0, e.p}}
              IN  /\ m_state[0] = "s" =>
                       /\ Current = {e \in A : e.s = v}
                       /\ Holds(m_intervals[0], A, edges, Pos(edges))
                       /\ Holds(m_intervals[1], Current, edges, Spo(edges))
                  /\ m_state[0] = "o" =>
                       /\ Current = {e \in A : e.o = v}
                       /\ Holds(m_intervals[1], Current, edges, IF pat.label = 0 THEN Osp(edges) ELSE Pos(edges))
                  /\ m_state[0] = "p" => Current = {e \in A : Pos(edges)[e] = v}
         /\ m_level >= 2 =>
              /\ Current = {e \in edges : /\ pat.label \in {0, e.p}
                                          /\ ValOf(edges, e, m_state[0]) = m_consts[0]
                                          /\ ValOf(edges, e, m_state[1]) = m_consts[1]}
              /\ m_state[0] # "p" /\ m_state[1] # "p" =>
                   Holds(m_intervals[2], Current, edges,
                         IF pat.label # 0 /\ m_state[1] = "s" THEN Spo(edges) ELSE Osp(edges))
<1> DEFINE F(d) == Fits(edges, pat, m_state, m_consts, d)
<1>1. m_level \in 0 .. 3 /\ pat.s \in Nat /\ pat.o \in Nat
  BY PathIs, RingHere
<1>2. /\ F(0) = {e \in edges : pat.label \in {0, e.p}}
      /\ F(1) = {e \in edges : pat.label \in {0, e.p} /\ ValOf(edges, e, m_state[0]) = m_consts[0]}
      /\ F(2) = {e \in edges : /\ pat.label \in {0, e.p}
                               /\ ValOf(edges, e, m_state[0]) = m_consts[0]
                               /\ ValOf(edges, e, m_state[1]) = m_consts[1]}
  BY DEF Fits
<1>3. Current = F(IF m_level < 2 THEN m_level ELSE 2)
  BY DEF Current, Top
<1> HIDE DEF F
<1>4. ASSUME m_level = 0
      PROVE  /\ Current = {e \in edges : pat.label \in {0, e.p}}
             /\ Holds(m_intervals[0], Current, edges, Pos(edges))
  <2>1. pat.s = 0 /\ pat.o = 0
    BY <1>4, PathIs DEF Offset
  <2>2. Holds(m_intervals[0], F(0), edges, Pos(edges))
    BY <2>1 DEF Intervals, Interval0, F
  <2>3. QED BY <1>2, <1>3, <1>4, <2>2
<1>5. ASSUME m_level = 1
      PROVE LET v == m_consts[0]
                  A == {e \in edges : pat.label \in {0, e.p}}
              IN  /\ m_state[0] = "s" =>
                       /\ Current = {e \in A : e.s = v}
                       /\ Holds(m_intervals[0], A, edges, Pos(edges))
                       /\ Holds(m_intervals[1], Current, edges, Spo(edges))
                  /\ m_state[0] = "o" =>
                       /\ Current = {e \in A : e.o = v}
                       /\ Holds(m_intervals[1], Current, edges, IF pat.label = 0 THEN Osp(edges) ELSE Pos(edges))
                  /\ m_state[0] = "p" => Current = {e \in A : Pos(edges)[e] = v}
  <2>1. Current = F(1)
    BY <1>3, <1>5
  <2>2. /\ m_state[0] = "s" => Holds(m_intervals[1], F(1), edges, Spo(edges))
        /\ m_state[0] = "o" => Holds(m_intervals[1], F(1), edges, IF pat.label = 0 THEN Osp(edges) ELSE Pos(edges))
    BY <1>5 DEF Intervals, Interval1, F
  <2>3. m_state[0] = "s" => Holds(m_intervals[0], F(0), edges, Pos(edges))
    <3>1. pat.s = 0 /\ pat.o # 0 => m_state[0] = "o"
      BY DEF Bindings, Offset
    <3>2. m_state[0] = "s" => ~(pat.s = 0 /\ pat.o # 0)
      BY <3>1
    <3>3. QED BY <3>2 DEF Intervals, Interval0, F
  <2>4. \A e \in edges : ValOf(edges, e, "s") = e.s /\ ValOf(edges, e, "o") = e.o /\ ValOf(edges, e, "p") = Pos(edges)[e]
    BY DEF ValOf
  <2>5. m_state[0] = "s" => F(1) = {e \in F(0) : e.s = m_consts[0]}
    BY <1>2, <2>4
  <2>6. m_state[0] = "o" => F(1) = {e \in F(0) : e.o = m_consts[0]}
    BY <1>2, <2>4
  <2>7. m_state[0] = "p" => F(1) = {e \in F(0) : Pos(edges)[e] = m_consts[0]}
    BY <1>2, <2>4
  <2>8. F(0) = {e \in edges : pat.label \in {0, e.p}}
    BY <1>2
  <2>9. QED BY <2>1, <2>2, <2>3, <2>5, <2>6, <2>7, <2>8
<1>6. ASSUME m_level >= 2
      PROVE  /\ Current = F(2)
             /\ m_state[0] # "p" /\ m_state[1] # "p" =>
                  Holds(m_intervals[2], Current, edges,
                        IF pat.label # 0 /\ m_state[1] = "s" THEN Spo(edges) ELSE Osp(edges))
  <2>1. Current = F(2)
    BY <1>1, <1>3, <1>6
  <2>2. QED BY <1>6, <2>1 DEF Intervals, Interval2, F
<1>7. QED BY <1>2, <1>4, <1>5, <1>6

\* A search keeps the interval of its level.
LEMMA SearchAnswers ==
  ASSUME StateTypes, NEW x, NEW c, NEW d \in 0 .. 1, NEW found,
         found.v = LeastFrom(CurrentVals(x), c),
         found.v = 0 => found.int = m_intervals[d],
         found.v # 0 => /\ IsInterval(found.int) /\ found.int.l = m_intervals[d].l /\ found.int.r = m_intervals[d].r
                        /\ found.int.val = found.v
                        /\ KeepsO(x) => d = 0 /\ found.int.rank = BlockRank(R.p, found.v, pat.label)
                        /\ KeepsS(x) => d = 1 /\ found.int.rank = BlockRank(R.o, found.v, m_consts[0])
  PROVE  Answers(x, c, Search(d, found))
<1> DEFINE ints == [m_intervals EXCEPT ![d] = found.int]
<1>1. m_intervals \in [0 .. 2 -> IntervalsOf(R.n)] /\ d \in 0 .. 2
  BY DEF StateTypes
<1>2. found.int \in IntervalsOf(R.n)
  BY <1>1 DEF IsInterval, IntervalsOf
<1>3. /\ Search(d, found).v = found.v /\ Search(d, found).ints = ints
  BY DEF Search
<1>4. ints \in [0 .. 2 -> IntervalsOf(R.n)]
  BY <1>1, <1>2
<1>5. ints[d] = found.int /\ \A g \in 0 .. 2 : g # d => ints[g] = m_intervals[g]
  BY <1>1
<1>6. \A g \in 0 .. 2 : ints[g].l = m_intervals[g].l /\ ints[g].r = m_intervals[g].r
  BY <1>5
<1>7. found.v # 0 => KeptIn(ints, x, found.v)
  BY <1>5 DEF KeptIn
<1>8. QED BY <1>3, <1>4, <1>6, <1>7 DEF Answers

\* With a label, its edges are all of its block; without one, the interval of level 0 is open.
LEMMA Answer0 ==
  ASSUME StateTypes, Bindings, Intervals, Current # {}, m_level = 0,
         NEW x \in Terms, NEW c, IsBound(c)
  PROVE  Answers(x, c, Leap0(x, c))
<1> DEFINE E == edges
           I == m_intervals[0]
<1>1. IsGraph(E) /\ IsRing(R, E) /\ R.n \in Nat /\ R.n # 0 /\ pat.label \in Nat
  BY RingHere
<1>2. Current = {e \in E : pat.label \in {0, e.p}} /\ Holds(I, Current, E, Pos(E))
  BY LevelHolds
<1>3. /\ CurrentVals("s") = Subjects(Current) /\ CurrentVals("o") = Objects(Current)
      /\ CurrentVals("p") = Ids(E, Current)
  BY ValsAre
<1>4. /\ IsFiniteSet(E) /\ Cardinality(E) = R.n /\ IsNumbering(E, Pos(E)) /\ IsNumbering(E, Spo(E))
      /\ \A e \in E : /\ Pred(E)[e] = e.p /\ Obj(E)[e] = e.o
                      /\ e.s \in 1 .. R.maxSO /\ e.o \in 1 .. R.maxSO /\ e.p \in 1 .. R.maxP
  BY <1>1, EdgeFacts
<1>5. pat.label = 0 => Current = E /\ I.l = 1 /\ I.r = R.n
  <2>1. SUFFICES ASSUME pat.label = 0 PROVE Current = E /\ I.l = 1 /\ I.r = R.n
    OBVIOUS
  <2>2. Current = E
    BY <1>2, <2>1
  <2>3. Spans(1, R.n, E, E, Pos(E)) /\ Spans(I.l, I.r, E, E, Pos(E))
    BY <1>2, <1>4, <2>2, SpansAll DEF Holds
  <2>4. QED BY <1>4, <2>2, <2>3, SpansUnique
<1>6. ASSUME x = "s" PROVE Answers(x, c, Leap0(x, c))
  <2>1. NextIn(R.s, I, R.maxSO, c) = LeastFrom(CurrentVals("s"), c)
    <3>1. NextIn(R.s, I, R.maxSO, c) = LeastFrom(Subjects(Current), c)
      BY <1>1, <1>2, Searches
    <3>2. QED BY <1>3, <3>1
  <2>2. ~KeepsO("s") /\ ~KeepsS("s")
    BY DEF KeepsO, KeepsS
  <2>3. Leap0("s", c) = Just(NextIn(R.s, I, R.maxSO, c))
    BY DEF Leap0
  <2>4. QED BY <1>6, <2>1, <2>2, <2>3, JustAnswers
<1>7. ASSUME x = "p" PROVE Answers(x, c, Leap0(x, c))
  <2>1. ~KeepsO("p") /\ ~KeepsS("p")
    BY DEF KeepsO, KeepsS
  <2> DEFINE w == IF c <= I.l THEN I.l ELSE IF c > I.r THEN 0 ELSE c
  <2>2. w = LeastFrom(CurrentVals("p"), c)
    BY <1>1, <1>2, <1>3, InIntervalAnswers DEF Holds
  <2>3. Leap0("p", c) = Just(w)
    <3>1. CASE pat.label # 0
      BY <3>1 DEF Leap0, InInterval
    <3>2. CASE pat.label = 0
      <4>1. (IF c = NoBound THEN 1 ELSE IF c > R.n THEN 0 ELSE c) = w
        BY <1>1, <1>5, <3>2 DEF IsBound, NoBound
      <4>2. QED BY <3>2, <4>1 DEF Leap0
    <3>3. QED BY <3>1, <3>2
  <2> HIDE DEF w
  <2>4. QED BY <1>7, <2>1, <2>2, <2>3, JustAnswers
<1>8. ASSUME x = "o", pat.label = 0 PROVE Answers(x, c, Leap0(x, c))
  <2>1. ~KeepsO("o") /\ ~KeepsS("o")
    BY <1>8 DEF KeepsO, KeepsS
  <2>2. Holds(I, Current, E, Spo(E))
    <3>1. Spans(1, R.n, E, E, Spo(E))
      BY <1>4, SpansAll
    <3>2. QED BY <1>5, <1>8, <3>1 DEF Holds
  <2>3. NextIn(R.o, I, R.maxSO, c) = LeastFrom(CurrentVals("o"), c)
    <3>1. NextIn(R.o, I, R.maxSO, c) = LeastFrom(Objects(Current), c)
      BY <1>1, <2>2, Searches
    <3>2. QED BY <1>3, <3>1
  <2>4. Leap0("o", c) = Just(NextIn(R.o, I, R.maxSO, c))
    BY <1>8 DEF Leap0
  <2>5. QED BY <1>8, <2>1, <2>3, <2>4, JustAnswers
<1>9. ASSUME x = "o", pat.label # 0 PROVE Answers(x, c, Leap0(x, c))
  <2> DEFINE found == SelectIn(R.p, I, R.maxSO, pat.label, c)
  <2>1. ~KeepsS("o") /\ Leap0("o", c) = Search(0, found)
    BY <1>9 DEF KeepsS, Leap0
  <2>2. IsInterval(I)
    BY <1>1 DEF StateTypes, IntervalsOf, IsInterval
  <2>3. {Obj(E)[e] : e \in {f \in E : Pred(E)[f] = pat.label}} = CurrentVals("o")
    <3>1. {f \in E : Pred(E)[f] = pat.label} = Current
      BY <1>2, <1>4, <1>9
    <3>2. \A e \in Current : Obj(E)[e] = e.o
      BY <1>2, <1>4
    <3>3. QED BY <1>3, <3>1, <3>2 DEF Objects
  <2>4. IsColumn(R.p, E, Osp(E), Pred(E), Obj(E), R.maxSO)
    BY <1>1 DEF IsRing
  <2>5. /\ found.v = LeastFrom({Obj(E)[e] : e \in {f \in E : Pred(E)[f] = pat.label}}, c)
        /\ found.v = 0 => found.int = I
        /\ found.v # 0 => /\ IsInterval(found.int) /\ found.int.l = I.l /\ found.int.r = I.r
                          /\ found.int.val = found.v /\ found.int.rank = BlockRank(R.p, found.v, pat.label)
    BY <1>4, <2>2, <2>4, SelectInAnswers, SMTT(60)
  <2>6. found.v = LeastFrom(CurrentVals("o"), c)
    BY <2>3, <2>5
  <2> HIDE DEF found
  <2>7. QED BY <1>9, <2>1, <2>5, <2>6, SearchAnswers
<1>10. QED BY <1>6, <1>7, <1>8, <1>9 DEF Terms

\* The ends of the one edge that is left, from its id.
LEMMA EndsAnswer ==
  ASSUME StateTypes, NEW e \in Current, \A f \in Current : f = e,
         NEW x \in {"s", "o"}, NEW c, IsBound(c), ~KeepsO(x), ~KeepsS(x)
  PROVE  Answers(x, c, AtLeast(EndOf(x, Pos(edges)[e]), c))
<1> DEFINE v == EndOf(x, Pos(edges)[e])
<1>1. IsGraph(edges) /\ IsRing(R, edges) /\ Current \in SUBSET edges
  BY RingHere, ValsAre
<1>2. v = ValOf(edges, e, x)
  BY <1>1, Ends DEF EndOf, ValOf
<1>3. CurrentVals(x) = {v}
  BY <1>2 DEF CurrentVals
<1>4. v \in Nat \ {0}
  BY <1>3, ValsAre DEF Terms
<1> HIDE DEF v
<1>5. (IF v >= c THEN v ELSE 0) = LeastFrom(CurrentVals(x), c)
  BY <1>3, <1>4, OneValue
<1>6. AtLeast(v, c) = Just(IF v >= c THEN v ELSE 0)
  BY DEF AtLeast
<1>7. Answers(x, c, AtLeast(v, c))
  BY <1>5, <1>6, JustAnswers
<1>8. QED BY <1>7 DEF v

\* Below the subject, the edge, or the object.
LEMMA Answer1 ==
  ASSUME StateTypes, Bindings, Intervals, Current # {}, m_level = 1,
         NEW x \in Free, NEW c, IsBound(c)
  PROVE  Answers(x, c, Leap1(x, c))
<1> DEFINE E == edges
           A == {e \in E : pat.label \in {0, e.p}}
           v == m_consts[0]
           I == m_intervals[1]
<1>1. IsGraph(E) /\ IsRing(R, E) /\ R.n \in Nat /\ R.n # 0 /\ pat.label \in Nat
  BY RingHere
<1>2. m_state[0] \in Terms /\ x \in Terms /\ x # m_state[0]
  BY FreeIs
<1>3. /\ CurrentVals("s") = Subjects(Current) /\ CurrentVals("o") = Objects(Current)
      /\ CurrentVals("p") = Ids(E, Current) /\ Current \in SUBSET E
  BY ValsAre
<1>4. /\ IsFiniteSet(E) /\ Cardinality(E) = R.n /\ IsNumbering(E, Pos(E))
      /\ \A e \in E : Subj(E)[e] = e.s /\ Obj(E)[e] = e.o
  BY <1>1, EdgeFacts
<1>5. ~KeepsO(x)
  BY DEF KeepsO
<1>6. c \in Int /\ (c = NoBound \/ c \in Nat \ {0})
  BY DEF IsBound, NoBound
<1>7. ASSUME m_state[0] = "s" PROVE Answers(x, c, Leap1(x, c))
  <2>1. /\ Current = {e \in A : e.s = v} /\ Holds(m_intervals[0], A, E, Pos(E))
        /\ Holds(I, Current, E, Spo(E))
    BY <1>7, LevelHolds
  <2>2. ~KeepsS(x)
    BY <1>7 DEF KeepsS
  <2>3. CASE x = "p"
    <3>1. NextEofS(R, m_intervals[0], v, c) = LeastFrom(Ids(E, Current), c)
      <4>1. Spans(m_intervals[0].l, m_intervals[0].r, A, E, Pos(E))
        BY <2>1 DEF Holds
      <4>2. Current = OfSubject(A, v)
        BY <2>1 DEF OfSubject
      <4> HIDE DEF A
      <4>3. QED BY <1>1, <4>1, <4>2, NextEofSAnswers
    <3>2. NextEofS(R, m_intervals[0], v, c) = LeastFrom(CurrentVals("p"), c)
      BY <1>3, <2>1, <3>1
    <3>3. Leap1(x, c) = Just(NextEofS(R, m_intervals[0], v, c))
      BY <1>7, <2>3 DEF Leap1
    <3>4. QED BY <1>5, <2>2, <2>3, <3>2, <3>3, JustAnswers
  <2>4. CASE x = "o"
    <3>1. NextIn(R.o, I, R.maxSO, c) = LeastFrom(CurrentVals("o"), c)
      <4>1. NextIn(R.o, I, R.maxSO, c) = LeastFrom(Objects(Current), c)
        BY <1>1, <2>1, Searches
      <4>2. QED BY <1>3, <4>1
    <3>2. Leap1(x, c) = Just(NextIn(R.o, I, R.maxSO, c))
      BY <1>7, <2>4 DEF Leap1
    <3>3. QED BY <1>5, <2>2, <2>4, <3>1, <3>2, JustAnswers
  <2>5. QED BY <1>2, <1>7, <2>3, <2>4 DEF Terms
<1>8. ASSUME m_state[0] = "p" PROVE Answers(x, c, Leap1(x, c))
  <2>1. Current = {e \in A : Pos(E)[e] = v}
    BY <1>8, LevelHolds
  <2>2. PICK e \in Current : TRUE
    OBVIOUS
  <2>3. \A f \in Current : f = e
    BY <1>4, <2>1, <2>2 DEF IsNumbering
  <2>4. x \in {"s", "o"} /\ ~KeepsS(x) /\ v = Pos(E)[e]
    BY <1>2, <1>8, <2>1, <2>2 DEF KeepsS, Terms
  <2>5. Leap1(x, c) = AtLeast(EndOf(x, v), c)
    BY <1>8 DEF Leap1
  <2>6. QED BY <1>5, <2>2, <2>3, <2>4, <2>5, EndsAnswer
<1>9. ASSUME m_state[0] = "o" PROVE Answers(x, c, Leap1(x, c))
  <2>1. /\ Current = {e \in A : e.o = v}
        /\ Holds(I, Current, E, IF pat.label = 0 THEN Osp(E) ELSE Pos(E))
    BY <1>9, LevelHolds
  <2>2. CASE x = "s" /\ pat.label # 0
    <3>1. NextIn(R.s, I, R.maxSO, c) = LeastFrom(CurrentVals("s"), c)
      <4>1. Holds(I, Current, E, Pos(E))
        BY <2>1, <2>2
      <4>2. NextIn(R.s, I, R.maxSO, c) = LeastFrom(Subjects(Current), c)
        BY <1>1, <4>1, Searches
      <4>3. QED BY <1>3, <4>2
    <3>2. Leap1(x, c) = Just(NextIn(R.s, I, R.maxSO, c)) /\ ~KeepsS(x)
      BY <1>9, <2>2 DEF Leap1, KeepsS
    <3>3. QED BY <1>5, <2>2, <3>1, <3>2, JustAnswers
  <2>3. CASE x = "s" /\ pat.label = 0
    <3> DEFINE found == SelectIn(R.o, I, R.maxSO, v, c)
    <3>1. Leap1(x, c) = Search(1, found)
      BY <1>9, <2>3 DEF Leap1
    <3>2. IsInterval(I)
      BY <1>1 DEF StateTypes, IntervalsOf, IsInterval
    <3>3. {Subj(E)[e] : e \in {f \in E : Obj(E)[f] = v}} = CurrentVals("s")
      <4>1. {f \in E : Obj(E)[f] = v} = Current
        BY <1>4, <2>1, <2>3
      <4>2. \A e \in Current : Subj(E)[e] = e.s
        BY <1>3, <1>4
      <4>3. QED BY <1>3, <4>1, <4>2 DEF Subjects
    <3>4. IsColumn(R.o, E, Spo(E), Obj(E), Subj(E), R.maxSO)
      BY <1>1 DEF IsRing
    <3>5. /\ found.v = LeastFrom({Subj(E)[e] : e \in {f \in E : Obj(E)[f] = v}}, c)
          /\ found.v = 0 => found.int = I
          /\ found.v # 0 => /\ IsInterval(found.int) /\ found.int.l = I.l /\ found.int.r = I.r
                            /\ found.int.val = found.v /\ found.int.rank = BlockRank(R.o, found.v, v)
      BY <1>4, <3>2, <3>4, SelectInAnswers
    <3>6. found.v = LeastFrom(CurrentVals("s"), c)
      BY <3>3, <3>5
    <3> HIDE DEF found
    <3>7. QED BY <1>5, <2>3, <3>1, <3>5, <3>6, SearchAnswers
  <2>4. CASE x = "p" /\ pat.label # 0
    <3> DEFINE w == IF c <= I.l THEN I.l ELSE IF c > I.r THEN 0 ELSE c
    <3>1. Spans(I.l, I.r, Current, E, Pos(E))
      BY <2>1, <2>4 DEF Holds
    <3>2. w = LeastFrom(CurrentVals("p"), c)
      BY <1>1, <1>3, <3>1, InIntervalAnswers
    <3>3. Leap1(x, c) = Just(w) /\ ~KeepsS(x)
      BY <1>9, <2>4 DEF Leap1, InInterval, KeepsS
    <3> HIDE DEF w
    <3>4. QED BY <1>5, <2>4, <3>2, <3>3, JustAnswers
  <2>5. CASE x = "p" /\ pat.label = 0
    <3> DEFINE w == IF c = NoBound THEN MinEofOS(R, I) ELSE NextEofO(R, I, c)
    <3>1. Spans(I.l, I.r, Current, E, Osp(E))
      BY <2>1, <2>5 DEF Holds
    <3>2. w = LeastFrom(CurrentVals("p"), c)
      <4>1. CASE c = NoBound
        BY <1>1, <1>3, <3>1, <4>1, MinEofOSAnswers
      <4>2. CASE c # NoBound
        <5>1. NextEofO(R, I, c) = LeastFrom(Ids(E, Current), c)
          BY <1>1, <1>6, <3>1, <4>2, NextEofOAnswers
        <5>2. QED BY <1>3, <4>2, <5>1
      <4>3. QED BY <4>1, <4>2
    <3>3. Leap1(x, c) = Just(w) /\ ~KeepsS(x)
      BY <1>9, <2>5 DEF Leap1, EdgeOfO, KeepsS
    <3> HIDE DEF w
    <3>4. QED BY <1>5, <2>5, <3>2, <3>3, JustAnswers
  <2>6. QED BY <1>2, <1>9, <2>2, <2>3, <2>4, <2>5 DEF Terms
<1>10. QED BY <1>2, <1>7, <1>8, <1>9 DEF Terms

\* The order of the interval of the last level, and what it holds once both ends are bound.
LastOrder == IF pat.label # 0 /\ m_state[1] = "s" THEN Spo(edges) ELSE Osp(edges)

Between(E, label, s, o) == {e \in E : label \in {0, e.p} /\ e.s = s /\ e.o = o}

\* When both ends are bound, the last interval holds the parallel edges in the order of ids.
LEMMA LastLevel ==
  ASSUME StateTypes, Bindings, Intervals, m_level >= 2, m_state[0] # "p", m_state[1] # "p"
  PROVE  /\ IsNumbering(edges, LastOrder)
         /\ Holds(m_intervals[2], Current, edges, LastOrder)
         /\ \A e \in Current : LastEdge(LastOrder[e]) = Pos(edges)[e]
         /\ \A e, f \in Current : LastOrder[e] < LastOrder[f] <=> Pos(edges)[e] < Pos(edges)[f]
         /\ \A e \in Current : e \in edges /\ pat.label \in {0, e.p}
         /\ \E s, o : Current = Between(edges, pat.label, s, o)
<1> DEFINE E == edges
<1>1. IsGraph(E) /\ IsRing(R, E) /\ pat.label \in Nat
  BY RingHere
<1>2. /\ Current = {e \in E : /\ pat.label \in {0, e.p}
                              /\ ValOf(E, e, m_state[0]) = m_consts[0]
                              /\ ValOf(E, e, m_state[1]) = m_consts[1]}
      /\ Holds(m_intervals[2], Current, E, LastOrder)
  BY LevelHolds DEF LastOrder
<1>3. \/ m_state[0] = "s" /\ m_state[1] = "o"
      \/ m_state[0] = "o" /\ m_state[1] = "s"
  <2>1. /\ m_level = 2 => m_state[0] \in Terms /\ m_state[1] \in Terms /\ m_state[0] # m_state[1]
        /\ m_level = 3 => m_state[0] \in Terms /\ m_state[1] \in Terms /\ m_state[0] # m_state[1]
    BY StateIs
  <2>2. m_level = 2 \/ m_level = 3
    BY PathIs
  <2>3. QED BY <2>1, <2>2 DEF Terms
<1> DEFINE s0 == IF m_state[0] = "s" THEN m_consts[0] ELSE m_consts[1]
           o0 == IF m_state[0] = "s" THEN m_consts[1] ELSE m_consts[0]
<1>4. Current = {e \in E : pat.label \in {0, e.p} /\ e.s = s0 /\ e.o = o0}
  BY <1>2, <1>3 DEF ValOf
<1>5. IsNumbering(E, LastOrder) /\ IsNumbering(E, Osp(E)) /\ IsNumbering(E, Spo(E))
  BY <1>1, EdgeFacts DEF LastOrder
<1>6. ASSUME NEW e \in Current PROVE LastEdge(LastOrder[e]) = Pos(E)[e]
  <2>1. e \in E /\ e.o = o0
    BY <1>4
  <2>2. /\ OSPtoPOS(R, Osp(E)[e]) = Pos(E)[e]
        /\ SPOtoPOS(R, Spo(E)[e], e.o) = Pos(E)[e]
    BY <1>1, <2>1, Ends
  <2>3. CASE pat.label # 0 /\ m_state[1] = "s"
    <3>1. m_consts[0] = e.o
      BY <1>3, <2>1, <2>3
    <3>2. QED BY <2>2, <2>3, <3>1 DEF LastEdge, LastOrder
  <2>4. CASE ~(pat.label # 0 /\ m_state[1] = "s")
    BY <2>2, <2>4 DEF LastEdge, LastOrder
  <2>5. QED BY <2>3, <2>4
<1>7. ASSUME NEW e \in Current, NEW f \in Current
      PROVE  LastOrder[e] < LastOrder[f] <=> Pos(E)[e] < Pos(E)[f]
  <2>1. e \in E /\ f \in E /\ e.s = f.s /\ e.o = f.o /\ (pat.label # 0 => e.p = f.p)
    BY <1>4
  <2>2. /\ Spo(E)[e] < Spo(E)[f] <=> Lex(e.s, f.s, e.p, f.p, e.o, f.o, e.k, f.k)
        /\ Osp(E)[e] < Osp(E)[f] <=> Lex(e.o, f.o, e.s, f.s, e.p, f.p, e.k, f.k)
        /\ Pos(E)[e] < Pos(E)[f] <=> Lex(e.p, f.p, e.o, f.o, e.s, f.s, e.k, f.k)
    BY <1>1, <2>1, EdgeOrders
  <2>3. e.s \in Nat /\ e.o \in Nat /\ e.p \in Nat /\ f.p \in Nat
    BY <1>1, <2>1 DEF IsGraph
  <2>4. CASE pat.label # 0 /\ m_state[1] = "s"
    BY <2>1, <2>2, <2>3, <2>4 DEF Lex, LastOrder
  <2>5. CASE ~(pat.label # 0 /\ m_state[1] = "s")
    BY <2>1, <2>2, <2>3, <2>5 DEF Lex, LastOrder
  <2>6. QED BY <2>4, <2>5
<1>8. \A e \in Current : e \in E /\ pat.label \in {0, e.p}
  BY <1>4
<1> HIDE DEF s0, o0
<1>9. \E s, o : Current = Between(edges, pat.label, s, o)
  BY <1>4 DEF Between
<1>10. QED BY <1>2, <1>5, <1>6, <1>7, <1>8, <1>9

\* Of the edges of an interval whose ids have no gap, the next from c on is c, but at the ends.
LEMMA NoGapAnswers ==
  ASSUME NEW S \in SUBSET (Nat \ {0}), NEW l \in S, NEW r \in S, NEW c \in Int,
         \A i \in S : l <= i /\ i <= r, \A i \in Nat : l <= i /\ i <= r => i \in S
  PROVE  (IF r < c THEN 0 ELSE IF l >= c THEN l ELSE c) = LeastFrom(S, c)
<1>1. CASE r < c
  <2>1. \A i \in S : i < c
    BY <1>1
  <2>2. LeastFrom(S, c) = 0
    BY <2>1, LeastFromNone
  <2>3. QED BY <1>1, <2>2
<1>2. CASE ~(r < c) /\ l >= c
  <2>1. LeastFrom(S, c) = l
    BY <1>2, LeastFromIs
  <2>2. QED BY <1>2, <2>1
<1>3. CASE ~(r < c) /\ ~(l >= c)
  <2>1. c \in S
    BY <1>3
  <2>2. LeastFrom(S, c) = c
    BY <2>1, LeastFromIs
  <2>3. QED BY <1>3, <2>2
<1>4. QED BY <1>1, <1>2, <1>3

\* The last term: an end of the edge bound, or the edge between two ends.
LEMMA Answer2 ==
  ASSUME StateTypes, Bindings, Intervals, Current # {}, m_level = 2,
         NEW x \in Free, NEW c, IsBound(c)
  PROVE  Answers(x, c, Leap2(x, c))
<1> DEFINE E == edges
           I == m_intervals[2]
<1>1. IsGraph(E) /\ IsRing(R, E) /\ R.n \in Nat /\ R.n # 0 /\ pat.label \in Nat
  BY RingHere
<1>2. /\ m_state[0] \in Terms /\ m_state[1] \in Terms /\ m_state[0] # m_state[1]
      /\ x \in Terms /\ x # m_state[0] /\ x # m_state[1]
  BY FreeIs
<1>3. CurrentVals("p") = Ids(E, Current) /\ Current \in SUBSET E
  BY ValsAre
<1>4. IsFiniteSet(E) /\ IsNumbering(E, Pos(E))
  BY <1>1, EdgeFacts
<1>5. ~KeepsO(x) /\ ~KeepsS(x)
  BY DEF KeepsO, KeepsS
<1>6. c \in Int /\ (c = NoBound \/ c \in Nat \ {0})
  BY DEF IsBound, NoBound
<1>7. CASE x # "p"
  <2>1. \A e \in Current : Pos(E)[e] = EdgeBound
    BY <1>2, <1>7, LevelHolds DEF EdgeBound, ValOf, Terms
  <2>2. PICK e \in Current : TRUE
    OBVIOUS
  <2>3. \A f \in Current : f = e
    BY <1>3, <1>4, <2>1, <2>2 DEF IsNumbering
  <2>4. x \in {"s", "o"} /\ EdgeBound = Pos(E)[e]
    BY <1>2, <1>7, <2>1, <2>2 DEF Terms
  <2>5. Leap2(x, c) = AtLeast(EndOf(x, EdgeBound), c)
    BY <1>7 DEF Leap2
  <2>6. QED BY <1>5, <2>2, <2>3, <2>4, <2>5, EndsAnswer
<1>8. CASE x = "p"
  <2>1. m_state[0] # "p" /\ m_state[1] # "p"
    BY <1>2, <1>8
  <2>2. /\ IsNumbering(E, LastOrder) /\ Spans(I.l, I.r, Current, E, LastOrder)
        /\ \A e \in Current : LastEdge(LastOrder[e]) = Pos(E)[e]
        /\ \A e, f \in Current : LastOrder[e] < LastOrder[f] <=> Pos(E)[e] < Pos(E)[f]
        /\ \E s, o : Current = Between(E, pat.label, s, o)
    BY <2>1, LastLevel DEF Holds
  <2>3. I.l <= I.r /\ \A i \in I.l .. I.r : \E e \in Current : LastOrder[e] = i
    BY <1>4, <2>2, SpanSize
  <2>4. I.l \in I.l .. I.r /\ I.r \in I.l .. I.r
    BY <2>2, <2>3 DEF Spans
  <2>5. PICK e \in Current : LastOrder[e] = I.l
    BY <2>3, <2>4
  <2>6. PICK f \in Current : LastOrder[f] = I.r
    BY <2>3, <2>4
  <2>7. LastEdge(I.l) = Pos(E)[e] /\ LastEdge(I.r) = Pos(E)[f]
    BY <2>2, <2>5, <2>6
  <2> DEFINE w == IF c = NoBound THEN LastEdge(I.l)
                  ELSE IF pat.label = 0 THEN NextEofO(R, I, c)
                  ELSE IF LastEdge(I.r) < c THEN 0 ELSE IF LastEdge(I.l) >= c THEN LastEdge(I.l) ELSE c
  <2>8. Leap2(x, c) = Just(w)
    BY <1>8 DEF Leap2
  <2>9. w = LeastFrom(Ids(E, Current), c)
    <3>1. CASE c = NoBound
      <4>1. LeastFrom(Ids(E, Current), NoBound) = Pos(E)[e]
        BY <1>1, <2>2, <2>5, NextInSpan
      <4>2. QED BY <2>7, <3>1, <4>1
    <3>2. CASE c # NoBound /\ pat.label = 0
      <4>1. Spans(I.l, I.r, Current, E, Osp(E))
        BY <2>2, <3>2 DEF LastOrder
      <4>2. NextEofO(R, I, c) = LeastFrom(Ids(E, Current), c)
        BY <1>1, <1>6, <3>2, <4>1, NextEofOAnswers
      <4>3. QED BY <3>2, <4>2
    <3>3. CASE c # NoBound /\ pat.label # 0
      <4>1. PICK s, o : Current = Between(E, pat.label, s, o)
        BY <2>2
      <4>2. Current = Parallel(E, s, pat.label, o)
        BY <3>3, <4>1 DEF Between, Parallel
      <4>3. Ids(E, Current) \in SUBSET (Nat \ {0})
        BY <1>1, <1>3, IdsAre
      <4>4. \A i \in Nat : Pos(E)[e] <= i /\ i <= Pos(E)[f] => i \in Ids(E, Current)
        BY <1>1, <4>2, ParallelIds
      <4>5. \A i \in Ids(E, Current) : Pos(E)[e] <= i /\ i <= Pos(E)[f]
        <5>1. ASSUME NEW g \in Current PROVE Pos(E)[e] <= Pos(E)[g] /\ Pos(E)[g] <= Pos(E)[f]
          <6>1. LastOrder[e] <= LastOrder[g] /\ LastOrder[g] <= LastOrder[f]
            BY <1>3, <2>2, <2>5, <2>6 DEF Spans
          <6>2. \A h \in Current : LastOrder[h] \in Nat /\ Pos(E)[h] \in Nat
            BY <1>3, <1>4, <2>2 DEF IsNumbering
          <6>3. ~(LastOrder[g] < LastOrder[e]) /\ ~(LastOrder[f] < LastOrder[g])
            BY <6>1, <6>2
          <6>4. ~(Pos(E)[g] < Pos(E)[e]) /\ ~(Pos(E)[f] < Pos(E)[g])
            BY <2>2, <6>3
          <6>5. QED BY <6>2, <6>4
        <5>2. QED BY <5>1 DEF Ids
      <4>6. Pos(E)[e] \in Ids(E, Current) /\ Pos(E)[f] \in Ids(E, Current)
        BY DEF Ids
      <4>7. w = IF Pos(E)[f] < c THEN 0 ELSE IF Pos(E)[e] >= c THEN Pos(E)[e] ELSE c
        BY <2>7, <3>3
      <4> HIDE DEF w
      <4>8. QED BY <1>6, <4>3, <4>4, <4>5, <4>6, <4>7, NoGapAnswers
    <3>4. QED BY <3>1, <3>2, <3>3
  <2> HIDE DEF w
  <2>10. QED BY <1>3, <1>5, <1>8, <2>8, <2>9, JustAnswers
<1>9. QED BY <1>7, <1>8

\* A leap answers the least value the edges that match what is bound still give.
LEMMA AnswerIs ==
  ASSUME StateTypes, Bindings, Intervals, Current # {},
         NEW x \in Free, NEW c, IsBound(c)
  PROVE  Answers(x, c, Answer(x, c)) /\ m_level \in 0 .. 2
<1>1. m_level \in 0 .. 3 /\ m_level # 3 /\ x \in Terms
  BY PathIs, FreeIs
<1>2. CASE m_level = 0
  BY <1>1, <1>2, Answer0 DEF Answer
<1>3. CASE m_level = 1
  BY <1>3, Answer1 DEF Answer
<1>4. CASE m_level = 2
  BY <1>4, Answer2 DEF Answer
<1>5. QED BY <1>1, <1>2, <1>3, <1>4

-----------------------------------------------------------------------------
(***************************************************************************)
(* The constructor.                                                        *)
(***************************************************************************)
Labelled(E, l) == {e \in E : l \in {0, e.p}}
Hit(E, t) == {e \in E : t.s \in {0, e.s} /\ t.o \in {0, e.o} /\ t.label \in {0, e.p}}

Constants(t, state, consts) ==
  /\ Offset(t) = 2 => state[0] = "s" /\ consts[0] = t.s /\ state[1] = "o" /\ consts[1] = t.o
  /\ Offset(t) = 1 => IF t.s # 0 THEN state[0] = "s" /\ consts[0] = t.s
                      ELSE state[0] = "o" /\ consts[0] = t.o

\* What the constructor leaves.
Typed(R0, st) ==
  /\ st.empty \in BOOLEAN /\ st.level \in 0 .. 2
  /\ st.state \in [0 .. 1 -> Terms \union {"none"}]
  /\ st.consts \in [0 .. 2 -> 0 .. R0.n + R0.maxSO]
  /\ st.ints \in [0 .. 2 -> IntervalsOf(R0.n)]

Started(E, R0, t, st) ==
  /\ Typed(R0, st)
  /\ st.empty <=> Hit(E, t) = {}
  /\ ~st.empty =>
       /\ st.level = Offset(t) /\ Constants(t, st.state, st.consts)
       /\ Fits(E, t, st.state, st.consts, st.level) # {}
       /\ Interval0(E, t, st.state, st.consts, st.ints)
       /\ st.level >= 1 => Interval1(E, t, st.state, st.consts, st.ints)
       /\ st.level >= 2 => Interval2(E, t, st.state, st.consts, st.ints)

\* A constant occurs when the least value from it on is the constant itself.
LEMMA MemberIs ==
  ASSUME NEW S \in SUBSET (Nat \ {0}), NEW v \in Nat \ {0}
  PROVE  LeastFrom(S, v) = v <=> v \in S
<1>1. v \in Int /\ v # 0
  OBVIOUS
<1>2. ASSUME LeastFrom(S, v) = v PROVE v \in S
  BY <1>1, <1>2, LeastFromCorrect
<1>3. ASSUME v \in S PROVE LeastFrom(S, v) = v
  <2>1. \A w \in S : v <= w => v <= w
    OBVIOUS
  <2>2. QED BY <1>1, <1>3, LeastFromIs
<1>4. QED BY <1>2, <1>3

\* What fits the levels, for the ends of the edges.
LEMMA FitsAre ==
  ASSUME NEW E, NEW t, NEW st, NEW cs
  PROVE  /\ Fits(E, t, st, cs, 0) = Labelled(E, t.label)
         /\ st[0] = "s" => Fits(E, t, st, cs, 1) = OfSubject(Labelled(E, t.label), cs[0])
         /\ st[0] = "o" => Fits(E, t, st, cs, 1) = OfObject(Labelled(E, t.label), cs[0])
         /\ st[0] = "s" /\ st[1] = "o" =>
              Fits(E, t, st, cs, 2) = OfObject(OfSubject(Labelled(E, t.label), cs[0]), cs[1])
         /\ st[0] = "o" /\ st[1] = "s" =>
              Fits(E, t, st, cs, 2) = OfSubject(OfObject(Labelled(E, t.label), cs[0]), cs[1])
BY DEF Fits, Labelled, OfSubject, OfObject, ValOf

\* What matches the pattern, by the constants it has.
LEMMA HitIs ==
  ASSUME NEW E, IsGraph(E), NEW t, t.s \in Nat, t.o \in Nat
  PROVE  /\ t.s = 0 /\ t.o = 0 => Hit(E, t) = Labelled(E, t.label)
         /\ t.s # 0 /\ t.o = 0 => Hit(E, t) = OfSubject(Labelled(E, t.label), t.s)
         /\ t.s = 0 /\ t.o # 0 => Hit(E, t) = OfObject(Labelled(E, t.label), t.o)
         /\ t.s # 0 /\ t.o # 0 => Hit(E, t) = OfObject(OfSubject(Labelled(E, t.label), t.s), t.o)
BY DEF Hit, Labelled, OfSubject, OfObject

\* The state of an empty iterator.
LEMMA FailedTyped ==
  ASSUME NEW R0, R0.n \in Nat, R0.maxSO \in Nat
  PROVE  Failed.empty = TRUE /\ Failed.level = 0 /\ Typed(R0, Failed)
<1>1. Unused \in IntervalsOf(R0.n)
  <2>1. Unused = [l |-> 1, r |-> 0, val |-> -1, rank |-> -1]
    BY IntervalIs DEF Unused
  <2>2. -1 \in Int /\ 1 \in 1 .. R0.n + 1 /\ 0 \in 0 .. R0.n
    OBVIOUS
  <2>3. QED BY <2>1, <2>2 DEF IntervalsOf
<1>2. 0 \in 0 .. R0.n + R0.maxSO /\ 0 \in 0 .. 2
  OBVIOUS
<1>3. /\ Failed.empty = TRUE /\ Failed.level = 0
      /\ Failed.state \in [0 .. 1 -> Terms \union {"none"}]
      /\ Failed.consts \in [0 .. 2 -> 0 .. R0.n + R0.maxSO]
      /\ Failed.ints \in [0 .. 2 -> IntervalsOf(R0.n)]
  BY <1>1, <1>2 DEF Failed
<1>4. QED BY <1>2, <1>3 DEF Typed

\* An iterator that matches nothing starts right as empty.
LEMMA StartFails ==
  ASSUME NEW E, NEW R0, R0.n \in Nat, R0.maxSO \in Nat, NEW t, Hit(E, t) = {}
  PROVE  Started(E, R0, t, Failed)
BY FailedTyped DEF Started

\* The start without constants.
LEMMA StartOpen ==
  ASSUME NEW E, IsGraph(E), NEW R0, R0.n \in Nat, R0.maxSO \in Nat, NEW t, t.s = 0, t.o = 0,
         NEW i0 \in IntervalsOf(R0.n), Holds(i0, Labelled(E, t.label), E, Pos(E)),
         Labelled(E, t.label) # {}
  PROVE  Started(E, R0, t, [Failed EXCEPT !.empty = FALSE, !.ints[0] = i0])
<1> DEFINE st == [Failed EXCEPT !.empty = FALSE, !.ints[0] = i0]
<1>1. /\ st.empty = FALSE /\ st.level = 0 /\ st.state = Failed.state /\ st.consts = Failed.consts
      /\ st.ints = [Failed.ints EXCEPT ![0] = i0]
  BY DEF Failed
<1> HIDE DEF st
<1>2. Typed(R0, st) /\ st.ints[0] = i0
  <2>1. Typed(R0, Failed)
    BY FailedTyped
  <2>2. st.empty \in BOOLEAN /\ st.level \in 0 .. 2
    <3>1. st.empty \in BOOLEAN
      BY <1>1, Zenon
    <3>2. QED BY <1>1, <3>1
  <2>3. st.ints \in [0 .. 2 -> IntervalsOf(R0.n)] /\ st.ints[0] = i0
    BY <1>1, <2>1 DEF Typed
  <2>4. QED BY <1>1, <2>1, <2>2, <2>3 DEF Typed
<1>3. Offset(t) = 0 /\ Hit(E, t) = Labelled(E, t.label)
  BY HitIs DEF Offset
<1>4. Fits(E, t, st.state, st.consts, 0) = Labelled(E, t.label)
  BY FitsAre
<1>5. Interval0(E, t, st.state, st.consts, st.ints)
  BY <1>2, <1>4 DEF Interval0
<1>6. Constants(t, st.state, st.consts)
  BY <1>3 DEF Constants
<1>7. Started(E, R0, t, st)
  BY <1>1, <1>2, <1>3, <1>4, <1>5, <1>6 DEF Started
<1>8. QED BY <1>7 DEF st

\* One constant bound.
StartsAt(R0, st, x, v, i0, i1) ==
  /\ Typed(R0, st) /\ st.empty = FALSE /\ st.level = 1
  /\ st.state[0] = x /\ st.consts[0] = v /\ st.ints[0] = i0 /\ st.ints[1] = i1

\* The state with one constant bound.
LEMMA Bound1Is ==
  ASSUME NEW R0, R0.n \in Nat, R0.maxSO \in Nat, NEW x \in {"s", "o"}, NEW v \in 0 .. R0.n + R0.maxSO,
         NEW i0 \in IntervalsOf(R0.n), NEW i1 \in IntervalsOf(R0.n)
  PROVE  StartsAt(R0, Bound1(x, v, i0, i1), x, v, i0, i1)
<1> DEFINE st == Bound1(x, v, i0, i1)
<1>1. /\ st.empty = FALSE /\ st.level = 1
      /\ st.state = [Failed.state EXCEPT ![0] = x] /\ st.consts = [Failed.consts EXCEPT ![0] = v]
      /\ st.ints = [Failed.ints EXCEPT ![0] = i0, ![1] = i1]
  BY DEF Bound1, Failed
<1> HIDE DEF st
<1>2. Typed(R0, Failed) /\ x \in Terms
  BY FailedTyped DEF Terms
<1>3. st.state \in [0 .. 1 -> Terms \union {"none"}] /\ st.state[0] = x
  BY <1>1, <1>2 DEF Typed
<1>4. st.consts \in [0 .. 2 -> 0 .. R0.n + R0.maxSO] /\ st.consts[0] = v
  BY <1>1, <1>2 DEF Typed
<1>5. st.ints \in [0 .. 2 -> IntervalsOf(R0.n)] /\ st.ints[0] = i0 /\ st.ints[1] = i1
  BY <1>1, <1>2 DEF Typed
<1>6. st.empty \in BOOLEAN /\ st.level \in 0 .. 2
  <2>1. st.empty \in BOOLEAN
    BY <1>1, Zenon
  <2>2. QED BY <1>1, <2>1
<1>7. Typed(R0, st)
  BY <1>3, <1>4, <1>5, <1>6 DEF Typed
<1>8. StartsAt(R0, st, x, v, i0, i1)
  BY <1>1, <1>3, <1>4, <1>5, <1>7 DEF StartsAt
<1>9. QED BY <1>8 DEF st

\* The start from a constant subject.
LEMMA StartFromS ==
  ASSUME NEW E, IsGraph(E), NEW R0, R0.n \in Nat, R0.maxSO \in Nat, NEW t, t.s \in Nat \ {0}, t.o = 0,
         t.s \in 0 .. R0.n + R0.maxSO, NEW i0 \in IntervalsOf(R0.n), NEW i1 \in IntervalsOf(R0.n),
         Holds(i0, Labelled(E, t.label), E, Pos(E)),
         Holds(i1, OfSubject(Labelled(E, t.label), t.s), E, Spo(E)),
         OfSubject(Labelled(E, t.label), t.s) # {}
  PROVE  Started(E, R0, t, Bound1("s", t.s, i0, i1))
<1> DEFINE st == Bound1("s", t.s, i0, i1)
<1>1. /\ Typed(R0, st) /\ st.empty = FALSE /\ st.level = 1
      /\ st.state[0] = "s" /\ st.consts[0] = t.s /\ st.ints[0] = i0 /\ st.ints[1] = i1
  <2>1. StartsAt(R0, st, "s", t.s, i0, i1)
    BY Bound1Is
  <2>2. QED BY <2>1 DEF StartsAt
<1> HIDE DEF st
<1>2. Offset(t) = 1 /\ Hit(E, t) = OfSubject(Labelled(E, t.label), t.s)
  BY HitIs DEF Offset
<1>3. /\ Fits(E, t, st.state, st.consts, 0) = Labelled(E, t.label)
      /\ Fits(E, t, st.state, st.consts, 1) = OfSubject(Labelled(E, t.label), t.s)
  BY <1>1, FitsAre
<1>4. Interval0(E, t, st.state, st.consts, st.ints) /\ Interval1(E, t, st.state, st.consts, st.ints)
  BY <1>1, <1>3 DEF Interval0, Interval1
<1>5. Constants(t, st.state, st.consts)
  BY <1>1, <1>2 DEF Constants
<1>6. Started(E, R0, t, st)
  BY <1>1, <1>2, <1>3, <1>4, <1>5 DEF Started
<1>7. QED BY <1>6 DEF st

\* The start from a constant object.
LEMMA StartFromO ==
  ASSUME NEW E, IsGraph(E), NEW R0, R0.n \in Nat, R0.maxSO \in Nat, NEW t, t.s = 0, t.o \in Nat \ {0},
         t.o \in 0 .. R0.n + R0.maxSO, NEW i0 \in IntervalsOf(R0.n), NEW i1 \in IntervalsOf(R0.n),
         Holds(i1, OfObject(Labelled(E, t.label), t.o), E, IF t.label = 0 THEN Osp(E) ELSE Pos(E)),
         OfObject(Labelled(E, t.label), t.o) # {}
  PROVE  Started(E, R0, t, Bound1("o", t.o, i0, i1))
<1> DEFINE st == Bound1("o", t.o, i0, i1)
<1>1. /\ Typed(R0, st) /\ st.empty = FALSE /\ st.level = 1
      /\ st.state[0] = "o" /\ st.consts[0] = t.o /\ st.ints[0] = i0 /\ st.ints[1] = i1
  <2>1. StartsAt(R0, st, "o", t.o, i0, i1)
    BY Bound1Is
  <2>2. QED BY <2>1 DEF StartsAt
<1> HIDE DEF st
<1>2. Offset(t) = 1 /\ Hit(E, t) = OfObject(Labelled(E, t.label), t.o)
  BY HitIs DEF Offset
<1>3. Fits(E, t, st.state, st.consts, 1) = OfObject(Labelled(E, t.label), t.o)
  BY <1>1, FitsAre
<1>4. Interval0(E, t, st.state, st.consts, st.ints) /\ Interval1(E, t, st.state, st.consts, st.ints)
  BY <1>1, <1>3 DEF Interval0, Interval1
<1>5. Constants(t, st.state, st.consts)
  BY <1>1, <1>2 DEF Constants
<1>6. Started(E, R0, t, st)
  BY <1>1, <1>2, <1>3, <1>4, <1>5 DEF Started
<1>7. QED BY <1>6 DEF st

\* The start from both.
LEMMA StartFromSO ==
  ASSUME NEW E, IsGraph(E), NEW R0, R0.n \in Nat, R0.maxSO \in Nat, NEW t, t.s \in Nat \ {0}, t.o \in Nat \ {0},
         t.s \in 0 .. R0.n + R0.maxSO, t.o \in 0 .. R0.n + R0.maxSO,
         NEW i0 \in IntervalsOf(R0.n), NEW i1 \in IntervalsOf(R0.n), NEW i2 \in IntervalsOf(R0.n),
         Holds(i0, Labelled(E, t.label), E, Pos(E)),
         Holds(i1, OfSubject(Labelled(E, t.label), t.s), E, Spo(E)),
         Holds(i2, OfObject(OfSubject(Labelled(E, t.label), t.s), t.o), E, Osp(E)),
         OfObject(OfSubject(Labelled(E, t.label), t.s), t.o) # {}
  PROVE  Started(E, R0, t, [Bound1("s", t.s, i0, i1) EXCEPT
                              !.level = 2, !.state[1] = "o", !.consts[1] = t.o, !.ints[2] = i2])
<1> DEFINE b == Bound1("s", t.s, i0, i1)
           st == [b EXCEPT !.level = 2, !.state[1] = "o", !.consts[1] = t.o, !.ints[2] = i2]
<1>1. /\ Typed(R0, b) /\ b.empty = FALSE /\ b.level = 1
      /\ b.state[0] = "s" /\ b.consts[0] = t.s /\ b.ints[0] = i0 /\ b.ints[1] = i1
  <2>1. StartsAt(R0, b, "s", t.s, i0, i1)
    BY Bound1Is
  <2>2. QED BY <2>1 DEF StartsAt
<1>2. /\ st.empty = b.empty /\ st.level = 2 /\ st.state = [b.state EXCEPT ![1] = "o"]
      /\ st.consts = [b.consts EXCEPT ![1] = t.o] /\ st.ints = [b.ints EXCEPT ![2] = i2]
  BY DEF Bound1, Failed
<1> HIDE DEF b, st
<1>3. /\ st.state \in [0 .. 1 -> Terms \union {"none"}] /\ st.state[0] = "s" /\ st.state[1] = "o"
  BY <1>1, <1>2 DEF Terms, Typed
<1>4. /\ st.consts \in [0 .. 2 -> 0 .. R0.n + R0.maxSO] /\ st.consts[0] = t.s /\ st.consts[1] = t.o
  BY <1>1, <1>2 DEF Typed
<1>5. /\ st.ints \in [0 .. 2 -> IntervalsOf(R0.n)] /\ st.ints[0] = i0 /\ st.ints[1] = i1 /\ st.ints[2] = i2
  BY <1>1, <1>2 DEF Typed
<1>6. Offset(t) = 2 /\ Hit(E, t) = OfObject(OfSubject(Labelled(E, t.label), t.s), t.o)
  BY HitIs DEF Offset
<1>7. /\ Fits(E, t, st.state, st.consts, 0) = Labelled(E, t.label)
      /\ Fits(E, t, st.state, st.consts, 1) = OfSubject(Labelled(E, t.label), t.s)
      /\ Fits(E, t, st.state, st.consts, 2) = OfObject(OfSubject(Labelled(E, t.label), t.s), t.o)
  BY <1>3, <1>4, FitsAre
<1>8. /\ Interval0(E, t, st.state, st.consts, st.ints) /\ Interval1(E, t, st.state, st.consts, st.ints)
      /\ Interval2(E, t, st.state, st.consts, st.ints)
  BY <1>3, <1>5, <1>7 DEF Interval0, Interval1, Interval2
<1>9. Constants(t, st.state, st.consts)
  BY <1>3, <1>4, <1>6 DEF Constants
<1>10. Started(E, R0, t, st)
  <2>1. Typed(R0, st)
    BY <1>1, <1>2, <1>3, <1>4, <1>5 DEF Typed
  <2>2. QED BY <1>1, <1>2, <1>6, <1>7, <1>8, <1>9, <2>1 DEF Started
<1>11. QED BY <1>10 DEF st, b

\* The interval of all edges.
LEMMA OpenHolds ==
  ASSUME NEW E, IsGraph(E), NEW R0, IsRing(R0, E), NEW open, open = Interval(<<1, R0.n>>)
  PROVE  /\ open \in IntervalsOf(R0.n)
         /\ Holds(open, E, E, Pos(E)) /\ Holds(open, E, E, Spo(E)) /\ Holds(open, E, E, Osp(E))
<1>1. /\ IsFiniteSet(E) /\ Cardinality(E) = R0.n
      /\ IsNumbering(E, Spo(E)) /\ IsNumbering(E, Osp(E)) /\ IsNumbering(E, Pos(E))
  BY EdgeFacts
<1>2. Spans(1, R0.n, E, E, Pos(E)) /\ Spans(1, R0.n, E, E, Spo(E)) /\ Spans(1, R0.n, E, E, Osp(E))
  BY <1>1, SpansAll
<1>3. QED BY <1>2, HoldsTyped

\* A constant is sought by the search from itself.
LEMMA FoundSubject ==
  ASSUME NEW E, IsGraph(E), NEW R0, IsRing(R0, E), NEW I, NEW A, Holds(I, A, E, Pos(E)),
         NEW v \in Nat, v # 0
  PROVE  NextIn(R0.s, I, R0.maxSO, v) = v <=> OfSubject(A, v) # {}
<1>1. IsBound(v) /\ v \in Nat \ {0}
  BY DEF IsBound
<1>2. NextIn(R0.s, I, R0.maxSO, v) = LeastFrom(Subjects(A), v)
  BY <1>1, Searches
<1>3. Subjects(A) \in SUBSET (Nat \ {0})
  <2>1. \A e \in E : e.s \in Nat \ {0}
    BY DEF IsGraph
  <2>2. QED BY <2>1 DEF Holds, Spans, Subjects
<1>4. v \in Subjects(A) <=> OfSubject(A, v) # {}
  BY DEF Subjects, OfSubject
<1>5. QED BY <1>1, <1>2, <1>3, <1>4, MemberIs

\* The same for an object in the edges of a subject.
LEMMA FoundObject ==
  ASSUME NEW E, IsGraph(E), NEW R0, IsRing(R0, E), NEW I, NEW A, Holds(I, A, E, Spo(E)),
         NEW v \in Nat, v # 0
  PROVE  NextIn(R0.o, I, R0.maxSO, v) = v <=> OfObject(A, v) # {}
<1>1. IsBound(v) /\ v \in Nat \ {0}
  BY DEF IsBound
<1>2. NextIn(R0.o, I, R0.maxSO, v) = LeastFrom(Objects(A), v)
  BY <1>1, Searches
<1>3. Objects(A) \in SUBSET (Nat \ {0})
  <2>1. \A e \in E : e.o \in Nat \ {0}
    BY DEF IsGraph
  <2>2. QED BY <2>1 DEF Holds, Spans, Objects
<1>4. v \in Objects(A) <=> OfObject(A, v) # {}
  BY DEF Objects, OfObject
<1>5. QED BY <1>1, <1>2, <1>3, <1>4, MemberIs

\* The same for a label in the edges of an object.
LEMMA FoundLabel ==
  ASSUME NEW E, IsGraph(E), NEW R0, IsRing(R0, E), NEW I, NEW A, Holds(I, A, E, Osp(E)),
         NEW v \in Nat, v # 0
  PROVE  NextIn(R0.p, I, R0.maxP, v) = v <=> OfLabel(A, v) # {}
<1>1. IsBound(v) /\ v \in Nat \ {0}
  BY DEF IsBound
<1>2. NextIn(R0.p, I, R0.maxP, v) = LeastFrom(Labels(A), v)
  BY <1>1, Searches
<1>3. Labels(A) \in SUBSET (Nat \ {0})
  <2>1. \A e \in E : e.p \in Nat \ {0}
    BY DEF IsGraph
  <2>2. QED BY <2>1 DEF Holds, Spans, Labels
<1>4. v \in Labels(A) <=> OfLabel(A, v) # {}
  BY DEF Labels, OfLabel
<1>5. QED BY <1>1, <1>2, <1>3, <1>4, MemberIs

\* What is found is in the alphabet.
LEMMA UsedIs ==
  ASSUME NEW E, IsGraph(E), NEW R0, IsRing(R0, E), NEW A \in SUBSET E, NEW v
  PROVE  /\ OfSubject(A, v) # {} => v \in 1 .. R0.maxSO /\ v \in 0 .. R0.n + R0.maxSO
         /\ OfObject(A, v) # {} => v \in 1 .. R0.maxSO /\ v \in 0 .. R0.n + R0.maxSO
         /\ OfLabel(A, v) # {} => v \in 1 .. R0.maxP
<1>1. /\ \A e \in E : e.s \in 1 .. R0.maxSO /\ e.o \in 1 .. R0.maxSO /\ e.p \in 1 .. R0.maxP
      /\ R0.maxSO \in Nat /\ R0.n \in Nat
  BY EdgeFacts DEF IsRing
<1>2. 1 .. R0.maxSO \subseteq 0 .. R0.n + R0.maxSO
  BY <1>1
<1>3. QED BY <1>1, <1>2 DEF OfSubject, OfObject, OfLabel

\* The constructor of ltj_iterator.
LEMMA StartUnlabelled ==
  ASSUME NEW E, IsGraph(E), NEW R0, IsRing(R0, E), NEW t, t.s \in Nat, t.o \in Nat, t.label = 0
  PROVE  Started(E, R0, t, Start(R0, t))
<1> DEFINE open == Interval(<<1, R0.n>>)
<1>1. R0.n \in Nat /\ R0.maxSO \in Nat /\ E # {}
  BY DEF IsRing, IsGraph
<1>2. /\ open \in IntervalsOf(R0.n)
      /\ Holds(open, E, E, Pos(E)) /\ Holds(open, E, E, Spo(E)) /\ Holds(open, E, E, Osp(E))
  BY OpenHolds
<1>3. Labelled(E, t.label) = E
  BY DEF Labelled
<1> HIDE DEF open
<1>5. CASE t.s # 0 /\ t.o # 0
  <2> DEFINE i1 == Interval(Block(R0.o, t.s))
             i2 == Interval(Step(R0.o, R0.p, <<i1.l, i1.r>>, t.o))
  <2>1. Start(R0, t) = StartSO(R0, t, open)
    BY <1>5 DEF Start, open
  <2>2. NextIn(R0.s, open, R0.maxSO, t.s) = t.s <=> OfSubject(E, t.s) # {}
    BY <1>2, <1>5, FoundSubject
  <2>3. CASE OfSubject(E, t.s) = {}
    <3>1. Start(R0, t) = Failed
      BY <2>1, <2>2, <2>3 DEF StartSO
    <3>2. Hit(E, t) = {}
      BY <1>3, <1>5, <2>3, HitIs DEF OfObject
    <3>3. QED BY <1>1, <3>1, <3>2, StartFails
  <2>4. CASE OfSubject(E, t.s) # {}
    <3>1. t.s \in 1 .. R0.maxSO /\ t.s \in 0 .. R0.n + R0.maxSO
      BY <2>4, UsedIs
    <3>2. i1 \in IntervalsOf(R0.n) /\ Holds(i1, OfSubject(E, t.s), E, Spo(E))
      BY <3>1, BlocksHold
    <3> HIDE DEF i1
    <3>3. NextIn(R0.o, i1, R0.maxSO, t.o) = t.o <=> OfObject(OfSubject(E, t.s), t.o) # {}
      BY <1>5, <3>2, FoundObject
    <3>4. CASE OfObject(OfSubject(E, t.s), t.o) = {}
      <4>1. Start(R0, t) = Failed
        BY <2>1, <3>3, <3>4 DEF StartSO, i1
      <4>2. Hit(E, t) = {}
        BY <1>3, <1>5, <3>4, HitIs
      <4>3. QED BY <1>1, <4>1, <4>2, StartFails
    <3>5. CASE OfObject(OfSubject(E, t.s), t.o) # {}
      <4>1. OfSubject(E, t.s) \in SUBSET E
        BY DEF OfSubject
      <4>2. t.o \in 1 .. R0.maxSO /\ t.o \in 0 .. R0.n + R0.maxSO
        BY <3>5, <4>1, UsedIs
      <4>3. i2 \in IntervalsOf(R0.n) /\ Holds(i2, OfObject(OfSubject(E, t.s), t.o), E, Osp(E))
        BY <3>2, <4>2, StepsHold
      <4> HIDE DEF i2
      <4>4. Start(R0, t) = [Bound1("s", t.s, open, i1) EXCEPT
                              !.level = 2, !.state[1] = "o", !.consts[1] = t.o, !.ints[2] = i2]
        BY <2>1, <2>2, <2>4, <3>3, <3>5 DEF StartSO, i1, i2
      <4>5. t.s \in Nat \ {0} /\ t.o \in Nat \ {0}
        BY <1>5
      <4>6. Started(E, R0, t, [Bound1("s", t.s, open, i1) EXCEPT
                              !.level = 2, !.state[1] = "o", !.consts[1] = t.o, !.ints[2] = i2])
        BY <1>1, <1>2, <1>3, <3>1, <3>2, <3>5, <4>2, <4>3, <4>5, StartFromSO, ZenonT(60)
      <4>7. QED BY <4>4, <4>6
    <3>6. QED BY <3>4, <3>5
  <2>5. QED BY <2>3, <2>4
<1>6. CASE t.s = 0 /\ t.o # 0
  <2> DEFINE i1 == Interval(Block(R0.p, t.o))
  <2>1. NextIn(R0.o, open, R0.maxSO, t.o) = t.o <=> OfObject(E, t.o) # {}
    BY <1>2, <1>6, FoundObject
  <2>2. Start(R0, t) = IF NextIn(R0.o, open, R0.maxSO, t.o) # t.o THEN Failed ELSE Bound1("o", t.o, open, i1)
    BY <1>6 DEF Start, open
  <2>3. CASE OfObject(E, t.o) = {}
    <3>1. Start(R0, t) = Failed
      BY <2>1, <2>2, <2>3
    <3>2. Hit(E, t) = {}
      BY <1>3, <1>6, <2>3, HitIs
    <3>3. QED BY <1>1, <3>1, <3>2, StartFails
  <2>4. CASE OfObject(E, t.o) # {}
    <3>1. t.o \in 1 .. R0.maxSO /\ t.o \in 0 .. R0.n + R0.maxSO /\ t.o \in Nat \ {0}
      BY <1>6, <2>4, UsedIs
    <3>2. i1 \in IntervalsOf(R0.n) /\ Holds(i1, OfObject(E, t.o), E, Osp(E))
      BY <3>1, BlocksHold
    <3> HIDE DEF i1
    <3>3. Start(R0, t) = Bound1("o", t.o, open, i1)
      BY <2>1, <2>2, <2>4
    <3>4. Started(E, R0, t, Bound1("o", t.o, open, i1))
      BY <1>1, <1>2, <1>3, <1>6, <2>4, <3>1, <3>2, StartFromO
    <3>5. QED BY <3>3, <3>4
  <2>5. QED BY <2>3, <2>4
<1>7. CASE t.s # 0 /\ t.o = 0
  <2> DEFINE i1 == Interval(Block(R0.o, t.s))
  <2>1. NextIn(R0.s, open, R0.maxSO, t.s) = t.s <=> OfSubject(E, t.s) # {}
    BY <1>2, <1>7, FoundSubject
  <2>2. Start(R0, t) = IF NextIn(R0.s, open, R0.maxSO, t.s) # t.s THEN Failed ELSE Bound1("s", t.s, open, i1)
    BY <1>7 DEF Start, open
  <2>3. CASE OfSubject(E, t.s) = {}
    <3>1. Start(R0, t) = Failed
      BY <2>1, <2>2, <2>3
    <3>2. Hit(E, t) = {}
      BY <1>3, <1>7, <2>3, HitIs
    <3>3. QED BY <1>1, <3>1, <3>2, StartFails
  <2>4. CASE OfSubject(E, t.s) # {}
    <3>1. t.s \in 1 .. R0.maxSO /\ t.s \in 0 .. R0.n + R0.maxSO /\ t.s \in Nat \ {0}
      BY <1>7, <2>4, UsedIs
    <3>2. i1 \in IntervalsOf(R0.n) /\ Holds(i1, OfSubject(E, t.s), E, Spo(E))
      BY <3>1, BlocksHold
    <3> HIDE DEF i1
    <3>3. Start(R0, t) = Bound1("s", t.s, open, i1)
      BY <2>1, <2>2, <2>4
    <3>4. Started(E, R0, t, Bound1("s", t.s, open, i1))
      BY <1>1, <1>2, <1>3, <1>7, <2>4, <3>1, <3>2, StartFromS
    <3>5. QED BY <3>3, <3>4
  <2>5. QED BY <2>3, <2>4
<1>8. CASE t.s = 0 /\ t.o = 0
  <2>1. Start(R0, t) = [Failed EXCEPT !.empty = FALSE, !.ints[0] = open]
    BY <1>8 DEF Start, open
  <2>2. Started(E, R0, t, [Failed EXCEPT !.empty = FALSE, !.ints[0] = open])
    <3>1. Holds(open, Labelled(E, t.label), E, Pos(E)) /\ Labelled(E, t.label) # {}
      BY <1>1, <1>2, <1>3
    <3>2. QED BY <1>1, <1>2, <1>8, <3>1, StartOpen
  <2>3. QED BY <2>1, <2>2
<1>9. QED BY <1>5, <1>6, <1>7, <1>8

\* Not when both ends are constant as well: then the object is sought in all the edges of the subject.
LEMMA StartLabelled ==
  ASSUME NEW E, IsGraph(E), NEW R0, IsRing(R0, E),
         NEW t, t.s \in Nat, t.o \in Nat, t.label \in Nat \ {0}, t.s = 0 \/ t.o = 0
  PROVE  Started(E, R0, t, StartLabel(R0, t))
<1> DEFINE open == Interval(<<1, R0.n>>)
           w    == t.label
           i0   == Interval(Block(R0.s, w))
           io   == Interval(Block(R0.p, t.o))
<1>1. R0.n \in Nat /\ R0.maxSO \in Nat /\ E # {}
  BY DEF IsRing, IsGraph
<1>2. /\ open \in IntervalsOf(R0.n)
      /\ Holds(open, E, E, Pos(E)) /\ Holds(open, E, E, Spo(E)) /\ Holds(open, E, E, Osp(E))
  BY OpenHolds
<1>3. Labelled(E, w) = OfLabel(E, w) /\ \A A : OfLabel(OfObject(E, A), w) = OfObject(OfLabel(E, w), A)
  BY DEF Labelled, OfLabel, OfObject
<1> HIDE DEF open
<1>4. NextIn(R0.p, open, R0.maxP, w) = w <=> OfLabel(E, w) # {}
  BY <1>2, FoundLabel
<1>5. OfLabel(E, w) # {} => i0 \in IntervalsOf(R0.n) /\ Holds(i0, OfLabel(E, w), E, Pos(E))
  <2>1. SUFFICES ASSUME OfLabel(E, w) # {} PROVE i0 \in IntervalsOf(R0.n) /\ Holds(i0, OfLabel(E, w), E, Pos(E))
    OBVIOUS
  <2>2. w \in 1 .. R0.maxP
    BY <2>1, UsedIs
  <2>3. QED BY <2>2, BlocksHold
<1>6. CASE t.s = 0 /\ t.o # 0
  <2> DEFINE i1 == Interval(Step(R0.p, R0.s, <<io.l, io.r>>, w))
  <2>1. NextIn(R0.o, open, R0.maxSO, t.o) = t.o <=> OfObject(E, t.o) # {}
    BY <1>2, <1>6, FoundObject
  <2>2. StartLabel(R0, t) =
          IF NextIn(R0.o, open, R0.maxSO, t.o) # t.o \/ NextIn(R0.p, io, R0.maxP, w) # w
          THEN Failed ELSE Bound1("o", t.o, io, i1)
    BY <1>6 DEF StartLabel, open
  <2>3. Hit(E, t) = OfLabel(OfObject(E, t.o), w)
    BY <1>3, <1>6, HitIs
  <2>4. CASE OfObject(E, t.o) = {}
    <3>1. StartLabel(R0, t) = Failed
      BY <2>1, <2>2, <2>4
    <3>2. Hit(E, t) = {}
      BY <2>3, <2>4 DEF OfLabel
    <3>3. QED BY <1>1, <3>1, <3>2, StartFails
  <2>5. CASE OfObject(E, t.o) # {}
    <3>1. t.o \in 1 .. R0.maxSO /\ t.o \in 0 .. R0.n + R0.maxSO /\ t.o \in Nat \ {0}
      BY <1>6, <2>5, UsedIs
    <3>2. io \in IntervalsOf(R0.n) /\ Holds(io, OfObject(E, t.o), E, Osp(E))
      BY <3>1, BlocksHold
    <3> HIDE DEF io
    <3>3. NextIn(R0.p, io, R0.maxP, w) = w <=> OfLabel(OfObject(E, t.o), w) # {}
      BY <3>2, FoundLabel
    <3>4. CASE OfLabel(OfObject(E, t.o), w) = {}
      <4>1. StartLabel(R0, t) = Failed
        BY <2>2, <3>3, <3>4
      <4>2. Hit(E, t) = {}
        BY <2>3, <3>4
      <4>3. QED BY <1>1, <4>1, <4>2, StartFails
    <3>5. CASE OfLabel(OfObject(E, t.o), w) # {}
      <4>1. OfObject(E, t.o) \in SUBSET E
        BY DEF OfObject
      <4>2. w \in 1 .. R0.maxP
        BY <3>5, <4>1, UsedIs
      <4>3. i1 \in IntervalsOf(R0.n) /\ Holds(i1, OfLabel(OfObject(E, t.o), w), E, Pos(E))
        BY <3>2, <4>2, StepsHold
      <4> HIDE DEF i1
      <4>4. StartLabel(R0, t) = Bound1("o", t.o, io, i1)
        BY <2>1, <2>2, <2>5, <3>3, <3>5
      <4>5. Holds(i1, OfObject(Labelled(E, w), t.o), E, IF t.label = 0 THEN Osp(E) ELSE Pos(E))
        BY <1>3, <4>3
      <4>6. OfObject(Labelled(E, w), t.o) # {}
        BY <1>3, <3>5
      <4>7. Started(E, R0, t, Bound1("o", t.o, io, i1))
        BY <1>1, <1>6, <3>1, <3>2, <4>3, <4>5, <4>6, StartFromO
      <4>8. QED BY <4>4, <4>7
    <3>6. QED BY <3>4, <3>5
  <2>6. QED BY <2>4, <2>5
<1>7. CASE ~(t.s = 0 /\ t.o # 0) /\ OfLabel(E, w) = {}
  <2>1. StartLabel(R0, t) = Failed
    BY <1>4, <1>7 DEF StartLabel, open
  <2>2. Hit(E, t) = {}
    BY <1>7 DEF Hit, OfLabel
  <2>3. QED BY <1>1, <2>1, <2>2, StartFails
<1>8. CASE t.s # 0 /\ t.o = 0 /\ OfLabel(E, w) # {}
  <2> DEFINE i1 == Interval(Step(R0.s, R0.o, <<i0.l, i0.r>>, t.s))
             A == OfLabel(E, w)
  <2>1. StartLabel(R0, t) = IF NextIn(R0.s, i0, R0.maxSO, t.s) # t.s THEN Failed ELSE Bound1("s", t.s, i0, i1)
    BY <1>4, <1>8 DEF StartLabel, open
  <2>2. i0 \in IntervalsOf(R0.n) /\ Holds(i0, A, E, Pos(E)) /\ A \in SUBSET E
    BY <1>5, <1>8 DEF OfLabel
  <2> HIDE DEF i0, A
  <2>3. NextIn(R0.s, i0, R0.maxSO, t.s) = t.s <=> OfSubject(A, t.s) # {}
    BY <1>8, <2>2, FoundSubject
  <2>4. Labelled(E, t.label) = A
    BY <1>3 DEF A
  <2>5. CASE OfSubject(A, t.s) = {}
    <3>1. StartLabel(R0, t) = Failed
      BY <2>1, <2>3, <2>5
    <3>2. Hit(E, t) = {}
      BY <1>8, <2>4, <2>5, HitIs
    <3>3. QED BY <1>1, <3>1, <3>2, StartFails
  <2>6. CASE OfSubject(A, t.s) # {}
    <3>1. t.s \in 1 .. R0.maxSO /\ t.s \in 0 .. R0.n + R0.maxSO /\ t.s \in Nat \ {0}
      BY <1>8, <2>2, <2>6, UsedIs
    <3>2. i1 \in IntervalsOf(R0.n) /\ Holds(i1, OfSubject(A, t.s), E, Spo(E))
      BY <2>2, <3>1, StepsHold
    <3> HIDE DEF i1
    <3>3. StartLabel(R0, t) = Bound1("s", t.s, i0, i1)
      BY <2>1, <2>3, <2>6
    <3>4. Started(E, R0, t, Bound1("s", t.s, i0, i1))
      BY <1>1, <1>8, <2>2, <2>4, <2>6, <3>1, <3>2, StartFromS
    <3>5. QED BY <3>3, <3>4
  <2>7. QED BY <2>5, <2>6
<1>9. CASE t.s = 0 /\ t.o = 0 /\ OfLabel(E, w) # {}
  <2>1. StartLabel(R0, t) = [Failed EXCEPT !.empty = FALSE, !.ints[0] = i0]
    BY <1>4, <1>9 DEF StartLabel, open
  <2> HIDE DEF i0
  <2>2. Started(E, R0, t, [Failed EXCEPT !.empty = FALSE, !.ints[0] = i0])
    <3>1. /\ Holds(i0, Labelled(E, t.label), E, Pos(E)) /\ Labelled(E, t.label) # {}
          /\ i0 \in IntervalsOf(R0.n)
      BY <1>3, <1>5, <1>9
    <3>2. QED BY <1>1, <1>9, <3>1, StartOpen
  <2>3. QED BY <2>1, <2>2
<1>10. QED BY <1>6, <1>7, <1>8, <1>9

\* The constructors establish the invariant.
LEMMA InitInv == NoLabelConst /\ Init => IInv
<1> SUFFICES ASSUME NoLabelConst, Init PROVE IInv
  OBVIOUS
<1> DEFINE st == IF pat.label = 0 THEN Start(R, pat) ELSE StartLabel(R, pat)
<1>1. /\ edges \in Graphs /\ R = Build(edges) /\ pat \in Patterns
      /\ m_is_empty = st.empty /\ m_level = st.level /\ m_state = st.state
      /\ m_consts = st.consts /\ m_intervals = st.ints
      /\ m_triple_j = 0 /\ path = <<>> /\ mode = "idle" /\ ret = [x |-> "none", c |-> 0, v |-> 0]
  BY DEF Init
<1>2. IsGraph(edges) /\ IsRing(R, edges) /\ R.n \in Nat /\ R.maxSO \in Nat
  BY <1>1, GraphAssumption, BuildIsRing DEF IsRing
<1>3. pat.s \in Nat /\ pat.o \in Nat /\ pat.label \in Nat
  BY <1>1, PatternAssumption
<1>4. Started(edges, R, pat, st)
  <2>1. CASE pat.label = 0
    BY <1>2, <1>3, <2>1, StartUnlabelled
  <2>2. CASE pat.label # 0
    <3>1. pat.s = 0 \/ pat.o = 0
      BY <1>1, <2>2 DEF NoLabelConst
    <3>2. pat.label \in Nat \ {0}
      BY <1>3, <2>2
    <3>3. QED BY <1>2, <1>3, <2>2, <3>1, <3>2, StartLabelled
  <2>3. QED BY <2>1, <2>2
<1> HIDE DEF st
<1>5. path = <<>> /\ path \in Seq([x : Terms, v : Nat]) /\ Len(path) = 0
  BY <1>1
<1>6. StateTypes
  <2>1. ret \in [x : Terms \union {"none"}, c : Int, v : 0 .. R.n + R.maxSO]
    BY <1>1, <1>2
  <2>2. /\ m_is_empty \in BOOLEAN /\ m_level \in 0 .. 3
        /\ m_state \in [0 .. 1 -> Terms \union {"none"}]
        /\ m_consts \in [0 .. 2 -> 0 .. R.n + R.maxSO]
        /\ m_intervals \in [0 .. 2 -> IntervalsOf(R.n)]
    BY <1>1, <1>4 DEF Started, Typed
  <2>3. m_triple_j \in Int /\ mode \in {"idle", "leap", "scan", "under", "left", "back"}
    BY <1>1
  <2>4. QED BY <1>1, <1>5, <2>1, <2>2, <2>3 DEF StateTypes
<1>7. m_is_empty <=> Matching = {}
  <2>1. Matching = Hit(edges, pat)
    BY DEF Matching, Hit
  <2>2. QED BY <1>1, <1>4, <2>1 DEF Started
<1>8. ASSUME ~m_is_empty PROVE Bindings /\ Intervals /\ Current # {} /\ Kept /\ Protocol
  <2>1. /\ m_level = Offset(pat) /\ Constants(pat, m_state, m_consts)
        /\ Fits(edges, pat, m_state, m_consts, m_level) # {}
        /\ Interval0(edges, pat, m_state, m_consts, m_intervals)
        /\ m_level >= 1 => Interval1(edges, pat, m_state, m_consts, m_intervals)
        /\ m_level >= 2 => Interval2(edges, pat, m_state, m_consts, m_intervals)
    BY <1>1, <1>4, <1>8 DEF Started
  <2>2. m_level \in 0 .. 2
    BY <1>1, <1>4 DEF Started, Typed
  <2>3. Bindings
    BY <1>5, <2>1, <2>2 DEF Bindings, Constants
  <2>4. Intervals
    BY <2>1 DEF Intervals
  <2>5. Top = m_level
    BY <2>2 DEF Top
  <2>6. Current # {}
    BY <2>1, <2>5 DEF Current
  <2>7. Kept /\ Protocol
    BY <1>1 DEF Kept, Protocol
  <2>8. QED BY <2>3, <2>4, <2>6, <2>7
<1>9. QED BY <1>1, <1>6, <1>7, <1>8 DEF IInv

-----------------------------------------------------------------------------
(***************************************************************************)
(* The steps.                                                              *)
(***************************************************************************)
\* What a step that binds nothing leaves.
LEMMA Frame ==
  ASSUME UNCHANGED <<index, m_level, m_state, m_consts, path>>
  PROVE  /\ Bindings => Bindings'
         /\ Free' = Free /\ Current' = Current /\ Matching' = Matching
         /\ \A x : CurrentVals(x)' = CurrentVals(x)
         /\ \A i : LastEdge(i)' = LastEdge(i)
         /\ \A ints, x, v : KeptIn(ints, x, v) => KeptIn(ints, x, v)'
<1>1. /\ edges' = edges /\ R' = R /\ pat' = pat /\ m_is_empty' = m_is_empty
      /\ m_level' = m_level /\ m_state' = m_state /\ m_consts' = m_consts /\ path' = path
  BY DEF index
<1>2. Variables' = Variables
  BY <1>1 DEF Variables
<1>3. Bindings => Bindings'
  BY <1>1, <1>2 DEF Bindings
<1>4. Free' = Free
  BY <1>1, <1>2 DEF Free
<1>5. Current' = Current
  BY <1>1 DEF Current, Top
<1>6. \A x : CurrentVals(x)' = CurrentVals(x)
  BY <1>1, <1>5 DEF CurrentVals
<1>7. \A i : LastEdge(i)' = LastEdge(i)
  BY <1>1 DEF LastEdge
<1>8. \A ints, x, v : KeptIn(ints, x, v) => KeptIn(ints, x, v)'
  BY <1>1 DEF KeptIn, KeepsO, KeepsS
<1>9. Matching' = Matching
  BY <1>1 DEF Matching
<1>10. QED BY <1>3, <1>4, <1>5, <1>6, <1>7, <1>8, <1>9

\* Intervals with the same ends hold the same.
LEMMA IntervalsStay ==
  ASSUME UNCHANGED <<index, m_level, m_state, m_consts>>, Intervals,
         \A d \in 0 .. 2 : m_intervals'[d].l = m_intervals[d].l /\ m_intervals'[d].r = m_intervals[d].r
  PROVE  Intervals'
<1>1. edges' = edges /\ pat' = pat /\ m_level' = m_level /\ m_state' = m_state /\ m_consts' = m_consts
  BY DEF index
<1>2. \A d \in 0 .. 2 : \A A, pos : Holds(m_intervals[d], A, edges, pos) => Holds(m_intervals'[d], A, edges, pos)
  BY DEF Holds
<1>3. 0 \in 0 .. 2 /\ 1 \in 0 .. 2 /\ 2 \in 0 .. 2
  OBVIOUS
<1>4. Interval0(edges, pat, m_state, m_consts, m_intervals')
  BY <1>2, <1>3 DEF Intervals, Interval0
<1>5. m_level >= 1 => Interval1(edges, pat, m_state, m_consts, m_intervals')
  BY <1>2, <1>3 DEF Intervals, Interval1
<1>6. m_level >= 2 => Interval2(edges, pat, m_state, m_consts, m_intervals')
  BY <1>2, <1>3 DEF Intervals, Interval2
<1>7. QED BY <1>1, <1>4, <1>5, <1>6 DEF Intervals

\* An answer is an id, or 0.
LEMMA AnswerTyped ==
  ASSUME StateTypes, NEW x \in Terms, NEW c \in Int, NEW v, v = LeastFrom(CurrentVals(x), c)
  PROVE  v \in 0 .. R.n + R.maxSO /\ (v # 0 => v \in CurrentVals(x))
<1>1. CurrentVals(x) \in SUBSET (Nat \ {0}) /\ CurrentVals(x) \in SUBSET (0 .. R.n + R.maxSO)
  BY ValsAre
<1>2. R.n \in Nat /\ R.maxSO \in Nat
  BY RingHere
<1>3. v # 0 => v \in CurrentVals(x)
  BY <1>1, LeastFromCorrect
<1>4. QED BY <1>1, <1>2, <1>3

\* leap keeps the invariant.
LEMMA LeapKeeps ==
  ASSUME IInv, NEW x \in Terms, NEW c \in Asked, Leap(x, c)
  PROVE  IInv'
<1>1. /\ ~m_is_empty /\ MayAsk(x, c)
      /\ m_intervals' = Answer(x, c).ints /\ ret' = [x |-> x, c |-> c, v |-> Answer(x, c).v]
      /\ mode' = "leap"
      /\ UNCHANGED <<index, m_level, m_state, m_consts, m_triple_j, path>>
  BY DEF Leap
<1>2. /\ StateTypes /\ Bindings /\ Intervals /\ Current # {} /\ Protocol
      /\ m_is_empty <=> Matching = {}
  BY <1>1 DEF IInv
<1>3. x \in Free
  BY <1>1, <1>2 DEF MayAsk, Protocol
<1>4. IsBound(c) /\ c \in Int
  BY PatternAssumption DEF Asked, IsBound, NoBound
<1>5. Answers(x, c, Answer(x, c))
  BY <1>2, <1>3, <1>4, AnswerIs
<1>6. UNCHANGED <<index, m_level, m_state, m_consts, path>> /\ UNCHANGED <<index, m_level, m_state, m_consts>>
  BY <1>1
<1>7. /\ Bindings' /\ Free' = Free /\ Current' = Current /\ Matching' = Matching
      /\ \A y : CurrentVals(y)' = CurrentVals(y)
      /\ \A ints, y, v : KeptIn(ints, y, v) => KeptIn(ints, y, v)'
  BY <1>2, <1>6, Frame
<1> DEFINE a == Answer(x, c)
<1>8. /\ a.v = LeastFrom(CurrentVals(x), c) /\ a.ints \in [0 .. 2 -> IntervalsOf(R.n)]
      /\ \A d \in 0 .. 2 : a.ints[d].l = m_intervals[d].l /\ a.ints[d].r = m_intervals[d].r
      /\ a.v # 0 => KeptIn(a.ints, x, a.v)
  BY <1>5 DEF Answers
<1>9. m_intervals' = a.ints /\ ret' = [x |-> x, c |-> c, v |-> a.v]
  BY <1>1
<1> HIDE DEF a
<1>10. StateTypes'
  <2>1. a.v \in 0 .. R.n + R.maxSO
    BY <1>2, <1>4, <1>8, AnswerTyped
  <2>2. ret' \in [x : Terms \union {"none"}, c : Int, v : 0 .. R.n + R.maxSO]
    BY <1>4, <1>9, <2>1
  <2>3. m_intervals' \in [0 .. 2 -> IntervalsOf(R.n)]
    BY <1>8, <1>9
  <2>4. edges' = edges /\ R' = R /\ pat' = pat /\ m_is_empty' = m_is_empty
    BY <1>1 DEF index
  <2>5. QED BY <1>1, <1>2, <2>2, <2>3, <2>4 DEF StateTypes
<1>11. Intervals'
  BY <1>2, <1>6, <1>8, <1>9, IntervalsStay
<1>12. ret'.x = x /\ ret'.c = c /\ ret'.v = a.v
  BY <1>9
<1>13. Kept'
  BY <1>7, <1>8, <1>9, <1>12 DEF Kept
<1>14. Protocol'
  <2>1. ret'.x \in Free' /\ ret'.v = LeastFrom(CurrentVals(x)', ret'.c)
    BY <1>3, <1>7, <1>8, <1>12
  <2>2. ret'.v = LeastFrom(CurrentVals(ret.x)', ret'.c)
    BY <1>12, <2>1 DEF CurrentVals
  <2>3. QED BY <1>1, <2>1, <2>2 DEF Protocol
<1>15. m_is_empty' = m_is_empty
  BY <1>1 DEF index
<1>16. QED BY <1>1, <1>2, <1>7, <1>10, <1>11, <1>13, <1>14, <1>15 DEF IInv

\* Once the edge is bound one edge is left, and an end of it is one value.
LEMMA OneEnd ==
  ASSUME StateTypes, Bindings, Intervals, Current # {}, m_level = 2, NEW x \in Free, x # "p"
  PROVE  /\ CurrentVals(x) = {EndOf(x, EdgeBound)} /\ EndOf(x, EdgeBound) \in Nat \ {0}
<1>1. IsGraph(edges) /\ IsRing(R, edges)
  BY RingHere
<1>2. /\ m_state[0] \in Terms /\ m_state[1] \in Terms /\ m_state[0] # m_state[1]
      /\ x \in Terms /\ x # m_state[0] /\ x # m_state[1]
  BY FreeIs
<1>3. Current \in SUBSET edges
  BY ValsAre
<1>4. IsNumbering(edges, Pos(edges))
  BY <1>1, EdgeFacts
<1>5. \A e \in Current : Pos(edges)[e] = EdgeBound
  BY <1>2, LevelHolds DEF EdgeBound, ValOf, Terms
<1>6. PICK e \in Current : TRUE
  OBVIOUS
<1>7. \A f \in Current : f = e
  BY <1>3, <1>4, <1>5, <1>6 DEF IsNumbering
<1>8. EndOf(x, EdgeBound) = ValOf(edges, e, x)
  <2>1. e \in edges /\ EdgeBound = Pos(edges)[e]
    BY <1>3, <1>5
  <2>2. GetS(R, Pos(edges)[e]) = e.s /\ GetO(R, Pos(edges)[e]) = e.o
    BY <1>1, <2>1, Ends
  <2>3. x = "s" \/ x = "o"
    BY <1>2 DEF Terms
  <2>4. QED BY <2>1, <2>2, <2>3 DEF EndOf, ValOf
<1>9. CurrentVals(x) = {EndOf(x, EdgeBound)}
  BY <1>6, <1>7, <1>8 DEF CurrentVals
<1>10. CurrentVals(x) \in SUBSET (Nat \ {0})
  BY <1>2, ValsAre
<1>11. QED BY <1>9, <1>10

\* The scan of the edge between two ends visits the interval of the last level, in the order of ids.
LEMMA ScanIs ==
  ASSUME StateTypes, Bindings, Intervals, Current # {}, m_level = 2, "p" \in Free
  PROVE  LET I == m_intervals[2]
         IN  /\ I.l \in Int /\ I.r \in Int /\ I.l <= I.r
             /\ LastEdge(I.l) = LeastFrom(CurrentVals("p"), NoBound)
             /\ \A j \in I.l .. I.r :
                  LeastFrom(CurrentVals("p"), LastEdge(j) + 1) = IF j + 1 > I.r THEN 0 ELSE LastEdge(j + 1)
<1> DEFINE E == edges
           I == m_intervals[2]
<1>1. IsGraph(E) /\ IsRing(R, E)
  BY RingHere
<1>2. m_state[0] # "p" /\ m_state[1] # "p"
  BY FreeIs
<1>3. CurrentVals("p") = Ids(E, Current) /\ Current \in SUBSET E
  BY ValsAre
<1>4. IsFiniteSet(E)
  BY <1>1, EdgeFacts
<1>5. /\ IsNumbering(E, LastOrder) /\ Spans(I.l, I.r, Current, E, LastOrder)
      /\ \A e \in Current : LastEdge(LastOrder[e]) = Pos(E)[e]
      /\ \A e, f \in Current : LastOrder[e] < LastOrder[f] <=> Pos(E)[e] < Pos(E)[f]
  BY <1>2, LastLevel DEF Holds
<1>6. I.l <= I.r /\ \A i \in I.l .. I.r : \E e \in Current : LastOrder[e] = i
  BY <1>4, <1>5, SpanSize
<1>7. I.l \in Int /\ I.r \in Int
  BY <1>5 DEF Spans
<1>8. LastEdge(I.l) = LeastFrom(CurrentVals("p"), NoBound)
  <2>1. I.l \in I.l .. I.r
    BY <1>6, <1>7
  <2>2. PICK e \in Current : LastOrder[e] = I.l
    BY <1>6, <2>1
  <2>3. LeastFrom(Ids(E, Current), NoBound) = Pos(E)[e]
    BY <1>1, <1>5, <2>2, NextInSpan
  <2>4. LastEdge(I.l) = Pos(E)[e]
    BY <1>5, <2>2
  <2>5. QED BY <1>3, <2>3, <2>4
<1>9. ASSUME NEW j \in I.l .. I.r
      PROVE  LeastFrom(CurrentVals("p"), LastEdge(j) + 1) = IF j + 1 > I.r THEN 0 ELSE LastEdge(j + 1)
  <2>1. PICK e \in Current : LastOrder[e] = j
    BY <1>6
  <2>2. LastEdge(j) = Pos(E)[e]
    BY <1>5, <2>1
  <2>3. /\ LastOrder[e] = I.r => LeastFrom(Ids(E, Current), Pos(E)[e] + 1) = 0
        /\ \A f \in Current : LastOrder[f] = LastOrder[e] + 1 =>
             LeastFrom(Ids(E, Current), Pos(E)[e] + 1) = Pos(E)[f]
    BY <1>1, <1>5, NextInSpan
  <2>4. CASE j + 1 > I.r
    <3>1. j = I.r
      BY <1>7, <2>4
    <3>2. QED BY <1>3, <2>1, <2>2, <2>3, <2>4, <3>1
  <2>5. CASE ~(j + 1 > I.r)
    <3>1. j + 1 \in I.l .. I.r
      BY <1>7, <2>5
    <3>2. PICK f \in Current : LastOrder[f] = j + 1
      BY <1>6, <3>1
    <3>3. LastEdge(j + 1) = Pos(E)[f]
      BY <1>5, <3>2
    <3>4. QED BY <1>3, <2>1, <2>2, <2>3, <2>5, <3>2, <3>3
  <2>6. QED BY <2>4, <2>5
<1>10. QED BY <1>6, <1>7, <1>8, <1>9

\* A scan over one value visits it and ends.
LEMMA OneLast ==
  ASSUME NEW v \in Nat \ {0}
  PROVE  LeastFrom({v}, NoBound) = v /\ LeastFrom({v}, v + 1) = 0
<1>1. {v} \in SUBSET (Nat \ {0}) /\ NoBound \in Int /\ v + 1 \in Int /\ NoBound <= v
  BY DEF NoBound
<1>2. QED BY <1>1, LeastFromIs, LeastFromNone

\* seek_last keeps the invariant.
LEMMA SeekLastKeeps ==
  ASSUME IInv, NEW x \in Terms, SeekLast(x)
  PROVE  IInv'
<1>1. /\ ~m_is_empty /\ mode = "idle" /\ m_level = 2 /\ x \in Free
      /\ x = "p" => /\ m_triple_j' = m_intervals[2].l
                    /\ ret' = [x |-> x, c |-> NoBound, v |-> LastEdge(m_intervals[2].l)]
      /\ x # "p" => /\ ret' = [x |-> x, c |-> NoBound, v |-> EndOf(x, EdgeBound)]
                    /\ m_triple_j' = m_triple_j
      /\ mode' = "scan"
      /\ UNCHANGED <<index, m_level, m_state, m_consts, m_intervals, path>>
  BY DEF SeekLast
<1>2. /\ StateTypes /\ Bindings /\ Intervals /\ Current # {}
      /\ m_is_empty <=> Matching = {}
  BY <1>1 DEF IInv
<1>3. UNCHANGED <<index, m_level, m_state, m_consts, path>> /\ UNCHANGED <<index, m_level, m_state, m_consts>>
  BY <1>1
<1>4. /\ Bindings' /\ Free' = Free /\ Current' = Current /\ Matching' = Matching
      /\ \A y : CurrentVals(y)' = CurrentVals(y) /\ \A i : LastEdge(i)' = LastEdge(i)
  BY <1>2, <1>3, Frame
<1>5. /\ ret'.x = x /\ ret'.c = NoBound /\ ret' = [x |-> x, c |-> NoBound, v |-> ret'.v]
      /\ ret'.v = LeastFrom(CurrentVals(x), NoBound)
  <2>1. CASE x = "p"
    <3>1. LastEdge(m_intervals[2].l) = LeastFrom(CurrentVals("p"), NoBound)
      BY <1>1, <1>2, <2>1, ScanIs
    <3>2. QED BY <1>1, <2>1, <3>1
  <2>2. CASE x # "p"
    <3>1. LeastFrom(CurrentVals(x), NoBound) = EndOf(x, EdgeBound)
      BY <1>1, <1>2, <2>2, OneEnd, OneLast
    <3>2. QED BY <1>1, <2>2, <3>1
  <2>3. QED BY <2>1, <2>2
<1>6. StateTypes'
  <2>1. NoBound \in Int
    BY DEF NoBound
  <2>2. ret'.v \in 0 .. R.n + R.maxSO
    BY <1>2, <1>5, <2>1, AnswerTyped
  <2>3. ret' \in [x : Terms \union {"none"}, c : Int, v : 0 .. R.n + R.maxSO]
    BY <1>5, <2>1, <2>2
  <2>4. m_triple_j' \in Int
    <3>1. m_triple_j \in Int
      BY <1>2 DEF StateTypes
    <3>2. x = "p" => m_intervals[2].l \in Int
      BY <1>1, <1>2, ScanIs
    <3>3. QED BY <1>1, <3>1, <3>2
  <2>5. edges' = edges /\ R' = R /\ pat' = pat /\ m_is_empty' = m_is_empty
    BY <1>1 DEF index
  <2>6. QED BY <1>1, <1>2, <2>3, <2>4, <2>5 DEF StateTypes
<1>7. Intervals'
  BY <1>1, <1>2, <1>3, IntervalsStay
<1>8. Kept'
  BY <1>1 DEF Kept
<1>9. x = "p" => ScanAt(ret.v)'
  <2>1. SUFFICES ASSUME x = "p" PROVE ScanAt(ret.v)'
    OBVIOUS
  <2>2. m_triple_j' \in m_intervals[2].l .. m_intervals[2].r
    BY <1>1, <1>2, <2>1, ScanIs
  <2>3. LastEdge(m_triple_j)' = LastEdge(m_intervals[2].l)
    BY <1>1, <1>3, <2>1 DEF LastEdge, index
  <2>4. ret'.v = LastEdge(m_intervals[2].l)
    BY <1>1, <2>1
  <2>5. QED BY <1>1, <2>2, <2>3, <2>4 DEF ScanAt
<1>10. Protocol'
  <2>1. ret'.v = LeastFrom(CurrentVals(ret.x)', ret'.c)
    <3>1. CurrentVals(ret.x)' = CurrentVals(x)
      BY <1>3, <1>4, <1>5 DEF CurrentVals, index
    <3>2. QED BY <1>5, <3>1
  <2>2. ret'.x \in Free' /\ m_level' = 2
    BY <1>1, <1>4, <1>5
  <2>3. QED BY <1>1, <1>5, <1>9, <2>1, <2>2 DEF Protocol
<1>11. m_is_empty' = m_is_empty
  BY <1>1 DEF index
<1>12. QED BY <1>1, <1>2, <1>4, <1>6, <1>7, <1>8, <1>10, <1>11 DEF IInv

\* seek_last_next keeps the invariant.
LEMMA SeekLastNextKeeps ==
  ASSUME IInv, SeekLastNext
  PROVE  IInv'
<1> DEFINE x == ret.x
           next == ret.c + 1
<1>1. /\ mode = "left" /\ mode' = "scan"
      /\ x = "p" => /\ m_triple_j' = m_triple_j + 1
                    /\ ret' = [ret EXCEPT !.c = next, !.v = IF m_triple_j + 1 > m_intervals[2].r THEN 0
                                                            ELSE LastEdge(m_triple_j')]
      /\ x # "p" => ret' = [ret EXCEPT !.c = next, !.v = 0] /\ m_triple_j' = m_triple_j
      /\ UNCHANGED <<index, m_level, m_state, m_consts, m_intervals, path>>
  BY DEF SeekLastNext
<1>2. /\ StateTypes /\ ~m_is_empty /\ Bindings /\ Intervals /\ Current # {} /\ Protocol
      /\ m_is_empty <=> Matching = {}
  BY <1>1 DEF IInv
<1>3. UNCHANGED <<index, m_level, m_state, m_consts, path>> /\ UNCHANGED <<index, m_level, m_state, m_consts>>
  BY <1>1
<1>4. /\ Bindings' /\ Free' = Free /\ Current' = Current /\ Matching' = Matching
      /\ \A y : CurrentVals(y)' = CurrentVals(y) /\ \A i : LastEdge(i)' = LastEdge(i)
  BY <1>2, <1>3, Frame
<1>5. /\ x \in Free /\ m_level = 2 /\ ret.c \in CurrentVals(x)
      /\ x = "p" => m_triple_j \in m_intervals[2].l .. m_intervals[2].r /\ LastEdge(m_triple_j) = ret.c
  BY <1>1, <1>2 DEF Protocol, ScanAt
<1>6. /\ ret \in [x : Terms \union {"none"}, c : Int, v : 0 .. R.n + R.maxSO]
      /\ m_triple_j \in Int /\ x \in Terms
  BY <1>2, <1>5, FreeIs DEF StateTypes
<1>7. /\ ret'.x = x /\ ret'.c = next /\ ret' = [x |-> x, c |-> next, v |-> ret'.v]
      /\ next \in Int /\ m_triple_j' \in Int
      /\ ret'.v = LeastFrom(CurrentVals(x), next)
      /\ x = "p" /\ ret'.v # 0 => m_triple_j' \in m_intervals[2].l .. m_intervals[2].r /\ LastEdge(m_triple_j') = ret'.v
  <2>1. CASE x = "p"
    <3> DEFINE I == m_intervals[2]
    <3>1. /\ I.l \in Int /\ I.r \in Int
          /\ LeastFrom(CurrentVals("p"), LastEdge(m_triple_j) + 1) =
               IF m_triple_j + 1 > I.r THEN 0 ELSE LastEdge(m_triple_j + 1)
      BY <1>2, <1>5, <2>1, ScanIs
    <3>2. m_triple_j' = m_triple_j + 1
      BY <1>1, <2>1
    <3>3. LeastFrom(CurrentVals(x), next) = IF m_triple_j + 1 > I.r THEN 0 ELSE LastEdge(m_triple_j')
      BY <1>5, <2>1, <3>1, <3>2
    <3>4. ret' = [ret EXCEPT !.c = next, !.v = LeastFrom(CurrentVals(x), next)]
      BY <1>1, <2>1, <3>3
    <3>5. m_triple_j + 1 > I.r \/ m_triple_j' \in I.l .. I.r
      BY <1>5, <2>1, <3>1, <3>2
    <3> HIDE DEF next
    <3>6. ret'.v = LeastFrom(CurrentVals(x), next)
      BY <1>6, <3>4
    <3>7. /\ ret'.x = x /\ ret'.c = next /\ ret' = [x |-> x, c |-> next, v |-> ret'.v]
      BY <1>6, <3>4
    <3>8. next \in Int /\ m_triple_j' \in Int
      BY <1>6, <3>2 DEF next
    <3>9. ret'.v # 0 => m_triple_j' \in I.l .. I.r /\ LastEdge(m_triple_j') = ret'.v
      BY <3>3, <3>5, <3>6
    <3>10. QED BY <3>6, <3>7, <3>8, <3>9
  <2>2. CASE x # "p"
    <3> DEFINE v == EndOf(x, EdgeBound)
    <3>1. CurrentVals(x) = {v} /\ v \in Nat \ {0}
      BY <1>2, <1>5, <2>2, OneEnd
    <3> HIDE DEF v
    <3>2. ret.c = v
      BY <1>5, <3>1
    <3>3. LeastFrom(CurrentVals(x), next) = 0
      BY <3>1, <3>2, OneLast
    <3>4. ret' = [ret EXCEPT !.c = next, !.v = 0] /\ m_triple_j' = m_triple_j
      BY <1>1, <2>2
    <3>5. next \in Int
      BY <1>6
    <3> HIDE DEF next
    <3>6. ret'.x = x /\ ret'.c = next /\ ret'.v = 0 /\ ret' = [x |-> x, c |-> next, v |-> ret'.v]
      BY <1>6, <3>4
    <3>7. QED BY <1>6, <2>2, <3>3, <3>4, <3>5, <3>6
  <2>3. QED BY <2>1, <2>2
<1> HIDE DEF next
<1>8. StateTypes'
  <2>1. ret'.v \in 0 .. R.n + R.maxSO
    BY <1>2, <1>6, <1>7, AnswerTyped
  <2>2. ret' \in [x : Terms \union {"none"}, c : Int, v : 0 .. R.n + R.maxSO]
    BY <1>6, <1>7, <2>1
  <2>3. edges' = edges /\ R' = R /\ pat' = pat /\ m_is_empty' = m_is_empty
    BY <1>1 DEF index
  <2>4. QED BY <1>1, <1>2, <1>7, <2>2, <2>3 DEF StateTypes
<1>9. Intervals'
  BY <1>1, <1>2, <1>3, IntervalsStay
<1>10. Kept'
  BY <1>1 DEF Kept
<1>11. x = "p" /\ ret'.v # 0 => ScanAt(ret.v)'
  <2>1. SUFFICES ASSUME x = "p", ret'.v # 0 PROVE ScanAt(ret.v)'
    OBVIOUS
  <2>2. LastEdge(m_triple_j)' = LastEdge(m_triple_j')
    BY <1>3 DEF LastEdge, index
  <2>3. QED BY <1>1, <1>7, <2>1, <2>2 DEF ScanAt
<1>12. Protocol'
  <2>1. ret'.v = LeastFrom(CurrentVals(ret.x)', ret'.c)
    <3>1. CurrentVals(ret.x)' = CurrentVals(x)
      BY <1>3, <1>4, <1>7 DEF CurrentVals, index
    <3>2. QED BY <1>7, <3>1
  <2>2. ret'.x \in Free' /\ m_level' = 2
    BY <1>1, <1>4, <1>5, <1>7
  <2>3. QED BY <1>1, <1>7, <1>11, <2>1, <2>2 DEF Protocol
<1>13. m_is_empty' = m_is_empty
  BY <1>1 DEF index
<1>14. QED BY <1>1, <1>2, <1>4, <1>8, <1>9, <1>10, <1>12, <1>13 DEF IInv

\* The edges that agree with less are more.
LEMMA FitsShrink ==
  ASSUME NEW E, NEW t, NEW st, NEW cs
  PROVE  /\ Fits(E, t, st, cs, 1) \subseteq Fits(E, t, st, cs, 0)
         /\ Fits(E, t, st, cs, 2) \subseteq Fits(E, t, st, cs, 1)
BY DEF Fits

\* up keeps the invariant.
LEMMA UpKeeps ==
  ASSUME IInv, Up
  PROVE  IInv'
<1> DEFINE n == Len(path)
           last == path[n]
           k == Offset(pat)
<1>1. /\ path # <<>> /\ m_level' = IF m_level = 0 THEN 0 ELSE m_level - 1
      /\ path' = SubSeq(path, 1, n - 1) /\ ret' = [x |-> last.x, c |-> last.v, v |-> 0]
      /\ mode' = IF mode = "under" THEN "left" ELSE "back"
      /\ UNCHANGED <<index, m_state, m_consts, m_intervals, m_triple_j>>
  BY DEF Up
<1>2. /\ StateTypes /\ ~m_is_empty /\ Bindings /\ Intervals /\ Current # {} /\ Protocol
      /\ m_is_empty <=> Matching = {}
  BY <1>1 DEF IInv
<1>3. /\ edges' = edges /\ R' = R /\ pat' = pat /\ m_is_empty' = m_is_empty
      /\ m_state' = m_state /\ m_consts' = m_consts /\ m_intervals' = m_intervals /\ m_triple_j' = m_triple_j
  BY <1>1 DEF index
<1>4. /\ path \in Seq([x : Terms, v : Nat]) /\ DOMAIN path = 1 .. n /\ n \in Nat /\ m_level \in 0 .. 3
      /\ k \in 0 .. 2 /\ m_level = k + n /\ \A d \in 1 .. n : path[d].x \in Terms /\ path[d].v \in Nat
  BY <1>2, PathIs DEF StateTypes
<1>5. n # 0
  BY <1>1, <1>4, EmptySeq
<1>6. n \in 1 .. n /\ n - 1 \in Nat /\ m_level' = m_level - 1 /\ m_level \in 1 .. 3
  BY <1>1, <1>4, <1>5
<1>7. /\ path' \in Seq([x : Terms, v : Nat]) /\ Len(path') = n - 1
      /\ \A d \in 1 .. n - 1 : path'[d] = path[d]
  <2> DEFINE S == [x : Terms, v : Nat]
  <2>1. path \in Seq(S) /\ 1 \in 1 .. n + 1 /\ n - 1 \in 1 - 1 .. n
    BY <1>4, <1>6
  <2> HIDE DEF S
  <2>2. /\ SubSeq(path, 1, n - 1) \in Seq(S) /\ Len(SubSeq(path, 1, n - 1)) = n - 1
        /\ \A d \in 1 .. n - 1 : SubSeq(path, 1, n - 1)[d] = path[d]
    BY <1>4, <1>6, <2>1, SubSeqProperties
  <2>3. QED BY <1>1, <2>2 DEF S
<1>8. Offset(pat)' = k /\ Variables' = Variables
  BY <1>3 DEF Offset, Variables
<1>9. /\ \A d \in 1 .. n : /\ path[d].x \in Variables
                           /\ \A f \in 1 .. n : path[d].x = path[f].x => d = f
                           /\ k + d - 1 < 2 => m_state[k + d - 1] = path[d].x /\ m_consts[k + d - 1] = path[d].v
      /\ k = 2 => m_state[0] = "s" /\ m_consts[0] = pat.s /\ m_state[1] = "o" /\ m_consts[1] = pat.o
      /\ k = 1 => IF pat.s # 0 THEN m_state[0] = "s" /\ m_consts[0] = pat.s
                  ELSE m_state[0] = "o" /\ m_consts[0] = pat.o
  BY <1>2 DEF Bindings
<1> HIDE DEF k
<1>10. \A d \in 1 .. n - 1 : d \in 1 .. n
  BY <1>4
<1>11. Bindings'
  <2>1. m_level' = k + Len(path')
    BY <1>4, <1>6, <1>7
  <2>2. \A d \in 1 .. Len(path') :
          /\ path'[d].x \in Variables
          /\ \A f \in 1 .. Len(path') : path'[d].x = path'[f].x => d = f
          /\ k + d - 1 < 2 => m_state[k + d - 1] = path'[d].x /\ m_consts[k + d - 1] = path'[d].v
    BY <1>7, <1>9, <1>10
  <2>3. QED BY <1>3, <1>8, <1>9, <2>1, <2>2 DEF Bindings
<1>12. last.x \in Free' /\ last.x \in Terms /\ last.v \in Nat
  <2>1. DOMAIN path' = 1 .. n - 1
    BY <1>6, <1>7, LenProperties
  <2>2. \A d \in 1 .. n - 1 : path'[d].x # last.x
    <3>1. \A d \in 1 .. n - 1 : d \in 1 .. n /\ d # n
      <4>1. n \in Nat
        BY <1>4
      <4> HIDE DEF n
      <4>2. QED BY <4>1
    <3>2. \A d \in 1 .. n : path[d].x = path[n].x => d = n
      BY <1>6, <1>9
    <3>3. QED BY <1>7, <3>1, <3>2
  <2>3. last.x \in Variables
    BY <1>6, <1>9
  <2>4. QED BY <1>4, <1>6, <1>8, <2>1, <2>2, <2>3 DEF Free
<1>13. ret'.x = last.x /\ ret'.c = last.v /\ ret'.v = 0
  BY <1>1
<1>14. StateTypes'
  <2>1. ret' \in [x : Terms \union {"none"}, c : Int, v : 0 .. R.n + R.maxSO]
    <3>1. 0 \in 0 .. R.n + R.maxSO
      BY <1>2, RingHere
    <3>2. QED BY <1>1, <1>12, <3>1
  <2>2. m_level' \in 0 .. 3
    BY <1>6
  <2>3. mode' \in {"idle", "leap", "scan", "under", "left", "back"}
    BY <1>1
  <2>4. QED BY <1>2, <1>3, <1>7, <2>1, <2>2, <2>3 DEF StateTypes
<1>15. Intervals'
  <2>1. /\ Interval0(edges, pat, m_state, m_consts, m_intervals)
        /\ m_level' >= 1 => Interval1(edges, pat, m_state, m_consts, m_intervals)
        /\ m_level' >= 2 => Interval2(edges, pat, m_state, m_consts, m_intervals)
    BY <1>2, <1>6 DEF Intervals
  <2>2. QED BY <1>3, <2>1 DEF Intervals
<1>16. Current \subseteq Current' /\ (m_level = 3 => Current' = Current)
  <2>1. Current' = Fits(edges, pat, m_state, m_consts, Top')
    BY <1>3 DEF Current
  <2>2. Current = Fits(edges, pat, m_state, m_consts, Top)
    BY DEF Current
  <2>3. CASE m_level = 1
    <3>1. Top = 1 /\ Top' = 0
      BY <1>6, <2>3 DEF Top
    <3>2. QED BY <2>1, <2>2, <2>3, <3>1, FitsShrink
  <2>4. CASE m_level = 2
    <3>1. Top = 2 /\ Top' = 1
      BY <1>6, <2>4 DEF Top
    <3>2. QED BY <2>1, <2>2, <2>4, <3>1, FitsShrink
  <2>5. CASE m_level = 3
    <3>1. Top = 2 /\ Top' = 2
      BY <1>6, <2>5 DEF Top
    <3>2. QED BY <2>1, <2>2, <3>1
  <2>6. QED BY <1>6, <2>3, <2>4, <2>5
<1>17. Kept'
  BY <1>1 DEF Kept
<1>18. Protocol'
  <2>1. CASE mode = "under"
    <3>1. m_level = 3 /\ last.v \in CurrentVals(last.x) /\ (last.x = "p" => ScanAt(last.v))
      BY <1>2, <2>1 DEF Protocol
    <3>2. mode' = "left" /\ m_level' = 2
      BY <1>1, <1>6, <2>1, <3>1
    <3>3. ret'.c \in CurrentVals(ret.x)'
      <4>1. CurrentVals(ret.x)' = CurrentVals(last.x)
        BY <1>3, <1>13, <1>16, <3>1 DEF CurrentVals
      <4>2. QED BY <1>13, <3>1, <4>1
    <3>4. ret'.x = "p" => ScanAt(ret.c)'
      BY <1>3, <1>13, <3>1 DEF ScanAt, LastEdge
    <3>5. QED BY <1>12, <1>13, <3>2, <3>3, <3>4 DEF Protocol
  <2>2. CASE mode # "under"
    <3>1. mode' = "back"
      BY <1>1, <2>2
    <3>2. QED BY <1>12, <1>13, <3>1 DEF Protocol
  <2>3. QED BY <2>1, <2>2
<1>19. Current' # {} /\ Matching' = Matching
  BY <1>2, <1>3, <1>16 DEF Matching
<1>20. QED BY <1>2, <1>3, <1>11, <1>14, <1>15, <1>17, <1>18, <1>19 DEF IInv

\* The edges of A whose term x is c.
With(E, A, x, c) == {e \in A : ValOf(E, e, x) = c}

\* The edges with a value at an end.
LEMMA WithIs ==
  ASSUME NEW E, NEW A, NEW c
  PROVE  With(E, A, "s", c) = OfSubject(A, c) /\ With(E, A, "o", c) = OfObject(A, c)
BY DEF With, ValOf, OfSubject, OfObject

\* Each level narrows the one above.
LEMMA FitsNext ==
  ASSUME NEW E, NEW t, NEW st, NEW cs
  PROVE  /\ Fits(E, t, st, cs, 0) = Labelled(E, t.label)
         /\ Fits(E, t, st, cs, 1) = With(E, Fits(E, t, st, cs, 0), st[0], cs[0])
         /\ Fits(E, t, st, cs, 2) = With(E, Fits(E, t, st, cs, 1), st[1], cs[1])
BY DEF Fits, With, Labelled

\* A level holds the same while it and those above it are as they were.
LEMMA Level0Stays ==
  ASSUME NEW E, NEW t, NEW st, NEW cs, NEW ints, NEW st2, NEW cs2, NEW ints2,
         Interval0(E, t, st, cs, ints), ints2[0] = ints[0]
  PROVE  Interval0(E, t, st2, cs2, ints2)
<1>1. Fits(E, t, st2, cs2, 0) = Fits(E, t, st, cs, 0)
  BY FitsNext
<1>2. QED BY <1>1 DEF Interval0

\* The same, for level 1 and the value bound above it.
LEMMA Level1Stays ==
  ASSUME NEW E, NEW t, NEW st, NEW cs, NEW ints, NEW st2, NEW cs2, NEW ints2,
         Interval1(E, t, st, cs, ints), st2[0] = st[0], cs2[0] = cs[0], ints2[1] = ints[1]
  PROVE  /\ Interval1(E, t, st2, cs2, ints2)
         /\ Fits(E, t, st2, cs2, 1) = Fits(E, t, st, cs, 1)
<1>1. Fits(E, t, st2, cs2, 1) = Fits(E, t, st, cs, 1)
  BY FitsNext
<1>2. QED BY <1>1 DEF Interval1

\* The same, for level 2 and the values bound above it.
LEMMA Level2Stays ==
  ASSUME NEW E, NEW t, NEW st, NEW cs, NEW ints, NEW st2, NEW cs2, NEW ints2,
         Interval2(E, t, st, cs, ints), st2[0] = st[0], cs2[0] = cs[0],
         st2[1] = st[1], cs2[1] = cs[1], ints2[2] = ints[2]
  PROVE  /\ Interval2(E, t, st2, cs2, ints2)
         /\ Fits(E, t, st2, cs2, 2) = Fits(E, t, st, cs, 2)
<1>1. Fits(E, t, st2, cs2, 1) = Fits(E, t, st, cs, 1)
  BY FitsNext
<1>2. Fits(E, t, st2, cs2, 2) = Fits(E, t, st, cs, 2)
  BY <1>1, FitsNext
<1>3. QED BY <1>2 DEF Interval2

\* What the edges that match have is in the alphabets.
LEMMA ValIsUsed ==
  ASSUME StateTypes, NEW x \in Terms, NEW c \in CurrentVals(x)
  PROVE  /\ c \in Nat \ {0} /\ c \in 0 .. R.n + R.maxSO
         /\ x = "p" => c \in 1 .. R.n
         /\ x # "p" => c \in 1 .. R.maxSO
         /\ With(edges, Current, x, c) # {}
<1>1. /\ CurrentVals(x) \in SUBSET (Nat \ {0}) /\ CurrentVals(x) \in SUBSET (0 .. R.n + R.maxSO)
      /\ CurrentVals(x) \in SUBSET (1 .. IF x = "p" THEN R.n ELSE R.maxSO)
  BY ValsAre
<1>2. With(edges, Current, x, c) # {}
  BY DEF CurrentVals, With
<1>3. QED BY <1>1, <1>2

\* down at level 0.
LEMMA Lower0Holds ==
  ASSUME StateTypes, Bindings, Intervals, Current # {}, m_level = 0,
         NEW x \in Terms, NEW c \in CurrentVals(x), KeptIn(m_intervals, x, c)
  PROVE  /\ Lower0(x, c) \in IntervalsOf(R.n)
         /\ x = "s" => Holds(Lower0(x, c), OfSubject(Current, c), edges, Spo(edges))
         /\ x = "o" => Holds(Lower0(x, c), OfObject(Current, c), edges,
                             IF pat.label = 0 THEN Osp(edges) ELSE Pos(edges))
<1> DEFINE E == edges
           I == m_intervals[0]
           w == pat.label
<1>1. IsGraph(E) /\ IsRing(R, E) /\ R.n \in Nat /\ w \in Nat
  BY RingHere
<1>2. Current = Labelled(E, w) /\ Holds(I, Current, E, Pos(E))
  BY LevelHolds DEF Labelled
<1>3. /\ x = "p" => c \in 1 .. R.n
      /\ x # "p" => c \in 1 .. R.maxSO
  BY ValIsUsed
<1>4. w = 0 => Current = E
  BY <1>2 DEF Labelled
<1>5. w # 0 => Current = OfLabel(E, w) /\ w \in 1 .. R.maxP
  <2>1. w # 0 => Current = OfLabel(E, w)
    BY <1>2 DEF Labelled, OfLabel
  <2>2. w # 0 => w \in 1 .. R.maxP
    BY <1>1, <2>1, UsedIs
  <2>3. QED BY <2>1, <2>2
<1>6. CASE x = "s" /\ w = 0
  <2>1. Lower0(x, c) = Interval(Block(R.o, c))
    BY <1>6 DEF Lower0
  <2>2. Interval(Block(R.o, c)) \in IntervalsOf(R.n) /\ Holds(Interval(Block(R.o, c)), OfSubject(E, c), E, Spo(E))
    BY <1>1, <1>3, <1>6, BlocksHold
  <2>3. QED BY <1>4, <1>6, <2>1, <2>2
<1>7. CASE x = "s" /\ w # 0
  <2> DEFINE J == Interval(Step(R.s, R.o, <<I.l, I.r>>, c))
  <2>1. Lower0(x, c) = J
    BY <1>7 DEF Lower0
  <2>2. J \in IntervalsOf(R.n) /\ Holds(J, OfSubject(Current, c), E, Spo(E))
    BY <1>1, <1>2, <1>3, <1>7, StepsHold
  <2>3. QED BY <1>7, <2>1, <2>2
<1>8. CASE x = "o" /\ w = 0
  <2>1. Lower0(x, c) = Interval(Block(R.p, c))
    BY <1>8 DEF Lower0
  <2>2. Interval(Block(R.p, c)) \in IntervalsOf(R.n) /\ Holds(Interval(Block(R.p, c)), OfObject(E, c), E, Osp(E))
    BY <1>1, <1>3, <1>8, BlocksHold
  <2>3. QED BY <1>4, <1>8, <2>1, <2>2
<1>9. CASE x = "o" /\ w # 0
  <2> DEFINE J == DownKept(R.p, I, w, c)
  <2>1. Lower0(x, c) = J
    BY <1>9 DEF Lower0
  <2>2. I.val = c /\ I.rank = BlockRank(R.p, c, w)
    BY <1>9 DEF KeptIn, KeepsO
  <2>3. J \in IntervalsOf(R.n) /\ Holds(J, OfObject(Current, c), E, Pos(E))
    BY <1>1, <1>2, <1>3, <1>5, <1>9, <2>2, KeptDowns
  <2>4. QED BY <1>9, <2>1, <2>3
<1>10. CASE x = "p"
  <2>1. Lower0(x, c) = Interval(<<c, c>>)
    BY <1>10 DEF Lower0
  <2>2. Lower0(x, c) = [l |-> c, r |-> c, val |-> -1, rank |-> -1]
    BY <2>1, IntervalIs
  <2>3. c \in 1 .. R.n + 1 /\ c \in 0 .. R.n /\ -1 \in Int
    BY <1>1, <1>3, <1>10
  <2>4. QED BY <1>10, <2>2, <2>3 DEF IntervalsOf
<1>11. QED BY <1>6, <1>7, <1>8, <1>9, <1>10 DEF Terms

\* down at level 1.
LEMMA Lower1Holds ==
  ASSUME StateTypes, Bindings, Intervals, Current # {}, m_level = 1,
         NEW x \in Free, NEW c \in CurrentVals(x), KeptIn(m_intervals, x, c)
  PROVE  /\ Lower1(x, c) \in IntervalsOf(R.n)
         /\ m_state[0] # "p" /\ x # "p" =>
              Holds(Lower1(x, c), With(edges, Current, x, c), edges,
                    IF pat.label # 0 /\ x = "s" THEN Spo(edges) ELSE Osp(edges))
<1> DEFINE E == edges
           I == m_intervals[1]
           w == m_consts[0]
<1>1. IsGraph(E) /\ IsRing(R, E) /\ R.n \in Nat /\ pat.label \in Nat
  BY RingHere
<1>2. m_state[0] \in Terms /\ x \in Terms /\ x # m_state[0]
  BY FreeIs
<1>3. /\ x = "p" => c \in 1 .. R.n
      /\ x # "p" => c \in 1 .. R.maxSO
  BY <1>2, ValIsUsed
<1>4. With(E, Current, "s", c) = OfSubject(Current, c) /\ With(E, Current, "o", c) = OfObject(Current, c)
  BY WithIs
<1>5. CASE x = "p"
  <2>1. Lower1(x, c) = Interval(<<c, c>>)
    BY <1>5 DEF Lower1
  <2>2. Lower1(x, c) = [l |-> c, r |-> c, val |-> -1, rank |-> -1]
    BY <2>1, IntervalIs
  <2>3. c \in 1 .. R.n + 1 /\ c \in 0 .. R.n /\ -1 \in Int
    BY <1>1, <1>3, <1>5
  <2>4. QED BY <1>5, <2>2, <2>3 DEF IntervalsOf
<1>6. CASE m_state[0] = "p"
  <2>1. Lower1(x, c) = m_intervals[2]
    BY <1>2, <1>6 DEF Lower1
  <2>2. m_intervals[2] \in IntervalsOf(R.n)
    BY DEF StateTypes
  <2>3. QED BY <1>6, <2>1, <2>2
<1>7. CASE x = "o" /\ m_state[0] = "s"
  <2> DEFINE J == Interval(Step(R.o, R.p, <<I.l, I.r>>, c))
  <2>1. Lower1(x, c) = J
    BY <1>7 DEF Lower1
  <2>2. Holds(I, Current, E, Spo(E))
    BY <1>7, LevelHolds
  <2>3. J \in IntervalsOf(R.n) /\ Holds(J, OfObject(Current, c), E, Osp(E))
    BY <1>1, <1>3, <1>7, <2>2, StepsHold
  <2>4. QED BY <1>4, <1>7, <2>1, <2>3
<1>8. CASE x = "s" /\ m_state[0] = "o" /\ pat.label # 0
  <2> DEFINE J == Interval(Step(R.s, R.o, <<I.l, I.r>>, c))
  <2>1. Lower1(x, c) = J
    BY <1>8 DEF Lower1
  <2>2. Holds(I, Current, E, Pos(E))
    BY <1>8, LevelHolds
  <2>3. J \in IntervalsOf(R.n) /\ Holds(J, OfSubject(Current, c), E, Spo(E))
    BY <1>1, <1>3, <1>8, <2>2, StepsHold
  <2>4. QED BY <1>4, <1>8, <2>1, <2>3
<1>9. CASE x = "s" /\ m_state[0] = "o" /\ pat.label = 0
  <2> DEFINE J == DownKept(R.o, I, w, c)
  <2>1. Lower1(x, c) = J
    BY <1>9 DEF Lower1
  <2>2. Holds(I, Current, E, Osp(E)) /\ Current = OfObject(E, w)
    BY <1>9, LevelHolds DEF OfObject
  <2>3. I.val = c /\ I.rank = BlockRank(R.o, c, w)
    BY <1>9 DEF KeptIn, KeepsS
  <2>4. w \in 1 .. R.maxSO
    BY <1>1, <2>2, UsedIs
  <2>5. J \in IntervalsOf(R.n) /\ Holds(J, OfSubject(Current, c), E, Osp(E))
    BY <1>1, <1>3, <1>9, <2>2, <2>3, <2>4, KeptDowns
  <2>6. QED BY <1>4, <1>9, <2>1, <2>5
<1>10. QED BY <1>2, <1>5, <1>6, <1>7, <1>8, <1>9 DEF Terms

\* What a down by the value c of x does to the levels.
StateBelow(x) == IF m_level < 2 THEN [m_state EXCEPT ![m_level] = x] ELSE m_state
ConstsBelow(c) == [m_consts EXCEPT ![m_level] = c]
PathBelow(x, c) == Append(path, [x |-> x, v |-> c])
Went(x, c, st2, cs2, path2) ==
  /\ m_level \in 0 .. 2
  /\ path2 \in Seq([x : Terms, v : Nat]) /\ Len(path2) = Len(path) + 1
  /\ path2[Len(path) + 1] = [x |-> x, v |-> c]
  /\ \A d \in 1 .. Len(path) : path2[d] = path[d]
  /\ \A d \in 0 .. 1 : st2[d] = IF d = m_level THEN x ELSE m_state[d]
  /\ \A d \in 0 .. 2 : cs2[d] = IF d = m_level THEN c ELSE m_consts[d]

\* down extends the levels and the path by one binding.
LEMMA DownBinds ==
  ASSUME StateTypes, Bindings, NEW x \in Free, NEW c \in Nat
  PROVE  Went(x, c, StateBelow(x), ConstsBelow(c), PathBelow(x, c))
<1> DEFINE st2 == StateBelow(x)
           cs2 == ConstsBelow(c)
           path2 == PathBelow(x, c)
<1>1. m_level \in 0 .. 3 /\ m_level # 3 /\ x \in Terms
  BY PathIs, FreeIs
<1>2. m_level \in 0 .. 2
  BY <1>1
<1> DEFINE S == [x : Terms, v : Nat]
           m == [x |-> x, v |-> c]
<1>3. path \in Seq(S) /\ m \in S
  BY <1>1 DEF StateTypes
<1> HIDE DEF S, m
<1>4. /\ Append(path, m) \in Seq(S) /\ Len(Append(path, m)) = Len(path) + 1
      /\ \A d \in 1 .. Len(path) : Append(path, m)[d] = path[d]
      /\ Append(path, m)[Len(path) + 1] = m
  BY <1>3, AppendProperties
<1>5. path2 = Append(path, m)
  BY DEF m, PathBelow
<1>6. path2 \in Seq(S) /\ Len(path2) = Len(path) + 1 /\ path2[Len(path) + 1] = m /\ \A d \in 1 .. Len(path) : path2[d] = path[d]
  BY <1>4, <1>5
<1>7. m_state \in [0 .. 1 -> Terms \union {"none"}] /\ m_consts \in [0 .. 2 -> 0 .. R.n + R.maxSO]
  BY DEF StateTypes
<1>8. \A d \in 0 .. 1 : st2[d] = IF d = m_level THEN x ELSE m_state[d]
  <2>1. CASE m_level < 2
    BY <1>7, <2>1 DEF StateBelow
  <2>2. CASE ~(m_level < 2)
    BY <1>2, <2>2 DEF StateBelow
  <2>3. QED BY <2>1, <2>2
<1>9. \A d \in 0 .. 2 : cs2[d] = IF d = m_level THEN c ELSE m_consts[d]
  BY <1>7 DEF ConstsBelow
<1>10. QED BY <1>2, <1>6, <1>8, <1>9 DEF S, m, Went

\* The levels are still the constants and then the path.
LEMMA DownBindings ==
  ASSUME StateTypes, Bindings, NEW x \in Free, NEW c \in Nat,
         path' = PathBelow(x, c), m_state' = StateBelow(x), m_consts' = ConstsBelow(c),
         m_level' = m_level + 1, UNCHANGED index
  PROVE  Bindings'
<1> DEFINE n == Len(path)
           k == Offset(pat)
<1>1. /\ m_level \in 0 .. 2 /\ Len(path') = n + 1 /\ path'[n + 1] = [x |-> x, v |-> c]
      /\ \A d \in 1 .. n : path'[d] = path[d]
      /\ \A d \in 0 .. 1 : m_state'[d] = IF d = m_level THEN x ELSE m_state[d]
      /\ \A d \in 0 .. 2 : m_consts'[d] = IF d = m_level THEN c ELSE m_consts[d]
  <2>1. Went(x, c, m_state', m_consts', path')
    BY DownBinds
  <2>2. QED BY <2>1 DEF Went
<1>2. n \in Nat /\ k \in 0 .. 2 /\ m_level = k + n /\ DOMAIN path = 1 .. n
  BY PathIs
<1>3. edges' = edges /\ pat' = pat
  BY DEF index
<1>4. Offset(pat)' = k /\ Variables' = Variables
  BY <1>3 DEF Offset, Variables
<1>5. /\ \A d \in 1 .. n : /\ path[d].x \in Variables
                           /\ \A f \in 1 .. n : path[d].x = path[f].x => d = f
                           /\ k + d - 1 < 2 => m_state[k + d - 1] = path[d].x /\ m_consts[k + d - 1] = path[d].v
      /\ k = 2 => m_state[0] = "s" /\ m_consts[0] = pat.s /\ m_state[1] = "o" /\ m_consts[1] = pat.o
      /\ k = 1 => IF pat.s # 0 THEN m_state[0] = "s" /\ m_consts[0] = pat.s
                  ELSE m_state[0] = "o" /\ m_consts[0] = pat.o
  BY DEF Bindings
<1>6. x \in Variables /\ \A d \in 1 .. n : path[d].x # x
  BY <1>2 DEF Free
<1> HIDE DEF n, k
<1>7. k = 2 => m_state'[0] = "s" /\ m_consts'[0] = pat.s /\ m_state'[1] = "o" /\ m_consts'[1] = pat.o
  <2>1. SUFFICES ASSUME k = 2 PROVE m_state'[0] = "s" /\ m_consts'[0] = pat.s /\ m_state'[1] = "o" /\ m_consts'[1] = pat.o
    OBVIOUS
  <2>2. 0 # m_level /\ 1 # m_level /\ 0 \in 0 .. 1 /\ 1 \in 0 .. 1 /\ 0 \in 0 .. 2 /\ 1 \in 0 .. 2
    BY <1>1, <1>2, <2>1
  <2>3. m_state'[0] = m_state[0] /\ m_state'[1] = m_state[1] /\ m_consts'[0] = m_consts[0] /\ m_consts'[1] = m_consts[1]
    BY <1>1, <2>2
  <2>4. QED BY <1>5, <2>1, <2>3
<1>8. k = 1 => m_state'[0] = m_state[0] /\ m_consts'[0] = m_consts[0]
  <2>1. SUFFICES ASSUME k = 1 PROVE m_state'[0] = m_state[0] /\ m_consts'[0] = m_consts[0]
    OBVIOUS
  <2>2. 0 # m_level /\ 0 \in 0 .. 1 /\ 0 \in 0 .. 2
    BY <1>1, <1>2, <2>1
  <2>3. QED BY <1>1, <2>2
<1>9. ASSUME NEW d \in 1 .. n + 1
      PROVE  /\ path'[d].x \in Variables
             /\ \A f \in 1 .. n + 1 : path'[d].x = path'[f].x => d = f
             /\ k + d - 1 < 2 => m_state'[k + d - 1] = path'[d].x /\ m_consts'[k + d - 1] = path'[d].v
  <2>1. \A f \in 1 .. n + 1 : f \in 1 .. n \/ f = n + 1
    BY <1>2
  <2>2. path'[n + 1].x = x /\ path'[n + 1].v = c
    BY <1>1
  <2>3. CASE d \in 1 .. n
    <3>1. path'[d] = path[d]
      BY <1>1, <2>3
    <3>2. \A f \in 1 .. n + 1 : path'[d].x = path'[f].x => d = f
      <4>1. ASSUME NEW f \in 1 .. n + 1, path'[d].x = path'[f].x PROVE d = f
        <5>1. CASE f \in 1 .. n
          BY <1>1, <1>5, <2>3, <3>1, <4>1, <5>1
        <5>2. CASE f = n + 1
          BY <1>6, <2>2, <2>3, <3>1, <4>1, <5>2
        <5>3. QED BY <2>1, <5>1, <5>2
      <4>2. QED BY <4>1
    <3>3. ASSUME k + d - 1 < 2
          PROVE  m_state'[k + d - 1] = path'[d].x /\ m_consts'[k + d - 1] = path'[d].v
      <4>1. k + d - 1 # m_level /\ k + d - 1 \in 0 .. 1 /\ k + d - 1 \in 0 .. 2
        BY <1>2, <2>3, <3>3
      <4>2. m_state'[k + d - 1] = m_state[k + d - 1] /\ m_consts'[k + d - 1] = m_consts[k + d - 1]
        BY <1>1, <4>1
      <4>3. m_state[k + d - 1] = path[d].x /\ m_consts[k + d - 1] = path[d].v
        BY <1>5, <2>3, <3>3
      <4>4. QED BY <3>1, <4>2, <4>3
    <3>4. QED BY <1>5, <2>3, <3>1, <3>2, <3>3
  <2>4. CASE d = n + 1
    <3>1. path'[d].x = x /\ path'[d].v = c
      BY <2>2, <2>4
    <3>2. \A f \in 1 .. n + 1 : path'[d].x = path'[f].x => d = f
      <4>1. ASSUME NEW f \in 1 .. n + 1, path'[d].x = path'[f].x PROVE d = f
        <5>1. CASE f \in 1 .. n
          BY <1>1, <1>6, <3>1, <4>1, <5>1
        <5>2. CASE f = n + 1
          BY <2>4, <5>2
        <5>3. QED BY <2>1, <5>1, <5>2
      <4>2. QED BY <4>1
    <3>3. ASSUME k + d - 1 < 2
          PROVE  m_state'[k + d - 1] = path'[d].x /\ m_consts'[k + d - 1] = path'[d].v
      <4>1. k + d - 1 = m_level /\ k + d - 1 \in 0 .. 1 /\ k + d - 1 \in 0 .. 2
        BY <1>1, <1>2, <2>4, <3>3
      <4>2. m_state'[m_level] = x /\ m_consts'[m_level] = c
        BY <1>1, <4>1
      <4>3. QED BY <3>1, <4>1, <4>2
    <3>4. QED BY <1>6, <3>1, <3>2, <3>3
  <2>5. QED BY <2>1, <2>3, <2>4
<1>10. m_level' = k + Len(path')
  BY <1>1, <1>2
<1>11. QED BY <1>1, <1>3, <1>4, <1>5, <1>7, <1>8, <1>9, <1>10 DEF Bindings

\* The intervals and the edges that match, below a down.
LEMMA DownHolds ==
  ASSUME StateTypes, StateTypes', Bindings, Intervals, Current # {},
         NEW x \in Free, NEW c \in CurrentVals(x),
         m_level < 2 => KeptIn(m_intervals, x, c),
         m_state' = StateBelow(x), m_consts' = ConstsBelow(c), m_level' = m_level + 1,
         m_intervals' = CASE m_level = 0 -> [m_intervals EXCEPT ![1] = Lower0(x, c)]
                          [] m_level = 1 -> [m_intervals EXCEPT ![2] = Lower1(x, c)]
                          [] OTHER       -> m_intervals,
         UNCHANGED index
  PROVE  /\ Intervals' /\ Current' # {}
         /\ m_level = 2 => Current' = Current /\ m_intervals' = m_intervals
<1> DEFINE E == edges
           F == Fits(E, pat, m_state', m_consts', 0)
<1>1. edges' = E /\ pat' = pat /\ R' = R
  BY DEF index
<1>2. m_level \in 0 .. 3 /\ x \in Terms /\ m_level # 3 /\ c \in Nat
  BY PathIs, FreeIs, ValIsUsed
<1>3. Went(x, c, m_state', m_consts', PathBelow(x, c))
  BY <1>2, DownBinds
<1>4. /\ \A d \in 0 .. 1 : m_state'[d] = IF d = m_level THEN x ELSE m_state[d]
      /\ \A d \in 0 .. 2 : m_consts'[d] = IF d = m_level THEN c ELSE m_consts[d]
  BY <1>3 DEF Went
<1>5. 0 \in 0 .. 1 /\ 1 \in 0 .. 1 /\ 0 \in 0 .. 2 /\ 1 \in 0 .. 2 /\ 2 \in 0 .. 2
  OBVIOUS
<1>6. With(E, Current, x, c) # {}
  BY <1>2, ValIsUsed
<1>7. m_intervals \in [0 .. 2 -> IntervalsOf(R.n)]
  BY DEF StateTypes
<1>8. /\ Interval0(E, pat, m_state, m_consts, m_intervals)
      /\ m_level >= 1 => Interval1(E, pat, m_state, m_consts, m_intervals)
      /\ m_level >= 2 => Interval2(E, pat, m_state, m_consts, m_intervals)
  BY DEF Intervals
<1>9. Current' = Fits(E, pat, m_state', m_consts', Top')
  BY <1>1 DEF Current
<1>10. CASE m_level = 0
  <2>1. m_intervals' = [m_intervals EXCEPT ![1] = Lower0(x, c)] /\ m_level' = 1
    BY <1>10
  <2>2. m_intervals'[0] = m_intervals[0] /\ m_intervals'[1] = Lower0(x, c)
    BY <1>7, <2>1
  <2>3. m_state'[0] = x /\ m_consts'[0] = c
    BY <1>4, <1>5, <1>10
  <2>4. Top = 0 /\ Top' = 1
    BY <1>10, <2>1 DEF Top
  <2>5. Current = Fits(E, pat, m_state, m_consts, 0) /\ Current' = Fits(E, pat, m_state', m_consts', 1)
    BY <1>9, <2>4 DEF Current
  <2>6. Fits(E, pat, m_state', m_consts', 1) = With(E, Current, x, c)
    BY <2>3, <2>5, FitsNext
  <2>7. Interval0(E, pat, m_state', m_consts', m_intervals')
    <3>1. Fits(E, pat, m_state', m_consts', 0) = Fits(E, pat, m_state, m_consts, 0)
      BY FitsNext
    <3>2. QED BY <1>8, <2>2, <3>1 DEF Interval0
  <2>8. /\ x = "s" => Holds(m_intervals'[1], OfSubject(Current, c), E, Spo(E))
        /\ x = "o" => Holds(m_intervals'[1], OfObject(Current, c), E, IF pat.label = 0 THEN Osp(E) ELSE Pos(E))
    <3>1. KeptIn(m_intervals, x, c)
      BY <1>10
    <3>2. QED BY <1>2, <1>10, <2>2, <3>1, Lower0Holds
  <2>9. /\ x = "s" => Fits(E, pat, m_state', m_consts', 1) = OfSubject(Current, c)
        /\ x = "o" => Fits(E, pat, m_state', m_consts', 1) = OfObject(Current, c)
    BY <2>6, WithIs
  <2>10. Interval1(E, pat, m_state', m_consts', m_intervals')
    BY <2>3, <2>8, <2>9 DEF Interval1
  <2>11. Intervals'
    BY <1>1, <2>1, <2>7, <2>10 DEF Intervals
  <2>12. Current' # {}
    BY <1>6, <2>5, <2>6
  <2>13. QED BY <1>10, <2>11, <2>12
<1>11. CASE m_level = 1
  <2>1. m_intervals' = [m_intervals EXCEPT ![2] = Lower1(x, c)] /\ m_level' = 2
    BY <1>11
  <2>2. m_intervals'[0] = m_intervals[0] /\ m_intervals'[1] = m_intervals[1] /\ m_intervals'[2] = Lower1(x, c)
    BY <1>7, <2>1
  <2>3. m_state'[0] = m_state[0] /\ m_consts'[0] = m_consts[0] /\ m_state'[1] = x /\ m_consts'[1] = c
    BY <1>4, <1>5, <1>11
  <2>4. Top = 1 /\ Top' = 2
    BY <1>11, <2>1 DEF Top
  <2>5. Current = Fits(E, pat, m_state, m_consts, 1) /\ Current' = Fits(E, pat, m_state', m_consts', 2)
    BY <1>9, <2>4 DEF Current
  <2>6. /\ Interval0(E, pat, m_state', m_consts', m_intervals')
        /\ Interval1(E, pat, m_state', m_consts', m_intervals')
        /\ Fits(E, pat, m_state', m_consts', 1) = Current
    <3>1. Interval0(E, pat, m_state', m_consts', m_intervals')
      <4>1. Fits(E, pat, m_state', m_consts', 0) = Fits(E, pat, m_state, m_consts, 0)
        BY FitsNext
      <4>2. QED BY <1>8, <2>2, <4>1 DEF Interval0
    <3>2. Interval1(E, pat, m_state, m_consts, m_intervals)
      BY <1>8, <1>11
    <3>3. /\ Interval1(E, pat, m_state', m_consts', m_intervals')
          /\ Fits(E, pat, m_state', m_consts', 1) = Fits(E, pat, m_state, m_consts, 1)
      <4>1. Fits(E, pat, m_state', m_consts', 1) = Fits(E, pat, m_state, m_consts, 1)
        BY <2>3, FitsNext
      <4>2. QED BY <2>2, <2>3, <3>2, <4>1 DEF Interval1
    <3>4. QED BY <2>5, <3>1, <3>3
  <2>7. Fits(E, pat, m_state', m_consts', 2) = With(E, Current, x, c)
    BY <2>3, <2>6, FitsNext
  <2>8. m_state[0] # "p" /\ x # "p" =>
          Holds(m_intervals'[2], With(E, Current, x, c), E, IF pat.label # 0 /\ x = "s" THEN Spo(E) ELSE Osp(E))
    <3>1. KeptIn(m_intervals, x, c)
      BY <1>11
    <3>2. QED BY <1>11, <2>2, <3>1, Lower1Holds
  <2>9. Interval2(E, pat, m_state', m_consts', m_intervals')
    BY <2>3, <2>7, <2>8 DEF Interval2
  <2>10. Intervals'
    BY <1>1, <2>1, <2>6, <2>9 DEF Intervals
  <2>11. Current' # {}
    BY <1>6, <2>5, <2>7
  <2>12. QED BY <1>11, <2>10, <2>11
<1>12. CASE m_level = 2
  <2>1. m_intervals' = m_intervals /\ m_level' = 3
    BY <1>12
  <2>2. m_state'[0] = m_state[0] /\ m_consts'[0] = m_consts[0] /\ m_state'[1] = m_state[1] /\ m_consts'[1] = m_consts[1]
    BY <1>4, <1>5, <1>12
  <2>3. Top = 2 /\ Top' = 2
    BY <1>12, <2>1 DEF Top
  <2>4. Current = Fits(E, pat, m_state, m_consts, 2) /\ Current' = Fits(E, pat, m_state', m_consts', 2)
    BY <1>9, <2>3 DEF Current
  <2>5. /\ Interval0(E, pat, m_state', m_consts', m_intervals')
        /\ Interval1(E, pat, m_state', m_consts', m_intervals')
        /\ Interval2(E, pat, m_state', m_consts', m_intervals')
        /\ Fits(E, pat, m_state', m_consts', 2) = Fits(E, pat, m_state, m_consts, 2)
    <3>1. Interval1(E, pat, m_state, m_consts, m_intervals) /\ Interval2(E, pat, m_state, m_consts, m_intervals)
      BY <1>8, <1>12
    <3>2. Interval0(E, pat, m_state', m_consts', m_intervals')
      BY <1>8, <2>1, Level0Stays
    <3>3. Interval1(E, pat, m_state', m_consts', m_intervals')
      BY <2>1, <2>2, <3>1, Level1Stays
    <3>4. /\ Interval2(E, pat, m_state', m_consts', m_intervals')
          /\ Fits(E, pat, m_state', m_consts', 2) = Fits(E, pat, m_state, m_consts, 2)
      BY <2>1, <2>2, <3>1, Level2Stays
    <3>5. QED BY <3>2, <3>3, <3>4
  <2>6. Intervals'
    BY <1>1, <2>5 DEF Intervals
  <2>7. QED BY <1>12, <2>1, <2>4, <2>5, <2>6
<1>13. QED BY <1>2, <1>10, <1>11, <1>12

\* down keeps the invariant.
LEMMA DownKeeps ==
  ASSUME IInv, Down
  PROVE  IInv'
<1> DEFINE x == ret.x
           c == ret.v
           n == Len(path)
<1>1. /\ mode \in {"leap", "scan"} /\ c # 0
      /\ m_intervals' = CASE m_level = 0 -> [m_intervals EXCEPT ![1] = Lower0(x, c)]
                          [] m_level = 1 -> [m_intervals EXCEPT ![2] = Lower1(x, c)]
                          [] OTHER       -> m_intervals
      /\ m_state' = StateBelow(x) /\ m_consts' = ConstsBelow(c) /\ path' = PathBelow(x, c)
      /\ m_level' = m_level + 1 /\ ret' = [x |-> x, c |-> c, v |-> 0]
      /\ mode' = IF mode = "scan" THEN "under" ELSE "idle"
      /\ UNCHANGED <<index, m_triple_j>>
  BY DEF Down, StateBelow, ConstsBelow, PathBelow
<1>2. /\ StateTypes /\ ~m_is_empty /\ Bindings /\ Intervals /\ Current # {} /\ Kept /\ Protocol
      /\ m_is_empty <=> Matching = {}
  BY <1>1 DEF IInv
<1>3. /\ x \in Free /\ c = LeastFrom(CurrentVals(x), ret.c)
      /\ mode = "scan" => m_level = 2
      /\ mode = "leap" => KeptIn(m_intervals, x, c)
      /\ mode = "scan" /\ x = "p" => ScanAt(c)
  BY <1>1, <1>2 DEF Protocol, Kept
<1>4. x \in Terms /\ ret.c \in Int /\ m_level \in 0 .. 2
  <2>1. x \in Terms /\ m_level # 3 /\ m_level \in 0 .. 3
    BY <1>2, <1>3, FreeIs, PathIs
  <2>2. ret.c \in Int
    BY <1>2 DEF StateTypes
  <2>3. QED BY <2>1, <2>2
<1>5. c \in 0 .. R.n + R.maxSO /\ c \in CurrentVals(x)
  BY <1>1, <1>2, <1>3, <1>4, AnswerTyped
<1>6. c \in Nat
  BY <1>2, <1>4, <1>5, ValIsUsed
<1>7. Went(x, c, m_state', m_consts', path')
  BY <1>1, <1>2, <1>3, <1>6, DownBinds
<1>8. edges' = edges /\ R' = R /\ pat' = pat /\ m_is_empty' = m_is_empty /\ UNCHANGED index
  BY <1>1 DEF index
<1> HIDE DEF x, c
<1>9. m_level < 2 => KeptIn(m_intervals, x, c)
  BY <1>1, <1>3
<1>10. StateTypes'
  <2>1. m_state \in [0 .. 1 -> Terms \union {"none"}] /\ m_consts \in [0 .. 2 -> 0 .. R.n + R.maxSO]
    BY <1>2 DEF StateTypes
  <2>2. m_state' \in [0 .. 1 -> Terms \union {"none"}]
    BY <1>1, <1>4, <2>1 DEF StateBelow
  <2>3. m_consts' \in [0 .. 2 -> 0 .. R.n + R.maxSO]
    BY <1>1, <1>4, <1>5, <2>1 DEF ConstsBelow
  <2>4. m_intervals' \in [0 .. 2 -> IntervalsOf(R.n)]
    <3>1. m_intervals \in [0 .. 2 -> IntervalsOf(R.n)]
      BY <1>2 DEF StateTypes
    <3>2. m_level = 0 => Lower0(x, c) \in IntervalsOf(R.n)
      BY <1>2, <1>4, <1>5, <1>9, Lower0Holds
    <3>3. m_level = 1 => Lower1(x, c) \in IntervalsOf(R.n)
      BY <1>2, <1>3, <1>5, <1>9, Lower1Holds
    <3>4. CASE m_level = 0
      BY <1>1, <3>1, <3>2, <3>4
    <3>5. CASE m_level = 1
      BY <1>1, <3>1, <3>3, <3>5
    <3>6. CASE m_level = 2
      BY <1>1, <3>1, <3>6
    <3>7. QED BY <1>4, <3>4, <3>5, <3>6
  <2>5. m_level' \in 0 .. 3
    BY <1>1, <1>4
  <2>6. path' \in Seq([x : Terms, v : Nat])
    BY <1>7 DEF Went
  <2>7. ret' \in [x : Terms \union {"none"}, c : Int, v : 0 .. R.n + R.maxSO]
    <3>1. 0 \in 0 .. R.n + R.maxSO /\ c \in Int
      BY <1>2, <1>6, RingHere
    <3>2. QED BY <1>1, <1>4, <3>1
  <2>8. mode' \in {"idle", "leap", "scan", "under", "left", "back"}
    BY <1>1
  <2>9. /\ edges \in Graphs /\ R = Build(edges) /\ pat \in Patterns /\ m_is_empty \in BOOLEAN /\ m_triple_j \in Int
    BY <1>2 DEF StateTypes
  <2>10. QED BY <1>1, <1>8, <2>2, <2>3, <2>4, <2>5, <2>6, <2>7, <2>8, <2>9 DEF StateTypes
<1>11. Bindings'
  BY <1>1, <1>2, <1>3, <1>6, <1>8, DownBindings
<1>12. /\ Intervals' /\ Current' # {}
       /\ m_level = 2 => Current' = Current /\ m_intervals' = m_intervals
  BY <1>1, <1>2, <1>3, <1>5, <1>8, <1>9, <1>10, DownHolds
<1>13. Kept'
  BY <1>1 DEF Kept
<1>14. ret'.x = x /\ ret'.c = c /\ ret'.v = 0
  BY <1>1
<1>15. Protocol'
  <2>1. CASE mode = "leap"
    <3>1. mode' = "idle"
      BY <1>1, <2>1
    <3>2. QED BY <1>14, <3>1 DEF Protocol
  <2>2. CASE mode = "scan"
    <3>1. mode' = "under" /\ m_level = 2 /\ m_level' = 3
      BY <1>1, <1>3, <2>2
    <3>2. Len(path') = n + 1 /\ path'[n + 1] = [x |-> x, v |-> c] /\ n \in Nat
      BY <1>2, <1>7, PathIs DEF Went
    <3>3. path' # <<>>
      <4>1. n + 1 # 0
        <5>1. n \in Nat
          BY <3>2
        <5> HIDE DEF n
        <5>2. QED BY <5>1
      <4>2. Len(path') # 0
        BY <3>2, <4>1
      <4>3. QED BY <4>2
    <3>4. path'[Len(path')].x = x /\ path'[Len(path')].v = c
      BY <3>2
    <3>5. \A y : CurrentVals(y)' = CurrentVals(y)
      BY <1>8, <1>12, <3>1 DEF CurrentVals
    <3>6. path'[Len(path')].v \in CurrentVals(path[Len(path)].x)'
      <4>1. CurrentVals(path[Len(path)].x)' = CurrentVals(x)
        BY <1>8, <1>12, <3>1, <3>4 DEF CurrentVals
      <4>2. QED BY <1>5, <3>4, <4>1
    <3>7. ASSUME x = "p" PROVE ScanAt(path[Len(path)].v)'
      <4>1. ScanAt(c)
        BY <1>3, <2>2, <3>7
      <4>2. m_state'[1] = m_state[1] /\ m_consts'[0] = m_consts[0]
        <5>1. 1 \in 0 .. 1 /\ 0 \in 0 .. 2 /\ 1 # m_level /\ 0 # m_level
          BY <3>1
        <5>2. QED BY <1>7, <5>1 DEF Went
      <4>3. LastEdge(m_triple_j)' = LastEdge(m_triple_j)
        BY <1>1, <1>8, <4>2 DEF LastEdge
      <4>4. QED BY <1>1, <1>12, <3>1, <3>4, <4>1, <4>3 DEF ScanAt
    <3>8. QED BY <1>14, <3>1, <3>3, <3>4, <3>6, <3>7 DEF Protocol
  <2>3. QED BY <1>1, <2>1, <2>2
<1>16. Matching' = Matching
  BY <1>8 DEF Matching
<1>17. QED BY <1>2, <1>8, <1>10, <1>11, <1>12, <1>13, <1>15, <1>16 DEF IInv

-----------------------------------------------------------------------------
(***************************************************************************)
(* The invariant holds.                                                    *)
(***************************************************************************)
LEMMA StutterKeeps ==
  ASSUME IInv, UNCHANGED vars
  PROVE  IInv'
<1>1. /\ UNCHANGED <<index, m_level, m_state, m_consts, path>>
      /\ UNCHANGED <<index, m_level, m_state, m_consts>>
      /\ edges' = edges /\ R' = R /\ pat' = pat /\ m_is_empty' = m_is_empty
      /\ m_level' = m_level /\ m_state' = m_state /\ m_consts' = m_consts
      /\ m_intervals' = m_intervals /\ m_triple_j' = m_triple_j
      /\ path' = path /\ mode' = mode /\ ret' = ret
  BY DEF vars, index, iter
<1>2. /\ Bindings => Bindings'
      /\ Free' = Free /\ Current' = Current /\ Matching' = Matching
      /\ \A ints, x, v : KeptIn(ints, x, v) => KeptIn(ints, x, v)'
  BY <1>1, Frame
<1>3. StateTypes'
  BY <1>1 DEF IInv, StateTypes
<1>4. Intervals => Intervals'
  BY <1>1, IntervalsStay
<1>5. \A x : CurrentVals(x)' = CurrentVals(x)
  BY <1>1, <1>2 DEF CurrentVals
<1>6. Kept => Kept'
  BY <1>1 DEF Kept, KeptIn, KeepsO, KeepsS
<1>7. Protocol => Protocol'
  <2>1. \A v : ScanAt(v)' = ScanAt(v)
    BY <1>1 DEF ScanAt, LastEdge
  <2>2. CurrentVals(ret.x)' = CurrentVals(ret.x) /\ CurrentVals(path[Len(path)].x)' = CurrentVals(path[Len(path)].x)
    BY <1>1, <1>2 DEF CurrentVals
  <2>3. ScanAt(ret.v)' = ScanAt(ret.v) /\ ScanAt(ret.c)' = ScanAt(ret.c)
        /\ ScanAt(path[Len(path)].v)' = ScanAt(path[Len(path)].v)
    BY <1>1 DEF ScanAt, LastEdge
  <2>4. QED BY <1>1, <1>2, <2>2, <2>3 DEF Protocol
<1>8. QED BY <1>1, <1>2, <1>3, <1>4, <1>6, <1>7 DEF IInv

\* Every step keeps the invariant.
LEMMA NextInv == IInv /\ [Next]_vars => IInv'
<1> SUFFICES ASSUME IInv, [Next]_vars PROVE IInv'
  OBVIOUS
<1>1. ASSUME NEW x \in Terms, NEW c \in Asked, Leap(x, c) PROVE IInv'
  BY <1>1, LeapKeeps
<1>2. ASSUME NEW x \in Terms, SeekLast(x) PROVE IInv'
  BY <1>2, SeekLastKeeps
<1>3. CASE SeekLastNext
  BY <1>3, SeekLastNextKeeps
<1>4. CASE Down
  BY <1>4, DownKeeps
<1>5. CASE Up
  BY <1>5, UpKeeps
<1>6. CASE UNCHANGED vars
  BY <1>6, StutterKeeps
<1>7. QED BY <1>1, <1>2, <1>3, <1>4, <1>5, <1>6 DEF Next

\* The levels hold what is bound, at every step of the join.
THEOREM InvariantHolds == NoLabelConst /\ Spec => []IInv
<1>1. NoLabelConst /\ Init => IInv
  BY InitInv
<1>2. QED BY <1>1, NextInv, PTL DEF Spec

\* TypeOK: positions stay in the columns, and values in the alphabets.
THEOREM TypesHold == NoLabelConst /\ Spec => []TypeOK
<1>1. IInv => TypeOK
  <2> SUFFICES ASSUME IInv PROVE TypeOK
    OBVIOUS
  <2>1. StateTypes
    BY DEF IInv
  <2>2. m_intervals \in [0 .. 2 -> IntervalsOf(R.n)]
    BY <2>1 DEF StateTypes
  <2>3. \A d \in 0 .. 2 : m_intervals[d].l \in 1 .. R.n + 1 /\ m_intervals[d].r \in 0 .. R.n
    BY <2>2 DEF IntervalsOf
  <2>4. ret.v \in 0 .. R.n + R.maxSO
    BY <2>1 DEF StateTypes
  <2>5. QED BY <2>1, <2>3, <2>4 DEF TypeOK, StateTypes
<1>2. QED BY <1>1, InvariantHolds, PTL

\* EmptyIffNoMatch: the constructor reports an empty pattern exactly when no edge matches.
THEOREM EmptyHolds == NoLabelConst /\ Spec => []EmptyIffNoMatch
<1>1. IInv => EmptyIffNoMatch
  BY DEF IInv, EmptyIffNoMatch, Matches
<1>2. QED BY <1>1, InvariantHolds, PTL

\* Matches are as many as the edges they come from.
LEMMA TermsCount ==
  ASSUME StateTypes, NEW A \in SUBSET edges
  PROVE  Cardinality({Term(e) : e \in A}) = Cardinality(A)
<1> DEFINE E == edges
           T == {Term(e) : e \in A}
           f == [e \in A |-> Term(e)]
<1>1. IsFiniteSet(A)
  BY RingHere, FS_Subset DEF IsGraph
<1>2. IsNumbering(E, Pos(E))
  BY RingHere, EdgeFacts
<1>3. \A e \in E : Term(e)["p"] = Pos(E)[e]
  <2>1. \A e \in E : Term(e)["p"] = ValOf(edges, e, "p")
    BY TermIs DEF Terms
  <2>2. QED BY <2>1 DEF ValOf
<1>4. \A e, g \in A : Term(e) = Term(g) => e = g
  BY <1>2, <1>3 DEF IsNumbering
<1>5. f \in Bijection(A, T)
  <2>1. f \in [A -> T]
    OBVIOUS
  <2>2. \A e, g \in A : f[e] = f[g] => e = g
    BY <1>4
  <2>3. \A t \in T : \E e \in A : f[e] = t
    OBVIOUS
  <2> HIDE DEF f, T
  <2>4. QED BY <2>1, <2>2, <2>3 DEF Bijection, Injection, Surjection, IsInjective
<1>6. ExistsBijection(A, T)
  BY <1>5 DEF ExistsBijection
<1>7. QED BY <1>1, <1>6, FS_Bijection

\* IntervalHoldsMatches: while no edge is bound, the length of the interval by which the join
\* sorts the iterators is the number of the edges that still match.
THEOREM IntervalsHold == NoLabelConst /\ Spec => []IntervalHoldsMatches
<1>1. IInv => IntervalHoldsMatches
  <2> SUFFICES ASSUME IInv, ~m_is_empty, m_level <= 2, \A d \in DOMAIN path : path[d].x # "p"
               PROVE  Size(m_intervals[m_level]) = Cardinality(Agreeing)
    BY DEF IntervalHoldsMatches
  <2>1. StateTypes /\ Bindings /\ Intervals /\ Current # {}
    BY DEF IInv
  <2>2. IsGraph(edges) /\ IsFiniteSet(edges) /\ Current \in SUBSET edges
    BY <2>1, RingHere, ValsAre DEF IsGraph
  <2>3. Agreeing = {Term(e) : e \in Current}
    BY <2>1, AgreeingIs
  <2>4. Cardinality(Agreeing) = Cardinality(Current)
    BY <2>1, <2>2, <2>3, TermsCount
  <2>5. "p" \in Free
    BY DEF Free, Variables
  <2>6. /\ m_level = 1 => m_state[0] \in Terms \ {"p"}
        /\ m_level = 2 => m_state[0] # "p" /\ m_state[1] # "p"
    BY <2>1, <2>5, FreeIs
  <2>7. m_level \in 0 .. 2
    BY <2>1, PathIs
  <2>8. PICK pos : IsNumbering(edges, pos) /\ Holds(m_intervals[m_level], Current, edges, pos)
    <3>1. IsNumbering(edges, Pos(edges)) /\ IsNumbering(edges, Spo(edges)) /\ IsNumbering(edges, Osp(edges))
      BY <2>1, RingHere, EdgeFacts
    <3>2. CASE m_level = 0
      BY <2>1, <3>1, <3>2, LevelHolds
    <3>3. CASE m_level = 1 /\ m_state[0] = "s"
      BY <2>1, <3>1, <3>3, LevelHolds
    <3>4. CASE m_level = 1 /\ m_state[0] = "o"
      <4>1. Holds(m_intervals[1], Current, edges, IF pat.label = 0 THEN Osp(edges) ELSE Pos(edges))
        BY <2>1, <3>4, LevelHolds
      <4>2. QED BY <3>1, <3>4, <4>1
    <3>5. CASE m_level = 2
      BY <2>1, <2>6, <3>5, LastLevel
    <3>6. QED BY <2>6, <2>7, <3>2, <3>3, <3>4, <3>5 DEF Terms
  <2>9. Cardinality(Current) = m_intervals[m_level].r - m_intervals[m_level].l + 1
    BY <2>2, <2>8, SpanSize DEF Holds
  <2>10. QED BY <2>4, <2>9 DEF Size
<1>2. QED BY <1>1, InvariantHolds, PTL

-----------------------------------------------------------------------------
(***************************************************************************)
(* The iterator implements its contract.                                   *)
(***************************************************************************)
\* The values the join can be given for a term are those of the edges of the level.
LEMMA GivenIs ==
  ASSUME IInv, ~m_is_empty, NEW x \in Free
  PROVE  Contract!Free = Free /\ Contract!Given(x) = CurrentVals(x)
<1>1. StateTypes /\ Bindings
  BY DEF IInv
<1>2. m_level <= 2 /\ x \in Terms
  <2>1. m_level \in 0 .. 3 /\ m_level # 3 /\ x \in Terms
    BY <1>1, FreeIs, PathIs
  <2>2. QED BY <2>1
<1>3. {m[x] : m \in Agreeing} = CurrentVals(x)
  BY <1>1, <1>2, AgreeingIs
<1>4. Contract!Agreeing = Agreeing
  BY DEF Contract!Agreeing, Agreeing
<1>5. Contract!Free = Free
  BY DEF Contract!Free, Free
<1>6. QED BY <1>3, <1>4, <1>5 DEF Contract!Given

\* The pattern and its matches never change.
LEMMA PatternStays ==
  ASSUME UNCHANGED index
  PROVE  UNCHANGED Contract!pattern
<1>1. edges' = edges /\ pat' = pat
  BY DEF index
<1>2. Variables' = Variables /\ Matches' = Matches
  BY <1>1 DEF Variables, Matches, Matching, Term
<1>3. QED BY <1>2 DEF Contract!pattern

\* A leap, or a step of a scan, answers the least value from the bound on.
LEMMA AsksLeast ==
  ASSUME IInv, IInv', ~m_is_empty, NEW x \in Free, NEW c,
         UNCHANGED <<index, m_level, m_state, m_consts, path>>,
         ret'.x = x, ret'.c = c, mode' \in {"leap", "scan"}
  PROVE  Contract!Ask(x, c)
<1>1. m_is_empty' = m_is_empty
  BY DEF index
<1>2. StateTypes' /\ Protocol'
  BY <1>1 DEF IInv
<1>3. ret'.v = LeastFrom(CurrentVals(ret.x)', ret'.c)
  BY <1>2 DEF Protocol
<1>4. Current' = Current /\ edges' = edges
  BY Frame DEF index
<1>5. CurrentVals(ret.x)' = CurrentVals(x)
  BY <1>4 DEF CurrentVals
<1>6. ret' \in [x : Terms \union {"none"}, c : Int, v : 0 .. R'.n + R'.maxSO]
  BY <1>2 DEF StateTypes
<1>7. ret' = [x |-> x, c |-> c, v |-> LeastFrom(CurrentVals(x), c)]
  BY <1>3, <1>5, <1>6
<1>8. Contract!Given(x) = CurrentVals(x)
  BY GivenIs
<1>9. QED BY <1>7, <1>8 DEF Contract!Ask, Contract!LeastFrom, LeastFrom

\* Every step of the iterator is a step of its contract, or none.
LEMMA StepImplements == IInv /\ IInv' /\ [Next]_vars => [Contract!Next]_(Contract!vars)
<1> SUFFICES ASSUME IInv, IInv', [Next]_vars PROVE [Contract!Next]_(Contract!vars)
  OBVIOUS
<1>1. ASSUME NEW x \in Terms, NEW c \in Asked, Leap(x, c) PROVE Contract!Leap(x, c)
  <2>1. /\ ~m_is_empty /\ MayAsk(x, c) /\ mode' = "leap"
        /\ ret' = [x |-> x, c |-> c, v |-> Answer(x, c).v]
        /\ UNCHANGED <<index, m_level, m_state, m_consts, path>>
    BY <1>1 DEF Leap
  <2>2. Protocol
    BY <2>1 DEF IInv
  <2>3. x \in Free /\ mode # "under"
    BY <2>1, <2>2 DEF MayAsk, Protocol
  <2>4. ret'.x = x /\ ret'.c = c
    BY <2>1
  <2>5. Contract!Ask(x, c)
    BY <2>1, <2>3, <2>4, AsksLeast
  <2>6. Contract!Free = Free
    BY <2>1, <2>3, GivenIs
  <2>7. UNCHANGED <<Contract!pattern, path>>
    BY <2>1, PatternStays
  <2>8. QED BY <2>1, <2>3, <2>5, <2>6, <2>7 DEF Contract!Leap
<1>2. ASSUME NEW x \in Terms, SeekLast(x) PROVE Contract!SeekLast(x)
  <2>1. /\ ~m_is_empty /\ mode = "idle" /\ m_level = 2 /\ x \in Free /\ mode' = "scan"
        /\ UNCHANGED <<index, m_level, m_state, m_consts, path>>
    BY <1>2 DEF SeekLast
  <2>2. ret'.x = x /\ ret'.c = NoBound
    BY <1>2 DEF SeekLast
  <2>3. Contract!Ask(x, NoBound)
    BY <2>1, <2>2, AsksLeast
  <2>4. Contract!Free = Free
    BY <2>1, GivenIs
  <2>5. Free = {x}
    <3>1. StateTypes /\ Bindings
      BY <2>1 DEF IInv
    <3>2. /\ m_state[0] \in Terms /\ m_state[1] \in Terms /\ m_state[0] # m_state[1]
          /\ Free = Terms \ {m_state[0], m_state[1]}
      BY <2>1, <3>1, FreeIs
    <3>3. QED BY <2>1, <3>2 DEF Terms
  <2>6. UNCHANGED <<Contract!pattern, path>>
    BY <2>1, PatternStays
  <2>7. Contract!NoBound = NoBound
    BY DEF Contract!NoBound, NoBound
  <2>8. QED BY <2>1, <2>3, <2>4, <2>5, <2>6, <2>7 DEF Contract!SeekLast
<1>3. ASSUME SeekLastNext PROVE Contract!SeekLastNext
  <2>1. /\ mode = "left" /\ mode' = "scan"
        /\ UNCHANGED <<index, m_level, m_state, m_consts, path>>
    BY <1>3 DEF SeekLastNext
  <2>2. ~m_is_empty /\ StateTypes /\ Protocol
    BY <2>1 DEF IInv
  <2>3. ret.x \in Free
    BY <2>1, <2>2 DEF Protocol
  <2>4. ret \in [x : Terms \union {"none"}, c : Int, v : 0 .. R.n + R.maxSO]
    BY <2>2 DEF StateTypes
  <2>5. ret'.x = ret.x /\ ret'.c = ret.c + 1
    BY <1>3, <2>4 DEF SeekLastNext
  <2>6. Contract!Ask(ret.x, ret.c + 1)
    BY <2>1, <2>2, <2>3, <2>5, AsksLeast
  <2>7. UNCHANGED <<Contract!pattern, path>>
    BY <2>1, PatternStays
  <2>8. QED BY <2>1, <2>6, <2>7 DEF Contract!SeekLastNext
<1>4. ASSUME Down PROVE Contract!Down
  BY <1>4, PatternStays DEF Down, Contract!Down
<1>5. ASSUME Up PROVE Contract!Up
  BY <1>5, PatternStays DEF Up, Contract!Up
<1>6. CASE UNCHANGED vars
  BY <1>6, PatternStays DEF vars, Contract!vars
<1>7. QED BY <1>1, <1>2, <1>3, <1>4, <1>5, <1>6 DEF Next, Contract!Next

\* AnswersLeastMatch: whatever the order in which the join binds the terms, every leap and every
\* step of a scan answers the least value that an edge matching what is bound gives.
THEOREM ImplementsContract == NoLabelConst /\ Spec => AnswersLeastMatch
<1>1. Init => Contract!Init
  BY DEF Init, Contract!Init
<1>2. NoLabelConst /\ Spec => Contract!Spec
  BY <1>1, InvariantHolds, StepImplements, PTL DEF Spec, Contract!Spec
<1>3. QED BY <1>2 DEF AnswersLeastMatch
=============================================================================
