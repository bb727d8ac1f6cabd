---------------------------- MODULE BasicTheorems ----------------------------
(***************************************************************************)
(* The least id of a set, and what loops and recursive definitions give.   *)
(***************************************************************************)
EXTENDS LeastId, WellFoundedInduction, TLAPS

\* A nonempty set of naturals has a least element.
LEMMA NatHasLeast ==
  ASSUME NEW T \in SUBSET Nat, T # {}
  PROVE  \E x \in T : \A y \in T : x <= y
<1> DEFINE R == OpToRel(<, Nat)
<1>1. \A x, y \in Nat : x < y => <<x, y>> \in R
  BY DEF OpToRel
<1>2. IsWellFoundedOn(R, Nat)
  BY NatLessThanWellFounded
<1> HIDE DEF R
<1>3. PICK x \in T : \A y \in T : ~ (<<y, x>> \in R)
  BY <1>2, WFMin
<1>4. ASSUME NEW y \in T PROVE x <= y
  <2>1. x \in Nat /\ y \in Nat OBVIOUS
  <2>2. ~ (y < x) BY <1>1, <1>3, <2>1
  <2>3. QED BY <2>1, <2>2
<1>5. QED BY <1>4

\* leap answers 0 exactly when no id from the bound on is in the set, and
\* otherwise the least such id.
LEMMA LeastFromCorrect ==
  ASSUME NEW S \in SUBSET (Nat \ {0}), NEW c \in Int
  PROVE  /\ LeastFrom(S, c) = 0 <=> \A v \in S : v < c
         /\ LeastFrom(S, c) # 0 =>
              /\ LeastFrom(S, c) \in S /\ c <= LeastFrom(S, c)
              /\ \A v \in S : c <= v => LeastFrom(S, c) <= v
<1> DEFINE above == {v \in S : c <= v}
           least == CHOOSE v \in above : \A w \in above : v <= w
<1>1. CASE above = {}
  <2>1. LeastFrom(S, c) = 0 BY <1>1 DEF LeastFrom
  <2>2. \A v \in S : v < c BY <1>1
  <2>3. QED BY <2>1, <2>2
<1>2. CASE above # {}
  <2>1. \E v \in above : \A w \in above : v <= w
    <3>1. above \in SUBSET Nat OBVIOUS
    <3> HIDE DEF above
    <3>2. QED BY <1>2, <3>1, NatHasLeast
  <2>2. least \in above /\ \A w \in above : least <= w
    <3> HIDE DEF above
    <3>1. QED BY <2>1
  <2>3. LeastFrom(S, c) = least BY <1>2 DEF LeastFrom
  <2> HIDE DEF least
  <2>4. QED BY <2>2, <2>3
<1>3. QED BY <1>1, <1>2

\* What the least value from a bound is.
LEMMA LeastFromIs ==
  ASSUME NEW S \in SUBSET (Nat \ {0}), NEW c \in Int, NEW v \in S, c <= v,
         \A w \in S : c <= w => v <= w
  PROVE  LeastFrom(S, c) = v
<1>1. LeastFrom(S, c) # 0
  <2>1. ~(v < c)
    OBVIOUS
  <2>2. QED BY <2>1, LeastFromCorrect
<1>2. LeastFrom(S, c) \in S /\ c <= LeastFrom(S, c) /\ LeastFrom(S, c) <= v
  BY <1>1, LeastFromCorrect
<1> DEFINE u == LeastFrom(S, c)
<1>3. u \in S /\ c <= u /\ u <= v
  BY <1>2
<1> HIDE DEF u
<1>4. v <= u /\ v \in Int /\ u \in Int
  BY <1>3
<1>5. u = v
  BY <1>3, <1>4
<1>6. QED BY <1>5 DEF u

\* There is none when all values are below the bound.
LEMMA LeastFromNone ==
  ASSUME NEW S \in SUBSET (Nat \ {0}), NEW c \in Int, \A w \in S : w < c
  PROVE  LeastFrom(S, c) = 0
BY LeastFromCorrect

-----------------------------------------------------------------------------
(***************************************************************************)
(* Loops and recursive definitions.                                        *)
(***************************************************************************)
\* f has what a loop has after each of its n turns, g of a loop whose first turn has its
\* own form, h what a definition by recursion says of each e in T.
LoopIs(f, n, S, base, next) ==
  f \in [0 .. n -> S] /\ f[0] = base /\ \A k \in 1 .. n : f[k] = next[<<k, f[k - 1]>>]
LoopFromOneIs(g, n, S, first, next) ==
  g \in [1 .. n -> S] /\ g[1] = first /\ \A k \in 2 .. n : g[k] = next[<<k, g[k - 1]>>]
Founded(T, parts) ==
  /\ \A e \in T : parts[e] \subseteq T
  /\ \A U \in SUBSET T : U # {} => \E e \in U : parts[e] \cap U = {}
ReadsParts(T, parts, S, step) ==
  /\ step \in [T \X [T -> S] -> S]
  /\ \A e \in T : \A f, g \in [T -> S] :
       (\A d \in parts[e] : f[d] = g[d]) => step[<<e, f>>] = step[<<e, g>>]
Defines(h, T, S, step) == h \in [T -> S] /\ \A e \in T : h[e] = step[<<e, h>>]

\* A loop of n turns has a result: the function of what it has after each turn.
LEMMA LoopHasResult ==
  ASSUME NEW n \in Nat, NEW S, NEW base \in S, NEW next \in [(1 .. n) \X S -> S]
  PROVE  \E f : LoopIs(f, n, S, base, next)
<1> DEFINE Upto(m, f) == /\ f \in [0 .. m -> S] /\ f[0] = base
                         /\ \A k \in 1 .. m : f[k] = next[<<k, f[k - 1]>>]
           Bad == {m \in 0 .. n : ~\E f : Upto(m, f)}
<1>1. Bad = {}
  <2> SUFFICES ASSUME Bad # {} PROVE FALSE
    OBVIOUS
  <2>1. PICK m \in Bad : \A j \in Bad : m <= j
    <3>1. Bad \in SUBSET Nat
      OBVIOUS
    <3> HIDE DEF Bad
    <3> QED
      BY <3>1, NatHasLeast
  <2>2. m \in 0 .. n /\ ~\E f : Upto(m, f)
    OBVIOUS
  <2>3. m # 0
    <3>1. Upto(0, [k \in 0 .. 0 |-> base])
      OBVIOUS
    <3> QED
      BY <2>2, <3>1
  <2>4. m - 1 \in 0 .. n /\ m - 1 \notin Bad
    <3>1. m - 1 \in 0 .. n /\ m - 1 < m
      BY <2>2, <2>3
    <3> HIDE DEF Bad
    <3> QED
      BY <2>1, <2>2, <3>1
  <2>5. PICK f : Upto(m - 1, f)
    BY <2>4
  <2> DEFINE g == [k \in 0 .. m |-> IF k = m THEN next[<<m, f[m - 1]>>] ELSE f[k]]
  <2>6. f[m - 1] \in S /\ <<m, f[m - 1]>> \in (1 .. n) \X S
    BY <2>2, <2>3, <2>5
  <2>7. next[<<m, f[m - 1]>>] \in S
    BY <2>6
  <2>8. g \in [0 .. m -> S]
    BY <2>2, <2>3, <2>5, <2>7
  <2>9. g[0] = base
    BY <2>2, <2>3, <2>5
  <2>10. ASSUME NEW k \in 1 .. m PROVE g[k] = next[<<k, g[k - 1]>>]
    <3>1. k - 1 \in 0 .. m /\ k - 1 # m /\ g[k - 1] = f[k - 1]
      BY <2>2
    <3>2. CASE k = m
      BY <3>1, <3>2
    <3>3. CASE k # m
      <4>1. g[k] = f[k] /\ k \in 1 .. m - 1
        BY <2>2, <3>3
      <4> QED
        BY <2>5, <3>1, <4>1
    <3> QED
      BY <3>2, <3>3
  <2>11. Upto(m, g)
    BY <2>8, <2>9, <2>10
  <2> QED
    BY <2>2, <2>11
<1>2. n \in 0 .. n /\ n \notin Bad
  <2> HIDE DEF Bad
  <2> QED
    BY <1>1
<1>3. PICK f : Upto(n, f)
  BY <1>2
<1>4. LoopIs(f, n, S, base, next)
  BY <1>3 DEF LoopIs
<1> QED
  BY <1>4

\* The same of a loop whose first turn has its own form.
LEMMA LoopFromOne ==
  ASSUME NEW n \in Nat \ {0}, NEW S, NEW first \in S, NEW next \in [(2 .. n) \X S -> S]
  PROVE  \E g : LoopFromOneIs(g, n, S, first, next)
<1> DEFINE turn == [p \in (1 .. n) \X S |-> IF p[1] = 1 THEN first ELSE next[<<p[1], p[2]>>]]
<1>1. turn \in [(1 .. n) \X S -> S]
  <2>1. ASSUME NEW k \in 1 .. n, NEW x \in S
        PROVE  (IF k = 1 THEN first ELSE next[<<k, x>>]) \in S
    OBVIOUS
  <2> QED
    BY <2>1
<1>2. ASSUME NEW k \in 1 .. n, NEW x \in S
      PROVE  turn[<<k, x>>] = IF k = 1 THEN first ELSE next[<<k, x>>]
  OBVIOUS
<1> HIDE DEF turn
<1>3. PICK f : LoopIs(f, n, S, first, turn)
  <2>1. n \in Nat
    OBVIOUS
  <2> QED
    BY <1>1, <2>1, LoopHasResult
<1>4. f \in [0 .. n -> S] /\ \A k \in 1 .. n : f[k] = turn[<<k, f[k - 1]>>]
  BY <1>3 DEF LoopIs
<1> DEFINE g == [k \in 1 .. n |-> f[k]]
<1>5. g \in [1 .. n -> S]
  BY <1>4
<1>6. ASSUME NEW k \in 1 .. n PROVE g[k] = IF k = 1 THEN first ELSE next[<<k, g[k - 1]>>]
  <2>1. f[k - 1] \in S /\ (k # 1 => k - 1 \in 1 .. n)
    BY <1>4
  <2>2. g[k] = turn[<<k, f[k - 1]>>]
    BY <1>4
  <2> QED
    BY <1>2, <2>1, <2>2
<1> HIDE DEF g
<1>7. g[1] = first
  <2>1. 1 \in 1 .. n
    OBVIOUS
  <2> QED
    BY <1>6, <2>1
<1>8. \A k \in 2 .. n : g[k] = next[<<k, g[k - 1]>>]
  BY <1>6
<1>9. LoopFromOneIs(g, n, S, first, next)
  BY <1>5, <1>7, <1>8 DEF LoopFromOneIs
<1> QED
  BY <1>9

\* A definition by recursion over the parts of expressions is one of a function.
LEMMA TreeHasResult ==
  ASSUME NEW T, NEW parts, Founded(T, parts), NEW S, S # {}, NEW step, ReadsParts(T, parts, S, step)
  PROVE  \E h : Defines(h, T, S, step)
<1>1. /\ \A e \in T : parts[e] \subseteq T
      /\ \A U \in SUBSET T : U # {} => \E e \in U : parts[e] \cap U = {}
      /\ step \in [T \X [T -> S] -> S]
      /\ \A e \in T : \A f, g \in [T -> S] :
           (\A d \in parts[e] : f[d] = g[d]) => step[<<e, f>>] = step[<<e, g>>]
  BY DEF Founded, ReadsParts
<1> USE <1>1
<1> DEFINE Closed(U) == U \in SUBSET T /\ \A e \in U : parts[e] \subseteq U
           On(U, f) == Closed(U) /\ f \in [T -> S] /\ \A e \in U : f[e] = step[<<e, f>>]
           All == {e \in T : \E U, f : On(U, f) /\ e \in U}
<1>2. ASSUME NEW U, NEW f, On(U, f), NEW V, NEW g, On(V, g), NEW e \in U \cap V
      PROVE  f[e] = g[e]
  <2> DEFINE Wrong == {d \in U \cap V : f[d] # g[d]}
  <2> SUFFICES ASSUME Wrong # {} PROVE FALSE
    OBVIOUS
  <2>1. PICK d \in Wrong : parts[d] \cap Wrong = {}
    <3>1. Wrong \in SUBSET T
      BY <1>2
    <3> HIDE DEF Wrong
    <3> QED
      BY <3>1
  <2>2. d \in U /\ d \in V /\ d \in T
    BY <1>2
  <2>3. \A b \in parts[d] : b \in U /\ b \in V
    BY <1>2, <2>2
  <2>4. \A b \in parts[d] : f[b] = g[b]
    BY <2>1, <2>3
  <2>5. step[<<d, f>>] = step[<<d, g>>]
    <3>1. f \in [T -> S] /\ g \in [T -> S]
      BY <1>2
    <3>2. \A h1, h2 \in [T -> S] :
            (\A b \in parts[d] : h1[b] = h2[b]) => step[<<d, h1>>] = step[<<d, h2>>]
      BY <1>1, <2>2
    <3> QED
      BY ONLY <2>4, <3>1, <3>2
  <2>6. f[d] = g[d]
    BY <1>2, <2>2, <2>5
  <2> QED
    BY <2>6
<1> DEFINE Of(e) == CHOOSE p : \E U, f : p = <<U, f>> /\ On(U, f) /\ e \in U
           some == CHOOSE s \in S : TRUE
           h == [e \in T |-> IF e \in All THEN Of(e)[2][e] ELSE some]
<1>3. ASSUME NEW e \in All PROVE On(Of(e)[1], Of(e)[2]) /\ e \in Of(e)[1]
  <2>1. PICK U, f : On(U, f) /\ e \in U
    BY <1>3
  <2>2. \E p : \E V, g : p = <<V, g>> /\ On(V, g) /\ e \in V
    <3> HIDE DEF On
    <3> QED
      BY <2>1
  <2>3. \E V, g : Of(e) = <<V, g>> /\ On(V, g) /\ e \in V
    <3> HIDE DEF On
    <3> QED
      BY <2>2
  <2> HIDE DEF On, Of
  <2> QED
    BY <2>3
<1>4. ASSUME NEW U, NEW f, On(U, f), NEW e \in U PROVE e \in All /\ h[e] = f[e]
  <2>1. e \in All /\ e \in T
    BY <1>4
  <2>2. On(Of(e)[1], Of(e)[2]) /\ e \in Of(e)[1]
    BY <1>3, <2>1
  <2>3. h[e] = Of(e)[2][e]
    <3> HIDE DEF Of, All
    <3> QED
      BY <2>1
  <2>4. Of(e)[2][e] = f[e]
    <3> HIDE DEF Of, On, All
    <3> QED
      BY <1>2, <1>4, <2>2
  <2> QED
    BY <2>1, <2>3, <2>4
<1>5. h \in [T -> S]
  <2>1. ASSUME NEW e \in All PROVE Of(e)[2][e] \in S
    <3>1. Of(e)[2] \in [T -> S] /\ e \in T
      BY <1>3
    <3> HIDE DEF Of
    <3> QED
      BY <3>1
  <2>2. some \in S
    OBVIOUS
  <2> HIDE DEF Of, some, All
  <2> QED
    BY <2>1, <2>2
<1>6. On(All, h)
  <2>1. ASSUME NEW e \in All PROVE parts[e] \subseteq All /\ h[e] = step[<<e, h>>]
    <3>1. PICK U, f : On(U, f) /\ e \in U
      OBVIOUS
    <3>2. parts[e] \subseteq U /\ f[e] = step[<<e, f>>] /\ e \in T /\ f \in [T -> S]
      BY <3>1
    <3>3. \A d \in parts[e] : d \in All /\ h[d] = f[d]
      <4> HIDE DEF On, All, h
      <4> QED
        BY <1>4, <3>1, <3>2
    <3>4. h[e] = f[e]
      <4> HIDE DEF On, All, h
      <4> QED
        BY <1>4, <3>1
    <3>5. step[<<e, h>>] = step[<<e, f>>]
      <4>1. e \in T /\ f \in [T -> S] /\ h \in [T -> S]
        BY <1>5, <3>2
      <4>2. \A d \in parts[e] : h[d] = f[d]
        BY <3>3
      <4> HIDE DEF On, All, h
      <4> QED
        BY <4>1, <4>2
    <3> QED
      BY <3>2, <3>3, <3>4, <3>5
  <2> HIDE DEF h
  <2> QED
    BY <1>5, <2>1
<1>7. All = T
  <2> SUFFICES ASSUME T \ All # {} PROVE FALSE
    OBVIOUS
  <2>1. PICK e \in T \ All : parts[e] \cap (T \ All) = {}
    <3>1. T \ All \in SUBSET T
      OBVIOUS
    <3> HIDE DEF All
    <3> QED
      BY <3>1
  <2>2. parts[e] \subseteq All
    BY <2>1
  <2> DEFINE g == [h EXCEPT ![e] = step[<<e, h>>]]
  <2>3. step[<<e, h>>] \in S
    <3>1. <<e, h>> \in T \X [T -> S]
      <4> HIDE DEF h, All
      <4> QED
        BY <1>5, <2>1
    <3> HIDE DEF h, All
    <3> QED
      BY <3>1
  <2>4. g \in [T -> S] /\ g[e] = step[<<e, h>>] /\ \A d \in T : d # e => g[d] = h[d]
    <3> HIDE DEF h
    <3> QED
      BY <1>5, <2>1, <2>3
  <2> HIDE DEF g
  <2>5. ASSUME NEW d \in All \union {e} PROVE parts[d] \subseteq All /\ g[d] = step[<<d, g>>]
    <3>1. parts[d] \subseteq All /\ d \in T /\ h[d] = h[d]
      BY <1>6, <2>1, <2>2
    <3>2. \A b \in parts[d] : g[b] = h[b]
      <4>1. \A b \in parts[d] : b \in All /\ b \in T
        BY <3>1
      <4>2. e \notin All
        OBVIOUS
      <4> HIDE DEF All, h
      <4> QED
        BY <2>4, <4>1, <4>2
    <3>3. step[<<d, g>>] = step[<<d, h>>]
      <4>1. d \in T /\ g \in [T -> S] /\ h \in [T -> S]
        BY <1>5, <2>4, <3>1
      <4> HIDE DEF h, All
      <4> QED
        BY <3>2, <4>1
    <3>4. g[d] = step[<<d, h>>]
      <4>1. CASE d = e
        BY <2>4, <4>1
      <4>2. CASE d # e
        BY <1>6, <2>4, <3>1, <4>2
      <4> QED
        BY <4>1, <4>2
    <3> QED
      BY <3>1, <3>3, <3>4
  <2>6. On(All \union {e}, g)
    BY <2>1, <2>4, <2>5
  <2>7. e \in All
    <3>1. e \in T /\ e \in All \union {e}
      OBVIOUS
    <3> HIDE DEF On
    <3> QED
      BY <2>6, <3>1
  <2> QED
    BY <2>1, <2>7
<1>8. \A e \in T : h[e] = step[<<e, h>>]
  <2>1. On(T, h)
    <3> HIDE DEF All, h, On
    <3> QED
      BY <1>6, <1>7
  <2> HIDE DEF All, h
  <2> QED
    BY <2>1
<1>9. Defines(h, T, S, step)
  <2> HIDE DEF h
  <2> QED
    BY <1>5, <1>8 DEF Defines
<1> QED
  BY <1>9
=============================================================================
