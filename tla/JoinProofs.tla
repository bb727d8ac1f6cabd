------------------------------ MODULE JoinProofs ------------------------------
(***************************************************************************)
(* The join, for any number of iterators and any sets of ids, and for      *)
(* every query.                                                            *)
(*                                                                         *)
(* What a call of seek, seek_postfilter or seek_prefilter returns, and     *)
(* what the loop around it visits.  The search keeps its iterators on its  *)
(* path, returns them to their roots, collects exactly the solutions of    *)
(* the part of the tree it has left, and does what a join promises.        *)
(***************************************************************************)
EXTENDS Leapfrog, LTJ, BasicTheorems, FiniteSetTheorems, SequenceTheorems

-----------------------------------------------------------------------------
(***************************************************************************)
(* The loop of one node of the search.                                     *)
(***************************************************************************)
\* Iterator k is one of the ok iterators leapt before iterator x, counting
\* round-robin inside the segment first .. end-1.
Agreed(k, x, ok, first, end) ==
  \/ k < x /\ k >= x - ok
  \/ k > x /\ k >= x - ok + (end - first)

\* No id that all iterators accept lies between the bound and c.
NoSkip(c) == \A v \in Accepted : start <= v => c <= v

LeapInv ==
  at = "leap" =>
    /\ ~Filtered /\ n > 1 /\ n_ok \in 1 .. n - 1
    /\ c_i = c_prev /\ c_i \in Values /\ start <= c_i /\ NoSkip(c_i)
    /\ \A k \in Itr : Agreed(k, i, n_ok, 0, n) => last[k] = c_prev

DriveInv ==
  at = "drive" =>
    /\ Filtered /\ i \in DriveFirst .. DriveEnd - 1
    /\ n_ok \in 0 .. DriveEnd - DriveFirst - 1
    /\ start <= c_i /\ NoSkip(c_i)
    /\ n_ok = 0 => c_prev < c_i \/ c_prev = NoBound
    /\ n_ok > 0 => /\ c_i = c_prev /\ c_i \in Values
                   /\ \A k \in DriveFirst .. DriveEnd - 1 :
                        Agreed(k, i, n_ok, DriveFirst, DriveEnd) => last[k] = c_prev

CheckInv ==
  at = "check" =>
    /\ Filtered /\ i \in DriveFirst .. DriveEnd - 1 /\ j \in CheckFirst .. CheckEnd - 1
    /\ c_i = c_prev /\ c_i \in Values /\ start <= c_i /\ NoSkip(c_i)
    /\ \A k \in DriveFirst .. DriveEnd - 1 : last[k] = c_prev
    /\ \A k \in CheckFirst .. j - 1 : last[k] = c_prev

FoundInv ==
  IF at = "done" THEN found = Accepted ELSE found = {v \in Accepted : v < start}

LastInv == \A k \in Itr : last[k] # 0 => last[k] \in cand[k]

LoopInv ==
  /\ LoopTypeOK /\ LeapInv /\ DriveInv /\ CheckInv /\ FoundInv /\ LastInv
  /\ ReturnsLeastCommon /\ KeptIsReturned

-----------------------------------------------------------------------------
\* What one leap of iterator k from c says of the ids all iterators accept.
LEMMA LeapCorrect ==
  ASSUME LoopTypeOK, NEW k \in Itr, NEW c \in Int
  PROVE  /\ Leap(k, c) \in 0 .. MaxValue
         /\ Leap(k, c) = 0 => \A v \in Accepted : v < c
         /\ Leap(k, c) # 0 => /\ Leap(k, c) \in cand[k] /\ Leap(k, c) \in Values /\ c <= Leap(k, c)
                              /\ \A v \in Accepted : c <= v => Leap(k, c) <= v
         /\ c \notin cand[k] => Leap(k, c) # c \/ c = 0
         /\ Leap(k, c) = c => c \in cand[k] \/ c = 0
<1>1. cand[k] \in SUBSET (Nat \ {0}) /\ cand[k] \in SUBSET Values
  BY LoopAssumption DEF LoopTypeOK, Values
<1>2. \A v \in Accepted : v \in cand[k]
  BY DEF Accepted
<1>3. QED
  BY <1>1, <1>2, LeastFromCorrect, LoopAssumption DEF Leap, Values

\* The bounds of the two segments of a filtered seek.
LEMMA Segments ==
  ASSUME LoopTypeOK, Filtered
  PROVE  /\ DriveFirst \in Itr /\ DriveEnd \in 1 .. n /\ DriveFirst < DriveEnd
         /\ CheckFirst \in Itr /\ CheckEnd \in 1 .. n /\ CheckFirst < CheckEnd
         /\ DriveFirst .. DriveEnd - 1 \subseteq Itr
         /\ CheckFirst .. CheckEnd - 1 \subseteq Itr
         /\ Itr = (DriveFirst .. DriveEnd - 1) \union (CheckFirst .. CheckEnd - 1)
BY LoopAssumption DEF LoopTypeOK, Filtered, DriveFirst, DriveEnd, CheckFirst, CheckEnd, Itr

LEMMA LoopInitInv == LoopInit => LoopInv
<1> SUFFICES ASSUME LoopInit PROVE LoopInv
  OBVIOUS
<1>1. LoopTypeOK
  BY LoopAssumption DEF LoopInit, LoopTypeOK, Itr, NoBound, Values
<1>2. FoundInv
  BY LoopAssumption DEF LoopInit, FoundInv, Accepted, NoBound, Values
<1>3. LeapInv /\ DriveInv /\ CheckInv /\ LastInv /\ ReturnsLeastCommon /\ KeptIsReturned
  BY DEF LoopInit, LeapInv, DriveInv, CheckInv, LastInv, ReturnsLeastCommon, KeptIsReturned, Itr
<1>4. QED
  BY <1>1, <1>2, <1>3 DEF LoopInv

LEMMA SeekBeginStep == LoopInv /\ SeekBegin => LoopInv'
<1> SUFFICES ASSUME LoopInv, SeekBegin PROVE LoopInv'
  OBVIOUS
<1> DEFINE v == Leap(0, start)
<1>0. LoopTypeOK /\ n \in Nat /\ n >= 1 /\ 0 \in Itr /\ start \in Int /\ Itr' = Itr /\ Accepted' = Accepted /\ Filtered' = Filtered
  BY LoopAssumption DEF LoopInv, LoopTypeOK, SeekBegin, Itr, fixed, NoBound, Accepted, Filtered
<1>1. /\ v \in 0 .. MaxValue
      /\ v = 0 => \A w \in Accepted : w < start
      /\ v # 0 => v \in cand[0] /\ v \in Values /\ start <= v
                  /\ \A w \in Accepted : start <= w => v <= w
  BY <1>0, LeapCorrect
<1> HIDE DEF v
<1>2. /\ last' = [last EXCEPT ![0] = v] /\ at = "call" /\ ~Filtered
      /\ \/ (v = 0 \/ n = 1) /\ at' = "ret" /\ c_i' = v /\ UNCHANGED <<i, c_prev, n_ok>>
         \/ v # 0 /\ n # 1 /\ at' = "leap" /\ c_i' = v /\ c_prev' = v /\ i' = 1 /\ n_ok' = 1
      /\ UNCHANGED <<n, cand, begWhere, mode, start, j, found>>
  BY DEF SeekBegin, Return, fixed, v
<1>3. LoopTypeOK'
  BY <1>0, <1>1, <1>2, LoopAssumption, SMTT(60) DEF LoopTypeOK, Itr, Values
<1>4. LeapInv'
  BY <1>0, <1>1, <1>2, SMTT(60) DEF LeapInv, NoSkip, Agreed, LoopTypeOK, Itr, Values
<1>5. DriveInv' /\ CheckInv'
  BY <1>2 DEF DriveInv, CheckInv
<1>6. FoundInv'
  BY <1>0, <1>2 DEF FoundInv, LoopInv
<1>7. LastInv'
  BY <1>0, <1>1, <1>2 DEF LastInv, LoopInv, LoopTypeOK
<1>8. ReturnsLeastCommon'
  <2>1. n = 1 /\ v # 0 => v \in Accepted
    BY <1>0, <1>1 DEF Accepted, Itr
  <2>2. QED
    BY <1>0, <1>1, <1>2, <2>1 DEF ReturnsLeastCommon
<1>9. KeptIsReturned'
  BY <1>0, <1>2 DEF KeptIsReturned, LoopTypeOK, Itr
<1>10. QED
  BY <1>3, <1>4, <1>5, <1>6, <1>7, <1>8, <1>9 DEF LoopInv

LEMMA SeekLeapStep == LoopInv /\ SeekLeap => LoopInv'
<1> SUFFICES ASSUME LoopInv, SeekLeap PROVE LoopInv'
  OBVIOUS
<1> DEFINE v == Leap(i, c_i)
<1>0. /\ LoopTypeOK /\ n \in Nat /\ n > 1 /\ i \in Itr /\ c_i \in Int /\ start \in Int /\ n_ok \in 1 .. n - 1
      /\ Itr' = Itr /\ Accepted' = Accepted /\ Filtered' = Filtered
  BY LoopAssumption DEF LoopInv, LoopTypeOK, LeapInv, SeekLeap, Itr, fixed, NoBound, Accepted, Filtered
<1>1. /\ v \in 0 .. MaxValue
      /\ v = 0 => \A w \in Accepted : w < c_i
      /\ v # 0 => v \in cand[i] /\ v \in Values /\ c_i <= v
                  /\ \A w \in Accepted : c_i <= w => v <= w
  BY <1>0, LeapCorrect
<1> HIDE DEF v
<1>2. /\ last' = [last EXCEPT ![i] = v] /\ at = "leap" /\ c_prev' = v
      /\ n_ok' = IF v = c_prev THEN n_ok + 1 ELSE 1
      /\ \/ (v = 0 \/ n_ok' = n) /\ at' = "ret" /\ c_i' = v /\ UNCHANGED i
         \/ v # 0 /\ n_ok' # n /\ at' = "leap" /\ c_i' = v /\ i' = IF i + 1 = n THEN 0 ELSE i + 1
      /\ UNCHANGED <<n, cand, begWhere, mode, start, j, found>>
  BY DEF SeekLeap, Return, fixed, v
<1>3. /\ ~Filtered /\ c_i = c_prev /\ c_i \in Values /\ start <= c_i /\ NoSkip(c_i)
      /\ \A k \in Itr : Agreed(k, i, n_ok, 0, n) => last[k] = c_prev
  BY <1>2 DEF LoopInv, LeapInv
<1>4. v # 0 => start <= v /\ \A w \in Accepted : start <= w => v <= w
  BY <1>0, <1>1, <1>3, LoopAssumption DEF NoSkip, Accepted, Values
<1>5. v = 0 => \A w \in Accepted : w < start
  BY <1>0, <1>1, <1>3, LoopAssumption DEF NoSkip, Accepted, Values
<1>6. last' \in [Itr -> 0 .. MaxValue] /\ \A k \in Itr : last'[k] = IF k = i THEN v ELSE last[k]
  BY <1>0, <1>1, <1>2 DEF LoopTypeOK
<1>7. n_ok' = n /\ v # 0 => \A k \in Itr : last'[k] = v
  <2> SUFFICES ASSUME n_ok' = n, v # 0, NEW k \in Itr PROVE last'[k] = v
    OBVIOUS
  <2>1. n_ok = n - 1 /\ v = c_prev
    BY <1>0, <1>2
  <2>2. k = i \/ Agreed(k, i, n_ok, 0, n)
    BY <1>0, <2>1 DEF Agreed, Itr
  <2>3. QED
    BY <1>3, <1>6, <2>1, <2>2
<1>8. LoopTypeOK'
  BY <1>0, <1>1, <1>2, <1>6, LoopAssumption DEF LoopTypeOK, Itr, Values
<1>9. LeapInv'
  <2> SUFFICES ASSUME at' = "leap" PROVE LeapInv'
    BY DEF LeapInv
  <2>1. v # 0 /\ n_ok' # n /\ c_i' = v /\ i' = IF i + 1 = n THEN 0 ELSE i + 1
    BY <1>2
  <2>2. n_ok' \in 1 .. n - 1
    BY <1>0, <1>2, <2>1
  <2>3. NoSkip(c_i)'
    BY <1>0, <1>2, <1>4, <2>1 DEF NoSkip
  <2>4. ASSUME NEW k \in Itr, Agreed(k, i, n_ok, 0, n)'
        PROVE  last'[k] = v
    <3>1. CASE k = i
      BY <1>6, <3>1
    <3>2. CASE k # i
      <4>1. v = c_prev /\ n_ok' = n_ok + 1
        BY <1>0, <1>2, <2>1, <2>4, <3>2 DEF Agreed, Itr
      <4>2. Agreed(k, i, n_ok, 0, n)
        BY <1>0, <1>2, <2>1, <2>2, <2>4, <3>2, <4>1 DEF Agreed, Itr
      <4>3. QED
        BY <1>3, <1>6, <3>2, <4>1, <4>2
    <3>3. QED
      BY <3>1, <3>2
  <2>5. QED
    BY <1>0, <1>1, <1>2, <1>3, <1>4, <2>1, <2>2, <2>3, <2>4 DEF LeapInv
<1>10. DriveInv' /\ CheckInv'
  BY <1>2 DEF DriveInv, CheckInv
<1>11. FoundInv'
  BY <1>0, <1>2 DEF FoundInv, LoopInv
<1>12. LastInv'
  BY <1>0, <1>1, <1>2, <1>6 DEF LastInv, LoopInv
<1>13. KeptIsReturned'
  BY <1>0, <1>2, <1>7 DEF KeptIsReturned
<1>14. ReturnsLeastCommon'
  <2>1. at' = "ret" /\ v # 0 => v \in Accepted
    BY <1>0, <1>1, <1>2, <1>7, <1>12 DEF Accepted, LastInv
  <2>2. QED
    BY <1>0, <1>2, <1>4, <1>5, <2>1 DEF ReturnsLeastCommon
<1>15. QED
  BY <1>8, <1>9, <1>10, <1>11, <1>12, <1>13, <1>14 DEF LoopInv

LEMMA FilterBeginStep == LoopInv /\ FilterBegin => LoopInv'
<1> SUFFICES ASSUME LoopInv, FilterBegin PROVE LoopInv'
  OBVIOUS
<1>0. LoopTypeOK /\ Filtered /\ Itr' = Itr /\ Accepted' = Accepted /\ Filtered' = Filtered /\ n \in Nat
  BY DEF LoopInv, LoopTypeOK, FilterBegin, Itr, fixed, Accepted, Filtered
<1>1. /\ DriveFirst' = DriveFirst /\ DriveEnd' = DriveEnd
      /\ at = "call" /\ at' = "drive" /\ c_prev' = NoBound /\ c_i' = start /\ i' = DriveFirst /\ n_ok' = 0
      /\ UNCHANGED <<n, cand, begWhere, mode, start, j, last, found>>
  BY DEF FilterBegin, fixed, DriveFirst, DriveEnd
<1>2. DriveFirst \in Itr /\ DriveEnd \in 1 .. n /\ DriveFirst < DriveEnd
  BY <1>0, Segments
<1>3. LoopTypeOK'
  BY <1>0, <1>1, <1>2, LoopAssumption DEF LoopTypeOK, Itr, Values, NoBound
<1>4. DriveInv'
  <2>1. NoSkip(c_i)' /\ start' <= c_i'
    BY <1>0, <1>1, LoopAssumption DEF NoSkip, LoopTypeOK, NoBound
  <2>2. QED
    BY <1>0, <1>1, <1>2, <2>1 DEF DriveInv, Itr
<1>5. LeapInv' /\ CheckInv' /\ ReturnsLeastCommon' /\ KeptIsReturned'
  BY <1>1 DEF LeapInv, CheckInv, ReturnsLeastCommon, KeptIsReturned
<1>6. FoundInv' /\ LastInv'
  BY <1>0, <1>1 DEF FoundInv, LastInv, LoopInv
<1>7. QED
  BY <1>3, <1>4, <1>5, <1>6 DEF LoopInv

LEMMA DriveStep == LoopInv /\ Drive => LoopInv'
<1> SUFFICES ASSUME LoopInv, Drive PROVE LoopInv'
  OBVIOUS
<1> DEFINE v      == Leap(i, c_i)
           agrees == v = c_prev \/ DriveEnd - DriveFirst = 1
           ok     == IF agrees THEN n_ok + 1 ELSE 1
           all    == agrees /\ ok = DriveEnd - DriveFirst
           Drivers == DriveFirst .. DriveEnd - 1
<1>0. /\ LoopTypeOK /\ Filtered /\ n \in Nat /\ c_i \in Int /\ start \in Int /\ c_prev \in Int
      /\ Itr' = Itr /\ Accepted' = Accepted /\ Filtered' = Filtered
      /\ DriveFirst' = DriveFirst /\ DriveEnd' = DriveEnd /\ CheckFirst' = CheckFirst /\ CheckEnd' = CheckEnd
  BY LoopAssumption DEF LoopInv, LoopTypeOK, DriveInv, Drive, Itr, fixed, NoBound, Accepted, Filtered,
     DriveFirst, DriveEnd, CheckFirst, CheckEnd
<1>1. /\ DriveFirst \in Itr /\ DriveEnd \in 1 .. n /\ DriveFirst < DriveEnd
      /\ CheckFirst \in Itr /\ CheckEnd \in 1 .. n /\ CheckFirst < CheckEnd /\ Drivers \subseteq Itr
  BY <1>0, Segments
<1>2. /\ i \in Drivers /\ n_ok \in 0 .. DriveEnd - DriveFirst - 1
      /\ start <= c_i /\ NoSkip(c_i)
      /\ n_ok = 0 => c_prev < c_i \/ c_prev = NoBound
      /\ n_ok > 0 => /\ c_i = c_prev /\ c_i \in Values
                     /\ \A k \in Drivers : Agreed(k, i, n_ok, DriveFirst, DriveEnd) => last[k] = c_prev
  BY DEF LoopInv, DriveInv, Drive
<1>3. /\ v \in 0 .. MaxValue
      /\ v = 0 => \A w \in Accepted : w < c_i
      /\ v # 0 => v \in cand[i] /\ v \in Values /\ c_i <= v
                  /\ \A w \in Accepted : c_i <= w => v <= w
  BY <1>0, <1>1, <1>2, LeapCorrect
<1>4. /\ last' = [last EXCEPT ![i] = v] /\ at = "drive"
      /\ \/ v = 0 /\ at' = "ret" /\ c_i' = 0 /\ UNCHANGED <<i, j, c_prev, n_ok>>
         \/ /\ v # 0 /\ c_i' = v /\ c_prev' = v /\ n_ok' = ok
            /\ at' = IF all THEN "check" ELSE "drive"
            /\ j' = IF all THEN CheckFirst ELSE j
            /\ i' = IF all THEN i ELSE NextDriver
      /\ UNCHANGED <<n, cand, begWhere, mode, start, found>>
  BY DEF Drive, Return, fixed
<1> HIDE DEF v
<1>5. v # 0 => start <= v /\ \A w \in Accepted : start <= w => v <= w
  BY <1>0, <1>2, <1>3, LoopAssumption DEF NoSkip, Accepted, Values
<1>6. v = 0 => \A w \in Accepted : w < start
  BY <1>0, <1>2, <1>3, LoopAssumption DEF NoSkip, Accepted, Values
<1>7. last' \in [Itr -> 0 .. MaxValue] /\ \A k \in Itr : last'[k] = IF k = i THEN v ELSE last[k]
  BY <1>1, <1>2, <1>0, <1>3, <1>4 DEF LoopTypeOK
<1>8. NextDriver \in Drivers /\ ok \in 1 .. DriveEnd - DriveFirst
  BY <1>0, <1>1, <1>2 DEF NextDriver, Itr
<1>9. v # 0 => \A k \in Drivers : Agreed(k, i, ok - 1, DriveFirst, DriveEnd) => last'[k] = v
  <2> SUFFICES ASSUME v # 0, NEW k \in Drivers, Agreed(k, i, ok - 1, DriveFirst, DriveEnd)
               PROVE  last'[k] = v
    OBVIOUS
  <2>1. ok - 1 > 0
    BY <1>0, <1>1, <1>2, <1>8 DEF Agreed, Itr
  <2>2. ok = n_ok + 1 /\ agrees
    BY <1>0, <1>2, <2>1
  <2>3. n_ok > 0 /\ v = c_prev /\ k # i
    BY <1>0, <1>1, <1>2, <1>3, <1>8, <2>1, <2>2 DEF Agreed, NoBound, Itr
  <2>4. Agreed(k, i, n_ok, DriveFirst, DriveEnd)
    BY <1>2, <2>2
  <2>5. QED
    BY <1>1, <1>2, <1>7, <2>3, <2>4
<1>10. LoopTypeOK'
  <2>1. /\ c_i' \in {NoBound} \union 0 .. MaxValue + 1 /\ c_prev' \in {NoBound} \union 0 .. MaxValue
        /\ at' \in {"check", "ret", "drive"}
    BY <1>0, <1>3, <1>4, LoopAssumption DEF LoopTypeOK, Values
  <2>2. n_ok' \in 0 .. n
    <3>1. 1 .. DriveEnd - DriveFirst \subseteq 0 .. n
      BY <1>0, <1>1 DEF Itr
    <3> HIDE DEF ok
    <3>2. QED
      BY <1>0, <1>4, <1>8, <3>1 DEF LoopTypeOK
  <2>3. i' \in Itr /\ j' \in 0 .. n
    BY <1>0, <1>1, <1>2, <1>4, <1>8, SMTT(60) DEF LoopTypeOK, Itr
  <2>4. QED
    BY <1>0, <1>4, <1>7, <2>1, <2>2, <2>3 DEF LoopTypeOK
<1>11. DriveInv'
  <2> SUFFICES ASSUME at' = "drive" PROVE DriveInv'
    BY DEF DriveInv
  <2>1. v # 0 /\ ~all /\ c_i' = v /\ c_prev' = v /\ n_ok' = ok /\ i' = NextDriver
    BY <1>4
  <2>2. ok \in 1 .. DriveEnd - DriveFirst - 1
    BY <1>0, <1>1, <1>2, <1>8, <2>1 DEF Itr
  <2>3. NoSkip(c_i)' /\ start' <= c_i' /\ c_i' \in Values
    BY <1>0, <1>3, <1>4, <1>5, <2>1 DEF NoSkip
  <2>4. ASSUME NEW k \in Drivers, Agreed(k, NextDriver, ok, DriveFirst, DriveEnd)
        PROVE  last'[k] = v
    <3>1. CASE k = i
      BY <1>1, <1>7, <3>1
    <3>2. CASE k # i
      <4>1. Agreed(k, i, ok - 1, DriveFirst, DriveEnd)
        BY <1>0, <1>1, <1>2, <2>2, <2>4, <3>2 DEF Agreed, NextDriver, Itr
      <4>2. QED
        BY <1>9, <2>1, <4>1
    <3>3. QED
      BY <3>1, <3>2
  <2> HIDE DEF ok, all
  <2>5. QED
    BY <1>0, <1>8, <2>1, <2>2, <2>3, <2>4 DEF DriveInv, Values
<1>12. CheckInv'
  <2> SUFFICES ASSUME at' = "check" PROVE CheckInv'
    BY DEF CheckInv
  <2>1. v # 0 /\ all /\ c_i' = v /\ c_prev' = v /\ i' = i /\ j' = CheckFirst
    BY <1>4
  <2>2. NoSkip(c_i)' /\ start' <= c_i' /\ c_i' \in Values
    BY <1>0, <1>3, <1>4, <1>5, <2>1 DEF NoSkip
  <2>3. ASSUME NEW k \in Drivers PROVE last'[k] = v
    <3>1. k = i \/ Agreed(k, i, ok - 1, DriveFirst, DriveEnd)
      BY <1>0, <1>1, <1>2, <1>8, <2>1 DEF Agreed, Itr
    <3>2. QED
      BY <1>1, <1>7, <1>9, <2>1, <3>1
  <2> HIDE DEF ok, all
  <2>4. CheckFirst .. CheckFirst - 1 = {}
    BY <1>1 DEF Itr
  <2>5. QED
    BY <1>0, <1>1, <1>2, <2>1, <2>2, <2>3, <2>4 DEF CheckInv, Itr
<1> HIDE DEF ok, all
<1>13. LeapInv'
  BY <1>4 DEF LeapInv
<1>14. FoundInv'
  BY <1>0, <1>4 DEF FoundInv, LoopInv
<1>15. LastInv'
  BY <1>0, <1>1, <1>2, <1>3, <1>4, <1>7 DEF LastInv, LoopInv
<1>16. KeptIsReturned' /\ ReturnsLeastCommon'
  BY <1>0, <1>4, <1>6 DEF KeptIsReturned, ReturnsLeastCommon
<1>17. QED
  BY <1>10, <1>11, <1>12, <1>13, <1>14, <1>15, <1>16 DEF LoopInv

LEMMA CheckStep == LoopInv /\ Check => LoopInv'
<1> SUFFICES ASSUME LoopInv, Check PROVE LoopInv'
  OBVIOUS
<1> DEFINE v       == Leap(j, c_i)
           Drivers == DriveFirst .. DriveEnd - 1
<1>0. /\ LoopTypeOK /\ Filtered /\ n \in Nat /\ start \in Int /\ c_prev \in Int
      /\ Itr' = Itr /\ Accepted' = Accepted /\ Filtered' = Filtered
      /\ DriveFirst' = DriveFirst /\ DriveEnd' = DriveEnd /\ CheckFirst' = CheckFirst /\ CheckEnd' = CheckEnd
  BY LoopAssumption DEF LoopInv, LoopTypeOK, CheckInv, Check, Itr, fixed, NoBound, Accepted, Filtered,
     DriveFirst, DriveEnd, CheckFirst, CheckEnd
<1>1. /\ DriveFirst \in Itr /\ DriveEnd \in 1 .. n /\ DriveFirst < DriveEnd
      /\ CheckFirst \in Itr /\ CheckEnd \in 1 .. n /\ CheckFirst < CheckEnd /\ Drivers \subseteq Itr
      /\ CheckFirst .. CheckEnd - 1 \subseteq Itr
      /\ Itr = Drivers \union (CheckFirst .. CheckEnd - 1)
      /\ Drivers \cap (CheckFirst .. CheckEnd - 1) = {}
  <2>1. Drivers \cap (CheckFirst .. CheckEnd - 1) = {}
    BY <1>0 DEF LoopTypeOK, Filtered, DriveFirst, DriveEnd, CheckFirst, CheckEnd
  <2>2. QED
    BY <1>0, <2>1, Segments
<1>2. /\ i \in Drivers /\ j \in CheckFirst .. CheckEnd - 1
      /\ c_i = c_prev /\ c_i \in Values /\ start <= c_i /\ NoSkip(c_i)
      /\ \A k \in Drivers : last[k] = c_prev
      /\ \A k \in CheckFirst .. j - 1 : last[k] = c_prev
  BY DEF LoopInv, CheckInv, Check
<1>3. /\ v \in 0 .. MaxValue
      /\ v # 0 => v \in cand[j]
      /\ c_i \notin cand[j] => v # c_i
      /\ v = c_i => c_i \in cand[j]
  BY <1>0, <1>1, <1>2, LeapCorrect, LoopAssumption DEF Values
<1>4. /\ last' = [last EXCEPT ![j] = v] /\ at = "check" /\ j' = j + 1
      /\ \/ v = c_prev /\ j + 1 < CheckEnd /\ c_i' = v /\ UNCHANGED <<at, i, n_ok>>
         \/ v = c_prev /\ j + 1 = CheckEnd /\ at' = "ret" /\ c_i' = v /\ UNCHANGED <<i, n_ok>>
         \/ v # c_prev /\ at' = "drive" /\ c_i' = c_prev + 1 /\ n_ok' = 0 /\ i' = NextDriver
      /\ UNCHANGED <<n, cand, begWhere, mode, start, c_prev, found>>
  BY DEF Check, Return, fixed
<1>5. v # c_i => c_i \notin Accepted
  <2> SUFFICES ASSUME c_i \in Accepted PROVE v = c_i
    OBVIOUS
  <2>1. c_i \in cand[j] /\ cand[j] \in SUBSET (Nat \ {0}) /\ c_i \in Int
    BY <1>0, <1>1, <1>2, LoopAssumption DEF Accepted, LoopTypeOK, Values
  <2>2. LeastFrom(cand[j], c_i) # 0 /\ LeastFrom(cand[j], c_i) <= c_i /\ c_i <= LeastFrom(cand[j], c_i)
    BY <2>1, LeastFromCorrect
  <2>3. QED
    BY <1>3, <2>1, <2>2 DEF Leap
<1> HIDE DEF v
<1>6. last' \in [Itr -> 0 .. MaxValue] /\ \A k \in Itr : last'[k] = IF k = j THEN v ELSE last[k]
  BY <1>0, <1>1, <1>2, <1>3, <1>4 DEF LoopTypeOK
<1>7. v = c_prev => /\ \A k \in Drivers : last'[k] = c_prev
                    /\ \A k \in CheckFirst .. j : last'[k] = c_prev
  BY <1>0, <1>1, <1>2, <1>6 DEF Itr
<1>8. NextDriver \in Drivers
  BY <1>0, <1>1, <1>2 DEF NextDriver, Itr
<1>9. LoopTypeOK'
  <2>1. c_i' \in {NoBound} \union 0 .. MaxValue + 1 /\ at' \in {"check", "ret", "drive"}
    BY <1>0, <1>2, <1>3, <1>4, LoopAssumption DEF LoopTypeOK, Values
  <2>2. n_ok' \in 0 .. n /\ j' \in 0 .. n
    BY <1>0, <1>1, <1>2, <1>4 DEF LoopTypeOK, Itr
  <2>3. i' \in Itr
    BY <1>0, <1>1, <1>2, <1>4, <1>8
  <2>4. QED
    BY <1>0, <1>4, <1>6, <2>1, <2>2, <2>3 DEF LoopTypeOK
<1>10. CheckInv'
  <2> SUFFICES ASSUME at' = "check" PROVE CheckInv'
    BY DEF CheckInv
  <2>1. v = c_prev /\ j' = j + 1 /\ j + 1 < CheckEnd /\ c_i' = v /\ i' = i
    BY <1>4
  <2>2. j' \in CheckFirst' .. CheckEnd' - 1 /\ CheckFirst' .. j' - 1 = CheckFirst .. j
    BY <1>0, <1>1, <1>2, <2>1 DEF Itr
  <2>3. NoSkip(c_i)'
    BY <1>0, <1>2, <1>4, <2>1 DEF NoSkip
  <2>4. QED
    BY <1>0, <1>2, <1>4, <1>7, <2>1, <2>2, <2>3 DEF CheckInv, Values
<1>11. DriveInv'
  <2> SUFFICES ASSUME at' = "drive" PROVE DriveInv'
    BY DEF DriveInv
  <2>1. v # c_prev /\ c_i' = c_prev + 1 /\ n_ok' = 0 /\ i' = NextDriver
    BY <1>4
  <2>2. \A w \in Accepted : start <= w => c_prev + 1 <= w
    BY <1>0, <1>2, <1>5, <2>1 DEF NoSkip, Accepted, Values
  <2>3. NoSkip(c_i)' /\ start' <= c_i'
    BY <1>0, <1>2, <1>4, <2>1, <2>2 DEF NoSkip, Values
  <2>4. QED
    BY <1>0, <1>1, <1>4, <1>8, <2>1, <2>3 DEF DriveInv, Itr
<1>12. LeapInv'
  BY <1>4 DEF LeapInv
<1>13. FoundInv'
  BY <1>0, <1>4 DEF FoundInv, LoopInv
<1>14. LastInv'
  BY <1>0, <1>1, <1>2, <1>3, <1>4, <1>6 DEF LastInv, LoopInv
<1>15. at' = "ret" => c_i' = c_prev /\ \A k \in Itr : last'[k] = c_prev
  <2> SUFFICES ASSUME at' = "ret" PROVE c_i' = c_prev /\ \A k \in Itr : last'[k] = c_prev
    OBVIOUS
  <2>1. v = c_prev /\ j + 1 = CheckEnd /\ c_i' = v
    BY <1>4
  <2>2. CheckFirst .. j = CheckFirst .. CheckEnd - 1
    BY <1>0, <1>1, <1>2, <2>1 DEF Itr
  <2>3. QED
    BY <1>1, <1>7, <2>1, <2>2
<1>16. KeptIsReturned'
  BY <1>0, <1>15 DEF KeptIsReturned
<1>17. ReturnsLeastCommon'
  <2> SUFFICES ASSUME at' = "ret" PROVE ReturnsLeastCommon'
    BY DEF ReturnsLeastCommon
  <2>1. c_i' = c_prev /\ c_prev \in Values /\ start' = start /\ c_prev # 0 /\ c_prev = c_i
    BY <1>0, <1>2, <1>4, <1>15 DEF Values
  <2>2. c_prev \in Accepted
    BY <1>0, <1>14, <1>15, <2>1, <1>4 DEF Accepted, LastInv
  <2>3. QED
    BY <1>0, <1>2, <2>1, <2>2 DEF ReturnsLeastCommon, NoSkip
<1>18. QED
  BY <1>9, <1>10, <1>11, <1>12, <1>13, <1>14, <1>16, <1>17 DEF LoopInv

LEMMA ResumeStep == LoopInv /\ Resume => LoopInv'
<1> SUFFICES ASSUME LoopInv, Resume PROVE LoopInv'
  OBVIOUS
<1>0. LoopTypeOK /\ Itr' = Itr /\ Accepted' = Accepted /\ Filtered' = Filtered /\ at = "ret" /\ start \in Int
      /\ UNCHANGED <<n, cand, begWhere, mode, i, j, c_i, c_prev, n_ok, last>>
  BY LoopAssumption DEF LoopInv, LoopTypeOK, Resume, Itr, fixed, Accepted, Filtered, NoBound
<1>1. /\ c_i = 0 => \A v \in Accepted : v < start
      /\ c_i # 0 => c_i \in Accepted /\ start <= c_i /\ \A v \in Accepted : start <= v => c_i <= v
      /\ found = {v \in Accepted : v < start}
  BY <1>0 DEF LoopInv, ReturnsLeastCommon, FoundInv
<1>2. LeapInv' /\ DriveInv' /\ CheckInv' /\ ReturnsLeastCommon' /\ KeptIsReturned' /\ LastInv'
  BY <1>0 DEF Resume, LeapInv, DriveInv, CheckInv, ReturnsLeastCommon, KeptIsReturned, LoopInv, LastInv
<1>3. CASE c_i = 0
  <2>1. at' = "done" /\ found' = found /\ start' = start
    BY <1>3 DEF Resume
  <2>2. FoundInv'
    BY <1>0, <1>1, <1>3, <2>1 DEF FoundInv
  <2>3. LoopTypeOK'
    BY <1>0, <2>1 DEF LoopTypeOK
  <2>4. QED
    BY <1>2, <2>2, <2>3 DEF LoopInv
<1>4. CASE c_i # 0
  <2>1. at' = "call" /\ found' = found \union {c_i} /\ start' = c_i + 1
    BY <1>4 DEF Resume
  <2>2. c_i \in Values /\ Accepted \in SUBSET Values
    BY <1>1, <1>4 DEF Accepted
  <2>3. found' = {v \in Accepted : v < c_i + 1}
    <3>1. ASSUME NEW w \in Accepted PROVE w < start \/ w = c_i <=> w < c_i + 1
      BY <1>0, <1>1, <1>4, <2>2 DEF Values
    <3>2. QED
      BY <1>1, <1>4, <2>1, <3>1
  <2>4. FoundInv'
    BY <1>0, <2>1, <2>3 DEF FoundInv
  <2>5. LoopTypeOK'
    BY <1>0, <2>1, <2>2, LoopAssumption DEF LoopTypeOK, Values
  <2>6. QED
    BY <1>2, <2>4, <2>5 DEF LoopInv
<1>5. QED
  BY <1>3, <1>4

LEMMA LoopInvariantHolds == LoopSpec => []LoopInv
<1>1. LoopInit => LoopInv
  BY LoopInitInv
<1>2. LoopInv /\ [LoopNext]_loopVars => LoopInv'
  <2>1. LoopInv /\ UNCHANGED loopVars => LoopInv'
    BY DEF loopVars, LoopInv, LoopTypeOK, LeapInv, DriveInv, CheckInv, FoundInv, LastInv, ReturnsLeastCommon,
       KeptIsReturned, NoSkip, Agreed, Accepted, Itr, Filtered, DriveFirst, DriveEnd, CheckFirst, CheckEnd
  <2>2. QED
    BY <2>1, SeekBeginStep, SeekLeapStep, FilterBeginStep, DriveStep, CheckStep, ResumeStep DEF LoopNext
<1>3. QED
  BY <1>1, <1>2, PTL DEF LoopSpec

-----------------------------------------------------------------------------
\* Every state of the intersection loop has its type, whatever the iterators.
THEOREM LoopTypeCorrect == LoopSpec => []LoopTypeOK
BY LoopInvariantHolds, PTL DEF LoopInv

\* The three seeks of ltj_algorithm_pg answer the least id that every iterator
\* accepts, and answer 0 only when there is none.
THEOREM SeekIsLeastCommon == LoopSpec => []ReturnsLeastCommon
BY LoopInvariantHolds, PTL DEF LoopInv

\* When a seek returns c, every iterator has found c itself in its last leap, so
\* down(x_j, c) may descend with what that leap left behind.
THEOREM KeptIsFresh == LoopSpec => []KeptIsReturned
BY LoopInvariantHolds, PTL DEF LoopInv

\* The loop of a search node that has ended has visited the intersection of its
\* iterators, no more and no less.
THEOREM LoopVisitsIntersection == LoopSpec => []VisitsIntersection
<1>1. LoopInv => VisitsIntersection
  BY DEF LoopInv, FoundInv, VisitsIntersection
<1>2. QED
  BY <1>1, LoopInvariantHolds, PTL

\* The answer is the one that the search takes: the least id from the bound on that all
\* iterators of the variable accept, 0 when there is none.
THEOREM SeekAnswersLeast == LoopSpec => [](at = "ret" => c_i = LeastFrom(Accepted, start))
<1>1. LoopInv => (at = "ret" => c_i = LeastFrom(Accepted, start))
  <2> SUFFICES ASSUME LoopInv, at = "ret" PROVE c_i = LeastFrom(Accepted, start)
    OBVIOUS
  <2>1. Accepted \in SUBSET (Nat \ {0}) /\ start \in Int
    BY LoopAssumption DEF LoopInv, LoopTypeOK, Accepted, Values, NoBound
  <2>2. ReturnsLeastCommon
    BY DEF LoopInv
  <2>3. CASE c_i = 0
    BY <2>1, <2>2, <2>3, LeastFromNone DEF ReturnsLeastCommon
  <2>4. CASE c_i # 0
    BY <2>1, <2>2, <2>4, LeastFromIs DEF ReturnsLeastCommon
  <2> QED
    BY <2>3, <2>4
<1> QED
  BY <1>1, LoopInvariantHolds, PTL

-----------------------------------------------------------------------------
(***************************************************************************)
(* The search.                                                             *)
(***************************************************************************)
\* How many of the open nodes have a value that the iterators went down by.
Placed == IF pc = "seek" THEN Depth - 1 ELSE Depth

NodeInv ==
  /\ pc = "done" => Depth = 0
  /\ pc \in {"seek", "return"} => Depth >= 1
  /\ \A e \in 1 .. Placed : frames[e].c \in Ids /\ tuple[frames[e].x] = frames[e].c

\* What IteratorsFollowPath says, of bound[k] as a function.
PathInv ==
  \A k \in q.itrs :
    /\ bound[k] = [y \in DOMAIN bound[k] |-> bound[k][y]]
    /\ DOMAIN bound[k] = {frames[e].x : e \in 1 .. Placed} \cap q.scope[k]
    /\ \A e \in 1 .. Placed : frames[e].x \in q.scope[k] => bound[k][frames[e].x] = frames[e].c

\* An iterator accepts what it went down by; one that no variable moved yet was only
\* asked by the constructor, if it comes from a pattern.
AcceptInv ==
  \A k \in q.itrs :
    pc # "done" /\ (k \in q.pattern \/ DOMAIN bound[k] # {}) => bound[k] \in q.accepts[k]

\* A lonely node has an iterator of its own, which has no variable left below it, so
\* that its cursor stays at the value of the node.
CursorInv ==
  \A e \in 1 .. Depth : frames[e].lonely =>
    \E k \in q.itrs :
      /\ ItrsOf(frames[e].x) = {k} /\ q.scope[k] \subseteq {frames[d].x : d \in 1 .. e}
      /\ IF e <= Placed THEN cursor[k] = frames[e].c ELSE from = 1 \/ cursor[k] = from - 1

IInv ==
  /\ TypeOK /\ NodeInv /\ PathInv /\ AcceptInv /\ CursorInv
  /\ ResultsArePassedSolutions /\ LimitKept

-----------------------------------------------------------------------------
(***************************************************************************)
(* Queries, assignments, frames.                                           *)
(***************************************************************************)
LEMMA QueryFacts ==
  ASSUME query \in DOMAIN Queries
  PROVE  /\ IsFiniteSet(q.vars) /\ Cardinality(q.vars) \in Nat
         /\ q.vars \subseteq Vars /\ q.pattern \subseteq q.itrs /\ q.limit \in Nat
         /\ \A x \in q.vars : \E k \in q.itrs : x \in q.scope[k]
         /\ \A k \in q.itrs :
              /\ q.scope[k] \subseteq q.vars /\ (k \notin q.pattern => q.scope[k] # {})
              /\ \A s \in q.accepts[k] :
                   /\ DOMAIN s \subseteq q.scope[k] /\ \A y \in DOMAIN s : s[y] \in Ids
                   /\ \A V \in SUBSET q.vars : On(s, V) \in q.accepts[k]
<1>1. IsQuery(q)
  BY QueryAssumption DEF QueryAssumption, q
<1>2. QED
  BY <1>1, FS_CardinalityType DEF IsQuery

LEMMA IdFacts == /\ Ids \in SUBSET (Nat \ {0}) /\ \A v : v \in Ids <=> v \in Nat /\ 1 <= v /\ v <= MaxId
BY BoundsAssumption DEF Ids

LEMMA LeastIdFacts ==
  ASSUME NEW S \in SUBSET Ids, NEW c \in Int, NEW f, f = LeastFrom(S, c)
  PROVE  /\ f \in 0 .. MaxId
         /\ f # 0 => f \in S /\ c <= f
         /\ \A v \in S : c <= v => f # 0 /\ f <= v
<1>1. S \in SUBSET (Nat \ {0})
  BY IdFacts
<1>2. /\ f = 0 <=> \A v \in S : v < c
      /\ f # 0 => f \in S /\ c <= f /\ \A v \in S : c <= v => f <= v
  BY <1>1, LeastFromCorrect
<1>3. f \in 0 .. MaxId
  <2>1. f = 0 \/ f \in Ids
    BY <1>2
  <2>2. QED BY <2>1, BoundsAssumption DEF Ids
<1>4. QED
  BY <1>2, <1>3, IdFacts

\* The top node.
LEMMA TopFacts ==
  ASSUME TypeOK, NodeInv
  PROVE  /\ Depth \in Nat /\ Placed \in 0 .. Depth
         /\ frames \in Seq([x : q.vars, c : 0 .. MaxId, lonely : BOOLEAN])
         /\ \A e \in 1 .. Depth : /\ frames[e] \in [x : q.vars, c : 0 .. MaxId, lonely : BOOLEAN]
                                  /\ frames[e].x \in q.vars /\ frames[e].c \in 0 .. MaxId
         /\ \A e1, e2 \in 1 .. Depth : frames[e1].x = frames[e2].x => e1 = e2
         /\ pc \in {"seek", "return"} => /\ Depth \in 1 .. Depth /\ Top = frames[Depth]
                                         /\ Top.x \in q.vars
         /\ pc = "seek" => Placed = Depth - 1
         /\ pc # "seek" => Placed = Depth
         /\ from \in Int /\ from >= 1
<1>1. frames \in Seq([x : q.vars, c : 0 .. MaxId, lonely : BOOLEAN]) /\ Depth \in Nat
  BY DEF TypeOK, Depth
<1>2. \A e \in 1 .. Depth : frames[e] \in [x : q.vars, c : 0 .. MaxId, lonely : BOOLEAN]
  <2> DEFINE R == [x : q.vars, c : 0 .. MaxId, lonely : BOOLEAN]
  <2>1. frames \in Seq(R)
    BY <1>1
  <2> HIDE DEF R
  <2>2. \A e \in 1 .. Depth : frames[e] \in R
    BY <2>1 DEF Depth
  <2>3. QED BY <2>2 DEF R
<1>3. QED
  BY <1>1, <1>2, BoundsAssumption DEF TypeOK, NodeInv, Placed, Top

\* A found value is the least one, whichever way it was looked for.
LEMMA FoundFacts ==
  ASSUME TypeOK, NodeInv, CursorInv, pc = "seek"
  PROVE  /\ Found = LeastFrom(Common(Top.x), from)
         /\ Found \in 0 .. MaxId
         /\ Found # 0 => Found \in Common(Top.x) /\ from <= Found
         /\ \A v \in Common(Top.x) : from <= v => Found # 0 /\ Found <= v
         /\ Top.lonely => /\ LonelyItr \in q.itrs /\ ItrsOf(Top.x) = {LonelyItr}
                          /\ q.scope[LonelyItr] \subseteq {frames[d].x : d \in 1 .. Depth}
<1>1. /\ Depth \in 1 .. Depth /\ Placed = Depth - 1 /\ Depth \in Nat
      /\ Top = frames[Depth] /\ from \in Int
  BY TopFacts
<1>2. Common(Top.x) \in SUBSET Ids
  BY DEF Common
<1>3. /\ Found = LeastFrom(Common(Top.x), from)
      /\ Top.lonely => /\ LonelyItr \in q.itrs /\ ItrsOf(Top.x) = {LonelyItr}
                       /\ q.scope[LonelyItr] \subseteq {frames[d].x : d \in 1 .. Depth}
  <2>1. CASE Top.lonely
    <3>1. PICK k \in q.itrs :
            /\ ItrsOf(Top.x) = {k} /\ q.scope[k] \subseteq {frames[d].x : d \in 1 .. Depth}
            /\ from = 1 \/ cursor[k] = from - 1
      <4>1. ~(Depth <= Placed)
        BY <1>1
      <4>2. QED BY <1>1, <2>1, <4>1 DEF CursorInv
    <3>2. LonelyItr = k
      BY <3>1 DEF LonelyItr
    <3>3. Common(Top.x) = Candidates(k, Top.x)
      BY <3>1 DEF Common, Candidates
    <3>4. cursor[k] \in Int
      BY BoundsAssumption DEF TypeOK
    <3>5. from # 1 => cursor[k] + 1 = from
      BY <1>1, <3>1, <3>4
    <3>6. Found = LeastFrom(Common(Top.x), from)
      BY <2>1, <3>2, <3>3, <3>5 DEF Found, Least
    <3>7. QED BY <3>1, <3>2, <3>6
  <2>2. CASE ~Top.lonely
    BY <2>2 DEF Found
  <2>3. QED BY <2>1, <2>2
<1>4. QED
  BY <1>1, <1>2, <1>3, LeastIdFacts

\* A solution that follows the path has at the top a value that all accept.
LEMMA SolutionIsCommon ==
  ASSUME TypeOK, NodeInv, PathInv, pc = "seek", NEW s \in Solutions, Follows(s, Depth - 1)
  PROVE  s[Top.x] \in Common(Top.x)
<1>1. /\ Depth \in 1 .. Depth /\ Placed = Depth - 1 /\ Depth \in Nat
      /\ Top = frames[Depth] /\ Top.x \in q.vars
  BY TopFacts
<1>2. s \in [q.vars -> Ids] /\ \A k \in q.itrs : On(s, q.scope[k]) \in q.accepts[k]
  BY DEF Solutions
<1>3. ASSUME NEW k \in ItrsOf(Top.x)
      PROVE  Extend(bound[k], Top.x, s[Top.x]) \in q.accepts[k]
  <2>1. k \in q.itrs /\ Top.x \in q.scope[k] /\ q.scope[k] \subseteq q.vars
    BY <1>3, QueryFacts DEF ItrsOf, TypeOK
  <2> DEFINE V == DOMAIN bound[k] \union {Top.x}
             t == On(s, q.scope[k])
  <2>2. /\ DOMAIN bound[k] = {frames[e].x : e \in 1 .. Placed} \cap q.scope[k]
        /\ \A e \in 1 .. Placed : frames[e].x \in q.scope[k] => bound[k][frames[e].x] = frames[e].c
    BY <2>1 DEF PathInv
  <2>3. \A e \in 1 .. Placed : s[frames[e].x] = frames[e].c
    BY <1>1 DEF Follows
  <2>4. V \subseteq q.scope[k] /\ \A y \in DOMAIN bound[k] : bound[k][y] = s[y]
    BY <2>1, <2>2, <2>3
  <2>5. t = [y \in q.scope[k] |-> s[y]]
    <3>1. DOMAIN s \cap q.scope[k] = q.scope[k]
      BY <1>2, <2>1
    <3>2. QED BY <3>1 DEF On
  <2>6. On(t, V) = [y \in V |-> s[y]]
    <3>1. DOMAIN t \cap V = V
      BY <2>4, <2>5
    <3>2. \A y \in V : t[y] = s[y]
      BY <2>4, <2>5
    <3> HIDE DEF V, t
    <3>3. QED BY <3>1, <3>2 DEF On
  <2>7. On(t, V) \in q.accepts[k]
    BY <1>2, <2>1, <2>4, QueryFacts DEF TypeOK
  <2>8. Extend(bound[k], Top.x, s[Top.x]) = [y \in V |-> s[y]]
    BY <2>4 DEF Extend
  <2>9. QED BY <2>6, <2>7, <2>8
<1>4. s[Top.x] \in Ids
  BY <1>1, <1>2
<1>5. QED
  BY <1>3, <1>4 DEF Common, Candidates, ItrsOf

\* What an action that leaves the query alone leaves alone with it.
LEMMA QueryStays ==
  ASSUME UNCHANGED query
  PROVE  q' = q /\ Solutions' = Solutions /\ \A x : ItrsOf(x)' = ItrsOf(x)
BY DEF q, Solutions, ItrsOf

\* With as many nodes as variables, all are bound.
LEMMA AllBound ==
  ASSUME TypeOK, NodeInv, Depth = Cardinality(q.vars)
  PROVE  \A x \in q.vars : \E e \in 1 .. Depth : frames[e].x = x
<1>1. IsFiniteSet(q.vars) /\ Depth \in Nat
  BY QueryFacts, TopFacts DEF TypeOK
<1> DEFINE f == [e \in 1 .. Depth |-> frames[e].x]
<1>2. f \in Injection(1 .. Depth, q.vars)
  BY TopFacts DEF Injection, IsInjective
<1>3. Cardinality(1 .. Depth) = Depth
  BY <1>1, FS_Interval
<1>4. f \in Surjection(1 .. Depth, q.vars)
  BY <1>1, <1>2, <1>3, FS_Injection
<1>5. QED
  BY <1>4 DEF Surjection

\* Then the tuple is a solution, the one that follows the path.
LEMMA TupleIsSolution ==
  ASSUME TypeOK, NodeInv, PathInv, AcceptInv, pc = "enter", Depth = Cardinality(q.vars)
  PROVE  /\ tuple \in Solutions /\ Follows(tuple, Depth)
         /\ \A s \in Solutions : Follows(s, Depth) => s = tuple
<1>1. Placed = Depth /\ Depth \in Nat /\ \A e \in 1 .. Depth : frames[e].x \in q.vars
  BY TopFacts
<1>2. \A e \in 1 .. Depth : frames[e].c \in Ids /\ tuple[frames[e].x] = frames[e].c
  BY <1>1 DEF NodeInv
<1>3. \A x \in q.vars : tuple[x] \in Ids
  BY <1>2, AllBound
<1>4. tuple \in [q.vars -> Ids]
  BY <1>3 DEF TypeOK
<1>5. ASSUME NEW k \in q.itrs
      PROVE  On(tuple, q.scope[k]) \in q.accepts[k]
  <2>1. q.scope[k] \subseteq q.vars /\ (k \notin q.pattern => q.scope[k] # {})
    BY QueryFacts DEF TypeOK
  <2>2. /\ bound[k] = [y \in DOMAIN bound[k] |-> bound[k][y]]
        /\ DOMAIN bound[k] = {frames[e].x : e \in 1 .. Depth} \cap q.scope[k]
        /\ \A e \in 1 .. Depth : frames[e].x \in q.scope[k] => bound[k][frames[e].x] = frames[e].c
    BY <1>1 DEF PathInv
  <2>3. DOMAIN bound[k] = q.scope[k]
    BY <2>1, <2>2, AllBound
  <2>4. \A y \in q.scope[k] : bound[k][y] = tuple[y]
    BY <1>2, <2>1, <2>2, AllBound
  <2>5. DOMAIN tuple \cap q.scope[k] = q.scope[k]
    BY <1>4, <2>1
  <2>6. On(tuple, q.scope[k]) = [y \in q.scope[k] |-> tuple[y]]
    BY <2>5 DEF On
  <2>7. bound[k] = [y \in q.scope[k] |-> tuple[y]]
    BY <2>2, <2>3, <2>4
  <2>8. bound[k] \in q.accepts[k]
    BY <2>1, <2>3 DEF AcceptInv
  <2>9. QED BY <2>6, <2>7, <2>8
<1>6. tuple \in Solutions
  BY <1>4, <1>5 DEF Solutions
<1>7. Follows(tuple, Depth)
  BY <1>2 DEF Follows
<1>8. ASSUME NEW s \in Solutions, Follows(s, Depth)
      PROVE  s = tuple
  <2>1. s \in [q.vars -> Ids]
    BY DEF Solutions
  <2>2. \A e \in 1 .. Depth : s[frames[e].x] = tuple[frames[e].x]
    BY <1>2, <1>8 DEF Follows
  <2>3. \A x \in q.vars : s[x] = tuple[x]
    BY <2>2, AllBound
  <2>4. QED BY <1>4, <2>1, <2>3
<1>9. QED
  BY <1>6, <1>7, <1>8

\* A step that opens, binds and leaves no node, and moves no iterator.
LEMMA FramesStay ==
  ASSUME TypeOK, NodeInv, UNCHANGED <<query, frames, from, bound, cursor, tuple>>,
         pc # "seek", pc' # "seek"
  PROVE  /\ PathInv => PathInv'
         /\ CursorInv => CursorInv'
         /\ Depth' = Depth /\ Placed' = Placed
<1>1. Depth' = Depth /\ Placed' = Placed
  BY DEF Depth, Placed
<1>2. q' = q /\ \A x : ItrsOf(x)' = ItrsOf(x)
  BY QueryStays
<1>3. PathInv => PathInv'
  BY <1>1, <1>2 DEF PathInv
<1>4. CursorInv => CursorInv'
  BY <1>1, <1>2 DEF CursorInv
<1>5. QED
  BY <1>1, <1>3, <1>4

LEMMA InitInv == Init => IInv
<1> SUFFICES ASSUME Init PROVE IInv
  OBVIOUS
<1>1. /\ query \in DOMAIN Queries /\ Depth = 0 /\ Len(res) = 0 /\ Placed = IF pc = "seek" THEN -1 ELSE 0
      /\ pc \in {"enter", "done"} /\ \A k \in q.itrs : bound[k] = Nothing /\ DOMAIN bound[k] = {}
  BY DEF Init, Depth, Placed, Nothing
<1>2. TypeOK
  <2>1. \A k \in q.itrs : bound[k] \in [{} -> Ids]
    BY <1>1 DEF Nothing
  <2>2. \A k \in q.itrs : \E V \in SUBSET q.scope[k] : bound[k] \in [V -> Ids]
    BY <2>1
  <2>3. /\ frames \in Seq([x : q.vars, c : 0 .. MaxId, lonely : BOOLEAN])
        /\ res \in Seq([q.vars -> Ids])
    BY DEF Init
  <2>4. /\ from \in 1 .. MaxId + 1 /\ cursor \in [q.itrs -> 0 .. MaxId]
        /\ tuple \in [q.vars -> 0 .. MaxId]
    BY BoundsAssumption DEF Init
  <2>5. \A e1, e2 \in 1 .. Depth : frames[e1].x = frames[e2].x => e1 = e2
    BY <1>1
  <2>6. QED
    BY <1>1, <2>2, <2>3, <2>4, <2>5 DEF TypeOK
<1>3. NodeInv /\ CursorInv
  BY <1>1 DEF NodeInv, CursorInv
<1>4. PathInv
  BY <1>1 DEF PathInv, Nothing
<1>5. AcceptInv
  BY <1>1 DEF Init, AcceptInv
<1>6. ResultsArePassedSolutions
  <2>1. ASSUME pc = "done", NEW s \in Solutions PROVE FALSE
    <3>1. PICK k \in q.pattern : Nothing \notin q.accepts[k]
      BY <2>1 DEF Init
    <3>2. k \in q.itrs /\ On(s, q.scope[k]) \in q.accepts[k]
      BY <1>1, QueryFacts DEF Solutions
    <3>3. On(On(s, q.scope[k]), {}) \in q.accepts[k]
      BY <1>1, <3>2, QueryFacts
    <3>4. On(On(s, q.scope[k]), {}) = Nothing
      BY DEF On, Nothing
    <3>5. QED BY <3>1, <3>3, <3>4
  <2>2. \A s : ~(pc = "enter" /\ Passed(s))
    BY <1>1 DEF Passed
  <2>3. DOMAIN res = {}
    BY DEF Init
  <2>4. QED
    BY <1>1, <2>1, <2>2, <2>3 DEF ResultsArePassedSolutions
<1>7. LimitKept
  BY <1>1, QueryFacts DEF LimitKept
<1>8. QED
  BY <1>2, <1>3, <1>4, <1>5, <1>6, <1>7 DEF IInv

LEMMA StopInv == IInv /\ Stop => IInv'
<1> SUFFICES ASSUME IInv, Stop PROVE IInv'
  OBVIOUS
<1>1. /\ pc = "enter" /\ pc' = "cut"
      /\ UNCHANGED <<query, frames, from, bound, cursor, tuple, res>>
  BY DEF Stop
<1>2. q' = q /\ Solutions' = Solutions /\ Depth' = Depth /\ Placed' = Placed /\ PathInv' /\ CursorInv'
  BY <1>1, QueryStays, FramesStay DEF IInv
<1>3. TypeOK'
  BY <1>1, <1>2 DEF IInv, TypeOK
<1>4. NodeInv' /\ AcceptInv'
  BY <1>1, <1>2 DEF IInv, NodeInv, AcceptInv
<1>5. ResultsArePassedSolutions'
  <2>1. \A s : Passed(s)' <=> Passed(s)
    BY <1>1, <1>2 DEF Passed, Follows
  <2>2. QED BY <1>1, <1>2, <2>1 DEF IInv, ResultsArePassedSolutions
<1>6. LimitKept'
  BY <1>1, <1>2 DEF IInv, LimitKept
<1>7. QED
  BY <1>2, <1>3, <1>4, <1>5, <1>6 DEF IInv

LEMMA AppendFacts ==
  ASSUME NEW S, NEW t \in Seq(S), NEW x \in S
  PROVE  /\ Append(t, x) \in Seq(S) /\ Len(t) \in Nat /\ Len(Append(t, x)) = Len(t) + 1
         /\ \A d \in 1 .. Len(t) : Append(t, x)[d] = t[d]
         /\ Append(t, x)[Len(t) + 1] = x
         /\ DOMAIN t = 1 .. Len(t) /\ DOMAIN Append(t, x) = 1 .. Len(t) + 1
OBVIOUS

LEMMA ReportInv == IInv /\ Report => IInv'
<1> SUFFICES ASSUME IInv, Report PROVE IInv'
  OBVIOUS
<1>1. /\ pc = "enter" /\ ~LimitReached /\ Depth = Cardinality(q.vars)
      /\ res' = Append(res, tuple) /\ pc' = IF Depth = 0 THEN "done" ELSE "return"
      /\ UNCHANGED <<query, frames, from, bound, cursor, tuple>>
      /\ TypeOK /\ NodeInv /\ PathInv /\ AcceptInv /\ CursorInv
      /\ ResultsArePassedSolutions /\ LimitKept
  BY DEF Report, IInv
<1>2. /\ q' = q /\ Solutions' = Solutions /\ Depth' = Depth /\ Placed' = Placed
      /\ PathInv' /\ CursorInv'
  BY <1>1, QueryStays, FramesStay
<1>3. /\ tuple \in Solutions /\ Follows(tuple, Depth)
      /\ \A s \in Solutions : Follows(s, Depth) => s = tuple
  BY <1>1, TupleIsSolution
<1>4. /\ res' \in Seq([q.vars -> Ids]) /\ Len(res) \in Nat /\ Len(res') = Len(res) + 1
      /\ DOMAIN res = 1 .. Len(res) /\ DOMAIN res' = 1 .. Len(res) + 1
      /\ \A r \in 1 .. Len(res) : res'[r] = res[r]
      /\ res'[Len(res) + 1] = tuple
  <2>1. res \in Seq([q.vars -> Ids]) /\ tuple \in [q.vars -> Ids]
    BY <1>1, <1>3 DEF TypeOK, Solutions
  <2>2. QED BY <1>1, <2>1, AppendFacts
<1>5. Depth \in Nat /\ Placed = Depth
  BY <1>1, TopFacts
<1>6. TypeOK'
  BY <1>1, <1>2, <1>4 DEF TypeOK
<1>7. NodeInv' /\ AcceptInv'
  BY <1>1, <1>2, <1>5 DEF NodeInv, AcceptInv
<1>8. ResultsArePassedSolutions'
  <2>1. ~Passed(tuple)
    <3>1. \A e \in 1 .. Depth : tuple[frames[e].x] = frames[e].c /\ frames[e].c \in Int
      BY <1>1, <1>5, BoundsAssumption DEF NodeInv, Ids
    <3>2. QED BY <1>1, <3>1 DEF Passed
  <2>2. ASSUME NEW s \in Solutions PROVE Passed(s)' <=> Passed(s) \/ s = tuple
    <3>1. CASE Depth = 0
      BY <1>1, <1>2, <1>3, <3>1 DEF Passed, Follows
    <3>2. CASE Depth # 0
      <4>1. Passed(s)' <=> Follows(s, Depth) \/ Passed(s)
        BY <1>1, <1>2, <3>2 DEF Passed, Follows
      <4>2. QED BY <1>3, <4>1
    <3>3. QED BY <3>1, <3>2
  <2>3. \A s \in Solutions : Passed(s) <=> \E r \in 1 .. Len(res) : res[r] = s
    BY <1>1, <1>4 DEF ResultsArePassedSolutions
  <2>4. /\ \A r \in 1 .. Len(res) : res[r] \in Solutions
        /\ \A r1, r2 \in 1 .. Len(res) : res[r1] = res[r2] => r1 = r2
    BY <1>1, <1>4 DEF ResultsArePassedSolutions
  <2>5. \A r \in 1 .. Len(res) : res[r] # tuple
    BY <1>3, <2>1, <2>3
  <2>6. \A r \in 1 .. Len(res) + 1 : r \in 1 .. Len(res) \/ r = Len(res) + 1
    BY <1>4
  <2>7. \A s \in Solutions : Passed(s)' <=> \E r \in 1 .. Len(res) + 1 : res'[r] = s
    BY <1>4, <2>2, <2>3, <2>6
  <2>8. \A r \in 1 .. Len(res) + 1 : res'[r] \in Solutions
    BY <1>3, <1>4, <2>4, <2>6
  <2>9. \A r1, r2 \in 1 .. Len(res) + 1 : res'[r1] = res'[r2] => r1 = r2
    BY <1>4, <2>4, <2>5, <2>6
  <2>10. QED
    BY <1>2, <1>4, <2>7, <2>8, <2>9 DEF ResultsArePassedSolutions
<1>9. LimitKept'
  <2>1. q.limit \in Nat
    BY <1>1, QueryFacts DEF TypeOK
  <2>2. QED BY <1>1, <1>2, <1>4, <2>1 DEF LimitKept, LimitReached
<1>10. QED
  BY <1>2, <1>6, <1>7, <1>8, <1>9 DEF IInv

LEMMA ChooseInv == ASSUME NEW x \in Vars, IInv, Choose(x) PROVE IInv'
<1>1. /\ pc = "enter" /\ x \in q.vars /\ x \notin BoundVars
      /\ frames' = Append(frames, [x |-> x, c |-> 0, lonely |-> Lonely(x)])
      /\ from' = 1 /\ pc' = "seek" /\ UNCHANGED <<query, bound, cursor, tuple, res>>
      /\ TypeOK /\ NodeInv /\ PathInv /\ AcceptInv /\ CursorInv
      /\ ResultsArePassedSolutions /\ LimitKept
  BY DEF Choose, IInv
<1>2. q' = q /\ Solutions' = Solutions /\ \A y : ItrsOf(y)' = ItrsOf(y)
  BY <1>1, QueryStays
<1>3. /\ Depth \in Nat /\ Placed = Depth /\ Depth' = Depth + 1 /\ Placed' = Depth
      /\ frames' \in Seq([x : q.vars, c : 0 .. MaxId, lonely : BOOLEAN])
      /\ \A e \in 1 .. Depth : frames'[e] = frames[e]
      /\ frames'[Depth + 1] = [x |-> x, c |-> 0, lonely |-> Lonely(x)]
      /\ \A e \in 1 .. Depth : frames[e].x # x
  <2>1. Lonely(x) \in BOOLEAN
    BY DEF Lonely
  <2>2. [x |-> x, c |-> 0, lonely |-> Lonely(x)] \in [x : q.vars, c : 0 .. MaxId, lonely : BOOLEAN]
    BY <1>1, <2>1, BoundsAssumption
  <2>3. frames \in Seq([x : q.vars, c : 0 .. MaxId, lonely : BOOLEAN]) /\ Placed = Depth
    BY <1>1, TopFacts
  <2>4. /\ frames' \in Seq([x : q.vars, c : 0 .. MaxId, lonely : BOOLEAN])
        /\ Depth \in Nat /\ Depth' = Depth + 1
        /\ \A e \in 1 .. Depth : frames'[e] = frames[e]
        /\ frames'[Depth + 1] = [x |-> x, c |-> 0, lonely |-> Lonely(x)]
    <3> DEFINE R == [x : q.vars, c : 0 .. MaxId, lonely : BOOLEAN]
               node == [x |-> x, c |-> 0, lonely |-> Lonely(x)]
    <3>1. frames \in Seq(R) /\ node \in R /\ frames' = Append(frames, node)
      BY <1>1, <2>2, <2>3
    <3> HIDE DEF R, node
    <3>2. /\ frames' \in Seq(R) /\ Depth \in Nat /\ Depth' = Depth + 1
          /\ \A e \in 1 .. Depth : frames'[e] = frames[e]
          /\ frames'[Depth + 1] = node
      BY <3>1, AppendFacts DEF Depth
    <3>3. QED BY <3>2 DEF R, node
  <2>5. Placed' = Depth
    BY <1>1, <2>4 DEF Placed
  <2>6. QED BY <1>1, <2>3, <2>4, <2>5 DEF BoundVars
<1>4. /\ \A e \in 1 .. Depth + 1 : e \in 1 .. Depth \/ e = Depth + 1
      /\ \A e \in 1 .. Depth : frames'[e].x = frames[e].x
      /\ frames'[Depth + 1].x = x
      /\ \A d \in 0 .. Depth : {frames'[e].x : e \in 1 .. d} = {frames[e].x : e \in 1 .. d}
  <2>1. \A d \in 0 .. Depth : \A e \in 1 .. d : frames'[e] = frames[e]
    BY <1>3
  <2>2. \A d \in 0 .. Depth : {frames'[e].x : e \in 1 .. d} = {frames[e].x : e \in 1 .. d}
    BY <2>1
  <2>3. \A e \in 1 .. Depth + 1 : e \in 1 .. Depth \/ e = Depth + 1
    BY <1>3
  <2>4. (\A e \in 1 .. Depth : frames'[e].x = frames[e].x) /\ frames'[Depth + 1].x = x
    BY <1>3
  <2>5. QED BY <2>2, <2>3, <2>4
<1>5. TypeOK'
  <2>1. \A e1, e2 \in 1 .. Depth + 1 : frames'[e1].x = frames'[e2].x => e1 = e2
    <3>1. \A e1, e2 \in 1 .. Depth : frames[e1].x = frames[e2].x => e1 = e2
      BY <1>1, TopFacts
    <3>2. QED BY <1>3, <1>4, <3>1
  <2>2. from' \in 1 .. MaxId + 1
    BY <1>1, BoundsAssumption
  <2>3. QED BY <1>1, <1>2, <1>3, <2>1, <2>2 DEF TypeOK
<1>6. NodeInv'
  BY <1>1, <1>3 DEF NodeInv
<1>7. PathInv'
  <2>1. Depth \in 0 .. Depth
    BY <1>3
  <2>2. {frames'[e].x : e \in 1 .. Depth} = {frames[e].x : e \in 1 .. Depth}
    BY <1>4, <2>1
  <2>3. ASSUME NEW k \in q.itrs
        PROVE  /\ bound[k] = [y \in DOMAIN bound[k] |-> bound[k][y]]
               /\ DOMAIN bound[k] = {frames'[e].x : e \in 1 .. Depth} \cap q.scope[k]
               /\ \A e \in 1 .. Depth : frames'[e].x \in q.scope[k] => bound[k][frames'[e].x] = frames'[e].c
    <3>1. /\ bound[k] = [y \in DOMAIN bound[k] |-> bound[k][y]]
          /\ DOMAIN bound[k] = {frames[e].x : e \in 1 .. Depth} \cap q.scope[k]
          /\ \A e \in 1 .. Depth : frames[e].x \in q.scope[k] => bound[k][frames[e].x] = frames[e].c
      BY <1>1, <1>3 DEF PathInv
    <3>2. QED BY <1>3, <2>2, <3>1
  <2>4. QED BY ZenonT(60), <1>1, <1>2, <1>3, <2>3 DEF PathInv
<1>8. AcceptInv'
  BY <1>1, <1>2 DEF AcceptInv
<1>9. CursorInv'
  <2> SUFFICES ASSUME NEW e \in 1 .. Depth + 1, frames'[e].lonely
               PROVE  \E k \in q.itrs :
                        /\ ItrsOf(frames'[e].x) = {k} /\ q.scope[k] \subseteq {frames'[d].x : d \in 1 .. e}
                        /\ IF e <= Depth THEN cursor[k] = frames'[e].c ELSE from' = 1 \/ cursor[k] = from' - 1
    BY <1>1, <1>2, <1>3 DEF CursorInv
  <2>1. CASE e \in 1 .. Depth
    <3>1. {frames'[d].x : d \in 1 .. e} = {frames[d].x : d \in 1 .. e}
      <4>1. \A d \in 1 .. e : d \in 1 .. Depth
        BY <1>3, <2>1
      <4>2. \A d \in 1 .. e : frames'[d] = frames[d]
        BY <1>3, <4>1
      <4>3. QED BY <4>2
    <3>2. frames'[e] = frames[e] /\ e <= Depth
      BY <1>3, <2>1
    <3>3. PICK k \in q.itrs :
            /\ ItrsOf(frames[e].x) = {k} /\ q.scope[k] \subseteq {frames[d].x : d \in 1 .. e}
            /\ cursor[k] = frames[e].c
      BY <1>1, <1>3, <2>1, <3>2 DEF CursorInv
    <3>4. QED BY <3>1, <3>2, <3>3
  <2>2. CASE e = Depth + 1
    <3>1. PICK k \in q.pattern : ItrsOf(x) = {k} /\ q.scope[k] \ DOMAIN bound[k] = {x}
      BY <1>3, <2>2 DEF Lonely
    <3>2. k \in q.itrs
      BY <1>1, <3>1, QueryFacts DEF TypeOK
    <3>3. DOMAIN bound[k] \subseteq {frames[d].x : d \in 1 .. Depth}
      BY <1>1, <1>3, <3>2 DEF PathInv
    <3>4. q.scope[k] \subseteq {frames'[d].x : d \in 1 .. e}
      <4>1. \A y \in q.scope[k] : y = x \/ \E d \in 1 .. Depth : y = frames[d].x
        BY <3>1, <3>3
      <4>2. \A d \in 1 .. Depth : d \in 1 .. e
        BY <1>3, <2>2
      <4>3. e \in 1 .. e
        BY <1>3, <2>2
      <4>4. QED BY <1>4, <2>2, <4>1, <4>2, <4>3
    <3>5. frames'[e].x = x /\ ~(e <= Depth)
      BY <1>3, <1>4, <2>2
    <3>6. QED BY <1>1, <3>1, <3>2, <3>4, <3>5
  <2>3. QED BY <1>4, <2>1, <2>2
<1>10. ResultsArePassedSolutions'
  <2>1. ASSUME NEW s \in Solutions PROVE Passed(s)' <=> Passed(s)
    <3>1. s[x] \in Ids
      BY <1>1 DEF Solutions
    <3>2. ~(s[x] < 1)
      BY <3>1, IdFacts
    <3>3. ASSUME NEW e \in 1 .. Depth + 1
          PROVE  Follows(s, e - 1)' <=> Follows(s, e - 1)
      <4>1. \A d \in 1 .. e - 1 : d \in 1 .. Depth
        BY <1>3
      <4>2. \A d \in 1 .. e - 1 : frames'[d] = frames[d]
        BY <1>3, <4>1
      <4>3. QED BY <4>2 DEF Follows
    <3>4. \A e \in 1 .. Depth : e # Depth + 1
      BY <1>3
    <3>5. Passed(s)' <=> \E e \in 1 .. Depth : Follows(s, e - 1) /\ s[frames[e].x] < frames[e].c
      <4>1. Passed(s)' <=> \E e \in 1 .. Depth + 1 :
                             /\ Follows(s, e - 1)
                             /\ s[frames'[e].x] < IF e = Depth + 1 THEN 1 ELSE frames'[e].c
        BY <1>1, <1>3, <3>3 DEF Passed
      <4>2. \A e \in 1 .. Depth : e \in 1 .. Depth + 1
        BY <1>3
      <4>3. QED BY <1>3, <1>4, <3>2, <3>4, <4>1, <4>2
    <3>6. QED BY <1>1, <3>5 DEF Passed
  <2>2. QED BY <1>1, <1>2, <2>1 DEF ResultsArePassedSolutions
<1>11. LimitKept'
  BY <1>1, <1>2 DEF LimitKept
<1>12. QED
  BY <1>5, <1>6, <1>7, <1>8, <1>9, <1>10, <1>11 DEF IInv

\* A cursor that a node moves is not that of an open node above it.
LEMMA OwnCursor ==
  ASSUME TypeOK, NodeInv, CursorInv, pc = "seek", Top.lonely,
         NEW e \in 1 .. Depth - 1, NEW k \in q.itrs,
         q.scope[k] \subseteq {frames[d].x : d \in 1 .. e}
  PROVE  k # LonelyItr
<1>1. Depth \in 1 .. Depth /\ Depth \in Nat /\ Top = frames[Depth]
  BY TopFacts
<1>2. Top.x \in q.scope[LonelyItr]
  BY FoundFacts DEF ItrsOf
<1>3. \A d \in 1 .. e : frames[d].x # frames[Depth].x
  BY <1>1, TopFacts
<1>4. QED BY <1>1, <1>2, <1>3

LEMMA DescendInv == IInv /\ Descend => IInv'
<1> SUFFICES ASSUME IInv, Descend PROVE IInv'
  OBVIOUS
<1> DEFINE x == Top.x
           f == Found
<1>1. /\ pc = "seek" /\ f # 0 /\ pc' = "enter" /\ UNCHANGED <<query, from, res>>
      /\ frames' = [frames EXCEPT ![Depth].c = f] /\ tuple' = [tuple EXCEPT ![x] = f]
      /\ bound' = Bind(ItrsOf(x), x, f) /\ MoveCursor(f)
      /\ TypeOK /\ NodeInv /\ PathInv /\ AcceptInv /\ CursorInv
      /\ ResultsArePassedSolutions /\ LimitKept
  BY DEF Descend, IInv
<1>2. q' = q /\ Solutions' = Solutions /\ \A y : ItrsOf(y)' = ItrsOf(y)
  BY <1>1, QueryStays
<1>3. /\ Depth \in Nat /\ Depth \in 1 .. Depth /\ Placed = Depth - 1
      /\ Top = frames[Depth] /\ x \in q.vars /\ from \in Int
  BY <1>1, TopFacts
<1>4. /\ f \in Ids /\ f \in 0 .. MaxId /\ f \in Common(x) /\ from <= f
      /\ \A v \in Common(x) : from <= v => f <= v
  BY <1>1, FoundFacts, IdFacts DEF Common
<1> HIDE DEF f
<1>5. /\ Depth' = Depth /\ Placed' = Depth
      /\ frames' \in Seq([x : q.vars, c : 0 .. MaxId, lonely : BOOLEAN])
      /\ \A e \in 1 .. Depth - 1 : frames'[e] = frames[e]
      /\ \A e \in 1 .. Depth : frames'[e].x = frames[e].x /\ frames'[e].lonely = frames[e].lonely
      /\ frames'[Depth].c = f
  <2> DEFINE R == [x : q.vars, c : 0 .. MaxId, lonely : BOOLEAN]
             node == [frames[Depth] EXCEPT !.c = f]
  <2>1. frames \in Seq(R) /\ frames[Depth] \in R
    BY <1>1, <1>3, TopFacts
  <2>2. frames' = [frames EXCEPT ![Depth] = node]
    BY <1>1
  <2>3. /\ node \in R /\ node.c = f /\ node.x = frames[Depth].x /\ node.lonely = frames[Depth].lonely
    BY <1>4, <2>1, BoundsAssumption DEF Ids
  <2> HIDE DEF R, node
  <2>4. /\ frames' \in Seq(R) /\ Len(frames') = Len(frames) /\ frames'[Depth] = node
        /\ \A e \in 1 .. Depth - 1 : frames'[e] = frames[e]
    BY <1>3, <2>1, <2>2, <2>3 DEF Depth
  <2>5. Depth' = Depth
    BY <2>4 DEF Depth
  <2>6. Placed' = Depth
    BY <1>1, <2>5 DEF Placed
  <2>7. \A e \in 1 .. Depth : e \in 1 .. Depth - 1 \/ e = Depth
    BY <1>3
  <2>8. QED BY <2>3, <2>4, <2>5, <2>6, <2>7 DEF R
<1>6. /\ \A e \in 1 .. Depth : e \in 1 .. Depth - 1 \/ e = Depth
      /\ \A e \in 1 .. Depth - 1 : e \in 1 .. Depth /\ e # Depth
      /\ \A e1, e2 \in 1 .. Depth : frames[e1].x = frames[e2].x => e1 = e2
      /\ \A e \in 1 .. Depth : frames[e].x \in q.vars
  BY <1>1, <1>3, TopFacts
<1>7. \A d \in 0 .. Depth : {frames'[e].x : e \in 1 .. d} = {frames[e].x : e \in 1 .. d}
  <2>1. \A d \in 0 .. Depth : \A e \in 1 .. d : frames'[e].x = frames[e].x
    BY <1>3, <1>5
  <2>2. QED BY <2>1
<1>8. \A k \in q.itrs : bound'[k] = IF k \in ItrsOf(x) THEN Extend(bound[k], x, f) ELSE bound[k]
  BY <1>1 DEF Bind
<1>9. PathInv'
  <2> SUFFICES ASSUME NEW k \in q.itrs
               PROVE  /\ bound'[k] = [y \in DOMAIN bound'[k] |-> bound'[k][y]]
                      /\ DOMAIN bound'[k] = {frames'[e].x : e \in 1 .. Depth} \cap q.scope[k]
                      /\ \A e \in 1 .. Depth :
                           frames'[e].x \in q.scope[k] => bound'[k][frames'[e].x] = frames'[e].c
    BY <1>2, <1>5 DEF PathInv
  <2>1. /\ bound[k] = [y \in DOMAIN bound[k] |-> bound[k][y]]
        /\ DOMAIN bound[k] = {frames[e].x : e \in 1 .. Depth - 1} \cap q.scope[k]
        /\ \A e \in 1 .. Depth - 1 : frames[e].x \in q.scope[k] => bound[k][frames[e].x] = frames[e].c
    BY <1>1, <1>3 DEF PathInv
  <2>2. {frames'[e].x : e \in 1 .. Depth} = {frames[e].x : e \in 1 .. Depth - 1} \union {x}
    <3>1. Depth \in 0 .. Depth
      BY <1>3
    <3>2. {frames'[e].x : e \in 1 .. Depth} = {frames[e].x : e \in 1 .. Depth}
      BY <1>7, <3>1
    <3>3. QED BY <1>3, <1>6, <3>2
  <2>3. CASE k \in ItrsOf(x)
    <3>1. x \in q.scope[k] /\ bound'[k] = Extend(bound[k], x, f)
      BY <1>8, <2>3 DEF ItrsOf
    <3>2. /\ bound'[k] = [y \in DOMAIN bound'[k] |-> bound'[k][y]]
          /\ DOMAIN bound'[k] = DOMAIN bound[k] \union {x}
          /\ bound'[k][x] = f /\ \A y \in DOMAIN bound[k] : y # x => bound'[k][y] = bound[k][y]
      BY <3>1 DEF Extend
    <3>3. ASSUME NEW e \in 1 .. Depth, frames'[e].x \in q.scope[k]
          PROVE  bound'[k][frames'[e].x] = frames'[e].c
      <4>1. CASE e = Depth
        BY <1>3, <1>5, <3>2, <4>1
      <4>2. CASE e \in 1 .. Depth - 1
        <5>1. frames[e].x # x /\ frames'[e] = frames[e] /\ frames[e].x \in DOMAIN bound[k]
          BY <1>3, <1>5, <1>6, <2>1, <3>3, <4>2
        <5>2. QED BY <2>1, <3>2, <3>3, <4>2, <5>1
      <4>3. QED BY <1>6, <4>1, <4>2
    <3>4. QED BY <2>1, <2>2, <3>1, <3>2, <3>3
  <2>4. CASE k \notin ItrsOf(x)
    <3>1. x \notin q.scope[k] /\ bound'[k] = bound[k]
      BY <1>8, <2>4 DEF ItrsOf
    <3>2. ASSUME NEW e \in 1 .. Depth, frames'[e].x \in q.scope[k]
          PROVE  bound'[k][frames'[e].x] = frames'[e].c
      <4>1. e \in 1 .. Depth - 1
        BY <1>3, <1>5, <1>6, <3>1, <3>2
      <4>2. QED BY <1>5, <2>1, <3>1, <3>2, <4>1
    <3>3. QED BY <2>1, <2>2, <3>1, <3>2
  <2>5. QED BY <2>3, <2>4
<1>10. NodeInv'
  <2>1. \A e \in 1 .. Depth : frames'[e].c \in Ids /\ tuple'[frames'[e].x] = frames'[e].c
    <3>1. \A e \in 1 .. Depth - 1 : frames[e].c \in Ids /\ tuple[frames[e].x] = frames[e].c
      BY <1>1, <1>3 DEF NodeInv
    <3>2. tuple \in [q.vars -> 0 .. MaxId]
      BY <1>1 DEF TypeOK
    <3>3. \A e \in 1 .. Depth - 1 : frames[e].x # x /\ frames[e].x \in q.vars
      BY <1>3, <1>6
    <3>4. tuple'[x] = f /\ \A y \in q.vars : y # x => tuple'[y] = tuple[y]
      BY <1>1, <1>3, <3>2
    <3>5. \A e \in 1 .. Depth - 1 : frames'[e].c \in Ids /\ tuple'[frames'[e].x] = frames'[e].c
      BY <1>5, <3>1, <3>3, <3>4
    <3>6. frames'[Depth].c \in Ids /\ tuple'[frames'[Depth].x] = frames'[Depth].c
      BY <1>3, <1>4, <1>5, <3>4
    <3>7. QED BY <1>6, <3>5, <3>6
  <2>2. QED BY <1>1, <1>5, <2>1 DEF NodeInv
<1>11. AcceptInv'
  <2>1. ASSUME NEW k \in q.itrs, k \in q.pattern \/ DOMAIN bound'[k] # {}
        PROVE  bound'[k] \in q.accepts[k]
    <3>1. CASE k \in ItrsOf(x)
      BY <1>4, <1>8, <3>1 DEF Common, Candidates
    <3>2. CASE k \notin ItrsOf(x)
      BY <1>1, <1>8, <2>1, <3>2 DEF AcceptInv
    <3>3. QED BY <3>1, <3>2
  <2>2. QED BY <1>2, <2>1 DEF AcceptInv
<1>12. cursor' \in [q.itrs -> 0 .. MaxId]
  BY <1>1, <1>4 DEF MoveCursor, TypeOK
<1>13. CursorInv'
  <2> SUFFICES ASSUME NEW e \in 1 .. Depth, frames'[e].lonely
               PROVE  \E k \in q.itrs :
                        /\ ItrsOf(frames'[e].x) = {k} /\ q.scope[k] \subseteq {frames'[d].x : d \in 1 .. e}
                        /\ IF e <= Depth THEN cursor'[k] = frames'[e].c ELSE from' = 1 \/ cursor'[k] = from' - 1
    BY <1>2, <1>5 DEF CursorInv
  <2>0. /\ {frames'[d].x : d \in 1 .. e} = {frames[d].x : d \in 1 .. e} /\ e <= Depth
        /\ frames'[e].x = frames[e].x /\ frames[e].lonely
    <3>1. e \in 0 .. Depth /\ e <= Depth
      BY <1>3
    <3>2. {frames'[d].x : d \in 1 .. e} = {frames[d].x : d \in 1 .. e}
      BY <1>7, <3>1
    <3>3. frames'[e].x = frames[e].x /\ frames'[e].lonely = frames[e].lonely
      BY <1>5
    <3>4. QED BY <3>1, <3>2, <3>3
  <2>1. CASE e \in 1 .. Depth - 1
    <3>1. e <= Placed
      BY <1>3, <2>1
    <3>2. PICK k \in q.itrs :
            /\ ItrsOf(frames[e].x) = {k} /\ q.scope[k] \subseteq {frames[d].x : d \in 1 .. e}
            /\ cursor[k] = frames[e].c
      BY <1>1, <2>0, <3>1 DEF CursorInv
    <3>3. cursor'[k] = cursor[k]
      <4>1. CASE Top.lonely
        <5>1. k # LonelyItr
          BY <1>1, <2>1, <3>2, <4>1, OwnCursor
        <5>2. QED BY <1>1, <4>1, <5>1 DEF MoveCursor, TypeOK
      <4>2. CASE ~Top.lonely
        BY <1>1, <4>2 DEF MoveCursor
      <4>3. QED BY <4>1, <4>2
    <3>4. QED BY <1>5, <2>0, <2>1, <3>2, <3>3
  <2>2. CASE e = Depth
    <3>1. Top.lonely
      BY <1>3, <2>0, <2>2
    <3>2. /\ LonelyItr \in q.itrs /\ ItrsOf(x) = {LonelyItr}
          /\ q.scope[LonelyItr] \subseteq {frames[d].x : d \in 1 .. Depth}
      BY <1>1, <3>1, FoundFacts
    <3>3. cursor'[LonelyItr] = f
      BY <1>1, <3>1, <3>2 DEF MoveCursor, TypeOK
    <3>4. QED BY <1>3, <1>5, <2>0, <2>2, <3>2, <3>3
  <2>3. QED BY <1>6, <2>1, <2>2
<1>14. TypeOK'
  <2>1. \A k \in q.itrs : \E V \in SUBSET q.scope[k] : bound'[k] \in [V -> Ids]
    <3> SUFFICES ASSUME NEW k \in q.itrs
                 PROVE  DOMAIN bound'[k] \subseteq q.scope[k] /\ bound'[k] \in [DOMAIN bound'[k] -> Ids]
      OBVIOUS
    <3>1. /\ bound'[k] = [y \in DOMAIN bound'[k] |-> bound'[k][y]]
          /\ DOMAIN bound'[k] = {frames'[e].x : e \in 1 .. Depth} \cap q.scope[k]
          /\ \A e \in 1 .. Depth :
               frames'[e].x \in q.scope[k] => bound'[k][frames'[e].x] = frames'[e].c
      BY <1>2, <1>5, <1>9 DEF PathInv
    <3>2. \A e \in 1 .. Depth : frames'[e].c \in Ids
      BY <1>5, <1>10 DEF NodeInv
    <3>3. \A y \in DOMAIN bound'[k] : bound'[k][y] \in Ids
      BY <3>1, <3>2
    <3>4. QED BY <3>1, <3>3
  <2>2. \A e1, e2 \in 1 .. Depth : frames'[e1].x = frames'[e2].x => e1 = e2
    BY <1>5, <1>6
  <2>3. tuple' \in [q.vars -> 0 .. MaxId]
    BY <1>1, <1>4 DEF TypeOK
  <2>4. QED BY <1>1, <1>2, <1>5, <1>12, <2>1, <2>2, <2>3 DEF TypeOK
<1>15. ResultsArePassedSolutions'
  <2>1. ASSUME NEW s \in Solutions PROVE Passed(s)' <=> Passed(s)
    <3>1. ASSUME NEW e \in 1 .. Depth PROVE Follows(s, e - 1)' <=> Follows(s, e - 1)
      <4>1. \A d \in 1 .. e - 1 : d \in 1 .. Depth - 1
        BY <1>3
      <4>2. \A d \in 1 .. e - 1 : frames'[d] = frames[d]
        BY <1>5, <4>1
      <4>3. \A d \in 1 .. e - 1 : frames'[d].x = frames[d].x /\ frames'[d].c = frames[d].c
        BY <4>2
      <4>4. QED BY <4>3, Zenon DEF Follows
    <3>2. Passed(s)' <=> \E e \in 1 .. Depth : Follows(s, e - 1) /\ s[frames[e].x] < frames'[e].c
      BY <1>1, <1>5, <3>1, SMTT(60) DEF Passed
    <3>3. Passed(s) <=> \E e \in 1 .. Depth :
                          Follows(s, e - 1) /\ s[frames[e].x] < IF e = Depth THEN from ELSE frames[e].c
      BY <1>1 DEF Passed
    <3>4. ASSUME Follows(s, Depth - 1) PROVE s[x] < f <=> s[x] < from
      <4>1. s[x] \in Common(x) /\ s[x] \in Int /\ f \in Int
        BY <1>1, <1>4, <3>4, SolutionIsCommon, IdFacts DEF Common
      <4>2. QED BY <1>3, <1>4, <4>1
    <3>5. ASSUME NEW e \in 1 .. Depth
          PROVE  Follows(s, e - 1) /\ s[frames[e].x] < frames'[e].c
                 <=> Follows(s, e - 1) /\ s[frames[e].x] < IF e = Depth THEN from ELSE frames[e].c
      <4>1. CASE e = Depth
        BY <1>3, <1>5, <3>4, <4>1
      <4>2. CASE e \in 1 .. Depth - 1
        BY <1>5, <1>6, <4>2
      <4>3. QED BY <1>6, <4>1, <4>2
    <3>6. QED BY <3>2, <3>3, <3>5
  <2>2. QED BY <1>1, <1>2, <2>1 DEF ResultsArePassedSolutions
<1>16. LimitKept'
  BY <1>1, <1>2 DEF LimitKept
<1>17. QED
  BY <1>9, <1>10, <1>11, <1>13, <1>14, <1>15, <1>16 DEF IInv

LEMMA AscendInv == IInv /\ Ascend => IInv'
<1> SUFFICES ASSUME IInv, Ascend PROVE IInv'
  OBVIOUS
<1> DEFINE x == Top.x
<1>1. /\ pc = "return" /\ pc' = "seek" /\ UNCHANGED <<query, frames, cursor, tuple, res>>
      /\ bound' = [k \in q.itrs |-> Unbind(bound[k], x)] /\ from' = Top.c + 1
      /\ TypeOK /\ NodeInv /\ PathInv /\ AcceptInv /\ CursorInv
      /\ ResultsArePassedSolutions /\ LimitKept
  BY DEF Ascend, IInv
<1>2. q' = q /\ Solutions' = Solutions /\ \A y : ItrsOf(y)' = ItrsOf(y)
  BY <1>1, QueryStays
<1>3. /\ Depth \in Nat /\ Depth \in 1 .. Depth /\ Placed = Depth
      /\ Depth' = Depth /\ Placed' = Depth - 1 /\ Depth - 1 \in Nat
      /\ Top = frames[Depth] /\ x \in q.vars /\ Top.c \in Ids
  <2>1. Depth \in Nat /\ Depth \in 1 .. Depth /\ Placed = Depth /\ Top = frames[Depth] /\ x \in q.vars
    BY <1>1, TopFacts
  <2>2. Depth' = Depth
    BY <1>1 DEF Depth
  <2>3. Placed' = Depth - 1
    BY <1>1, <2>2 DEF Placed
  <2>4. Top.c \in Ids
    BY <1>1, <2>1 DEF NodeInv
  <2>5. QED BY <2>1, <2>2, <2>3, <2>4
<1>4. /\ \A e \in 1 .. Depth : e \in 1 .. Depth - 1 \/ e = Depth
      /\ \A e \in 1 .. Depth - 1 : e \in 1 .. Depth /\ frames[e].x # x
      /\ \A e \in 1 .. Depth : frames[e].x \in q.vars
  <2>1. /\ \A e1, e2 \in 1 .. Depth : frames[e1].x = frames[e2].x => e1 = e2
        /\ \A e \in 1 .. Depth : frames[e].x \in q.vars
    BY <1>1, TopFacts
  <2>2. \A e \in 1 .. Depth - 1 : e \in 1 .. Depth /\ e # Depth
    BY <1>3
  <2>3. \A e \in 1 .. Depth : e \in 1 .. Depth - 1 \/ e = Depth
    BY <1>3
  <2>4. QED BY <1>3, <2>1, <2>2, <2>3
<1>5. \A k \in q.itrs :
        bound'[k] = [y \in DOMAIN bound[k] \cap (q.vars \ {x}) |-> bound[k][y]]
  <2>1. ASSUME NEW k \in q.itrs
        PROVE  DOMAIN bound[k] \cap (Vars \ {x}) = DOMAIN bound[k] \cap (q.vars \ {x})
    <3>1. q.scope[k] \subseteq q.vars /\ q.vars \subseteq Vars
      BY <1>1, QueryFacts DEF TypeOK
    <3>2. DOMAIN bound[k] \subseteq q.scope[k]
      BY <1>1 DEF PathInv
    <3>3. QED BY <3>1, <3>2
  <2>2. QED BY <1>1, <2>1 DEF Unbind, On
<1>6. PathInv'
  <2>1. ASSUME NEW k \in q.itrs
        PROVE  /\ bound'[k] = [y \in DOMAIN bound'[k] |-> bound'[k][y]]
               /\ DOMAIN bound'[k] = {frames'[e].x : e \in 1 .. Depth - 1} \cap q.scope[k]
               /\ \A e \in 1 .. Depth - 1 :
                    frames'[e].x \in q.scope[k] => bound'[k][frames'[e].x] = frames'[e].c
    <3>0. frames' = frames
      BY <1>1
    <3>1. /\ DOMAIN bound[k] = {frames[e].x : e \in 1 .. Depth} \cap q.scope[k]
          /\ \A e \in 1 .. Depth : frames[e].x \in q.scope[k] => bound[k][frames[e].x] = frames[e].c
      BY <1>1, <1>3 DEF PathInv
    <3>2. {frames[e].x : e \in 1 .. Depth} \cap (q.vars \ {x}) = {frames[e].x : e \in 1 .. Depth - 1}
      BY <1>3, <1>4
    <3>3. DOMAIN bound'[k] = DOMAIN bound[k] \cap (q.vars \ {x})
      BY <1>5
    <3>4. DOMAIN bound'[k] = {frames[e].x : e \in 1 .. Depth - 1} \cap q.scope[k]
      BY <3>1, <3>2, <3>3
    <3>5. \A y \in DOMAIN bound'[k] : bound'[k][y] = bound[k][y]
      BY <1>5
    <3>6. bound'[k] = [y \in DOMAIN bound'[k] |-> bound'[k][y]]
      BY <1>5
    <3>7. ASSUME NEW e \in 1 .. Depth - 1, frames[e].x \in q.scope[k]
          PROVE  bound'[k][frames[e].x] = frames[e].c
      BY <1>4, <3>1, <3>4, <3>5, <3>7
    <3>8. QED BY <3>0, <3>4, <3>6, <3>7
  <2>2. QED BY <1>2, <1>3, <2>1 DEF PathInv
<1>7. NodeInv'
  BY <1>1, <1>3, <1>4 DEF NodeInv
<1>8. AcceptInv'
  <2>1. ASSUME NEW k \in q.itrs, k \in q.pattern \/ DOMAIN bound'[k] # {}
        PROVE  bound'[k] \in q.accepts[k]
    <3>1. k \in q.pattern \/ DOMAIN bound[k] # {}
      BY <1>5, <2>1
    <3>2. bound[k] \in q.accepts[k]
      BY <1>1, <3>1 DEF AcceptInv
    <3>3. On(bound[k], q.vars \ {x}) \in q.accepts[k]
      BY <1>1, <3>2, QueryFacts DEF TypeOK
    <3>4. QED BY <1>5, <3>3 DEF On
  <2>2. QED BY <1>2, <2>1 DEF AcceptInv
<1>9. CursorInv'
  <2>1. ASSUME NEW e \in 1 .. Depth, frames'[e].lonely
        PROVE  \E k \in q.itrs :
                 /\ ItrsOf(frames'[e].x) = {k} /\ q.scope[k] \subseteq {frames'[d].x : d \in 1 .. e}
                 /\ IF e <= Depth - 1 THEN cursor'[k] = frames'[e].c ELSE from' = 1 \/ cursor'[k] = from' - 1
    <3>0. frames' = frames /\ cursor' = cursor
      BY <1>1
    <3>1. PICK k \in q.itrs :
            /\ ItrsOf(frames[e].x) = {k} /\ q.scope[k] \subseteq {frames[d].x : d \in 1 .. e}
            /\ cursor[k] = frames[e].c
      <4>1. e <= Placed
        BY <1>3
      <4>2. QED BY <1>1, <2>1, <4>1 DEF CursorInv
    <3>2. e = Depth => cursor[k] = from' - 1
      <4>1. Top.c \in Int
        BY <1>3, IdFacts
      <4>2. QED BY <1>1, <1>3, <3>1, <4>1
    <3>3. e <= Depth - 1 \/ e = Depth
      BY <1>3
    <3>4. QED BY <3>0, <3>1, <3>2, <3>3
  <2>2. QED BY <1>2, <1>3, <2>1 DEF CursorInv
<1>10. TypeOK'
  <2>1. \A k \in q.itrs : \E V \in SUBSET q.scope[k] : bound'[k] \in [V -> Ids]
    <3> SUFFICES ASSUME NEW k \in q.itrs
                 PROVE  DOMAIN bound'[k] \subseteq q.scope[k] /\ bound'[k] \in [DOMAIN bound'[k] -> Ids]
      OBVIOUS
    <3>1. PICK V \in SUBSET q.scope[k] : bound[k] \in [V -> Ids]
      BY <1>1 DEF TypeOK
    <3>2. QED BY ZenonT(60), <1>5, <3>1
  <2>2. from' \in 1 .. MaxId + 1
    BY <1>1, <1>3, BoundsAssumption DEF Ids
  <2>3. QED BY <1>1, <1>2, <1>3, <2>1, <2>2 DEF TypeOK
<1>11. ResultsArePassedSolutions'
  <2>1. ASSUME NEW s \in Solutions PROVE Passed(s)' <=> Passed(s)
    <3> DEFINE P(e, c) == Follows(s, e - 1) /\ s[frames[e].x] < c
    <3>1. s[x] \in Int /\ Top.c \in Int
      BY <1>3, IdFacts DEF Solutions
    <3>2. \A d : Follows(s, d)' <=> Follows(s, d)
      BY <1>1 DEF Follows
    <3>3. Passed(s)' <=> \E e \in 1 .. Depth : P(e, IF e = Depth THEN Top.c + 1 ELSE frames[e].c)
      BY <1>1, <1>3, <3>2 DEF Passed
    <3>4. Passed(s) <=> Follows(s, Depth) \/ \E e \in 1 .. Depth : P(e, frames[e].c)
      BY <1>1 DEF Passed
    <3>5. Follows(s, Depth) <=> Follows(s, Depth - 1) /\ s[x] = Top.c
      BY <1>3, <1>4 DEF Follows
    <3>6. P(Depth, Top.c + 1) <=> Follows(s, Depth) \/ P(Depth, frames[Depth].c)
      BY <1>3, <3>1, <3>5
    <3> HIDE DEF P
    <3>7. QED BY <1>3, <1>4, <3>3, <3>4, <3>6
  <2>2. QED BY <1>1, <1>2, <2>1 DEF ResultsArePassedSolutions
<1>12. LimitKept'
  BY <1>1, <1>2 DEF LimitKept
<1>13. QED
  BY <1>6, <1>7, <1>8, <1>9, <1>10, <1>11, <1>12 DEF IInv

LEMMA FrontFacts ==
  ASSUME NEW S, NEW t \in Seq(S), NEW d \in Nat, Len(t) = d, d >= 1
  PROVE  /\ SubSeq(t, 1, d - 1) \in Seq(S) /\ Len(SubSeq(t, 1, d - 1)) = d - 1
         /\ \A e \in 1 .. d - 1 : SubSeq(t, 1, d - 1)[e] = t[e]
<1>1. \A e \in 1 .. d - 1 : t[e] \in S
  OBVIOUS
<1>2. d - 1 \in Nat
  OBVIOUS
<1>3. QED
  BY <1>1, <1>2

LEMMA ExhaustInv == IInv /\ Exhaust => IInv'
<1> SUFFICES ASSUME IInv, Exhaust PROVE IInv'
  OBVIOUS
<1> DEFINE x == Top.x
<1>1. /\ pc = "seek" /\ Found = 0 /\ pc' = IF Depth = 1 THEN "done" ELSE "return"
      /\ frames' = SubSeq(frames, 1, Depth - 1) /\ MoveCursor(0)
      /\ UNCHANGED <<query, from, bound, tuple, res>>
      /\ TypeOK /\ NodeInv /\ PathInv /\ AcceptInv /\ CursorInv
      /\ ResultsArePassedSolutions /\ LimitKept
  BY DEF Exhaust, IInv
<1>2. q' = q /\ Solutions' = Solutions /\ \A y : ItrsOf(y)' = ItrsOf(y)
  BY <1>1, QueryStays
<1>3. /\ Depth \in Nat /\ Depth \in 1 .. Depth /\ Depth >= 1 /\ Placed = Depth - 1
      /\ Top = frames[Depth] /\ x \in q.vars /\ from \in Int
  BY <1>1, TopFacts
<1>4. /\ Depth' = Depth - 1 /\ Placed' = Depth - 1 /\ Depth - 1 \in Nat
      /\ frames' \in Seq([x : q.vars, c : 0 .. MaxId, lonely : BOOLEAN])
      /\ \A e \in 1 .. Depth - 1 : frames'[e] = frames[e]
  <2> DEFINE R == [x : q.vars, c : 0 .. MaxId, lonely : BOOLEAN]
  <2>1. frames \in Seq(R) /\ Len(frames) = Depth
    BY <1>1, TopFacts DEF Depth
  <2> HIDE DEF R
  <2>2. /\ frames' \in Seq(R) /\ Len(frames') = Depth - 1
        /\ \A e \in 1 .. Depth - 1 : frames'[e] = frames[e]
    BY <1>1, <1>3, <2>1, FrontFacts
  <2>3. Depth' = Depth - 1
    BY <2>2 DEF Depth
  <2>4. Placed' = Depth - 1
    BY <1>1, <2>3 DEF Placed
  <2>5. QED BY <1>3, <2>2, <2>3, <2>4 DEF R
<1>5. /\ \A e \in 1 .. Depth - 1 : e \in 1 .. Depth
      /\ \A d \in 0 .. Depth - 1 : {frames'[e].x : e \in 1 .. d} = {frames[e].x : e \in 1 .. d}
  <2>1. \A d \in 0 .. Depth - 1 : \A e \in 1 .. d : frames'[e] = frames[e]
    BY <1>3, <1>4
  <2>2. QED BY <1>3, <2>1
<1>6. PathInv'
  <2>1. Depth - 1 \in 0 .. Depth - 1
    BY <1>4
  <2>2. {frames'[e].x : e \in 1 .. Depth - 1} = {frames[e].x : e \in 1 .. Depth - 1}
    BY <1>5, <2>1
  <2>3. ASSUME NEW k \in q.itrs
        PROVE  /\ bound[k] = [y \in DOMAIN bound[k] |-> bound[k][y]]
               /\ DOMAIN bound[k] = {frames'[e].x : e \in 1 .. Depth - 1} \cap q.scope[k]
               /\ \A e \in 1 .. Depth - 1 :
                    frames'[e].x \in q.scope[k] => bound[k][frames'[e].x] = frames'[e].c
    <3>1. /\ bound[k] = [y \in DOMAIN bound[k] |-> bound[k][y]]
          /\ DOMAIN bound[k] = {frames[e].x : e \in 1 .. Depth - 1} \cap q.scope[k]
          /\ \A e \in 1 .. Depth - 1 : frames[e].x \in q.scope[k] => bound[k][frames[e].x] = frames[e].c
      BY <1>1, <1>3 DEF PathInv
    <3>2. QED BY <1>4, <2>2, <3>1
  <2>4. QED BY <1>1, <1>2, <1>4, <2>3 DEF PathInv
<1>7. NodeInv'
  BY <1>1, <1>3, <1>4 DEF NodeInv
<1>8. AcceptInv'
  BY <1>1, <1>2 DEF AcceptInv
<1>9. cursor' \in [q.itrs -> 0 .. MaxId]
  <2>1. 0 \in 0 .. MaxId /\ cursor \in [q.itrs -> 0 .. MaxId]
    BY <1>1, BoundsAssumption DEF TypeOK
  <2>2. QED BY <1>1, <2>1 DEF MoveCursor
<1>10. CursorInv'
  <2> SUFFICES ASSUME NEW e \in 1 .. Depth - 1, frames'[e].lonely
               PROVE  \E k \in q.itrs :
                        /\ ItrsOf(frames'[e].x) = {k} /\ q.scope[k] \subseteq {frames'[d].x : d \in 1 .. e}
                        /\ IF e <= Depth - 1 THEN cursor'[k] = frames'[e].c
                           ELSE from' = 1 \/ cursor'[k] = from' - 1
    BY <1>2, <1>4 DEF CursorInv
  <2>1. e \in 0 .. Depth - 1 /\ e <= Depth - 1 /\ e \in 1 .. Depth
    <3>1. e \in 0 .. Depth - 1 /\ e <= Depth - 1
      BY <1>3
    <3>2. QED BY <1>5, <3>1
  <2>2. {frames'[d].x : d \in 1 .. e} = {frames[d].x : d \in 1 .. e} /\ frames'[e] = frames[e]
    BY <1>4, <1>5, <2>1
  <2>3. PICK k \in q.itrs :
          /\ ItrsOf(frames[e].x) = {k} /\ q.scope[k] \subseteq {frames[d].x : d \in 1 .. e}
          /\ cursor[k] = frames[e].c
    BY <1>1, <1>3, <2>1, <2>2 DEF CursorInv
  <2>4. cursor'[k] = cursor[k]
    <3>1. CASE Top.lonely
      <4>1. k # LonelyItr
        BY <1>1, <2>3, <3>1, OwnCursor
      <4>2. QED BY <1>1, <3>1, <4>1 DEF MoveCursor, TypeOK
    <3>2. CASE ~Top.lonely
      BY <1>1, <3>2 DEF MoveCursor
    <3>3. QED BY <3>1, <3>2
  <2>5. QED BY <2>1, <2>2, <2>3, <2>4
<1>11. TypeOK'
  <2>1. \A e1, e2 \in 1 .. Depth - 1 : frames'[e1].x = frames'[e2].x => e1 = e2
    BY <1>1, <1>4, <1>5, TopFacts
  <2>2. QED BY <1>1, <1>2, <1>4, <1>9, <2>1 DEF TypeOK
<1>12. ResultsArePassedSolutions'
  <2>1. ASSUME NEW s \in Solutions PROVE Passed(s)' <=> Passed(s)
    <3> DEFINE P(e, c) == Follows(s, e - 1) /\ s[frames[e].x] < c
    <3>1. \A d \in 0 .. Depth - 1 : Follows(s, d)' <=> Follows(s, d)
      <4>1. \A d \in 0 .. Depth - 1 : \A e \in 1 .. d : frames'[e] = frames[e]
        BY <1>3, <1>4
      <4>2. QED BY <4>1 DEF Follows
    <3>2. Follows(s, Depth - 1) <=> P(Depth, from)
      <4>1. ASSUME Follows(s, Depth - 1) PROVE s[x] < from
        <5>1. s[x] \in Common(x) /\ s[x] \in Int
          BY <1>1, <4>1, SolutionIsCommon, IdFacts DEF Common
        <5>2. QED BY <1>1, <1>3, <5>1, FoundFacts
      <4>2. QED BY <1>3, <4>1
    <3>3. Passed(s) <=> \E e \in 1 .. Depth : P(e, IF e = Depth THEN from ELSE frames[e].c)
      BY <1>1 DEF Passed
    <3>4. \A e \in 1 .. Depth - 1 : e - 1 \in 0 .. Depth - 1
      BY <1>3
    <3>5. CASE Depth = 1
      <4>1. Follows(s, Depth - 1)
        BY <3>5 DEF Follows
      <4>2. Passed(s)' /\ Passed(s)
        BY <1>1, <1>3, <3>2, <3>3, <3>5, <4>1 DEF Passed
      <4>3. QED BY <4>2
    <3>6. CASE Depth # 1
      <4>1. Passed(s)' <=> Follows(s, Depth - 1) \/ \E e \in 1 .. Depth - 1 : P(e, frames[e].c)
        <5>1. Depth - 1 \in 0 .. Depth - 1
          BY <1>4
        <5>2. pc' = "return"
          BY <1>1, <3>6
        <5>3. QED BY <1>4, <3>1, <3>4, <5>1, <5>2 DEF Passed
      <4>2. \A e \in 1 .. Depth : e = Depth \/ e \in 1 .. Depth - 1
        BY <1>3
      <4>3. \A e \in 1 .. Depth - 1 : e \in 1 .. Depth /\ e # Depth
        BY <1>3
      <4> HIDE DEF P
      <4>4. QED BY <1>3, <3>2, <3>3, <4>1, <4>2, <4>3
    <3>7. QED BY <3>5, <3>6
  <2>2. QED BY <1>1, <1>2, <2>1 DEF ResultsArePassedSolutions
<1>13. LimitKept'
  BY <1>1, <1>2 DEF LimitKept
<1>14. QED
  BY <1>6, <1>7, <1>8, <1>10, <1>11, <1>12, <1>13 DEF IInv

LEMMA NextInv == IInv /\ [Next]_vars => IInv'
<1> SUFFICES ASSUME IInv, [Next]_vars PROVE IInv'
  OBVIOUS
<1>1. CASE Stop
  BY <1>1, StopInv
<1>2. CASE Report
  BY <1>2, ReportInv
<1>3. ASSUME NEW x \in Vars, Choose(x) PROVE IInv'
  BY <1>3, ChooseInv
<1>4. CASE Descend
  BY <1>4, DescendInv
<1>5. CASE Ascend
  BY <1>5, AscendInv
<1>6. CASE Exhaust
  BY <1>6, ExhaustInv
<1>7. CASE UNCHANGED vars
  <2>1. /\ UNCHANGED <<query, pc, frames, from, bound, cursor, tuple, res>>
        /\ q' = q /\ Depth' = Depth /\ Placed' = Placed /\ Solutions' = Solutions
    BY <1>7 DEF vars, q, Depth, Placed, Solutions
  <2>2. \A y : ItrsOf(y)' = ItrsOf(y)
    BY <2>1 DEF ItrsOf
  <2>3. TypeOK' /\ NodeInv' /\ PathInv' /\ AcceptInv'
    <3>1. TypeOK'
      BY <2>1 DEF IInv, TypeOK
    <3>2. NodeInv'
      BY <2>1 DEF IInv, NodeInv
    <3>3. PathInv'
      BY <2>1 DEF IInv, PathInv
    <3>4. AcceptInv'
      BY <2>1 DEF IInv, AcceptInv
    <3>5. QED BY <3>1, <3>2, <3>3, <3>4
  <2>4. CursorInv'
    BY <2>1, <2>2 DEF IInv, CursorInv
  <2>5. ResultsArePassedSolutions' /\ LimitKept'
    BY <2>1 DEF IInv, ResultsArePassedSolutions, Passed, Follows, LimitKept
  <2>6. QED BY <2>3, <2>4, <2>5 DEF IInv
<1>8. QED
  BY <1>1, <1>2, <1>3, <1>4, <1>5, <1>6, <1>7 DEF Next

\* The invariant of the search: what every search node, every iterator and the list of
\* results hold between any two steps of ltj_algorithm_pg.
THEOREM InvariantHolds == Spec => []IInv
<1>1. Init => IInv
  BY InitInv
<1>2. QED
  BY <1>1, NextInv, PTL DEF Spec

-----------------------------------------------------------------------------
(***************************************************************************)
(* What follows from it.                                                   *)
(***************************************************************************)
\* Variables stay in their ranges and no variable has two open search nodes.
THEOREM TypeCorrect == Spec => []TypeOK
<1>1. IInv => TypeOK
  BY DEF IInv
<1>2. QED
  BY <1>1, InvariantHolds, PTL

\* Whatever the query and the order, each iterator has gone down by exactly the values
\* of the open search nodes of its variables.
THEOREM IteratorsFollow == Spec => []IteratorsFollowPath
<1>1. IInv => IteratorsFollowPath
  <2> SUFFICES ASSUME IInv PROVE IteratorsFollowPath
    OBVIOUS
  <2>1. PathInv
    BY DEF IInv
  <2>2. CASE pc = "seek"
    BY <2>1, <2>2 DEF PathInv, Placed, IteratorsFollowPath
  <2>3. CASE pc # "seek"
    BY <2>1, <2>3 DEF PathInv, Placed, IteratorsFollowPath
  <2>4. QED BY <2>2, <2>3
<1>2. QED
  BY <1>1, InvariantHolds, PTL

\* A search that returned true left every iterator as it found it.
THEOREM Restored == Spec => []RestoredWhenDone
<1>1. IInv => RestoredWhenDone
  <2> SUFFICES ASSUME IInv, pc = "done", NEW k \in q.itrs PROVE bound[k] = Nothing
    BY DEF RestoredWhenDone
  <2>1. Placed = 0
    BY DEF IInv, NodeInv, Placed
  <2>2. DOMAIN bound[k] = {}
    <3>1. 1 .. 0 = {}
      OBVIOUS
    <3>2. QED BY <2>1, <3>1 DEF IInv, PathInv
  <2>3. bound[k] = [y \in DOMAIN bound[k] |-> bound[k][y]]
    BY DEF IInv, PathInv
  <2>4. QED BY <2>2, <2>3 DEF Nothing
<1>2. QED
  BY <1>1, InvariantHolds, PTL

\* The number of results never passes the limit.
THEOREM LimitIsKept == Spec => []LimitKept
<1>1. IInv => LimitKept
  BY DEF IInv
<1>2. QED
  BY <1>1, InvariantHolds, PTL

\* Whatever the query, and whatever variables the order chooses: no solution of the part of
\* the tree left behind is missing from the results, none is there twice, and nothing else is.
THEOREM ResultsArePassed == Spec => []ResultsArePassedSolutions
<1>1. IInv => ResultsArePassedSolutions
  BY DEF IInv
<1>2. QED
  BY <1>1, InvariantHolds, PTL

-----------------------------------------------------------------------------
(***************************************************************************)
(* The search implements the join.                                         *)
(***************************************************************************)
\* In a search that ended by itself, the results are all the solutions.
LEMMA DoneIsComplete == IInv /\ pc = "done" => Join!Collected = Solutions
<1> SUFFICES ASSUME IInv, pc = "done" PROVE Join!Collected = Solutions
  OBVIOUS
<1>1. \A s \in Solutions : Passed(s)
  BY DEF Passed
<1>2. /\ \A s \in Solutions : \E r \in DOMAIN res : res[r] = s
      /\ \A r \in DOMAIN res : res[r] \in Solutions
  BY <1>1 DEF IInv, ResultsArePassedSolutions
<1>3. QED
  BY <1>2 DEF Join!Collected

LEMMA JoinStays ==
  ASSUME UNCHANGED query
  PROVE  UNCHANGED Join!query
BY QueryStays DEF Join!query

LEMMA JoinInit == Init /\ IInv => Join!Init
<1> SUFFICES ASSUME Init, IInv PROVE Join!Init
  OBVIOUS
<1>1. q.limit \in Nat /\ q.timeout \in BOOLEAN
  BY QueryAssumption DEF QueryAssumption, IsQuery, q, Init
<1>2. res = <<>>
  BY DEF Init
<1>3. CASE pc = "done"
  <2>1. Solutions = {}
    BY <1>2, <1>3, DoneIsComplete DEF Join!Collected
  <2>2. QED BY <1>1, <1>2, <1>3, <2>1 DEF Join!Init, Status
<1>4. CASE pc = "enter"
  BY <1>1, <1>2, <1>4 DEF Join!Init, Status
<1>5. QED
  BY <1>3, <1>4 DEF Init

LEMMA ReportCollects == IInv /\ IInv' /\ Report => Join!Collect
<1> SUFFICES ASSUME IInv, IInv', Report PROVE Join!Collect
  OBVIOUS
<1>1. /\ pc = "enter" /\ ~LimitReached /\ Depth = Cardinality(q.vars)
      /\ res' = Append(res, tuple) /\ pc' = IF Depth = 0 THEN "done" ELSE "return"
      /\ UNCHANGED query
      /\ TypeOK /\ NodeInv /\ PathInv /\ AcceptInv /\ ResultsArePassedSolutions /\ LimitKept
  BY DEF Report, IInv
<1>2. /\ tuple \in Solutions /\ Follows(tuple, Depth)
      /\ Depth \in Nat /\ \A e \in 1 .. Depth : frames[e].c \in Int
  BY <1>1, TupleIsSolution, TopFacts
<1>3. ~Passed(tuple)
  <2>1. \A e \in 1 .. Depth : ~(tuple[frames[e].x] < frames[e].c)
    BY <1>2 DEF Follows
  <2>2. QED BY <1>1, <2>1 DEF Passed
<1>4. tuple \in Solutions \ Join!Collected
  <2>1. ~\E r \in DOMAIN res : res[r] = tuple
    BY <1>1, <1>2, <1>3 DEF ResultsArePassedSolutions
  <2>2. QED BY <1>2, <2>1 DEF Join!Collected
<1>5. q.limit = 0 \/ Len(res) < q.limit
  <2>1. q.limit \in Nat
    BY <1>1, QueryFacts DEF TypeOK
  <2>2. Len(res) \in Nat
    BY <1>1 DEF TypeOK
  <2>3. QED BY <1>1, <2>1, <2>2 DEF LimitReached, LimitKept
<1>6. Status = "running"
  BY <1>1 DEF Status
<1>7. Status' = "running" \/ (Status' = "complete" /\ Join!Collected' = Solutions)
  <2>1. CASE Depth = 0
    <3>1. Join!Collected' = Solutions'
      <4>1. pc' = "done" /\ IInv'
        BY <1>1, <2>1
      <4>2. (IInv /\ pc = "done" => Join!Collected = Solutions)'
        BY DoneIsComplete, PTL
      <4>3. QED BY <4>1, <4>2
    <3>2. Status' = "complete"
      BY <1>1, <2>1 DEF Status
    <3>3. QED BY <1>1, <3>1, <3>2, QueryStays
  <2>2. CASE Depth # 0
    BY <1>1, <2>2 DEF Status
  <2>3. QED BY <2>1, <2>2
<1>8. QED
  BY <1>1, <1>4, <1>5, <1>6, <1>7, JoinStays DEF Join!Collect

LEMMA StepImplements == IInv /\ IInv' /\ [Next]_vars => [Join!Next]_(Join!vars)
<1> SUFFICES ASSUME IInv, IInv', [Next]_vars PROVE [Join!Next]_(Join!vars)
  OBVIOUS
<1>1. CASE Stop
  <2>1. q.timeout \/ (q.limit > 0 /\ Len(res) = q.limit)
    BY <1>1 DEF Stop, LimitReached
  <2>2. UNCHANGED Join!query /\ res' = res
    BY <1>1, JoinStays DEF Stop
  <2>3. Status = "running" /\ Status' = "cut"
    BY <1>1 DEF Stop, Status
  <2>4. QED BY <2>1, <2>2, <2>3 DEF Join!Cut, Join!Next
<1>2. CASE Report
  BY <1>2, ReportCollects DEF Join!Next
<1>3. ASSUME NEW x \in Vars, Choose(x) PROVE UNCHANGED Join!vars
  <2>1. UNCHANGED Join!query /\ res' = res
    BY <1>3, JoinStays DEF Choose
  <2>2. Status' = Status
    BY <1>3 DEF Choose, Status
  <2>3. QED BY <2>1, <2>2 DEF Join!vars, Join!query
<1>4. CASE Descend
  <2>1. UNCHANGED Join!query /\ res' = res
    BY <1>4, JoinStays DEF Descend
  <2>2. Status' = Status
    BY <1>4 DEF Descend, Status
  <2>3. QED BY <2>1, <2>2 DEF Join!vars, Join!query
<1>5. CASE Ascend
  <2>1. UNCHANGED Join!query /\ res' = res
    BY <1>5, JoinStays DEF Ascend
  <2>2. Status' = Status
    BY <1>5 DEF Ascend, Status
  <2>3. QED BY <2>1, <2>2 DEF Join!vars, Join!query
<1>6. CASE Exhaust
  <2>1. UNCHANGED Join!query /\ res' = res /\ Solutions' = Solutions /\ Status = "running"
    BY <1>6, JoinStays, QueryStays DEF Exhaust, Status
  <2>2. CASE Depth = 1
    <3>1. pc' = "done" /\ Status' = "complete"
      BY <1>6, <2>2 DEF Exhaust, Status
    <3>2. Join!Collected' = Solutions'
      <4>1. (IInv /\ pc = "done" => Join!Collected = Solutions)'
        BY DoneIsComplete, PTL
      <4>2. QED BY <3>1, <4>1
    <3>3. Join!Collected = Solutions
      BY <2>1, <3>2 DEF Join!Collected
    <3>4. QED BY <2>1, <3>1, <3>3 DEF Join!Complete, Join!Next
  <2>3. CASE Depth # 1
    <3>1. Status' = Status
      BY <1>6, <2>1, <2>3 DEF Exhaust, Status
    <3>2. QED BY <2>1, <3>1 DEF Join!vars, Join!query
  <2>4. QED BY <2>2, <2>3
<1>7. CASE UNCHANGED vars
  BY <1>7, JoinStays DEF vars, Join!vars, Join!query, Status
<1>8. QED
  BY <1>1, <1>2, <1>3, <1>4, <1>5, <1>6, <1>7 DEF Next

\* Every search is a join: it collects one new solution at a time, stops only for a limit or a
\* timeout, and ends by itself only with all of them. That it does end is left to the runs.
THEOREM ImplementsJoinSafely == Spec => Join!Init /\ [][Join!Next]_(Join!vars)
<1>1. Init => Join!Init
  BY InitInv, JoinInit
<1>2. QED
  BY <1>1, InvariantHolds, StepImplements, PTL DEF Spec
=============================================================================
