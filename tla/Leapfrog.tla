------------------------------ MODULE Leapfrog ------------------------------
(***************************************************************************)
(* The intersection loop of the leapfrog triejoin: seek, seek_postfilter   *)
(* and seek_prefilter of ltj_algorithm_pg, called by the loop of one node  *)
(* of the search (search_v3, base_postfilter, base_prefilter) until they   *)
(* return 0.                                                               *)
(*                                                                         *)
(* While that loop runs, the prefix bound in every iterator is fixed, so   *)
(* an iterator is the set of ids it can still give to the variable, and    *)
(* leap(x_j, c) is the least of them that is not below c (0: none).  An    *)
(* iterator also remembers what its last leap found: the ring keeps the    *)
(* symbol and rank it selected and the comparison iterators the values of  *)
(* the properties, and down(x_j, c) descends with what was kept.           *)
(***************************************************************************)
EXTENDS LeastId

CONSTANTS
  MaxItrs,  \* most iterators a variable occurs in
  MaxValue  \* ids are 1 .. MaxValue

ASSUME LoopAssumption == MaxItrs \in Nat \ {0} /\ MaxValue \in Nat \ {0}

Values == 1 .. MaxValue
NoBound == -1                \* the default c = -1: leap(x_j), any id will do
Modes == {"seek", "postfilter", "prefilter"}

VARIABLES
  n,         \* number of iterators of the variable
  cand,      \* cand[k]: the ids iterator k can give to the variable
  begWhere,  \* iterators 0 .. begWhere-1 come from patterns, the rest from WHERE
  mode,      \* which of the three join procedures runs
  at,        \* where the call is: call, leap, drive, check, ret or done
  start,     \* the argument c of the running call
  i,         \* next iterator to leap
  j,         \* next iterator to check
  c_i,       \* value found by the last leap
  c_prev,    \* value the last n_ok iterators agreed on
  n_ok,
  last,      \* last[k]: what iterator k keeps from its last leap
  found      \* values returned so far

fixed == <<n, cand, begWhere, mode>>
loopVars == <<n, cand, begWhere, mode, at, start, i, j, c_i, c_prev, n_ok, last, found>>

Itr == 0 .. n - 1

(***************************************************************************)
(* leap(x_j) (c = NoBound) and leap(x_j, c).                               *)
(***************************************************************************)
Leap(k, c) == LeastFrom(cand[k], c)

\* Without WHERE iterators, or without pattern iterators, all three use seek.
Filtered == mode # "seek" /\ begWhere > 0 /\ begWhere < n

\* The filtered loops leap over one segment of the iterators and check every
\* value this segment agrees on against the other segment.
DriveFirst == IF mode = "postfilter" THEN 0 ELSE begWhere
DriveEnd   == IF mode = "postfilter" THEN begWhere ELSE n
CheckFirst == IF mode = "postfilter" THEN begWhere ELSE 0
CheckEnd   == IF mode = "postfilter" THEN n ELSE begWhere

Return(c) == at' = "ret" /\ c_i' = c

-----------------------------------------------------------------------------
(***************************************************************************)
(* seek: the first iterator leaps from the bound; the others then leap     *)
(* round-robin until n in a row agree.                                     *)
(***************************************************************************)
SeekBegin ==
  /\ at = "call" /\ ~Filtered
  /\ LET v == Leap(0, start) IN
     /\ last' = [last EXCEPT ![0] = v]
     /\ IF v = 0 \/ n = 1
        THEN Return(v) /\ UNCHANGED <<i, c_prev, n_ok>>
        ELSE at' = "leap" /\ c_i' = v /\ c_prev' = v /\ i' = 1 /\ n_ok' = 1
  /\ UNCHANGED <<fixed, start, j, found>>

StaleCounterLeap ==         \* mutant: n_ok is not reset on a mismatch
  /\ at = "leap"
  /\ LET v == Leap(i, c_i) IN
     /\ last' = [last EXCEPT ![i] = v]
     /\ c_prev' = v
     /\ n_ok' = n_ok + 1
     /\ IF v = 0 \/ n_ok' = n
        THEN Return(v) /\ UNCHANGED i
        ELSE at' = "leap" /\ c_i' = v /\ i' = IF i + 1 = n THEN 0 ELSE i + 1
  /\ UNCHANGED <<fixed, start, j, found>>

SeekLeap ==
  /\ at = "leap"
  /\ LET v == Leap(i, c_i) IN
     /\ last' = [last EXCEPT ![i] = v]
     /\ n_ok' = IF v = c_prev THEN n_ok + 1 ELSE 1
     /\ c_prev' = v
     /\ IF v = 0 \/ n_ok' = n
        THEN Return(v) /\ UNCHANGED i
        ELSE at' = "leap" /\ c_i' = v /\ i' = IF i + 1 = n THEN 0 ELSE i + 1
  /\ UNCHANGED <<fixed, start, j, found>>

(***************************************************************************)
(* seek_postfilter and seek_prefilter: the driving segment leaps           *)
(* round-robin; what it agrees on is checked, in order, in the other one.  *)
(***************************************************************************)
FilterBegin ==
  /\ at = "call" /\ Filtered
  /\ at' = "drive" /\ c_prev' = NoBound /\ c_i' = start
  /\ i' = DriveFirst /\ n_ok' = 0
  /\ UNCHANGED <<fixed, start, j, last, found>>

UnwrappedDriver == i + 1    \* mutant: the driving loop does not wrap around

NextDriver == IF i + 1 = DriveEnd THEN DriveFirst ELSE i + 1

Drive ==
  /\ at = "drive"
  /\ LET v      == Leap(i, c_i)
         agrees == v = c_prev \/ DriveEnd - DriveFirst = 1
         ok     == IF agrees THEN n_ok + 1 ELSE 1
         all    == agrees /\ ok = DriveEnd - DriveFirst
     IN /\ last' = [last EXCEPT ![i] = v]
        /\ IF v = 0
           THEN Return(0) /\ UNCHANGED <<i, j, c_prev, n_ok>>
           ELSE /\ c_i' = v /\ c_prev' = v /\ n_ok' = ok
                /\ at' = IF all THEN "check" ELSE "drive"
                /\ j' = IF all THEN CheckFirst ELSE j
                /\ i' = IF all THEN i ELSE NextDriver
  /\ UNCHANGED <<fixed, start, found>>

UncheckedCandidate ==       \* mutant: the checking loop drops its test c_i == c_prev
  /\ at = "check"
  /\ LET v == Leap(j, c_i) IN
     /\ last' = [last EXCEPT ![j] = v]
     /\ j' = j + 1
     /\ IF v = 0 THEN Return(0) /\ UNCHANGED <<i, n_ok>>
        ELSE IF j + 1 < CheckEnd THEN c_i' = v /\ UNCHANGED <<at, i, n_ok>>
        ELSE Return(v) /\ UNCHANGED <<i, n_ok>>
  /\ UNCHANGED <<fixed, start, c_prev, found>>

Check ==
  /\ at = "check"
  /\ LET v == Leap(j, c_i) IN
     /\ last' = [last EXCEPT ![j] = v]
     /\ j' = j + 1
     /\ \/ /\ v = c_prev /\ j + 1 < CheckEnd
           /\ c_i' = v /\ UNCHANGED <<at, i, n_ok>>
        \/ /\ v = c_prev /\ j + 1 = CheckEnd
           /\ Return(v) /\ UNCHANGED <<i, n_ok>>
        \/ /\ v # c_prev                      \* rejected: the next candidate
           /\ at' = "drive" /\ c_i' = c_prev + 1 /\ n_ok' = 0 /\ i' = NextDriver
  /\ UNCHANGED <<fixed, start, c_prev, found>>

(***************************************************************************)
(* The caller takes the value, and seeks from the one after it.            *)
(***************************************************************************)
SkipResume ==               \* mutant: the loop seeks from c + 2
  /\ at = "ret"
  /\ IF c_i = 0
     THEN at' = "done" /\ UNCHANGED <<start, found>>
     ELSE at' = "call" /\ start' = c_i + 2 /\ found' = found \union {c_i}
  /\ UNCHANGED <<fixed, i, j, c_i, c_prev, n_ok, last>>

RepeatResume ==             \* mutant: the loop seeks from c again
  /\ at = "ret"
  /\ IF c_i = 0
     THEN at' = "done" /\ UNCHANGED <<start, found>>
     ELSE at' = "call" /\ start' = c_i /\ found' = found \union {c_i}
  /\ UNCHANGED <<fixed, i, j, c_i, c_prev, n_ok, last>>

Resume ==
  /\ at = "ret"
  /\ IF c_i = 0
     THEN at' = "done" /\ UNCHANGED <<start, found>>
     ELSE at' = "call" /\ start' = c_i + 1 /\ found' = found \union {c_i}
  /\ UNCHANGED <<fixed, i, j, c_i, c_prev, n_ok, last>>

-----------------------------------------------------------------------------
LoopInit ==
  /\ n \in 1 .. MaxItrs
  /\ cand \in [Itr -> SUBSET Values]
  /\ begWhere \in 0 .. n
  /\ mode \in Modes
  /\ at = "call" /\ start = NoBound
  /\ i = 0 /\ j = 0 /\ c_i = 0 /\ c_prev = 0 /\ n_ok = 0
  /\ last = [k \in Itr |-> 0]
  /\ found = {}

LoopNext == SeekBegin \/ SeekLeap \/ FilterBegin \/ Drive \/ Check \/ Resume

\* The search is one thread that runs until the join returns.
LoopSpec == LoopInit /\ [][LoopNext]_loopVars /\ WF_loopVars(LoopNext)

-----------------------------------------------------------------------------
LoopTypeOK ==
  /\ n \in 1 .. MaxItrs
  /\ cand \in [Itr -> SUBSET Values]
  /\ begWhere \in 0 .. n
  /\ mode \in Modes
  /\ at \in {"call", "leap", "drive", "check", "ret", "done"}
  /\ start \in {NoBound} \union 1 .. MaxValue + 1
  /\ i \in Itr /\ j \in 0 .. n
  /\ c_i \in {NoBound} \union 0 .. MaxValue + 1
  /\ c_prev \in {NoBound} \union 0 .. MaxValue
  /\ n_ok \in 0 .. n
  /\ last \in [Itr -> 0 .. MaxValue]
  /\ found \in SUBSET Values

Accepted == {v \in Values : \A k \in Itr : v \in cand[k]}

\* Whichever procedure runs, what a call returns is the least id not below its
\* argument that every iterator accepts, and 0 only when there is none.
ReturnsLeastCommon ==
  at = "ret" =>
    /\ c_i = 0 => \A v \in Accepted : v < start
    /\ c_i # 0 => c_i \in Accepted /\ start <= c_i
                  /\ \A v \in Accepted : start <= v => c_i <= v

\* When a call returns c, the last leap of every iterator found c: the symbol,
\* rank or property values that down(x_j, c) takes from it are those of c.
KeptIsReturned ==
  at = "ret" /\ c_i # 0 => \A k \in Itr : last[k] = c_i

\* The loop of a search node visits exactly the ids that all iterators accept.
VisitsIntersection == at = "done" => found = Accepted

\* The loop ends.
Terminates == <>(at = "done")
=============================================================================
