---------------------------- MODULE IteratorSpec ----------------------------
(***************************************************************************)
(* What the join expects of the iterator of a triple pattern: a leap, or a *)
(* scan of the last term, answers the least value not below its bound that *)
(* some match of the pattern gives to the term, the matches being those    *)
(* that agree with the values the iterator went down by.                   *)
(***************************************************************************)
EXTENDS LeastId, Sequences

CONSTANTS
  Terms,     \* the terms of a pattern
  Bounds     \* what can be asked for: NoBound and ids

NoBound == -1

VARIABLES
  variables, \* the terms that are variables
  matches,   \* the matches of the pattern, functions of its terms
  path,      \* the terms bound so far and their values, in the order of the downs
  mode,      \* leap or scan: a question was answered; under, left: below and back from a
             \* scanned value; back: back from another one; idle: at a new node
  ret        \* the last question and its answer

pattern == <<variables, matches>>
vars == <<pattern, path, mode, ret>>

Free == variables \ {path[d].x : d \in DOMAIN path}
Agreeing == {m \in matches : \A d \in DOMAIN path : m[path[d].x] = path[d].v}
Given(x) == {m[x] : m \in Agreeing}

Ask(x, c) == ret' = [x |-> x, c |-> c, v |-> LeastFrom(Given(x), c)]

Leap(x, c) ==
  /\ mode # "under" /\ x \in Free
  /\ Ask(x, c)
  /\ mode' = "leap" /\ UNCHANGED <<pattern, path>>

SeekLast(x) ==
  /\ mode # "under" /\ Free = {x}
  /\ Ask(x, NoBound)
  /\ mode' = "scan" /\ UNCHANGED <<pattern, path>>

SeekLastNext ==
  /\ mode = "left"
  /\ Ask(ret.x, ret.c + 1)
  /\ mode' = "scan" /\ UNCHANGED <<pattern, path>>

Down ==
  /\ mode \in {"leap", "scan"} /\ ret.v # 0
  /\ path' = Append(path, [x |-> ret.x, v |-> ret.v])
  /\ mode' = IF mode = "scan" THEN "under" ELSE "idle"
  /\ ret' = [x |-> ret.x, c |-> ret.v, v |-> 0]
  /\ UNCHANGED pattern

Up ==
  /\ path # <<>>
  /\ LET last == path[Len(path)] IN
     /\ path' = SubSeq(path, 1, Len(path) - 1)
     /\ mode' = IF mode = "under" THEN "left" ELSE "back"
     /\ ret' = [x |-> last.x, c |-> last.v, v |-> 0]
  /\ UNCHANGED pattern

Init == path = <<>> /\ mode = "idle" /\ ret = [x |-> "none", c |-> 0, v |-> 0]

Next ==
  \/ \E x \in Terms, c \in Bounds : Leap(x, c)
  \/ \E x \in Terms : SeekLast(x)
  \/ SeekLastNext \/ Down \/ Up

Spec == Init /\ [][Next]_vars
=============================================================================
