----------------------------- MODULE PgSemantics -----------------------------
(***************************************************************************)
(* What a query means on a property graph, whatever stands for nodes,      *)
(* edges and names: the names of the TSV files, or the ids of the index.   *)
(* Compare the reference checker of the tests (test/query_checker.hpp).    *)
(*                                                                         *)
(* A graph is [edges, src, lab, dst, nlabels, nprops, eprops]; a property  *)
(* is a function from the nodes or edges that have it to numbers.  A query *)
(* is [patterns, where], where holding a conjunction; the set var of a     *)
(* term has its variable, if it is one, and const its constant.            *)
(***************************************************************************)
EXTENDS Integers, Sequences

RECURSIVE Sat(_, _)
Sat(e, labels) ==
  CASE e.type = "EMPTY" -> TRUE
    [] e.type = "LAB" -> e.label \in labels
    [] e.type = "NEG" -> e.label \notin labels
    [] e.type = "AND" -> \A k \in DOMAIN e.args : Sat(e.args[k], labels)
    [] e.type = "OR" -> \E k \in DOMAIN e.args : Sat(e.args[k], labels)

Compare(op, x, y) ==
  CASE op = "=" -> x = y [] op = "!=" -> x # y
    [] op = ">" -> x > y [] op = "<" -> x < y
    [] op = ">=" -> x >= y [] op = "<=" -> x <= y

Places(q) == (DOMAIN q.patterns) \X {"from", "edge", "to"}
TermAt(q, place) == q.patterns[place[1]][place[2]]
PlacesOf(q, v) == {place \in Places(q) : v \in TermAt(q, place).var}
VarsOf(q) == UNION {TermAt(q, place).var : place \in Places(q)}
NodeVars(q) == {v \in VarsOf(q) : \E place \in PlacesOf(q, v) : place[2] # "edge"}

\* A choice takes an edge for each pattern.
ElementAt(g, choice, place) ==
  LET e == choice[place[1]] IN
  CASE place[2] = "from" -> g.src[e] [] place[2] = "edge" -> e [] place[2] = "to" -> g.dst[e]

Fits(g, q, choice) ==
  /\ \A place \in Places(q) :
       LET term == TermAt(q, place)
           x == ElementAt(g, choice, place) IN
       /\ \A c \in term.const : x = c
       /\ Sat(term.expr, IF place[2] = "edge" THEN {g.lab[x]} ELSE g.nlabels[x])
  /\ \A v \in VarsOf(q) : \A place, other \in PlacesOf(q, v) :
       ElementAt(g, choice, place) = ElementAt(g, choice, other)

Binding(g, q, choice) ==
  [v \in VarsOf(q) |-> ElementAt(g, choice, CHOOSE place \in PlacesOf(q, v) : TRUE)]

\* The value of an operand, if it has one.
ValueOf(g, q, binding, arg) ==
  CASE arg.var = {} -> {arg.literal.n}
    [] arg.var # {} /\ arg.property = {} -> {binding[v] : v \in arg.var}
    [] OTHER ->
         LET v == CHOOSE v \in arg.var : TRUE
             p == CHOOSE p \in arg.property : TRUE
             values == IF v \in NodeVars(q) THEN g.nprops[p] ELSE g.eprops[p] IN
         {values[x] : x \in {binding[v]} \intersect DOMAIN values}

Meets(g, q, binding, c) ==
  CASE c.comp = "IS NULL" -> ValueOf(g, q, binding, c.args[1]) = {}
    [] c.comp = "IS NOT NULL" -> ValueOf(g, q, binding, c.args[1]) # {}
    [] OTHER -> \E x \in ValueOf(g, q, binding, c.args[1]), y \in ValueOf(g, q, binding, c.args[2]) :
                  Compare(c.comp, x, y)

Answers(g, q) ==
  {b \in {Binding(g, q, choice) : choice \in {f \in [DOMAIN q.patterns -> g.edges] : Fits(g, q, f)}} :
     \A k \in DOMAIN q.where : Meets(g, q, b, q.where[k])}
=============================================================================
