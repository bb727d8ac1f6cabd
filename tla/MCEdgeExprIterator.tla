-------------------------- MODULE MCEdgeExprIterator --------------------------
(***************************************************************************)
(* Three labels, each with an edge: a negation leaves two ranges of labels.*)
(***************************************************************************)
EXTENDS EdgeExprIterator

Edge(s, p, o, k) == [s |-> s, p |-> p, o |-> o, k |-> k]

Small ==
  {{Edge(a[1], 1, a[2], 1), Edge(b[1], 2, b[2], 1), Edge(c[1], 3, c[2], 1)} :
     a, b, c \in (1 .. 2) \X (1 .. 2)}
Large ==
  {{Edge(1, 1, 2, 1), Edge(1, 2, 2, 1), Edge(1, 3, 2, 1), Edge(1, 3, 2, 2), Edge(2, 1, 1, 1)},
   {Edge(1, 1, 3, 1), Edge(1, 1, 3, 2), Edge(1, 2, 1, 1), Edge(1, 3, 3, 1), Edge(3, 3, 3, 1)},
   {Edge(2, 1, 3, 1), Edge(3, 1, 3, 1), Edge(3, 2, 1, 1), Edge(3, 2, 3, 1), Edge(2, 3, 3, 1)}}
MCGraphs == Small \union Large

Lab(l) == [type |-> "LAB", label |-> l]
Neg(l) == [type |-> "NEG", label |-> l]
Or(a) == [type |-> "OR", args |-> a]
And(a) == [type |-> "AND", args |-> a]

MCExprs ==
  {Neg(1), Neg(2), Or(<<Lab(3), Lab(1)>>), Or(<<Neg(2), Lab(2)>>), And(<<Neg(1), Lab(1)>>),
   And(<<Or(<<Lab(1), Lab(2)>>), Neg(2)>>), Or(<<And(<<Neg(3), Neg(1)>>), Lab(3)>>)}
MCParts == {Lab(1), Lab(2), Lab(3), Neg(3), Or(<<Lab(1), Lab(2)>>), And(<<Neg(3), Neg(1)>>)}
MCAll == MCExprs \union MCParts
MCPatterns == [s : 0 .. 3, o : 0 .. 3, expr : MCExprs]
=============================================================================
