----------------------------- MODULE MCNodeLabels -----------------------------
(***************************************************************************)
(* Six nodes and runs of two noted: a label may have two noted runs, runs  *)
(* between and after them that are too short, and one that ends at the     *)
(* last node.                                                              *)
(***************************************************************************)
EXTENDS NodeLabels

Sets == SUBSET (1 .. MaxS) \ {{}}
Others == {{1, 2, 4}, {1, 3, 4, 6}}

MCLabelSets == {<<V, W>> : V \in {V \in Sets : LeavesTheEnd(V)}, W \in Others}
AnyLabelSets == {<<V>> : V \in Sets}

Lab(l) == [type |-> "LAB", label |-> l]
Neg(l) == [type |-> "NEG", label |-> l]
Or(a) == [type |-> "OR", args |-> a]
And(a) == [type |-> "AND", args |-> a]

MCQueries ==
  {Lab(1), Neg(1), Or(<<Lab(1), Neg(2)>>), Or(<<Neg(1), And(<<Lab(1), Lab(2)>>)>>),
   And(<<Neg(2), Neg(1)>>), And(<<Lab(2), Neg(1), Neg(2)>>),
   And(<<Or(<<Lab(1), Lab(2)>>), Or(<<Neg(1), Neg(2)>>)>>),
   And(<<Neg(1), Or(<<Lab(1), And(<<Neg(1), Lab(2)>>)>>)>>)}
MCParts ==
  {Lab(2), Neg(2), And(<<Lab(1), Lab(2)>>), Or(<<Lab(1), Lab(2)>>), Or(<<Neg(1), Neg(2)>>),
   And(<<Neg(1), Lab(2)>>), Or(<<Lab(1), And(<<Neg(1), Lab(2)>>)>>)}
MCExprs == MCQueries \union MCParts
Negation == {Neg(1)}
=============================================================================
