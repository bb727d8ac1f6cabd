--------------------------- MODULE MCTripleIterator ---------------------------
(***************************************************************************)
(* Small graphs for the iterators: every graph of two nodes and two labels *)
(* with up to MaxEdges edges, parallel ones included, and some of three    *)
(* nodes with gaps between the ids.                                        *)
(***************************************************************************)
EXTENDS TripleIterator

CONSTANTS MaxEdges

Edge(s, p, o, k) == [s |-> s, p |-> p, o |-> o, k |-> k]

AllEdges == [s : 1 .. 2, p : 1 .. 2, o : 1 .. 2, k : 1 .. 2]
CopiesInOrder(E) == \A e \in E : e.k = 2 => [e EXCEPT !.k = 1] \in E

\* every label has an edge, as the dictionary of labels comes from the edges
Small == {E \in UNION {{S \in SUBSET AllEdges : Cardinality(S) = m} : m \in 1 .. MaxEdges} :
            CopiesInOrder(E)}
Larger ==
  {{Edge(1, 1, 2, 1), Edge(1, 2, 2, 1), Edge(1, 2, 2, 2), Edge(3, 1, 2, 1), Edge(3, 2, 1, 1)},
   {Edge(1, 2, 3, 1), Edge(2, 1, 3, 1), Edge(3, 1, 3, 1), Edge(3, 2, 1, 1), Edge(3, 2, 3, 1)},
   {Edge(2, 1, 1, 1), Edge(2, 1, 3, 1), Edge(2, 2, 3, 1), Edge(1, 2, 1, 1), Edge(1, 2, 3, 1)}}
MCGraphs == Small \union Larger

\* A label with both ends constant is apart.
MCPatterns ==
  {t \in [s : 0 .. 3, o : 0 .. 3, label : 0 .. 2] : t.label = 0 \/ t.s = 0 \/ t.o = 0}
LabelConstPatterns == [s : 1 .. 3, o : 1 .. 3, label : 1 .. 2]
=============================================================================
