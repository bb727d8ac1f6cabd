--------------------------- MODULE MCWhereIterators ---------------------------
(***************************************************************************)
(* Three nodes and four edges.  Node properties 1 and 2 and edge property  *)
(* 1 hold numbers, the last property of each kind holds strings.  The      *)
(* second index has the least values 2 and 0, and ids without a property.  *)
(***************************************************************************)
EXTENDS WhereIterators

G(ids, vals) == [n \in ids |-> vals[n]]
MCIndexes ==
  {[node |-> <<G({1, 2, 3}, <<1, 3, 2>>), G({2, 3}, <<0, 2, 2>>), G({1, 3}, <<2, 0, 3>>)>>,
    edge |-> <<G({1, 2, 4}, <<1, 3, 0, 2>>), G({2, 3, 4}, <<0, 2, 1, 3>>)>>],
   [node |-> <<G({1, 3}, <<3, 0, 2>>), G({1, 2, 3}, <<0, 3, 2>>), G({1, 2, 3}, <<3, 1, 1>>)>>,
    edge |-> <<G({2, 4}, <<0, 0, 0, 3>>), G({1, 4}, <<1, 0, 0, 2>>)>>]}

Prop(x, p) == [x |-> x, p |-> p, k |-> 0, at |-> "var"]
Id(x) == Prop(x, 0)
Num(v) == [x |-> "const", p |-> 0, k |-> v, at |-> "num"]
Str(v, where_) == [x |-> "const", p |-> 0, k |-> v, at |-> where_]
Cmp(op, a, b) == [type |-> op, o |-> <<a, b>>]
And(s) == [type |-> "WAND", args |-> s]

Ops == {"EQ", "NEQ", "GT", "GE", "ST", "SE"}
RangeOps == {"GT", "GE", "ST", "SE"}
Constants == {Num(v) : v \in -1 .. 4}
Strings == {Str(v, w) : v \in 1 .. 3, w \in {"in", "gap"}}
Numbers == {Num(v) : v \in 1 .. 3}

Single ==
  {Cmp(op, Prop(x, 1), c) : op \in Ops, x \in {"x", "e"}, c \in Constants}
  \union {Cmp(op, c, Prop(x, 1)) : op \in Ops, x \in {"x", "e"}, c \in Constants}
  \union {Cmp(op, o, c) : op \in Ops, o \in {Prop("x", 3), Prop("e", 2)}, c \in Strings}
  \union {Cmp(op, c, Prop("x", 3)) : op \in Ops, c \in Strings}
  \union {Cmp(op, a, b) : op \in Ops, a \in {Prop("x", 1), Prop("e", 1)},
                          b \in {Prop("y", 2), Prop("x", 2), Prop("e", 1)}}
  \union {Cmp(op, Id("x"), b) : op \in Ops, b \in Numbers \union {Id("y"), Id("x")}}
  \union {Cmp(op, b, Id(x)) : op \in Ops, b \in Numbers, x \in {"x", "e"}}
  \union {Cmp(op, Prop(x, 1), Num(0)) : op \in {"ISNULL", "ISNOTNULL"}, x \in {"x", "e"}}

Ranges(o) == {Cmp(op, o, c) : op \in RangeOps, c \in {Num(v) : v \in -1 .. 4}}
             \union {Cmp(op, c, o) : op \in RangeOps, c \in {Num(2)}}
IdRanges == {Cmp(op, Id("x"), c) : op \in RangeOps, c \in Numbers}

MCWheres ==
  {And(<<>>)} \union
  Single
  \union {And(<<a, b>>) : a \in Ranges(Prop("x", 2)), b \in Ranges(Prop("x", 2))}
  \union {And(<<a, b>>) : a \in IdRanges, b \in IdRanges}
  \union {And(<<a, Cmp("EQ", Prop("x", 1), Prop("y", 2)), b>>) :
            a \in {Cmp("GT", Prop("x", 1), Num(1))}, b \in Ranges(Prop("e", 1))}
  \union {And(<<Cmp("NEQ", Id("x"), Id("y")), a>>) : a \in Ranges(Prop("y", 2))}
  \union {And(<<a, Cmp("NEQ", Prop("x", 3), Str(1, "in"))>>) :
            a \in {Cmp(op, Prop("x", 3), Str(2, "in")) : op \in RangeOps}}

\* Ranges below the least value of a property, and others.
Below == {And(<<Cmp("SE", Prop("x", p), Num(v)), Cmp("NEQ", Id("x"), Id("y"))>>) :
            p \in 1 .. 2, v \in 0 .. 3}
=============================================================================
