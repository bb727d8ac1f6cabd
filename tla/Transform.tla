------------------------------ MODULE Transform ------------------------------
(***************************************************************************)
(* transform: reads a line of queries, checks its names against the        *)
(* dictionaries of the data files, adds the comparisons that keep edges    *)
(* apart, and writes the query anew for the query programs.                *)
(*                                                                         *)
(* A comparison leaves has_property of a variable without a property       *)
(* uninitialised: garbage is the set of operand positions whose flag then  *)
(* reads true.  The Cypher and MQL texts that go along with each query are *)
(* left out.                                                               *)
(***************************************************************************)
EXTENDS LabelText

Node(is_variable, value, expr) == [is_variable |-> is_variable, value |-> value, expr |-> expr]
Rejected == [ok |-> FALSE]

\* With a '&' the labels are what stands between them.
RECURSIVE AndLabels(_, _, _)
AndLabelTo(s, p, q, end) == <<Lab(SubSeq(s, p, q - 1))>> \o AndLabels(s, q + 1, end)
AndLabelAt(s, p, end) == AndLabelTo(s, p, FirstOf(s, p, end, {"&"}), end)
AndLabels(s, p, end) == IF p < end THEN AndLabelAt(s, skip_ws(s, p), end) ELSE <<>>

label_of(s, p, end) ==
  IF \E k \in p .. end - 1 : s[k] = "&"
  THEN [ok |-> TRUE, e |-> Expr("AND", <<>>, AndLabels(s, p, end))]
  ELSE parse_expr(s, p, end)

\* Everything up to the bracket or ':' is the variable, blanks included, everything up
\* to the bracket the constant, a label with it.
Named(name, label) == [ok |-> label.ok, node |-> Node(TRUE, name, label.e)]
VariableTo(s, p, q, end) ==
  Named(SubSeq(s, p, q - 1),
        IF q < end THEN label_of(s, skip_ws(s, q + 1), end) ELSE [ok |-> TRUE, e |-> NoExpr])
VariableAt(s, p, end) == VariableTo(s, p, FirstOf(s, p, end, {":"}), end)

NodeAt(s, p, end) ==
  IF Piece(s, p) = "?" THEN VariableAt(s, p + 1, end)
  ELSE [ok |-> TRUE, node |-> Node(FALSE, SubSeq(s, p, end - 1), NoExpr)]
EdgeAt(s, p, end) == IF Piece(s, p) = "?" THEN VariableAt(s, p + 1, end) ELSE Rejected

parse_node(s, p, end) == NodeAt(s, skip_ws(s, p + 1), end)
parse_edge(s, p, end) == EdgeAt(s, skip_ws(s, p + 1), end)

-----------------------------------------------------------------------------
Operand(is_var, value, has_property, property) ==
  [is_var |-> is_var, value |-> value, has_property |-> has_property, property |-> property]

\* A variable up to v, and what follows a point.
PropertyTo(s, p, v, e) == [at |-> e, arg |-> Operand(TRUE, SubSeq(s, p, v - 1), TRUE, SubSeq(s, v + 1, e - 1))]
VarOperandTo(s, p, v, end, unset) ==
  IF v < end /\ s[v] = "." THEN PropertyTo(s, p, v, FirstOf(s, v, end, {" ", ")"}))
  ELSE [at |-> v, arg |-> Operand(TRUE, SubSeq(s, p, v - 1), unset, <<>>)]

ConstantTo(s, p, q, at) == [at |-> at, arg |-> Operand(FALSE, SubSeq(s, p, q - 1), FALSE, <<>>)]
NumberTo(s, p, q) == ConstantTo(s, p, q, q)

\* A quoted constant reaches up to end and leaves the position at its start, a number
\* goes up to a blank.
OperandAt(s, p, end, unset) ==
  CASE Piece(s, p) = "?" -> VarOperandTo(s, p + 1, FirstOf(s, p + 1, end, {" ", ".", ")"}), end, unset)
    [] Piece(s, p) \in DOMAIN Literals /\ Literals[s[p]].string -> ConstantTo(s, p, end, p)
    [] OTHER -> NumberTo(s, p, FirstOf(s, p, end, {" "}))
parse_operand(s, p, end, unset) == OperandAt(s, skip_ws(s, p), end, unset)

\* Without an operator comp stays empty, and the second operand is read all the same.
OperatorAt(s, one, p, end, garbage) ==
  CASE Piece(s, p) \in Unary -> [comp |-> s[p], args |-> <<one>>]
    [] Piece(s, p) \in Binary ->
         [comp |-> s[p], args |-> <<one, parse_operand(s, p + 1, end, 1 \in garbage).arg>>]
    [] OTHER -> [comp |-> "", args |-> <<one, parse_operand(s, p, end, 1 \in garbage).arg>>]
AfterOperand(s, first, end, garbage) ==
  OperatorAt(s, first.arg, skip_ws(s, first.at), end, garbage)
parse_op_where(s, p, end, garbage) ==
  AfterOperand(s, parse_operand(s, p + 1, end, 0 \in garbage), end, garbage)

-----------------------------------------------------------------------------
RECURSIVE parse_patterns(_, _), parse_where(_, _, _)

\* A pattern and those that follow it; q is the position after it.
AddPattern(pattern, rest) ==
  IF rest.ok THEN [rest EXCEPT !.patterns = <<pattern>> \o @] ELSE Rejected
Continue(s, q, from, edge, to) ==
  IF ~(from.ok /\ edge.ok /\ to.ok) \/ (q <= Len(s) /\ s[q] \notin {",", "WHERE"}) THEN Rejected
  ELSE AddPattern([from |-> from.node, edge |-> edge.node, to |-> to.node],
                  IF q < Len(s) /\ s[q] = "," THEN parse_patterns(s, q + 1)
                  ELSE [ok |-> TRUE, patterns |-> <<>>, at |-> q + 1])

\* The brackets that open at p close at c1, c2 and c3, or at 0.
PatternTo(s, p, c1, c2, c3) ==
  IF 0 \in {c1, c2, c3} THEN Rejected
  ELSE Continue(s, skip_ws(s, c3 + 1), parse_node(s, p, c1), parse_edge(s, c1 + 2, c2), parse_node(s, c2 + 2, c3))
LastNodeAt(s, p, c1, c2) == PatternTo(s, p, c1, c2, find_close("(", ")", c2 + 2, s))
PatternEdgeAt(s, p, c1) == LastNodeAt(s, p, c1, find_close("[", "]", c1 + 2, s))
PatternAt(s, p) == PatternEdgeAt(s, p, find_close("(", ")", p, s))
parse_patterns(s, p) == PatternAt(s, skip_ws(s, p))

\* The check of parse_query reads is_var of the second operand of IS NULL as well.
AddOp(op, rest, garbage) ==
  IF rest.ok /\ ((\E a \in DOMAIN op.args : op.args[a].is_var) \/ (op.comp \in Unary /\ 1 \in garbage))
  THEN [rest EXCEPT !.where = <<op>> \o @]
  ELSE Rejected
OpTo(s, p, c, garbage) ==
  IF c = 0 \/ Piece(s, skip_ws(s, c + 1)) \notin {"AND", "end of text"} THEN Rejected
  ELSE AddOp(parse_op_where(s, p, c, garbage), parse_where(s, skip_ws(s, c + 1) + 1, garbage), garbage)
OpAt(s, p, garbage) == OpTo(s, p, find_close("(", ")", p, s), garbage)
parse_where(s, p, garbage) ==
  IF p > Len(s) THEN [ok |-> TRUE, where |-> <<>>] ELSE OpAt(s, skip_ws(s, p), garbage)

WithWhere(read, where) ==
  IF where.ok THEN [ok |-> TRUE, patterns |-> read.patterns, where |-> where.where] ELSE Rejected
AfterPatterns(s, read, garbage) ==
  IF read.ok THEN WithWhere(read, parse_where(s, read.at, garbage)) ELSE Rejected
parse_query(s, garbage) == AfterPatterns(s, parse_patterns(s, 1), garbage)
-----------------------------------------------------------------------------
node_vars(q) == {n.value : n \in {n \in UNION {{t.from, t.to} : t \in ToSet(q.patterns)} : n.is_variable}}
edge_vars(q) == {t.edge.value : t \in ToSet(q.patterns)} \ {<<>>}

\* The dictionaries are the names of each kind.
validate_expr(e, names) == LabelsOf(e) \subseteq names
validate_node(n, dicts) ==
  IF n.is_variable THEN validate_expr(n.expr, dicts.nlabels) ELSE n.value \in dicts.nodes

\* A constant is a literal, or the name of a node when the other operand is a node
\* variable, whatever the operator; of IS NULL the other operand stays empty.
OtherValue(op, a) == IF 3 - a \in DOMAIN op.args THEN op.args[3 - a].value ELSE <<>>
validate_operand(op, a, q, dicts) ==
  LET arg == op.args[a] IN
  CASE arg.is_var /\ arg.has_property ->
         \/ arg.value \in node_vars(q) /\ arg.property \in dicts.nprops
         \/ arg.value \in edge_vars(q) \ node_vars(q) /\ arg.property \in dicts.eprops
    [] arg.is_var /\ ~arg.has_property -> arg.value \in node_vars(q) \union edge_vars(q)
    [] OTHER ->
         \/ Len(arg.value) = 1 /\ arg.value[1] \in DOMAIN Literals
         \/ OtherValue(op, a) \in node_vars(q) /\ arg.value \in dicts.nodes

BothEnds(t) == t.from.is_variable /\ t.to.is_variable /\ t.from.value = t.to.value

AcceptsPatterns(q, dicts) ==        \* as a mutant: comparisons are not checked
  /\ node_vars(q) \intersect edge_vars(q) = {}
  /\ \A t \in ToSet(q.patterns) :
       /\ ~BothEnds(t) /\ validate_node(t.from, dicts) /\ validate_node(t.to, dicts)
       /\ validate_expr(t.edge.expr, dicts.elabels)

Accepts(q, dicts) ==
  /\ AcceptsPatterns(q, dicts)
  /\ \A op \in ToSet(q.where) : \A a \in DOMAIN op.args : validate_operand(op, a, q, dicts)

\* One comparison for each two edge variables, in the order of a set.
KeepEdgesApart(q) ==
  LET names == SetToSeq(edge_vars(q))
      Var(k) == Operand(TRUE, names[k], FALSE, <<>>)
      From(j) == [k \in 1 .. Len(names) - j |-> [comp |-> "!=", args |-> <<Var(j), Var(j + k)>>]] IN
  [q EXCEPT !.where = @ \o FlattenSeq([j \in DOMAIN names |-> From(j)])]

-----------------------------------------------------------------------------
str_node(n) ==
  (IF n.is_variable THEN <<"?">> ELSE <<>>) \o n.value
    \o (IF n.expr.type = "EMPTY" THEN <<>> ELSE <<":">> \o str_expr(n.expr))

str_edge(e) ==
  (IF e.value = <<>> THEN <<>> ELSE <<"?">> \o e.value)
    \o (IF e.expr.type = "EMPTY" THEN <<>> ELSE <<":">> \o str_expr(e.expr))

str_pattern(t) ==
  <<"(">> \o str_node(t.from) \o <<")", "-", "[">> \o str_edge(t.edge)
    \o <<"]", "->", "(">> \o str_node(t.to) \o <<")">>

str_operand(arg) ==
  (IF arg.is_var THEN <<"?">> ELSE <<>>) \o arg.value
    \o (IF arg.has_property THEN <<".">> \o arg.property ELSE <<>>)

str_op(op) ==
  <<"(">> \o str_operand(op.args[1]) \o <<" ", op.comp>>
    \o (IF op.comp \in Unary THEN <<>> ELSE <<" ">> \o str_operand(op.args[2])) \o <<")">>

to_string(q) ==
  Join([k \in DOMAIN q.patterns |-> str_pattern(q.patterns[k])], <<",", " ">>)
    \o (IF q.where = <<>> THEN <<>>
        ELSE <<" ", "WHERE", " ">>
               \o Join([k \in DOMAIN q.where |-> str_op(q.where[k])], <<" ", "AND", " ">>))
=============================================================================
