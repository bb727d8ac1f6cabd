------------------------------- MODULE PgQuery -------------------------------
(***************************************************************************)
(* pg_query: the query programs read the text that transform wrote.  It is *)
(* split into patterns and a WHERE clause, each part goes to a parser of   *)
(* its own, and translate replaces names by the ids of the index.          *)
(*                                                                         *)
(* ht holds the names of the variables: the place of a name is its id, 0   *)
(* the id of a variable without one.  vnodes is the set of ids of nodes.   *)
(***************************************************************************)
EXTENDS LabelText

Failed == [ok |-> FALSE]
IdOf(names, name) == IF name \in ToSet(names) THEN CHOOSE k \in DOMAIN names : names[k] = name ELSE 0

-----------------------------------------------------------------------------
\* parse_variable: a name seen for the first time gets the next id.
known(ht, name) == IF name = <<>> \/ name \in ToSet(ht) THEN ht ELSE Append(ht, name)

\* A reader of a pattern: its text and position, whether it could read so far, the
\* names, and the elements it has read.
Reader(s, ht) == [s |-> s, at |-> 1, ok |-> TRUE, ht |-> ht, elements |-> <<>>]
Next(r) == Piece(r.s, r.at)
Skip(r) == [r EXCEPT !.at = skip_ws(r.s, @)]
Take(r, mark) == [r EXCEPT !.ok = @ /\ Next(r) = mark, !.at = @ + 1]
Expect(r, mark) == Take(Skip(r), mark)

\* The name of a variable, of a constant, or of neither.
VariableTo(r, name, e) ==
  [r EXCEPT !.at = e, !.ht = known(@, name),
            !.elements = Append(@, [var |-> IdOf(known(r.ht, name), name), const |-> <<>>, expr |-> NoExpr])]
ConstantTo(r, name, e) ==
  [r EXCEPT !.at = e, !.ok = @ /\ (name # <<>> \/ Next(r) = ":"),
            !.elements = Append(@, [var |-> 0, const |-> name, expr |-> NoExpr])]
NameTo(r, e) ==
  IF Next(r) = "?" THEN VariableTo(r, SubSeq(r.s, r.at + 1, e - 1), e) ELSE ConstantTo(r, SubSeq(r.s, r.at, e - 1), e)
ReadName(r) == NameTo(r, Run(r.s, IF Next(r) = "?" THEN r.at + 1 ELSE r.at))

\* The label is a word or an expression in parentheses.
WithLabel(r, read, e) ==
  [r EXCEPT !.at = e, !.ok = @ /\ read.ok, !.elements[Len(r.elements)].expr = read.e]
WordTo(r, e) == WithLabel(r, parse_expr(SubSeq(r.s, r.at, e - 1), 1, 0), e)
ExprTo(r, close) == WordTo(r, 1 + IF close = 0 THEN Len(r.s) ELSE close)
LabelFrom(r) ==
  IF Next(r) = "(" THEN ExprTo(r, find_close("(", ")", r.at, r.s)) ELSE WordTo(r, Run(r.s, r.at))
ReadLabel(r) == IF Next(r) = ":" THEN LabelFrom(Skip(Take(r, ":"))) ELSE r

\* Both parse_node and parse_edge.
parse_element(r, open, close) ==
  Expect(ReadLabel(Skip(ReadName(Skip(Expect(r, open))))), close)

\* triple_parser::parse does not look at what follows the second node.
ReadTriple(r) ==
  parse_element(Expect(parse_element(Expect(parse_element(r, "(", ")"), "-"), "[", "]"), "->"), "(", ")")
TripleOf(r, vnodes) ==
  LET el == r.elements IN
  [ok |-> r.ok, ht |-> r.ht,
   vnodes |-> (((vnodes \union {el[1].var}) \ {el[2].var}) \union {el[3].var}) \ {0},
   pattern |-> [from |-> el[1], edge |-> el[2], to |-> el[3]]]
parse_triple(s, ht, vnodes) == TripleOf(ReadTriple(Reader(s, ht)), vnodes)

RECURSIVE ScanEnd(_, _, _, _), split(_, _, _)

\* Where a pattern ends, and whether WHERE ends it.  match skips blanks before it looks
\* for WHERE, so that the piece after a blank is never counted as a bracket or comma.
ScanEnd(s, pos, p, b) ==
  LET c == Piece(s, pos)
      p1 == p + (IF c = "(" THEN 1 ELSE IF c = ")" THEN -1 ELSE 0)
      b1 == b + (IF c = "[" THEN 1 ELSE IF c = "]" THEN -1 ELSE 0)
      q == skip_ws(s, pos) IN
  IF pos > Len(s) \/ (c = "," /\ p1 = 0 /\ b1 = 0) THEN [at |-> pos, where |-> FALSE]
  ELSE IF Piece(s, q) = "WHERE" THEN [at |-> q, where |-> TRUE]
  ELSE ScanEnd(s, q + 1, p1, b1)

\* The parts of the text: the patterns, and the clause, empty if there is none.
split(s, start, parts) ==
  LET end == ScanEnd(s, start, 0, 0)
      pat == SubSeq(s, start, end.at - 1)
      all == IF pat = <<>> THEN parts ELSE Append(parts, pat) IN
  IF start > Len(s) THEN [parts |-> parts, clause |-> <<>>]
  ELSE IF end.where THEN [parts |-> all, clause |-> SubSeq(s, skip_ws(s, end.at + 2), Len(s))]
  ELSE split(s, skip_ws(s, end.at + 1), all)

AddTriple(read, t) ==
  [ok |-> t.ok, ht |-> t.ht, vnodes |-> t.vnodes, patterns |-> Append(read.patterns, t.pattern)]
read_patterns(parts) ==
  FoldLeft(LAMBDA read, pat : IF read.ok THEN AddTriple(read, parse_triple(pat, read.ht, read.vnodes)) ELSE read,
           [ok |-> TRUE, ht |-> <<>>, vnodes |-> {}, patterns |-> <<>>], parts)

-----------------------------------------------------------------------------
Trim(s) ==
  LET solid == {k \in DOMAIN s : s[k] # " "} IN
  IF solid = {} THEN <<>>
  ELSE SubSeq(s, CHOOSE k \in solid : \A j \in solid : k <= j, CHOOSE k \in solid : \A j \in solid : j <= k)

\* A variable that no pattern has is entered into the table with the value 0.  What is
\* neither variable nor literal is the number 0.
VarOperand(s, dot, ht) ==
  [is_var |-> TRUE, var |-> IdOf(ht, SubSeq(s, 2, dot - 1)),
   property |-> SubSeq(s, dot + 1, FirstOf(s, dot + 1, Len(s) + 1, {" "}) - 1)]
parse_operand(s, ht) ==
  CASE Piece(s, 1) = "?" -> VarOperand(s, FirstOf(s, 2, Len(s) + 1, {"."}), ht)
    [] Piece(s, 1) \in DOMAIN Literals -> [is_var |-> FALSE, literal |-> Literals[s[1]]]
    [] OTHER -> [is_var |-> FALSE, literal |-> [string |-> FALSE, n |-> 0]]

\* The operator is searched for from p on.  The second operand reaches to the
\* parenthesis that closes; without one it reaches to the end, and the reading begins
\* anew at the start.
Compared(op, args, at) == [ok |-> TRUE, at |-> at, e |-> [type |-> op, args |-> args]]
CompTo(s, op, one, close, ht) ==
  Compared(s[op], <<one, parse_operand(Trim(SubSeq(s, op + 1, IF close = 0 THEN Len(s) ELSE close - 1)), ht)>>,
           IF close = 0 THEN 1 ELSE close)
CompWith(s, op, one, ht) ==
  IF s[op] \in Unary THEN Compared(s[op], <<one>>, op + 1)
  ELSE CompTo(s, op, one, Closing("(", ")", s, op + 2, 1), ht)
CompAt(s, p, op, ht) ==
  IF op > Len(s) THEN Failed ELSE CompWith(s, op, parse_operand(Trim(SubSeq(s, p, op - 1)), ht), ht)
parse_comp(s, p, ht) == CompAt(s, p, FirstOf(s, p, Len(s) + 1, Comparisons), ht)

RECURSIVE where_chain(_, _, _, _), WhereChain(_, _, _, _, _)

\* As in LabelText, with comparisons for labels.
ClosedComp(s, read) ==
  IF read.ok /\ Piece(s, skip_ws(s, read.at)) = ")" THEN [read EXCEPT !.at = skip_ws(s, @) + 1] ELSE Failed
where_factor(s, p, ht) ==
  IF Piece(s, p) = "(" THEN ClosedComp(s, where_chain("OR", s, p + 1, ht)) ELSE parse_comp(s, p, ht)
where_operand(word, s, p, ht) ==
  IF word = "OR" THEN where_chain("AND", s, p, ht) ELSE where_factor(s, skip_ws(s, p), ht)
WhereChain(word, s, args, read, ht) ==
  CASE ~read.ok -> Failed
    [] read.ok /\ Piece(s, skip_ws(s, read.at)) = word ->
         WhereChain(word, s, Append(args, read.e), where_operand(word, s, skip_ws(s, read.at) + 1, ht), ht)
    [] OTHER -> [read EXCEPT !.e = IF args = <<>> THEN @ ELSE [type |-> word, args |-> Append(args, @)]]
where_chain(word, s, p, ht) == WhereChain(word, s, <<>>, where_operand(word, s, p, ht), ht)

\* The constructor.  Without a clause where is the conjunction of nothing.
Together(read, where) ==
  IF ~read.ok \/ ~where.ok THEN Failed
  ELSE [ok |-> TRUE, ht |-> read.ht, vnodes |-> read.vnodes, patterns |-> read.patterns, where |-> where.e]
WithClause(read, clause) ==
  Together(read, IF clause = <<>> THEN [ok |-> TRUE, e |-> [type |-> "AND", args |-> <<>>]]
                 ELSE where_chain("OR", clause, 1, read.ht))
OfParts(text) == WithClause(read_patterns(text.parts), text.clause)
pg_query(s) == OfParts(split(s, 1, <<>>))

-----------------------------------------------------------------------------
\* translate: the names it asks the dictionaries for, and the ids it gets.
RECURSIVE translate_label_expr(_, _)
translate_label_expr(e, dict) ==
  IF e.type \in {"LAB", "NEG"} THEN [e EXCEPT !.label = IdOf(dict, @)]
  ELSE [e EXCEPT !.args = [k \in DOMAIN @ |-> translate_label_expr(@[k], dict)]]

translate_node(n, dicts) ==
  [n EXCEPT !.const = IF @ = <<>> THEN 0 ELSE IdOf(dicts.nodes, @),
            !.expr = translate_label_expr(@, dicts.nlabels)]
translate_edge(e, dicts) == [e EXCEPT !.expr = translate_label_expr(@, dicts.elabels)]

\* mutant: an edge property is looked up in the dictionary of node properties
PropOfNode(arg, vnodes, dicts) == [arg EXCEPT !.property = IdOf(dicts.nprops, @)]

translate_property(arg, vnodes, dicts) ==
  [arg EXCEPT !.property = IdOf(IF arg.var \in vnodes THEN dicts.nprops ELSE dicts.eprops, @)]

RECURSIVE translate_where_expr(_, _, _)
translate_where_expr(e, vnodes, dicts) ==
  IF e.type \in {"AND", "OR"} THEN [e EXCEPT !.args = [k \in DOMAIN @ |-> translate_where_expr(@[k], vnodes, dicts)]]
  ELSE [e EXCEPT !.args = [k \in DOMAIN @ |->
          IF @[k].is_var THEN translate_property(@[k], vnodes, dicts) ELSE @[k]]]

RECURSIVE Comparisons_of(_)
Comparisons_of(e) == IF e.type \in {"AND", "OR"} THEN UNION {Comparisons_of(e.args[k]) : k \in DOMAIN e.args} ELSE {e}
VarArgs(e) == {arg \in UNION {ToSet(c.args) : c \in Comparisons_of(e)} : arg.is_var}

\* Whether it throws: a constant, a label or a property is in no dictionary.
Translatable(q, dicts) ==
  /\ \A t \in ToSet(q.patterns) :
       /\ \A n \in {t.from, t.to} :
            /\ n.const # <<>> => n.const \in ToSet(dicts.nodes)
            /\ LabelsOf(n.expr) \subseteq ToSet(dicts.nlabels)
       /\ LabelsOf(t.edge.expr) \subseteq ToSet(dicts.elabels)
  /\ \A arg \in VarArgs(q.where) :
       arg.property # <<>> => arg.property \in ToSet(IF arg.var \in q.vnodes THEN dicts.nprops ELSE dicts.eprops)

translate(q, dicts) ==
  [q EXCEPT !.patterns = [k \in DOMAIN @ |-> [from |-> translate_node(@[k].from, dicts),
                                             edge |-> translate_edge(@[k].edge, dicts),
                                             to |-> translate_node(@[k].to, dicts)]],
            !.where = translate_where_expr(@, q.vnodes, dicts)]
=============================================================================
