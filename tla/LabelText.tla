------------------------------ MODULE LabelText ------------------------------
(***************************************************************************)
(* Query text, and the label expressions in it, which transform and        *)
(* pg_query each parse with a parser of its own (transform.hpp,            *)
(* label_expr_parser.hpp); the two differ in where a label ends.           *)
(*                                                                         *)
(* A text is a sequence of pieces: a blank, a punctuation mark, a          *)
(* comparison operator, a literal, or a run of letters and digits.  A name *)
(* is one or more runs next to each other, so that a name may start with   *)
(* or hold the letters of a keyword.  Literals maps the pieces that are    *)
(* constants to their values; a quoted string is one piece and holds no    *)
(* parenthesis.                                                            *)
(***************************************************************************)
EXTENDS Integers, Sequences, SequencesExt

CONSTANT Literals

Binary == {">=", "<=", "!=", "=", ">", "<"}
Unary == {"IS NULL", "IS NOT NULL"}
Comparisons == Binary \union Unary
Marks == {" ", "(", ")", "[", "]", ",", "?", ":", "-", "->", "&", "."} \union Comparisons

Piece(s, p) == IF p \in DOMAIN s THEN s[p] ELSE "end of text"

\* The first position from p on, below end, whose piece is one of stops; else end.
FirstOf(s, p, end, stops) ==
  CHOOSE q \in p .. IF p < end THEN end ELSE p :
    /\ \A k \in p .. q - 1 : s[k] \notin stops
    /\ q < end => s[q] \in stops

Run(s, p) ==             \* the end of the name at p: isalnum(c) || c == '_'
  IF p > Len(s) THEN p
  ELSE CHOOSE q \in p .. Len(s) + 1 :
         (\A k \in p .. q - 1 : s[k] \notin Marks) /\ (q <= Len(s) => s[q] \in Marks)

skip_ws(s, p) ==
  IF p > Len(s) THEN p
  ELSE CHOOSE q \in p .. Len(s) + 1 :
         (\A k \in p .. q - 1 : s[k] = " ") /\ (q <= Len(s) => s[q] # " ")

\* The first position from p on where as many brackets have closed as opened, 0 if
\* there is none; opened counts those before p.
Closing(open, close, s, p, opened) ==
  LET Count(mark, q) == Cardinality({k \in p .. q : s[k] = mark})
      closing == {q \in p .. Len(s) : opened + Count(open, q) = Count(close, q)} IN
  IF closing = {} THEN 0 ELSE CHOOSE q \in closing : \A r \in closing : q <= r

find_close(open, close, p, s) == IF Piece(s, p) = open THEN Closing(open, close, s, p, 0) ELSE 0

Join(texts, between) ==
  FlattenSeq([k \in DOMAIN texts |-> IF k = 1 THEN texts[1] ELSE between \o texts[k]])

-----------------------------------------------------------------------------
Expr(type, label, args) == [type |-> type, label |-> label, args |-> args]
NoExpr == Expr("EMPTY", <<>>, <<>>)
Lab(name) == Expr("LAB", name, <<>>)

\* A parser reads s from position p; its result says whether it could, what it read
\* and the position after it.  end is where transform's labels end at the latest; it
\* is 0 in label_expr_parser, whose labels are runs of letters and must not be empty.
LabelEnd(s, p, end) == IF end = 0 THEN Run(s, p) ELSE FirstOf(s, p, end, {" ", ")"})
LabelTo(s, p, q, end, type) ==
  [ok |-> end # 0 \/ q > p, e |-> Expr(type, SubSeq(s, p, q - 1), <<>>), at |-> q]
LabelAt(s, p, end, type) == LabelTo(s, p, LabelEnd(s, p, end), end, type)
parse_label(s, p, end, type) == LabelAt(s, skip_ws(s, p), end, type)

Closed(s, read) ==
  [read EXCEPT !.ok = @ /\ Piece(s, skip_ws(s, read.at)) = ")", !.at = skip_ws(s, @) + 1]

RECURSIVE parse_chain(_, _, _, _), Chain(_, _, _, _, _)

FactorAt(s, p, end) ==
  CASE Piece(s, p) = "(" -> Closed(s, parse_chain("OR", s, p + 1, end))
    [] Piece(s, p) = "NOT" -> parse_label(s, p + 1, end, "NEG")
    [] OTHER -> parse_label(s, p, end, "LAB")
parse_factor(s, p, end) == FactorAt(s, skip_ws(s, p), end)

\* The operands of OR are conjunctions, those of AND factors.
OperandOf(word, s, p, end) ==
  IF word = "OR" THEN parse_chain("AND", s, p, end) ELSE parse_factor(s, p, end)

\* After the operands args and another one, read: the word and one more, or the end.
\* One operand stands for itself.
Chain(word, s, args, read, end) ==
  IF read.ok /\ Piece(s, skip_ws(s, read.at)) = word
  THEN Chain(word, s, Append(args, read.e), OperandOf(word, s, skip_ws(s, read.at) + 1, end), end)
  ELSE [read EXCEPT !.at = skip_ws(s, @),
                    !.e = IF args = <<>> THEN @ ELSE Expr(word, <<>>, Append(args, @))]

\* parse_or and parse_and.
parse_chain(word, s, p, end) == Chain(word, s, <<>>, OperandOf(word, s, p, end), end)

parse_expr(s, p, end) == parse_chain("OR", s, p, end)

RECURSIVE NegOutside(_)      \* mutant: a negation is written without its parentheses
NegOutside(e) ==
  CASE e.type = "LAB" -> e.label
    [] e.type = "NEG" -> <<"NOT", " ">> \o e.label
    [] OTHER -> Join([k \in DOMAIN e.args |-> NegOutside(e.args[k])], <<" ", e.type, " ">>)

RECURSIVE str_expr(_)
str_expr(e) ==
  CASE e.type = "LAB" -> e.label
    [] e.type = "NEG" -> <<"(", "NOT", " ">> \o e.label \o <<")">>
    [] OTHER -> <<"(">> \o Join([k \in DOMAIN e.args |-> str_expr(e.args[k])], <<" ", e.type, " ">>) \o <<")">>

RECURSIVE LabelsOf(_)
LabelsOf(e) ==
  IF e.type \in {"LAB", "NEG"} THEN {e.label} ELSE UNION {LabelsOf(e.args[k]) : k \in DOMAIN e.args}
=============================================================================
