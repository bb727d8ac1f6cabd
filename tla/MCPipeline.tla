------------------------------ MODULE MCPipeline ------------------------------
(***************************************************************************)
(* Many small corpora with one query, and one corpus with many queries.    *)
(***************************************************************************)
EXTENDS Pipeline

Nd(name, labels, props) == [name |-> <<name>>, labels |-> labels, props |-> props]
Ed(from, type, to, props) == [from |-> <<from>>, type |-> <<type>>, to |-> <<to>>, props |-> props]
Num(k, v) == [key |-> <<k>>, value |-> [string |-> FALSE, n |-> v]]
Str(k, v) == [key |-> <<k>>, value |-> [string |-> TRUE, n |-> v]]

MCAlphabet ==
  <<<<"E">>, <<"K">>, <<"L">>, <<"NOT", "E">>, <<"P">>, <<"Q">>, <<"a">>, <<"age">>,
    <<"b">>, <<"c">>, <<"d">>, <<"nick">>, <<"w">>>>

\* Strings are even, so that odd ones occur nowhere.
MCLiterals ==
  [l \in {"1", "2", "3", "'r'", "'s'", "'t'"} |->
     CASE l = "1" -> [string |-> FALSE, n |-> 1] [] l = "2" -> [string |-> FALSE, n |-> 2]
       [] l = "3" -> [string |-> FALSE, n |-> 3] [] l = "'r'" -> [string |-> TRUE, n |-> 2]
       [] l = "'s'" -> [string |-> TRUE, n |-> 4] [] l = "'t'" -> [string |-> TRUE, n |-> 5]]

-----------------------------------------------------------------------------
\* Corpora: every order of three nodes and of two or three edges, among them parallel
\* ones, and ones from and to a name that is no node.
NodeA == Nd("a", <<<<"P">>, <<"Q">>>>, <<Num("age", 1), Str("nick", 4)>>)
NodeB == Nd("b", <<<<"P">>>>, <<Num("age", 2), Str("nick", 2)>>)
NodeC == Nd("c", <<<<"Q">>, <<"NOT", "E">>>>, <<Num("age", 3)>>)
Mixed == Nd("c", <<<<"Q">>>>, <<Num("nick", 7)>>)
Edges ==
  {Ed("a", "K", "b", <<Num("w", 1)>>), Ed("a", "K", "b", <<Str("nick", 6)>>), Ed("b", "L", "a", <<>>),
   Ed("c", "K", "b", <<Num("w", 2)>>), Ed("c", "L", "d", <<>>), Ed("d", "K", "c", <<Num("age", 9)>>)}

OrdersOf(S) == {p \in [1 .. Cardinality(S) -> S] : \A j, k \in 1 .. Cardinality(S) : j # k => p[j] # p[k]}
CorporaOf(nodeSets, edgeLists) ==
  {[nodes |-> nodes, edges |-> edges] : nodes \in UNION {OrdersOf(S) : S \in nodeSets}, edges \in edgeLists}
Pairs(S) == UNION {OrdersOf(Pair) : Pair \in {Pair \in SUBSET S : Cardinality(Pair) = 2}}

TsvCorpora ==
  CorporaOf({{NodeA, NodeB, NodeC}, {NodeA, NodeB, Mixed}},
            Pairs(Edges) \union {p \in OrdersOf(Edges \ {Ed("b", "L", "a", <<>>)}) :
                                   p[1].type = <<"L">> /\ p[2].from = <<"d">>})

\* Without labels out of order; with the third node, one that an edge may leave alone.
CypherCorpora ==
  CorporaOf({{NodeA, NodeB}, {NodeA, NodeB, Nd("c", <<<<"Q">>>>, <<Num("age", 3)>>)}},
            Pairs({Ed("a", "K", "b", <<Num("w", 1)>>), Ed("a", "K", "b", <<Str("nick", 6)>>),
                   Ed("b", "K", "a", <<Num("w", 3)>>), Ed("b", "L", "a", <<>>), Ed("c", "K", "b", <<>>)}))

MainCorpus ==
  [nodes |-> <<NodeC, NodeA, NodeB>>,
   edges |-> <<Ed("c", "K", "b", <<Num("w", 2)>>), Ed("a", "K", "b", <<Num("w", 1)>>), Ed("a", "L", "c", <<>>),
               Ed("a", "K", "b", <<Num("w", 3), Str("nick", 4)>>), Ed("b", "L", "a", <<Num("w", 1)>>)>>]

-----------------------------------------------------------------------------
\* Query text.
V(x) == <<"(", "?", x, ")">>
NL(x, expr) == <<"(", "?", x, ":">> \o expr \o <<")">>
AnyE(e) == <<"-", "[", "?", e, "]", "->">>
EL(e, expr) == <<"-", "[", "?", e, ":">> \o expr \o <<"]", "->">>
Two(s, t) == s \o <<",", " ">> \o t
Where(s, w) == s \o <<" ", "WHERE", " ">> \o w
AndAlso(s, t) == s \o <<" ", "AND", " ">> \o t
Pr(x, p) == <<"?", x, ".", p>>
Cmp(x, op, y) == <<"(">> \o x \o <<" ", op, " ">> \o y \o <<")">>
In(s) == <<"(">> \o s \o <<")">>
Op(a, word, b) == In(a \o <<" ", word, " ">> \o b)
Not(l) == In(<<"NOT", " ">> \o l)

P1 == V("x") \o EL("e", <<"K">>) \o V("y")
P2 == V("y") \o AnyE("f") \o V("z")

Texts ==
  {NL("x", <<"P">>) \o EL("e", <<"K">>) \o V("y"),
   \* expressions
   NL("x", Op(<<"P">>, "AND", <<"Q">>)) \o EL("e", Not(<<"K">>)) \o V("y"),
   Two(V("x") \o EL("e", Op(<<"K">>, "OR", <<"L">>)) \o V("y"),
       NL("y", Op(<<"P">>, "AND", Not(<<"Q">>))) \o AnyE("f") \o V("z")),
   Two(NL("x", Op(<<"P">>, "AND", Not(<<"Q">>))) \o AnyE("e") \o V("y"), P2),
   Two(NL("x", Op(Not(<<"Q">>), "OR", <<"Q">>)) \o AnyE("e") \o V("y"), P2),
   V("x") \o AnyE("e") \o NL("y", Op(<<"P">>, "AND", Op(<<"Q">>, "OR", <<"P">>))),
   NL("x", <<"P", "&", "Q">>) \o AnyE("e") \o V("y"),
   NL("x", <<"Q", "&", " ", "NOT", "E">>) \o AnyE("e") \o V("y"),
   NL("x", <<"NOT", "E">>) \o AnyE("e") \o V("y"),
   \* constants, edges without a name, names with blanks
   <<"(", "a", ")">> \o AnyE("e") \o V("y"),
   <<"(", "a", ":", "P", ")">> \o AnyE("e") \o V("y"),
   V("x") \o <<"-", "[", "?", ":", "L", "]", "->", "(", "a", ")">>,
   V("x") \o <<"-", "[", "?", "]", "->">> \o V("y"),
   Two(<<"(", "?", "x", " ", ":", "P", ")">> \o AnyE("e") \o V("y"), V("y") \o AnyE("f") \o V("x")),
   \* rejected ones
   NL("x", <<"K">>) \o AnyE("e") \o V("y"),
   V("x") \o AnyE("e") \o V("x"),
   V("x") \o AnyE("x") \o V("y"),
   P1 \o P2,
   Where(P1, Cmp(Pr("x", "w"), "=", <<"1">>)),
   Where(P1, Cmp(Pr("v", "age"), "=", <<"1">>)),
   \* comparisons
   Where(P1, Cmp(Pr("x", "age"), "<", <<"2">>)),
   Where(P1, AndAlso(Cmp(Pr("x", "age"), "<=", Pr("y", "age")), Cmp(<<"1">>, "!=", Pr("e", "w")))),
   Where(P1, Cmp(Pr("x", "nick"), ">=", <<"'s'">>)),
   Where(P1, Cmp(Pr("x", "nick"), "<", <<"'t'">>)),
   Where(P1, AndAlso(Cmp(Pr("x", "nick"), "=", <<"'s'">>), Cmp(Pr("y", "nick"), ">", <<"'r'">>))),
   Where(P1, Cmp(Pr("e", "nick"), "=", Pr("x", "nick"))),
   Where(P1, In(Pr("x", "nick") \o <<" ", "IS NULL">>)),
   Where(P1, AndAlso(In(Pr("e", "w") \o <<" ", "IS NOT NULL">>), Cmp(<<"?", "x">>, "!=", <<"?", "y">>))),
   Where(P1, Cmp(<<"?", "x">>, "=", <<"a">>)),
   Where(P1, In(Pr("x", "age") \o <<" ">> \o Pr("y", "age"))),
   Where(P1, In(<<"?", "x", " ", "a">>)),
   Where(P1, In(<<"a", " ", "IS NULL">>)),
   Where(Two(P1, P2), Cmp(Pr("x", "age"), ">", Pr("z", "age")))}

Opts(distinct, limit, repeat, timeout) ==
  [distinct |-> distinct, limit |-> limit, repeat |-> repeat, timeout |-> timeout]

MCWorkloads ==
  {[tsv |-> c, tool |-> t, lines |-> <<P1>>, opts |-> Opts(FALSE, 0, 1, FALSE)] :
     c \in TsvCorpora, t \in {"tsv2ids", "tsv2lexids"}}
  \union {[tsv |-> c, tool |-> "cypher2ids", lines |-> <<P1>>, opts |-> Opts(FALSE, 0, 1, FALSE)] :
            c \in CypherCorpora}
  \union {[tsv |-> MainCorpus, tool |-> "tsv2lexids", lines |-> <<s>>, opts |-> Opts(d, 0, 1, FALSE)] :
            s \in Texts, d \in BOOLEAN}
  \union {[tsv |-> MainCorpus, tool |-> "tsv2lexids", lines |-> <<P1, Two(P1, P2)>>, opts |-> Opts(TRUE, l, 2, t)] :
            l \in {0, 2}, t \in BOOLEAN}
  \union {[tsv |-> MainCorpus, tool |-> "tsv2lexids", opts |-> Opts(TRUE, 0, 2, FALSE),
           lines |-> <<Where(P1, In(Pr("x", "age") \o <<" ">> \o Pr("y", "age"))), P1, P2>>]}

MCCorpora == TsvCorpora \union CypherCorpora \union {MainCorpus}
=============================================================================
