------------------------------- MODULE Pipeline -------------------------------
(***************************************************************************)
(* From files to results: the index is built (TsvIndex), transform checks  *)
(* the lines of a query file and writes them anew (Transform), and a query *)
(* program reads each (PgQuery), runs it a number of times and writes a    *)
(* line for it.  The programs differ in the join they call; all promise    *)
(* what JoinSpec says, each answer of the index once, up to a limit, or    *)
(* fewer when the time is up.                                              *)
(*                                                                         *)
(* What is to be compared is the first end and the last: the results are   *)
(* to be the answers of the query on the TSV files (PgSemantics), though   *)
(* on the way each name was given an id twice and each query parsed twice. *)
(***************************************************************************)
EXTENDS TsvIndex

CONSTANTS
  Literals,    \* see LabelText
  Workloads,   \* [tsv, tool, lines, distinct, limit, repeat, timeout]
  Buckets      \* the size of the results collector, 2^20 in the code

VARIABLES
  lines,       \* the lines of the query file that transform has not read
  opts,        \* the arguments of both programs
  out,         \* what transform wrote: the parsed query and its text
  n,           \* the line the query program is at
  runs,        \* how often it ran it
  phase,       \* "start" of a run, in the "join", or about to "write" the line
  answers,     \* what the index answers
  given,       \* what the join reported
  res,         \* the results collector: m_cnt and m_results
  summary      \* the line for each query: the number of results

pvars == <<tsv, tool, data, index, made, lines, opts, out, n, runs, phase, answers, given, res, summary>>

T == INSTANCE Transform
P == INSTANCE PgQuery
G == INSTANCE PgSemantics

-----------------------------------------------------------------------------
\* The dictionaries of the data files, which transform reads.
Names == [d \in DOMAIN data.dicts |-> ToSet(data.dicts[d])]

\* What is uninitialised may read as anything.
Written(q) == [query |-> q, text |-> T!to_string(q)]
TransformLine ==
  /\ made = "index" /\ lines # <<>>
  /\ \E garbage \in SUBSET {0, 1} : \E q \in {T!parse_query(Head(lines), garbage)} :
       out' = out \o (IF q.ok /\ T!Accepts(q, Names)
                      THEN <<Written(IF opts.distinct THEN T!KeepEdgesApart(q) ELSE q)>> ELSE <<>>)
  /\ lines' = Tail(lines)
  /\ UNCHANGED <<tvars, opts, n, runs, phase, answers, given, res, summary>>

-----------------------------------------------------------------------------
\* The graph that the index holds.
IndexGraph ==
  LET ids == 1 .. index.max_s
      edges == DOMAIN index.rows IN
  [edges |-> edges,
   src |-> [e \in edges |-> index.rows[e][1]],
   lab |-> [e \in edges |-> index.rows[e][2]],
   dst |-> [e \in edges |-> index.rows[e][3]],
   nlabels |-> [i \in ids |-> {l \in DOMAIN index.labels : i \in ToSet(index.labels[l])}],
   nprops |-> index.nprops, eprops |-> index.eprops]

\* string_mgr::get_id; the operator of a constant on the right is turned round.
GetId(s, op) ==
  LET upTo == Cardinality({t \in index.strings : t <= s})
      there == s \in index.strings IN
  CASE op \in {"=", "!="} -> IF there THEN upTo ELSE 0
    [] op \in {">=", "<"} -> IF there THEN upTo ELSE upTo + 1
    [] op \in {">", "<="} -> upTo

Opposite(op) ==
  CASE op = ">" -> "<" [] op = "<" -> ">" [] op = ">=" -> "<=" [] op = "<=" -> ">=" [] OTHER -> op

\* The comparisons of a conjunction become bounds, which count every string as 0.
BoundsString(c, where) ==
  where.type = "AND" /\ c.type \in {">", "<", ">=", "<="} /\ \E a \in DOMAIN c.args : c.args[a].is_var

Located(c, a, where) ==
  LET lit == c.args[a].literal IN
  IF ~lit.string THEN lit
  ELSE [lit EXCEPT !.n = IF BoundsString(c, where) THEN 0 ELSE GetId(@, IF a = 1 THEN c.type ELSE Opposite(c.type))]

\* A parsed query in the form of PgSemantics: Var names a variable, Lit a constant, and
\* none stands where there is no name.
FormOfTerm(t, Var(_), none) ==
  [var |-> {Var(v) : v \in {t.var} \ {0}}, const |-> {t.const} \ {none}, expr |-> t.expr]
FormOfArg(c, a, where, Var(_), Lit(_, _, _), none) ==
  IF c.args[a].is_var
  THEN [var |-> {Var(c.args[a].var)}, property |-> {c.args[a].property} \ {none}]
  ELSE [var |-> {}, property |-> {}, literal |-> Lit(c, a, where)]
Clauses(where) == IF where.type = "AND" THEN where.args ELSE <<where>>
FormOfClause(c, where, Var(_), Lit(_, _, _), none) ==
  [comp |-> c.type, args |-> [a \in DOMAIN c.args |-> FormOfArg(c, a, where, Var, Lit, none)]]
Form(q, Var(_), Lit(_, _, _), none) ==
  [patterns |-> [k \in DOMAIN q.patterns |->
                   [part \in {"from", "edge", "to"} |->
                      FormOfTerm(q.patterns[k][part], Var, IF part = "edge" THEN <<>> ELSE none)]],
   where |-> [k \in DOMAIN Clauses(q.where) |-> FormOfClause(Clauses(q.where)[k], q.where, Var, Lit, none)]]

InIds(q) == Form(P!translate(q, index.dicts), LAMBDA v : v, Located, 0)
InNames(q) == Form(q, LAMBDA v : q.ht[v], LAMBDA c, a, where : c.args[a].literal, <<>>)

\* The query of the current line.  It comes to the join unless something throws: a
\* parser, a name in no dictionary, or a variable that only WHERE has, which the
\* elimination order does not know.
Parsed == P!pg_query(out[n].text)
Runs(q) ==
  /\ q.ok
  /\ P!Translatable(q, index.dicts)
  /\ \A arg \in P!VarArgs(q.where) : arg.var # 0

\* A property that only edges passed over have has an id and no grid; what the program
\* reads beyond the last grid is not defined and left out.
ReadsGrids(q) ==
  \A c \in ToSet(q.where) : \A arg \in ToSet(c.args) : \A p \in arg.property :
    p \in IF arg.var \subseteq G!NodeVars(q) THEN DOMAIN index.nprops ELSE DOMAIN index.eprops

Kept(r) == r                       \* mutant: a run adds to the results of the one before
clear(r) == [r EXCEPT !.cnt = 0]

add(r, x) == [cnt |-> r.cnt + 1, slots |-> [r.slots EXCEPT ![r.cnt % Buckets] = x]]

\* One of the repeated runs: clear, parse, translate, make the join.
StartRun ==
  /\ made = "index" /\ lines = <<>> /\ phase = "start" /\ n <= Len(out)
  /\ \E parsed \in {Parsed} :
       /\ Runs(parsed)
       /\ \E q \in {InIds(parsed)} : ReadsGrids(q) /\ answers' = G!Answers(IndexGraph, q)
  /\ res' = clear(res) /\ given' = {} /\ phase' = "join"
  /\ UNCHANGED <<tvars, lines, opts, out, n, runs, summary>>

\* The exception is caught and the line says that there are no results.
FailQuery ==
  /\ made = "index" /\ lines = <<>> /\ phase = "start" /\ n <= Len(out)
  /\ ~Runs(Parsed)
  /\ res' = clear(res) /\ answers' = {} /\ given' = {}
  /\ summary' = Append(summary, 0)
  /\ n' = n + 1 /\ runs' = 0
  /\ UNCHANGED <<tvars, lines, opts, out, phase>>

AtLimit == opts.limit > 0 /\ res.cnt = opts.limit

Report ==
  /\ phase = "join" /\ ~AtLimit
  /\ \E x \in answers \ given :
       /\ given' = given \union {x}
       /\ res' = add(res, x)
  /\ UNCHANGED <<tvars, lines, opts, out, n, runs, phase, answers, summary>>

\* The search is over, at its limit or out of time.
EndRun ==
  /\ phase = "join"
  /\ given = answers \/ AtLimit \/ opts.timeout
  /\ runs' = runs + 1
  /\ phase' = IF runs' = opts.repeat THEN "write" ELSE "start"
  /\ UNCHANGED <<tvars, lines, opts, out, n, answers, given, res, summary>>

WriteLine ==
  /\ phase = "write"
  /\ summary' = Append(summary, res.cnt)
  /\ n' = n + 1 /\ runs' = 0 /\ phase' = "start"
  /\ UNCHANGED <<tvars, lines, opts, out, answers, given, res>>

PInit ==
  /\ \E w \in Workloads : tsv = w.tsv /\ tool = w.tool /\ lines = w.lines /\ opts = w.opts
  /\ TInit
  /\ out = <<>> /\ n = 1 /\ runs = 0 /\ phase = "start"
  /\ answers = {} /\ given = {} /\ summary = <<>>
  /\ res = [cnt |-> 0, slots |-> [b \in 0 .. Buckets - 1 |-> <<>>]]

Build ==
  /\ TNext
  /\ UNCHANGED <<lines, opts, out, n, runs, phase, answers, given, res, summary>>

PNext == Build \/ TransformLine \/ StartRun \/ FailQuery \/ Report \/ EndRun \/ WriteLine

PSpec == PInit /\ [][PNext]_pvars
-----------------------------------------------------------------------------
\* What the parsed line means; an edge or a literal has no other reading.
MeantTerm(t) ==
  [var |-> IF t.is_variable THEN {t.value} \ {<<>>} ELSE {},
   const |-> IF t.is_variable THEN {} ELSE {t.value}, expr |-> t.expr]
MeantArg(x) ==
  IF x.is_var THEN [var |-> {x.value}, property |-> IF x.has_property THEN {x.property} ELSE {}]
  ELSE [var |-> {}, property |-> {}, literal |-> Literals[x.value[1]]]
Meant(q) ==
  [patterns |-> [k \in DOMAIN q.patterns |-> [part \in {"from", "edge", "to"} |-> MeantTerm(q.patterns[k][part])]],
   where |-> [k \in DOMAIN q.where |->
                [comp |-> q.where[k].comp,
                 args |-> [a \in DOMAIN q.where[k].args |-> MeantArg(q.where[k].args[a])]]]]

Word(name) == name # <<>> /\ ToSet(name) \intersect (T!Marks \union {"WHERE"}) = {}
ReadableTerm(t) ==
  /\ Word(t.value) \/ (t.value = <<>> /\ t.expr.type # "EMPTY")
  /\ \A l \in T!LabelsOf(t.expr) : Word(l) /\ l[1] # "NOT"

\* What the writer and the two readers agree on: names are words, which transform takes
\* with anything up to a bracket, and no label starts with NOT; a node has a name and an
\* edge a name or a label; constants of WHERE are literals, as the other reader takes
\* the name of a node for 0; and but for the last pattern no bracket follows a blank,
\* which ScanEnd would miss.
Readable(q) ==
  /\ \A k \in DOMAIN q.patterns :
       LET t == q.patterns[k] IN
       /\ \A part \in DOMAIN t : ReadableTerm(t[part])
       /\ t.from.value # <<>> /\ t.to.value # <<>>
       /\ k < Len(q.patterns) =>
            \A text \in {T!str_pattern(t)} : \A j \in 2 .. Len(text) : ~(text[j] = "(" /\ text[j - 1] = " ")
  /\ \A c \in ToSet(q.where) :
       /\ c.comp \in T!Comparisons
       /\ \A x \in ToSet(c.args) :
            IF x.is_var THEN Word(x.value) /\ (x.has_property => Word(x.property))
            ELSE Len(x.value) = 1 /\ x.value[1] \in DOMAIN Literals

\* Whether the last line written is to be looked at.
JustWritten == made = "index" /\ out # <<>> /\ n = 1 /\ runs = 0 /\ phase = "start"

\* Of a readable query pg_query reads what transform read: the same patterns with the
\* same expressions, and the same comparisons, though one text is free in its blanks
\* and parentheses and the other is not, and the two parsers share no code.
ReadsWhatWasWritten ==
  JustWritten /\ Readable(Last(out).query) =>
    \A q \in {P!pg_query(Last(out).text)} : q.ok /\ InNames(q) = Meant(Last(out).query)

\* A readable query that transform accepts does not fail later: its names are in the
\* dictionaries of the index, each property in that of the kind of its variable, WHERE
\* has no variable of its own, and no pattern leads from a variable to itself.
AcceptedQueriesRun ==
  JustWritten /\ Readable(Last(out).query) =>
    \A q \in {P!pg_query(Last(out).text)} :
      /\ Runs(q)
      /\ \A t \in ToSet(q.patterns) : t.from.var = 0 \/ t.from.var # t.to.var

-----------------------------------------------------------------------------
\* The graph of the TSV files.
NodesNamed(name) == {k \in DOMAIN tsv.nodes : tsv.nodes[k].name = name}
TsvGraph ==
  LET known == KnownEdges(NodeNames)
      edges == DOMAIN known
      Numbers(f) == [x \in DOMAIN f |-> f[x].n] IN
  [edges |-> edges,
   src |-> [e \in edges |-> known[e].from],
   lab |-> [e \in edges |-> known[e].type],
   dst |-> [e \in edges |-> known[e].to],
   nlabels |-> [x \in ToSet(NodeNames) |-> UNION {ToSet(tsv.nodes[k].labels) : k \in NodesNamed(x)}],
   nprops |-> [key \in ToSet(Keys(tsv.nodes)) |-> Numbers(Values(tsv.nodes, NodeNames, key))],
   eprops |-> [key \in ToSet(Keys(known)) |-> Numbers(Values(known, [k \in edges |-> k], key))]]

\* An answer by names; parallel edges may share theirs.
ByNames(b, q) ==
  [v \in {q.ht[x] : x \in DOMAIN b} |->
     IF IdIn(q.ht, v) \in q.vnodes THEN index.dicts.nodes[b[IdIn(q.ht, v)]]
     ELSE EdgeOfIndex(b[IdIn(q.ht, v)])]
ByFile(b, q) ==
  [v \in DOMAIN b |-> IF v \in G!NodeVars(q) THEN b[v] ELSE EdgeOfTsv(KnownEdges(NodeNames)[b[v]])]

\* Strings are found in the index, and bounded by no conjunction.
Locates(q) ==
  \A c \in ToSet(Clauses(q.where)) : \A x \in ToSet(c.args) :
    ~x.is_var /\ x.literal.string => x.literal.n \in index.strings /\ ~BoundsString(c, q.where)

\* What the index answers is what the TSV files answer: as many, and by the same
\* names.  The ids, the two parsers, the splitting, the dictionaries, the lists of
\* labels, the strings and the grids have to agree for it.
AnswersAreOfTheData ==
  (phase = "join" /\ runs = 0 /\ given = {} /\ Faithful /\ NoneIsolated
     /\ (\A f \in AllFiles : Unmixed(f)) /\ Readable(out[n].query)) =>
    \A q \in {Parsed} : Locates(q) =>
      \A meant \in {Meant(out[n].query)} : \A inFiles \in {G!Answers(TsvGraph, meant)} :
        /\ Cardinality(inFiles) = Cardinality(answers)
        /\ {ByFile(b, meant) : b \in inFiles} = {ByNames(b, q) : b \in answers}

\* Each query that transform wrote gets one line, in its order, which counts its
\* answers up to the limit: all of them, unless a run may stop early, whatever
\* earlier runs and queries left in the collector.  What a run holds in the collector,
\* the last results when they are too many, are different answers of its own.
SummaryCountsAnswers ==
  /\ Len(summary) = n - 1
  /\ n > 1 /\ runs = 0 /\ phase = "start" =>
       LET all == Cardinality(answers)
           expected == IF opts.limit > 0 /\ opts.limit < all THEN opts.limit ELSE all IN
       IF opts.timeout THEN Last(summary) <= expected ELSE Last(summary) = expected
  /\ phase \in {"join", "write"} =>
       LET held == 0 .. (IF res.cnt < Buckets THEN res.cnt ELSE Buckets) - 1 IN
       \A a \in held : /\ res.slots[a] \in given
                       /\ \A b \in held : res.slots[a] = res.slots[b] => a = b
=============================================================================
