--------------------------- MODULE WhereIterators ---------------------------
(***************************************************************************)
(* The WHERE clause in the join: the iterators that the constructor of     *)
(* ltj_algorithm_pg makes of a comparison or of a conjunction of           *)
(* comparisons, and what the join asks of them.                            *)
(*                                                                         *)
(* The comparisons of a conjunction that bound one property of a variable, *)
(* or its ids, from one side become a single range (ltj_iterator_comp_range*)
(* and ltj_iterator_comp_id_range).  Every other comparison has an         *)
(* iterator of its own: ltj_iterator_comp for properties, which keeps the  *)
(* values of the operands that are bound, and ltj_iterator_comp_id for ids.*)
(***************************************************************************)
EXTENDS PropertyGrid, SequencesExt

CONSTANTS
  MaxS, NTriples,   \* nodes are 1 .. MaxS, edges 1 .. NTriples
  NodeVars, EdgeVars,
  Indexes,          \* the properties explored: grids of nodes and of edges
  Wheres            \* the clauses explored: [type |-> "WAND", args |-> ...] or a comparison

\* Signed numbers of the width, less the last two of each side.
Small(v) == v \in Int /\ 4 - W <= 2 * v /\ 2 * v <= W - 4

IsProperty(g, maxId) ==
  DOMAIN g # {} /\ DOMAIN g \subseteq 1 .. maxId /\ \A n \in DOMAIN g : Small(g[n])

ASSUME WhereAssumption ==
  /\ W > 1 /\ MaxS \in Nat \ {0} /\ NTriples \in Nat \ {0}
  /\ NodeVars \cap EdgeVars = {} /\ {"const", "none"} \cap (NodeVars \union EdgeVars) = {}
  /\ \A ix \in Indexes :
       /\ \A p \in DOMAIN ix.node : IsProperty(ix.node[p], MaxS)
       /\ \A p \in DOMAIN ix.edge : IsProperty(ix.edge[p], NTriples)

VARIABLES
  index,      \* m_node_properties, m_edge_properties
  where,      \* m_ptr_query->where
  args,       \* the comparisons left to process
  ranges,     \* the ranges collected, by variable and property
  iters,      \* the iterators of the clause, in m_iterators
  isEmpty,    \* m_is_empty
  pc,         \* build: in the constructor; join: searching
  path,       \* the variables that the join bound, and their values
  ret         \* the last question, and what each iterator answered

vars == <<index, where, args, ranges, iters, isEmpty, pc, path, ret>>

-----------------------------------------------------------------------------
(***************************************************************************)
(* Comparisons.  An operand is a property of a variable (p # 0), the id of *)
(* a variable (p = 0), a number or a string (x = "const").  A string is    *)
(* known by its place: k, or between k and k + 1 when it is nowhere.       *)
(***************************************************************************)
IsVar(o) == o.x # "const"
Opposite == [EQ |-> "EQ", NEQ |-> "NEQ", GT |-> "ST", GE |-> "SE", ST |-> "GT", SE |-> "GE",
             ISNULL |-> "ISNULL", ISNOTNULL |-> "ISNOTNULL"]

IsEdge(x) == x \in EdgeVars
MaxId(x) == IF IsEdge(x) THEN NTriples ELSE MaxS
GridIn(ix, o) == IF IsEdge(o.x) THEN ix.edge[o.p] ELSE ix.node[o.p]
Grid(o) == GridIn(index, o)

HasProperty(e) == \E k \in 1 .. 2 : IsVar(e.o[k]) /\ e.o[k].p # 0

\* The operator, read from the variable's side.
OpOf(e, k) == IF k = 1 THEN e.type ELSE Opposite[e.type]

(***************************************************************************)
(* The comparisons explored have a variable.  Two operands that are        *)
(* variables are two properties or two ids, an id is compared with numbers *)
(* from 1 on, and a string with properties that hold strings, whose ids    *)
(* are such numbers, too.                                                  *)
(***************************************************************************)
IsOperand(o, ix) ==
  \/ o.x = "const" /\ o.at \in {"num", "in", "gap"} /\ Small(o.k)
  \/ o.x \in NodeVars /\ o.at = "var" /\ o.p \in {0} \union DOMAIN ix.node
  \/ o.x \in EdgeVars /\ o.at = "var" /\ o.p \in {0} \union DOMAIN ix.edge

\* What an operand a may be compared with.
MayMeet(a, b, ix) ==
  IF IsVar(b) THEN a.p = 0 <=> b.p = 0
  ELSE IF a.p = 0 THEN b.at = "num" /\ b.k > 0
  ELSE b.at # "num" => \A n \in DOMAIN GridIn(ix, a) : GridIn(ix, a)[n] > 0

IsComparison(e, ix) ==
  /\ e.type \in DOMAIN Opposite /\ \E k \in 1 .. 2 : IsVar(e.o[k])
  /\ \A k \in 1 .. 2 : /\ IsOperand(e.o[k], ix)
                       /\ IsVar(e.o[k]) => MayMeet(e.o[k], e.o[3 - k], ix)
  /\ e.type \in {"ISNULL", "ISNOTNULL"} =>
       IsVar(e.o[1]) /\ e.o[1].p # 0 /\ ~IsVar(e.o[2]) /\ e.o[2].at = "num"

ASSUME ComparisonAssumption ==
  \A ix \in Indexes, w \in Wheres :
    IF w.type # "WAND" THEN IsComparison(w, ix)
    ELSE w.args \in Seq(ToSet(w.args)) /\ \A e \in ToSet(w.args) : IsComparison(e, ix)

\* string_mgr::get_id
GetId(o, op) ==
  CASE op \in {"EQ", "NEQ"} -> IF o.at = "gap" THEN 0 ELSE o.k
    [] op \in {"GE", "ST"}  -> IF o.at = "gap" THEN o.k + 1 ELSE o.k
    [] op \in {"GT", "SE"}  -> o.k

-----------------------------------------------------------------------------
(***************************************************************************)
(* Building                                                                *)
(***************************************************************************)
IsRange(e) ==
  e.type \in {"GT", "GE", "ST", "SE"} /\ Cardinality({k \in 1 .. 2 : IsVar(e.o[k])}) = 1

Operand(e) == IF IsVar(e.o[1]) THEN 1 ELSE 2
KeyOf(e) == [x |-> e.o[Operand(e)].x, p |-> e.o[Operand(e)].p]

\* values of a constant, an unsigned number here: strings have none.
ValueOf(o) == (IF o.at = "num" THEN o.k ELSE 0) % W

NoRange == [lo |-> 1, hi |-> W - 1, hasLo |-> FALSE, hasHi |-> FALSE]
Replaced(r, v) == [r EXCEPT !.lo = v, !.hasLo = TRUE]   \* mutant: the last bound wins
Raised(r, v) == [r EXCEPT !.lo = IF r.hasLo /\ @ > v THEN @ ELSE v, !.hasLo = TRUE]
Lowered(r, v) == [r EXCEPT !.hi = IF r.hasHi /\ @ < v THEN @ ELSE v, !.hasHi = TRUE]

AddToRange(r, e) ==
  LET op == OpOf(e, Operand(e))
      v == ValueOf(e.o[3 - Operand(e)])
  IN  CASE op = "GT" -> Raised(r, (v + 1) % W)
        [] op = "GE" -> Raised(r, v)
        [] op = "ST" -> Lowered(r, (v - 1) % W)
        [] op = "SE" -> Lowered(r, v)

ValidAbove(r) == ~r.hasLo \/ ~r.hasHi \/ r.lo < r.hi   \* mutant: one value is no range
IsValid(r) == ~r.hasLo \/ ~r.hasHi \/ r.lo <= r.hi

\* The constructors of ltj_iterator_comp and ltj_iterator_comp_id
FixedByConst(e, k) ==
  IF IsVar(e.o[k]) \/ ~IsVar(e.o[3 - k]) THEN 0
  ELSE IF ~HasProperty(e) THEN e.o[k].k % W
  ELSE IF e.o[k].at = "num" THEN e.o[k].k
  ELSE GetId(e.o[k], OpOf(e, k))

Individual(e) ==
  [kind |-> IF HasProperty(e) THEN "comp" ELSE "compId",
   e |-> e,
   fixed |-> <<FixedByConst(e, 1), FixedByConst(e, 2)>>,
   idval |-> <<None, None>>,
   state |-> <<~IsVar(e.o[1]), ~IsVar(e.o[2])>>,
   nfixed |-> Cardinality({k \in 1 .. 2 : ~IsVar(e.o[k])}),
   \* m_elements, from var0_edge
   elements |-> MaxId(e.o[1].x)]

\* The constructors of ltj_iterator_comp_range and ltj_iterator_comp_id_range
RangeIterator(key, r) ==
  [kind |-> IF key.p = 0 THEN "idRange" ELSE "range",
   key |-> key,
   lo |-> IF r.hasLo THEN r.lo ELSE IF key.p = 0 THEN 1 ELSE MinVal(Grid(key)),
   hi |-> IF r.hasHi THEN r.hi ELSE IF key.p = 0 THEN MaxId(key.x) ELSE MaxVal(Grid(key)),
   elements |-> MaxId(key.x)]

VarsOf(it) == IF it.kind \in {"comp", "compId"} THEN {it.e.o[1].x, it.e.o[2].x} \ {"const"}
              ELSE {it.key.x}

\* Where the WHERE is one comparison, it has an iterator of its own.
BuildComparison ==
  /\ pc = "build" /\ where.type # "WAND"
  /\ iters' = <<Individual(where)>> /\ pc' = "join"
  /\ UNCHANGED <<index, where, args, ranges, isEmpty, path, ret>>

\* process_where_expression
ProcessWhereExpression ==
  /\ pc = "build" /\ where.type = "WAND" /\ args # <<>>
  /\ LET e == Head(args)
         key == KeyOf(e)
         old == IF key \in DOMAIN ranges THEN ranges[key] ELSE NoRange
     IN  IF IsRange(e)
         THEN /\ ranges' = [q \in DOMAIN ranges \union {key} |->
                              IF q = key THEN AddToRange(old, e) ELSE ranges[q]]
              /\ UNCHANGED iters
         ELSE iters' = Append(iters, Individual(e)) /\ UNCHANGED ranges
  /\ args' = Tail(args)
  /\ UNCHANGED <<index, where, isEmpty, pc, path, ret>>

\* build_range_iterators
BuildRangeIterators ==
  /\ pc = "build" /\ where.type = "WAND" /\ args = <<>>
  /\ LET valid == {key \in DOMAIN ranges : IsValid(ranges[key])} IN
     /\ iters' = iters \o SetToSeq({RangeIterator(key, ranges[key]) : key \in valid})
     /\ isEmpty' = (valid # DOMAIN ranges)
  /\ ranges' = <<>> /\ pc' = "join"
  /\ UNCHANGED <<index, where, args, path, ret>>

-----------------------------------------------------------------------------
(***************************************************************************)
(* leap, down and up of the four iterators                                 *)
(***************************************************************************)
Compare(op, a, b) ==
  CASE op = "EQ" -> a = b
    [] op = "NEQ" -> a # b
    [] op = "ST" -> a < b
    [] op = "GT" -> a > b
    [] op = "SE" -> a <= b
    [] op = "GE" -> a >= b

SameVar(it) == IsVar(it.e.o[1]) /\ it.e.o[1].x = it.e.o[2].x

\* The operand that is asked for.
Side(it, x) == IF it.e.o[1].x = x THEN 1 ELSE 2

\* Two properties of one variable: the ids that have both are tried in turn.  When the ids
\* end, the code keeps what it read last; the next leap writes it again before it is used.
BothFrom(e, from) ==
  LET g == Grid(e.o[1])
      h == Grid(e.o[2])
      both[n \in 1 .. MaxId(e.o[1].x) + 1] ==
        LET a == NextExists(g, n)
            b == NextExists(h, a.id)
        IN  IF a.id = 0 \/ b.id = 0 THEN <<None, None>>
            ELSE IF a.id # b.id THEN both[b.id]
            ELSE IF Compare(e.type, a.val, b.val) THEN <<a, b>>
            ELSE both[b.id + 1]
  IN  both[from]

\* ltj_iterator_comp::leap: the pairs of ids and values it keeps
Sought(it, x, n) ==
  LET k == Side(it, x)
      o == it.e.o[k]
      found == IF it.nfixed = 0 THEN NextExists(Grid(o), n)
               ELSE NextProperty(Grid(o), MaxId(x), n, it.fixed[3 - k], OpOf(it.e, k))
  IN  IF n > it.elements THEN it.idval
      ELSE IF SameVar(it) THEN BothFrom(it.e, n)
      ELSE [it.idval EXCEPT ![k] = found]

\* ltj_iterator_comp_id::next
NextId(n, fv, op) ==
  CASE op = "EQ"  -> IF n <= fv THEN fv ELSE 0
    [] op = "NEQ" -> IF n = fv THEN fv + 1 ELSE n
    [] op = "ST"  -> IF n < fv THEN n ELSE 0
    [] op = "GT"  -> IF n > fv THEN n ELSE fv + 1
    [] op = "SE"  -> IF n <= fv THEN n ELSE 0
    [] op = "GE"  -> IF n >= fv THEN n ELSE fv

AfterLeap(it, x, n) ==
  IF it.kind = "comp" THEN [it EXCEPT !.idval = Sought(it, x, n)] ELSE it

Answer(it, x, n) ==
  CASE it.kind = "comp" -> IF n > it.elements THEN 0 ELSE Sought(it, x, n)[Side(it, x)].id
    [] it.kind = "compId" ->
         IF n > it.elements THEN 0
         ELSE IF it.nfixed = 0 THEN n
         ELSE NextId(n, it.fixed[3 - Side(it, x)], OpOf(it.e, Side(it, x)))
    [] it.kind = "range" ->
         IF n > it.elements THEN 0 ELSE NextInRange(Grid(it.key), n, it.lo, it.hi).id
    [] it.kind = "idRange" -> IF n < it.lo THEN it.lo ELSE IF n > it.hi THEN 0 ELSE n

FirstSide(it, x) == {Side(it, x)}      \* mutant: comp, too, goes down by one operand

\* comp goes down by every operand of the variable, comp_id by the first only; the ranges
\* keep nothing that they read again.
Sides(it, x) ==
  LET of == {k \in 1 .. 2 : it.e.o[k].x = x}
  IN  IF it.kind = "compId" /\ 1 \in of THEN {1} ELSE of

AfterDown(it, x, n) ==
  IF it.kind \in {"range", "idRange"} THEN it
  ELSE [it EXCEPT
         !.state = [k \in 1 .. 2 |-> @[k] \/ k \in Sides(it, x)],
         !.fixed = [k \in 1 .. 2 |-> IF k \notin Sides(it, x) THEN @[k]
                                     ELSE IF it.kind = "comp" THEN it.idval[k].val ELSE n],
         !.nfixed = @ + Cardinality(Sides(it, x))]

ForgetsOne(it, x) ==     \* mutant: of two operands of the variable only one is counted
  IF it.kind \in {"range", "idRange"} THEN it
  ELSE LET left == {k \in 1 .. 2 : it.e.o[k].x = x /\ it.state[k]}
       IN  [it EXCEPT
              !.state = [k \in 1 .. 2 |-> @[k] /\ k \notin left],
              !.fixed = [k \in 1 .. 2 |-> IF k \in left THEN 0 ELSE @[k]],
              !.idval = [k \in 1 .. 2 |-> IF k \in left THEN None ELSE @[k]],
              !.nfixed = @ - 1]

AfterUp(it, x) ==
  IF it.kind \in {"range", "idRange"} THEN it
  ELSE LET left == {k \in 1 .. 2 : it.e.o[k].x = x /\ it.state[k]}
       IN  [it EXCEPT
              !.state = [k \in 1 .. 2 |-> @[k] /\ k \notin left],
              !.fixed = [k \in 1 .. 2 |-> IF k \in left THEN 0 ELSE @[k]],
              !.idval = [k \in 1 .. 2 |-> IF k \in left THEN None ELSE @[k]],
              !.nfixed = @ - Cardinality(left)]

-----------------------------------------------------------------------------
(***************************************************************************)
(* The join: it asks the iterators of a variable from a value on, and goes *)
(* down by a value when each of them answered it.                          *)
(***************************************************************************)
NoQuestion == [x |-> "none", n |-> 0, ans |-> <<>>]
Asked(x) == {k \in DOMAIN iters : x \in VarsOf(iters[k])}
Variables == UNION {VarsOf(it) : it \in ToSet(iters)}
OnPath(x) == \E d \in DOMAIN path : path[d].x = x

Leap(x, n) ==
  /\ pc = "join" /\ ~isEmpty /\ x \in Variables /\ ~OnPath(x)
  /\ ret' = [x |-> x, n |-> n, ans |-> [k \in Asked(x) |-> Answer(iters[k], x, n)]]
  /\ iters' = [k \in DOMAIN iters |->
                 IF k \in Asked(x) THEN AfterLeap(iters[k], x, n) ELSE iters[k]]
  /\ UNCHANGED <<index, where, args, ranges, isEmpty, pc, path>>

Down ==
  /\ ret.x # "none" /\ ret.n <= MaxId(ret.x)
  /\ \A k \in DOMAIN ret.ans : ret.ans[k] = ret.n
  /\ path' = Append(path, [x |-> ret.x, n |-> ret.n])
  /\ iters' = [k \in DOMAIN iters |->
                 IF k \in DOMAIN ret.ans THEN AfterDown(iters[k], ret.x, ret.n) ELSE iters[k]]
  /\ ret' = NoQuestion
  /\ UNCHANGED <<index, where, args, ranges, isEmpty, pc>>

Up ==
  /\ path # <<>>
  /\ LET x == path[Len(path)].x IN
     iters' = [k \in DOMAIN iters |->
                 IF k \in Asked(x) THEN AfterUp(iters[k], x) ELSE iters[k]]
  /\ path' = SubSeq(path, 1, Len(path) - 1)
  /\ ret' = NoQuestion
  /\ UNCHANGED <<index, where, args, ranges, isEmpty, pc>>

-----------------------------------------------------------------------------
Init ==
  /\ index \in Indexes /\ where \in Wheres
  /\ args = IF where.type = "WAND" THEN where.args ELSE <<>>
  /\ ranges = <<>> /\ iters = <<>> /\ isEmpty = FALSE
  /\ pc = "build" /\ path = <<>> /\ ret = NoQuestion

\* Bounds of the join: ids and the one after the last.
Next ==
  \/ BuildComparison \/ ProcessWhereExpression \/ BuildRangeIterators
  \/ \E x \in NodeVars \union EdgeVars : \E n \in 1 .. MaxId(x) + 1 : Leap(x, n)
  \/ Down \/ Up

Spec == Init /\ [][Next]_vars

-----------------------------------------------------------------------------
(***************************************************************************)
(* What a comparison means: check_expr_cmp of the query checker.           *)
(***************************************************************************)
Comparisons == IF where.type = "WAND" THEN ToSet(where.args) ELSE {where}
VarsIn(e) == {e.o[k].x : k \in 1 .. 2} \ {"const"}

PathId(x) == path[CHOOSE d \in DOMAIN path : path[d].x = x].n

Bound == {path[d].x : d \in DOMAIN path}
\* The ids that the path gives to the variables, and n for x.
Assigned(x, n) ==
  [y \in Bound \union {x} |->
     IF y = x THEN n ELSE PathId(y)]

HasOperand(o, b) == ~IsVar(o) \/ o.p = 0 \/ b[o.x] \in DOMAIN Grid(o)

\* Doubled, so that a string between the k-th and the next has a place.
Doubled(o, b) ==
  IF ~IsVar(o) THEN IF o.at = "gap" THEN 2 * o.k + 1 ELSE 2 * o.k
  ELSE IF o.p = 0 THEN 2 * b[o.x] ELSE 2 * Grid(o)[b[o.x]]

Holds(e, b) ==
  CASE e.type = "ISNULL"    -> ~HasOperand(e.o[1], b)
    [] e.type = "ISNOTNULL" -> HasOperand(e.o[1], b)
    [] OTHER -> /\ HasOperand(e.o[1], b) /\ HasOperand(e.o[2], b)
                /\ Compare(e.type, Doubled(e.o[1], b), Doubled(e.o[2], b))

\* n may be the id of x: the comparison holds, or its other variable is still free.
Allows(e, x, n) ==
  LET b == Assigned(x, n) IN
  IF VarsIn(e) \subseteq DOMAIN b THEN Holds(e, b)
  ELSE \A k \in 1 .. 2 : e.o[k].x = x => HasOperand(e.o[k], b)

\* The comparisons that an iterator stands for.
Meaning(it) ==
  IF it.kind \in {"comp", "compId"} THEN {it.e}
  ELSE {e \in Comparisons : IsRange(e) /\ KeyOf(e) = it.key}

RightAnswer(it, x, n) ==
  LeastFrom({m \in 1 .. MaxId(x) : \A e \in Meaning(it) : Allows(e, x, m)}, n)

\* A number above every id is no id to the iterators of triples.
InRange(x, n) == IF n > MaxId(x) THEN 0 ELSE n

(***************************************************************************)
(* The comparisons that the index computes with: a number or a string that *)
(* is somewhere, on the right when it is compared with an edge; no number  *)
(* so low that its distance to the values is negative; and not 0 to differ *)
(* from.                                                                   *)
(***************************************************************************)
Reaches(g, v, op) ==
  CASE op = "GT" -> v + 1 >= MinVal(g) - 1
    [] op = "GE" -> v >= MinVal(g) - 1
    [] op = "ST" -> v - 1 >= MinVal(g) - 1
    [] op = "SE" -> v >= MinVal(g) - 1
    [] OTHER -> TRUE

Within(it, x) ==
  CASE it.kind = "comp" ->
         LET k == Side(it, x)
             o == it.e.o[3 - k]
         IN  /\ it.elements = MaxId(x)
             /\ it.nfixed > 0 /\ ~SameVar(it) =>
                  /\ it.e.type = "NEQ" => it.fixed[3 - k] # 0 \/ o.at = "gap"
                  /\ ~IsVar(o) /\ o.at = "gap" => it.e.type \in {"EQ", "NEQ"}
                  /\ Reaches(Grid(it.e.o[k]), it.fixed[3 - k], OpOf(it.e, k))
    [] it.kind = "compId" ->
         it.elements = MaxId(x) /\ (SameVar(it) => it.e.type \notin {"NEQ", "ST", "GT"})
    [] it.kind = "range" ->
         \A e \in Meaning(it) :
           LET o == e.o[3 - Operand(e)] IN
           o.at = "num" /\ o.k > 0 /\ Reaches(Grid(it.key), o.k, OpOf(e, Operand(e)))
    [] it.kind = "idRange" -> TRUE

-----------------------------------------------------------------------------
\* Ranges and iterators have the kinds and fields that the constructor gives them; an
\* iterator counts the operands that it holds fixed.
TypeOK ==
  /\ pc \in {"build", "join"} /\ isEmpty \in BOOLEAN
  /\ \A key \in DOMAIN ranges : ranges[key].lo \in 0 .. W - 1 /\ ranges[key].hi \in 0 .. W - 1
  /\ \A it \in ToSet(iters) :
       /\ it.kind \in {"comp", "compId", "range", "idRange"}
       /\ it.kind = "comp" => it.nfixed = Cardinality({k \in 1 .. 2 : it.state[k]})
  /\ \A d \in DOMAIN path : path[d].n \in 1 .. MaxId(path[d].x)

\* A leap answers the least id from its bound on that the comparisons of the iterator allow,
\* given the values the join went down by, whatever was asked and undone before.
AnswersLeastAllowed ==
  \A k \in DOMAIN ret.ans :
    Within(iters[k], ret.x) =>
      InRange(ret.x, ret.ans[k]) = RightAnswer(iters[k], ret.x, ret.n)

\* The same of every comparison that a query may contain.
AnswersAllAllowed ==
  \A k \in DOMAIN ret.ans :
    InRange(ret.x, ret.ans[k]) = RightAnswer(iters[k], ret.x, ret.n)

\* The value that an iterator of properties holds for an operand is that of the id on the
\* path, not of an id that it answered before or for another node of the search.
HoldsValueOfPath ==
  \A it \in ToSet(iters) : it.kind = "comp" =>
    \A k \in 1 .. 2 :
      LET o == it.e.o[k] IN
      IsVar(o) =>
        /\ it.state[k] <=> OnPath(o.x)
        /\ it.state[k] /\ it.e.type # "ISNULL" /\ it.e.type # "ISNOTNULL" =>
             HasOperand(o, Assigned(o.x, PathId(o.x))) /\ it.fixed[k] = Grid(o)[PathId(o.x)]

\* The constructor gives up a query only for two bounds that no value keeps.
EmptyWhenNoValue ==
  isEmpty /\ (\A e \in Comparisons : IsRange(e) => e.o[3 - Operand(e)].at = "num"
                                                   /\ e.o[3 - Operand(e)].k > 0)
  => \E key \in {KeyOf(e) : e \in {f \in Comparisons : IsRange(f)}} :
       \A v \in 0 .. W - 1 : \E e \in {f \in Comparisons : IsRange(f) /\ KeyOf(f) = key} :
          ~Compare(OpOf(e, Operand(e)), v, e.o[3 - Operand(e)].k)
=============================================================================
