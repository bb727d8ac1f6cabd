# PG-Ring in TLA+

PG-Ring answers graph queries over property graphs (nodes and edges with labels
and properties) on a compressed index, the ring, with a leapfrog triejoin. This
project models the code that decides what a query answers, from the data files and the
text of a query to the summary of its results, checks it with TLC on small instances
and proves the central facts with TLAPS for every size.

One thread runs a query from beginning to end; nothing is shared and nothing is
persisted while it runs. What is hard in this code is not concurrency but
*protocol*: a join, its iterators, the index below them and the elimination order
beside them keep separate states that must move together through a long backtracking
search, with cached selections, cursors, stacks and 1-based arithmetic in between. And
it is *agreement*: each name gets its id twice, by two programs; each query is parsed
twice, by parsers that share no code; only the order of ids and lines ties the files of
an index to each other.

## Parts of the system

| part | code | state | operations | models |
|---|---|---|---|---|
| join | `ltj_algorithm_pg.hpp` | iterators by variable, boundary between pattern and WHERE iterators, C++ stack of search nodes, tuple, results | `seek`, `seek_postfilter`, `seek_prefilter`, `search_v2`, `search_v3`, `base_postfilter`, `base_prefilter`, `join_*` | `Leapfrog`, `LTJ`, `JoinSpec` |
| ring | `ring_pg.hpp`, `bwt.hpp`, `bwt_interval.hpp` | three columns with counts `C`, intervals with a kept selection | `build_bwts`, `down_*`, `min_*`, `next_*`, `map_*` | `Ring` |
| iterators of patterns | `ltj_iterator.hpp`, `ltj_iterator_edge_label.hpp` | level, terms and values bound, intervals, scan position | constructor, `leap`, `down`, `up`, `seek_last`, `seek_last_next` | `TripleIterator`, `IteratorSpec` |
| iterator of label expressions | `ltj_iterator_edge_expr.hpp` | the same with lists of ranges | the same | `EdgeExprIterator`, `IteratorSpec` |
| adaptive elimination order | `veo_adaptive_pg2.hpp` | weights, bound flags, index, stacks of variables and of versions | `next`, `down`, `up`, `done` | `VEO` |
| static elimination order | `veo_simple_pg.hpp` | sorted variables, checked bits, heap, order, index | constructor, `next`, `down`, `up`, `done` | `SimpleOrder` |
| node labels | `label_nodes.hpp`, `ltj_iterator_node_expr.hpp` | a set per label and its runs; the value bound | `next_node`, `next_neg_node`, `leap`, `down`, `up` | `NodeLabels` |
| properties | `property_grid_v2.hpp`, `string_mgr.hpp` | a grid per property, its least and largest value | `next_*`, `get_id` | `PropertyGrid`, `WhereIterators` |
| comparisons | `ltj_algorithm_pg.hpp` (constructor), `ltj_iterator_comp*.hpp` | ranges being collected; fixed values, ids and values of the last leap | `process_where_expression`, `build_*`, `leap`, `down`, `up` | `WhereIterators` |
| transform | `query/transform.hpp`, `src/transform.cpp` | the parsed line, dictionaries of the data files | parse, validate, keep edges apart, write | `LabelText`, `Transform` |
| reader of queries | `query/query_parser.hpp`, `triple_parser.hpp`, `label_expr_parser.hpp`, `where_expr_parser.hpp` | numbers of variables, patterns, WHERE | split, parse, translate to ids | `LabelText`, `PgQuery` |
| query programs | `src/query*.cpp`, `results_collector.hpp` | line, run, ring of results | read, repeat, collect, catch, write the summary | `Pipeline` |
| index construction | `tsv/`, `cypher/`, `src/tsvclean.cpp`, `src/tsv2*ids.cpp`, `ring_pg.hpp` (constructor), `dict/` | tables of names, data files, triples, lists of labels, strings, grids, dictionaries | clean, assign ids, write, build | `TsvIndex` |
| reference checker | `test/query_checker.hpp` | - | the meaning of a query, by nested loops | `PgSemantics` |
| utilities, converters, `libCSD` | `file_util.hpp`, `utils.hpp`, `time.hpp`, `src/lsqb2tsv.cpp`, `src/tsv2*.cpp`, `libCSD/` | - | - | not modelled |

How they interact: `tsvclean` and `tsv2lexids` (or `tsv2ids`, or `cypher2ids` from a Cypher
file) turn the data into files of ids, from which `build-index` makes the index.
`transform` reads the lines of queries, checks their names against the dictionaries of
those files, adds comparisons that keep edges apart, and writes the queries anew. A query
program parses each line into a `pg_query` (triple patterns, label expressions, a WHERE
expression), translates its names to ids, and runs it a number of times: the
constructor of `ltj_algorithm_pg` makes an iterator for each pattern, node
expression and comparison. A search node asks the elimination order for a
variable, sorts the iterators of the variable by interval length and seeks: it
leaps over them until they agree on an id. Then the iterators and the order go
down, the search recurses, all go up, and the next seek starts one id further.
The iterator of a pattern answers a leap from the ring; some searches keep the
symbol and rank they selected inside the interval, and `down` uses what was kept. What the
join reports goes into the ring of results, whose count is a line of the summary.

## Modules

* `LeastId` - the answer convention of all successor searches (least id from a
  bound on, 0 for none). `BasicTheorems` proves it from well-ordering, and what loops
  and recursions over trees, written as recursive functions, have for results.
* `Leapfrog` - the intersection loop. State: the locals of the three seeks (`i`,
  `j`, `c_i`, `c_prev`, `n_ok`), the argument, and `last[k]`, what iterator `k`
  keeps from its last leap. While the loop of one node runs, the prefix of each
  iterator is fixed, so an iterator is a set of ids (`cand[k]`). Actions are the
  first leap, one leap of the round-robin, one leap of a driving or of a checking
  segment, and the caller that takes an id and seeks on. `begWhere` is free, as the
  prefilter moves it.
* `LTJ` - the recursion: frames are the active search calls. One action per part
  of a call: the tests at its entry (`Stop`, `Report`), the choice of a variable,
  a seek that finds (`Descend`: tuple, downs, recursive call), the way back
  (`Ascend`), a seek that finds nothing (`Exhaust`). An iterator is the set of
  partial assignments it accepts, so that a WHERE comparison may accept a value of
  one variable and refuse the pair later. Lonely variables go through the cursor.
* `JoinProofs` - the theorems of `Leapfrog` and `LTJ`.
* `JoinSpec` - what a join promises; `LTJ` implements it (`ImplementsJoin`).
* `Ring` - operators only: columns, blocks, ranks, moves and searches. The wavelet
  matrices come from an external library and are defined by what they answer
  (`Rank`, `SelectWM`, `NextValue`, `NextValueRank`, `NextPosition`). `RingTheorems`
  proves what the columns, moves and searches do on any graph (`IsGraph`: what
  `build_bwts` reads, at least one edge, ids from 1).
* `TripleIterator` - the iterators without label and with one label, on a ring
  built from a set of edges. The environment is the join: it asks for a free term
  with rising bounds, goes down by the last answer and up in reverse order.
* `TripleIteratorProofs` - its theorems.
* `EdgeExprIterator` - the iterator of an expression over edge labels, on the same
  ring: the ranges of labels (merged and intersected as `ranges_util.hpp` does), the
  lists of ranges of positions per level, the searches over several ranges, the scan
  across them. It has the same environment and the same contract. `up` from the third
  level clears a list that does not exist; the memory there holds the lengths, so that
  the length of level 1 becomes that of level 0 (`Cleared`). Lengths only order
  iterators and variables. A search that reads the first of no ranges ends the
  program and is left out (`ReadsFirst`); it needs an expression no label satisfies.
* `EdgeExprIteratorProofs` - its theorems.
* `IteratorSpec` - the contract that `LTJ` and `Leapfrog` rest on, stated over the
  set of matches; `TripleIterator`, `EdgeExprIterator` and `NodeLabels` implement it
  (`AnswersLeastMatch`).
* `VEO` - the adaptive elimination order, driven by a search of any shape; what
  iterators report at a down is any of `Reported`. Weights count in parts of
  `1/Unit`, so that cutting a double to `uint64_t` is `Whole`.
* `SimpleOrder` - the static elimination order. The constructor is modelled loop by loop
  (`Sort`, `TakeNext`, `SkipChecked`, `PopHeap`, `HeapEmpty`, `TakeLonely`), then the search
  takes and gives back its positions (`next`, `done`). `std::sort` may leave equal entries in
  any order; the heap compares weights cut to whole numbers, the sort does not. `Throw` is
  `at(v)` for a variable that no pattern has.
* `OrderProofs` - the theorems of both orders.
* `NodeLabels` - the sets of nodes of the labels, with the long runs the constructor
  notes so that a negation can leave a label without trying every id, and the iterator
  of an expression over labels. The loop of an outermost conjunction goes turn by
  turn (`Turn`, while `busy`), the parts below it are evaluated by `NextNodeRec`, a recursive
  function over the parts of the expression, in which the loop of a conjunction (`Conjunction`) takes at
  most `MostTurns` turns: each turn raises the value or adds a part that agrees.
  `succ` beyond the last node and reads past the end of `m_next_0` answer what the
  library's memory layout gives (`BvSize`; a word of zeros). A disjunction that no part
  answers returns `AllOnes`, as its value of 32 bits never equals the `-1ULL` it is
  compared with; the contract takes it for no answer. Its contract is
  `IteratorSpec` for one variable; it goes down by ids only, as each variable of a
  query is also in a pattern.
* `NodeLabelsProofs` - its theorems.
* `PropertyGrid` - operators only: one property as a function from ids to values, the
  searches by value, and `NextProperty`, which picks the search of a comparison. Values
  are shifted by the least one in unsigned arithmetic, modulo `W`; the grid itself is
  external and answers the least id whose shifted value is in a range.
  `WhereIteratorsProofs` proves what the searches answer.
* `WhereIterators` - the WHERE clause, from the constructor on. `BuildComparison` makes
  the iterator of a clause that is one comparison; `ProcessWhereExpression` takes the
  next comparison of a conjunction, which widens the range collected for its variable
  and property or gets an iterator of its own; `BuildRangeIterators` turns the ranges
  into iterators or finds that no value is in one. Then the join asks (`Leap`) all
  iterators of a free variable, from any bound, goes `Down` by an id that they all
  answered, and `Up`. Strings are places in the order of the dictionary: the k-th one,
  or the gap after it. What a clause means is `Holds`, from the query checker of the
  tests, on ids and values, not on grids.
* `WhereIteratorsProofs` - its theorems and those of `PropertyGrid`.
* `TsvIndex` - from files to the index, one action per program and per part of the
  constructor: `Clean` (tsvclean), `Tsv2Ids`, `Tsv2LexIds` and `Cypher2Ids` (a file of nodes and
  edges merged in any order), then `BuildBwts`, `BuildLabelsMap`, `CollectStrings`, `BuildProps`
  and `BuildDicts`. Sorts of equal triples may leave them in any order. Names have the
  alphabetical order of `Alphabet`; a property value is a number or the place of a string.
* `LabelText` - query text as a sequence of pieces (a mark, a keyword or operator, a literal, a
  run of letters), and the two parsers of label expressions, which differ in where a
  label ends. A name may be several runs, so that one may start with the letters of a keyword.
* `Transform` - transform: reading a line, the checks against the dictionaries
  (`Accepts`), the comparisons that keep edges apart, and the text written. What the code leaves
  uninitialised (`has_property`) is any subset of the operands, `garbage`.
* `PgQuery` - the reader of the query programs: splitting at commas, patterns, expressions, WHERE,
  numbers of variables, `translate`.
* `PgSemantics` - what a query means on a graph, whatever stands for nodes and names: used
  for the files, by names, and for the index, by ids.
* `Pipeline` - the composition: a `TsvIndex` is built; `TransformLine` takes the lines; a query
  program takes what was written, `StartRun`, `Report` and `EndRun` for each repeated run, `FailQuery`
  when something throws, `WriteLine`. The results go into a ring of `Buckets` entries (2^20 in the
  code). The join here is its promise: an answer at a time, up to the limit or the timeout.
* `MC*` modules give the constants of the runs.

`MCVEO` runs both elimination orders, each in its own half of the state.

The composition is by contract: `TripleIterator` shows that a pattern iterator over
the ring answers least matches, `Leapfrog` shows that the seeks over iterators
that do so find the intersection, `LTJ` takes that intersection in one step and
implements `JoinSpec`, and `Pipeline` rests on what `JoinSpec` promises.

## Runs

| run | instance | shows |
|---|---|---|
| `leapfrog` | 1 to 3 iterators over ids 1..3, every candidate set, every boundary, three procedures (45 280 states) | a call returns the least common id and 0 only if none is left; the kept selections are those of the id; the loop visits the intersection and ends |
| `ltj_join` | 514 queries: two patterns over three variables, with a comparison or with two lonely variables whose scans interleave, two parallel patterns, ground patterns; ids 1..2, with and without limit and timeout, every elimination order (48 685 states) | each solution once, iterators follow the path and are back at the root at the end, limit kept, `JoinSpec` implemented |
| `triple_iterators` | every multigraph of two nodes and two labels with up to 3 edges, and three of five edges over three nodes with gaps; all patterns with zero to two constants (a label with both ends constant apart); every order of binding, bounds up to 6 (759 692 states) | emptiness is detected, interval lengths count the matches, `IteratorSpec` implemented |
| `veo` | four queries of three and four variables with lonely nodes and edges for the adaptive order, reports of 0.5, 1 and 2.5 at every down; five of up to five variables for the static one, with these weights (26 040 states) | both orders give each variable once, nodes before edges, lonely ones last; stacks of the adaptive one follow the search and weights return, up to their fraction; the static one stays in a connected part of the query, lightest first |
| `pipeline` | every order of three nodes with two or three edges (parallel ones, unknown ends, a property of numbers and strings), both TSV programs; every merge of Cypher files; on one corpus of five edges 33 lines of query text, with and without distinct edges, and files of two and three lines, repeated, with limit and timeout; a ring of two results (33 200 states) | the index holds the data under the ids of its dictionaries; `pg_query` reads what `transform` wrote and what is accepted runs; the answers are those of the files by names; each line of the summary counts its own answers |
| `edge_expr` | 64 graphs of three edges with three labels, three of five edges with parallel edges and gaps; seven expressions, every end variable or constant, bounds up to 6 (416 969 states) | the ranges are the labels of the expression, emptiness is detected, lengths count the matches, `IteratorSpec` implemented |
| `node_labels` | six nodes, runs of two and more noted; 47 sets for one label, two for the other, fifteen expressions of up to three levels, the parts of one another (52 602 states) | the expression iterator answers the least node it holds of, out of runs and nested negations; its conjunctions end |
| `where` | two indexes of three nodes and four edges, properties with least values 0, 1 and 2, ids without them; about 2 700 clauses: single comparisons of properties, ids, strings and constants -1..4 on both sides, conjunctions of two and three; numbers of four bits (55 539 states) | each iterator answers the least id its comparisons allow under the path, within the limits below; the values it holds are those of the path; a clause is given up only when two bounds exclude each other |
| `label_const` | the graphs above, label and both ends constant | **violation**: see below |
| `skipped_range` | the same, the edge of a bound subject and object also asked for with a bound | **violation**: see below |
| `leave_label` | every set of nodes for one label, its negation | **violation**: see below |
| `below_range` | conjunctions with an upper bound 0..3 on a property | **violation**: see below |

Why these bounds are enough: the seeks distinguish iterators only by position
relative to the boundary, and three iterators with a boundary give segments of
sizes 0 to 3 on either side; three ids give a mismatch, a refusal and a value after it. The
join needs a variable shared by two patterns, one in a comparison, and below a shared one two
lonely ones, of which the inner scan could disturb the outer; a second id is needed for a
subtree after a subtree. An iterator has three levels,
and two labels with parallel edges make blocks of sizes 0 to 3 on both sides of each
boundary in each column; ids with gaps come from the larger graphs. Three
labels give expressions with one, two and no ranges and adjacent ones. Six nodes hold
two noted runs with a short one between or after them. In the clauses, more edges
than nodes tell the limits of ids apart, least values on both sides of 1 make the shift
change sign, constants lie below, on, between and above the values, and strings in and
between them. For
the adaptive order, the boundary between lonely and other variables is crossed with one
and with two variables on each side; for the static one, there are two parts that nothing
connects, cycles, an edge compared with a node and a variable without a pattern. Of files, what
matters is whether lines are in the order of their ids, and three lines in every order, with
names that occur in both files or one, tell the programs' sorts apart. The query texts have one example at
least of each alternative of both parsers and of each check, two ways of nesting AND, OR
and NOT, names with blanks and a label that starts with a keyword. Two buckets overflow with
three answers, two lines and two runs leave results of a run and of a query behind.

`CHECK_DEADLOCK FALSE` in all runs: a join ends, and so do a search node and a program.

Fairness: the search is one thread that runs until it returns, with no input it
waits for; `Leapfrog` and `LTJ` assume weak fairness of their next-state
relation and nothing of a single action; `NodeLabels` assumes that of the loop of a
conjunction only, as the join decides whether to ask again.

### Finding: a label between two constants

`ltj_iterator_edge_label` binds, with both ends constant, the object in *all* edges of
the subject (`ltj_iterator_edge_label.hpp:114`). The run `label_const` finds a
graph with an edge of the label from the subject to another node and an edge of
another label to the object: the iterator says the pattern matches, and would
enumerate the edge of the other label. The reference evaluator of the tests
requires the label on the edge (`test/query_checker.hpp:160`). The passing run
`triple_iterators` leaves these patterns out.

### Finding: the edge of two bound ends, with a label expression

`edge_expr_next_E_in_OS` looks for edge `c` among the ranges of a subject and an object.
When `c` lies before a range and in none, `ring_pg.hpp:1327` starts with the range
*after* that one, so the edges of the first range are missed; the comment at
`ltj_iterator_edge_expr.hpp:467` promises the next value greater or equal. The run
`skipped_range` finds three parallel edges with labels 1, 2, 3 and the expression
`NOT 1`: asked from edge 1 on, the iterator answers 0. It matters when the edge
variable occurs in another pattern or in WHERE; otherwise the join scans it, which the passing
run `edge_expr` shows to be right. The proofs say how far it reaches: `LeapsHold` proves
that no other leap is wrong, and `LeapsMatch` that even this one answers 0 or an edge that
matches, not below the bound. The join may miss results, it does not report a wrong one.

### Finding: leaving a label at the last node

`label_nodes.hpp:179` says that after trying `length` ids the program looks for the
next zero after the run. The constructor notes where a run ends only when it sees a
node after it, so the last run is not noted when the sentinel ends it. If it has at
least `length` nodes, `next_neg_node` reads the entry before the one it wants: the run
`leave_label` finds a set where it answers the end of an *earlier* run, an id below
the bound, and the join would go back. The passing run `node_labels` keeps to labels
whose last run is shorter or ends before the last node (`LeavesTheEnd`), and the proofs
show that nothing else is needed: `LeavesRuns` proves what the run `leave_label` refutes for all such
labels, and `ImplementsContract` that all answers are right.

### Finding: a range below every value

The values of a property are shifted by the least one before the grid is searched
(`property_grid_v2.hpp:172`). A bound of a conjunction that lies further below becomes
the largest of all unsigned numbers, and an upper bound that should leave nothing
leaves everything. The comment at `ltj_iterator_comp_range.hpp:220` promises an id
with a value in the range; the run `below_range` finds an id whose value is above it.

### Limits of the comparisons

`AnswersLeastAllowed` holds of the comparisons that `Within` describes, and of no more:
without any one of its clauses, the run `where` finds a wrong answer. They are:

* a single comparison with a constant below the least value less one: upwards it finds
  none, downwards all (`NextSeWraps` proves the latter);
* `<>` with 0, which stands for a string that does not occur;
* an order comparison with a string that does not occur, whose bound is taken on the
  wrong side of the gap;
* a conjunction that bounds a property of strings, whose constants count as 0, or bounds
  by a number below 1;
* a comparison whose left operand is a constant or a node, asked for an edge beyond the
  number of nodes (`m_elements` is that of the first operand);
* the id of a variable compared with itself by `<>`, `<` or `>`.

### Limits of files and text

Properties of the pipeline have preconditions, each a definition of its own. Without
`Faithful`, `NoneIsolated`, `Unmixed`, `Readable` or `Locates`, the run finds a property
broken; what lies outside is behaviour of the code that no document or test excludes, so
that it is described here and not listed as a finding. (`AnswersAreOfTheData` repeats
`NoneIsolated` and `Unmixed`, as labels and strings enter its queries; the corpora that
violate them get the plainest query only.)

* `IndexHoldsEdges` and `AnswersAreOfTheData` hold when `Faithful`: the ids of the files are
  alphabetical ranks and the edges are in the order of the index. `tsv2lexids` gives both. The ids
  of `tsv2ids` and `cypher2ids` are in order of appearance, which `build_dict` ignores;
  `cypher2ids` also numbers edges as they come, where the index sorts by label, object and
  subject, and knows the ends of an edge only if both come before it.
* `ListsEndAtSentinel`: the list of a label ends at `max_s + 1`, the largest node *of a triple*;
  a node in no triple lies beyond (`NoneIsolated`). `tsvclean` leaves such nodes when the only edge
  to them starts at no node (`tsv_parser.hpp:98`).
* `StringsCompare`: `get_strings` leaves a file at the first value that is no string (`Unmixed`).
* `ReadsGrids`, a guard of `StartRun`: a property that only edges passed over have is in the
  dictionary and has no grid; what a query reads of it is undefined and left out.
* `ReadsWhatWasWritten` and `AcceptedQueriesRun` are about `Readable` queries. Others are accepted and
  read differently, or fail: an edge `[?]`, which is written `[]`; a comparison without an
  operator; a label that starts with `NOT` in a list with `&`; an anonymous node `(?:A)`, which the
  reader takes for a constant; names with blanks; a node's name as a constant of WHERE
  (`transform.hpp:1083`), which the reader takes for 0. A bracket that follows a blank
  inside of a pattern is stepped over by the splitting loop (`query_parser.hpp:72`), and what
  follows a pattern in its piece is ignored (`triple_parser.hpp`).
* `AnswersAreOfTheData` leaves out strings that do not occur and strings in bounds of a
  conjunction (`Locates`; see above for what the index then does).

The other way round, `transform` may refuse what would be right: a quoted constant on the left,
and, as `has_property` is uninitialised (`transform.hpp:372`), a comparison of a variable.

## Proofs

`JoinProofs` proves of the loop of a node, for any number of iterators and ids and from the
assumptions that both are positive (`LoopAssumption`), that `LoopTypeOK`,
`ReturnsLeastCommon`, `KeptIsReturned` and `VisitsIntersection` hold always. The
invariants that the runs check are not inductive: that a call returns a common id
needs to know *which* iterators agreed. `LoopInv` adds, for each place in the
call:

* nothing common lies between the argument and the value at hand (`LeapInv`,
  `DriveInv`): every leap skips only ids its own iterator refuses;
* the last `n_ok` iterators before `i`, round the ring of the segment, kept the
  value `c_prev`; when `n_ok` is the size of the segment, all of them did;
* in the checking loop, the iterators before `j` kept `c_prev` too (`CheckInv`);
* `found` is the part of the intersection below the argument (`FoundInv`).

Each action has a lemma with one step per conjunct, and the leaps rest on
`LeastFromCorrect`, which rests on `NatHasLeast` (the order of the naturals is well founded).
`SeekAnswersLeast` states the result as `LTJ` uses it: what a call returns is `LeastFrom` of the
ids that all iterators accept, the operator by which `LTJ` takes a whole call in one step.

Of the search it proves, for every query (`QueryAssumption`: finitely many variables,
each with an iterator; an iterator is a set of partial assignments closed under restriction) and any number of ids
(`BoundsAssumption`), that `TypeOK`, `IteratorsFollowPath`, `RestoredWhenDone`, `LimitKept` and
`ResultsArePassedSolutions` hold always. The last one is soundness and completeness: at each moment
the results are the solutions of the part of the tree left behind, each once. `IInv` is

* `NodeInv`, `PathInv`: every iterator is bound to exactly the values of the open nodes of
  its variables, and the tuple has these values;
* `AcceptInv`: an iterator accepts what it is bound to. At full depth every variable is
  bound (by counting: as many different open nodes as variables), so that the tuple is a solution;
* `CursorInv`: below a lonely node nothing moves its iterator, so that its cursor
  is still at the node's value when the scan goes on;
* `ResultsArePassedSolutions` and `LimitKept` themselves.

`ImplementsJoinSafely` proves from it that the search implements `JoinSpec` but for its
fairness: initial states are mapped to initial states and each step to a step or a stutter,
so that a solution is reported once, a cut is the limit's or the timeout's, and an end by
itself has all solutions.

`OrderProofs` proves of the adaptive order, for any set of queries (`ProfileAssumption`: what the parser can
produce), any weights and any unit, that `TypeOK`, `StacksFollowSearch`,
`OrderIsLegal` and `WeightsRestored` hold always. `IInv` adds what ties the parts
together:

* `IndexInv`: the stacks have as many entries as the open nodes that are not lonely;
  `Capped` is that boundary, on which `next`, `down`, `up` and `done` must agree;
* `BoundInv`: the first `NodesCount` of `m_bound` are nodes, the rest edges, all
  different, and exactly they are flagged. With the pigeonhole principle an eligible
  variable is left whenever `next` looks for one (`SomeEligible`), so its loop does
  not fall back on variable 0;
* `LonelyInv`: deeper nodes have the lonely variables as `m_lonely` lists them;
* `VersionInv`: a version holds the whole part of the weights at its node's opening,
  and what no version holds has not moved since, up to its fraction. It relates
  consecutive nodes, which is what makes `done` safe: a weight that two versions in
  a row leave alone is that of the outer node too.

Of the static order it proves, for every query and all weights (`StaticConstants`, which the
run `veo` assumes of its constants), `StaticOrderIsLegal` and `StaysConnected`. `StaticIInv` is `QueryInv`,
`SortedInv`, `HeapInv`, `PlacedInv`, `InOrder`, `NearInv`, `GivenInv` and `StaysConnected`. The argument is
that the heap is exactly the frontier, the shared variables not yet placed that are related to a placed
one (`FrontierIsHeap`): what is popped was checked and never pushed again, and while the heap is not
empty nothing is taken from the sorted list. That the lonely variables fill the end of the sorted
list, from where `nolonely_size` says they begin, is counting (`LonelyLast`).

`WhereIteratorsProofs` begins with the searches by value. It proves, for any property that has a least and a largest value
which the width can tell apart (`IsGrid`) and any constant at a distance from the least
value that unsigned arithmetic can hold (`Distant`), that the searches with a lower
bound, with an upper bound and for other values answer the least id from a bound on
whose value is such. `NextSeWraps` proves that with a constant further below, the search
with an upper bound, which should find nothing, answers ids of all values. The argument
is that shifting is injective and monotone between these limits (`ShiftedDistance`,
`ShiftedValue`) and wraps below (`NegativeMod`).

It then proves, for every index and every clause, that `TypeOK`, `HoldsValueOfPath`,
`EmptyWhenNoValue` and `AnswersLeastAllowed` hold always. Two assumptions of `WhereIterators` bound
what a clause is. `WhereAssumption`: properties have a value, and values lie within half the width
(`Small`; the code stores them in 64 bits, and `PropertyIsGrid` derives `IsGrid` from it).
`ComparisonAssumption`: a comparison has a variable, two variables are two properties or two
ids, an id is compared with numbers from 1 on and a string with a property of strings; the section
"Not modelled" says what this leaves out. `AnswersLeastAllowed` has the hypothesis `Within`, the
comparisons with which the index computes; the run `below_range` shows what happens outside it.
The invariant `IInv` says

* of an iterator of its own (`IndividualOK`): it holds the constants and the operands that are
  on the path, as many as it counts, with the values of the path's ids;
* of a range (`RangeItOK`, `RangeOf`, `Collected`): its ends are the greatest lower and the least
  upper bound of the comparisons processed so far for its key (`BoundMeans`), and the iterator made of it
  keeps exactly the values that all of them allow (`RangeMeans`);
* of a query given up (`GivenUp`): the bounds of some key cross;
* of the path (`PathOK`): the variables are different and their ids exist;
* of the last question (`Asking`, `KeepsPairs`): when the answer is the id asked about, the
  pairs that an iterator keeps are those of that id. This is what makes `down`, which
  reads the kept pairs and not the id it is given, right; and `AnswersLeastAllowed` itself.

The loop over two properties of one variable is a recursive function; that it answers the
least id that has both and compares as asked (`BothFromAnswers`) is proved by exhibiting the function
that solves the recursion and taking the least argument where another could differ, since the induction
theorems of the library are out of the provers' reach. The initial state has the lemma `InvStarts`, and each action one
(`BuildComparisonKeepsInv`, `ProcessKeepsInv`, `RangesKeepInv`, `LeapKeepsInv`, `DownKeepsInv`, `UpKeepsInv`).

`RingTheorems` proves, for any graph, that what the constructor builds is a ring
(`BuildIsRing`): an edge's position is its place in the sorted order, each column has the
symbols in that order and the counts locate the blocks, and `backward_step` leads from the
place of an edge in one column to its place in the next. The last is the heart of the index,
the LF mapping (`ColumnsTurn`), and it is counting: the edges that precede one in the next
column are those of smaller symbols, which are what `C` counts, and those of the same symbol
that precede it already, which are what the rank counts (`RankCounts`, `PlacesUpTo`). No
induction over the columns is needed. On top of it:

* an interval is a set of edges that are consecutive in the order of its column (`Spans`); a
  backward step leads from the interval of a set to that of its edges with the symbol
  (`StepSpans`), a kept selection too (`DownKeptSpans`);
* each search answers the least symbol, block or id of the edges of the interval
  (`NextInAnswers`, `SelectInAnswers`, `NextEofSAnswers`, `MinEofOSAnswers`,
  `NextEofOAnswers`). The last one is the delicate one: the bound is an id, a place in one
  order, while the interval lies in another (`PlaceOfId` leads from one to the other).

`TripleIteratorProofs` proves, for any set of graphs and patterns (`GraphAssumption`,
`PatternAssumption`) and any bounds, that `TypeOK`, `EmptyIffNoMatch` and `IntervalHoldsMatches`
hold always, and that the iterators implement `IteratorSpec` (`ImplementsContract`), on the
condition `NoLabelConst`: no pattern has a label and both ends constant, for which
`EmptyIffNoMatch` is false (see the finding `label_const`). `IInv` is, unless the pattern is empty:

* `Bindings`: the levels are the constants of the pattern and then the path of the join;
* `Intervals`: the interval of each level holds exactly the edges that fit what is bound up
  to it, in an order that depends on which terms these are (SPO, OSP or POS). What a level holds is
  kept when deeper levels are bound and left, so that `up` has nothing to restore; levels
  that follow a bound edge have no interval, and none is read there;
* `Kept`: after a leap that answered, what the interval keeps is the block and rank of the
  answer, so that `down` uses the selection of the value it is given, not of an earlier one;
* `Protocol`: an answer is the least value the edges of the level give from the bound on; a scan
  stands at the edge of its last answer (`ScanAt`), also while the join is below it.

`InitInv` has one lemma per constructor (`StartUnlabelled`, `StartLabelled`), and each action one
(`LeapKeeps`, `SeekLastKeeps`, `SeekLastNextKeeps`, `DownKeeps`, `UpKeeps`). The refinement maps
each of them to the action of the same name: the edges of a level are the matches that
agree with the path (`AgreeingIs`). With the theorems on `Leapfrog` and `LTJ` this closes the
argument from the sorted triples to the results of a join of triple patterns, for every size.

`EdgeExprIteratorProofs` does the same for patterns with an expression over labels, for any set
of graphs, expressions and patterns. It assumes that labels are numbered without gaps, as the
dictionary numbers them, and that a bound larger than all ids may be asked (`GraphAssumption`);
and that an expression is a tree over labels of the graph, in which AND and OR have parts
(`ExprAssumption`; that it is a tree is the condition that any set of expressions has one
without a part in the set). `TypeOK`, `RangesAreExpr`, `EmptyIffNoMatch` and `LengthCountsMatches`
are proved with no further condition. What a leap answers is proved twice: `LeapsMatch` of any
question, and `LeapsHold` (the least match) of all but that for the edge of two bound ends with
a bound. The refinement of `IteratorSpec` (`ImplementsContract`) is proved for joins that never ask
this, `EdgeBounds = FALSE`; the run `skipped_range` shows that it needs it. The argument has
three layers:

* ranges of labels: merging, intersecting and turning an expression into ranges are loops and
  a recursion over the tree, written as recursive functions. Each is proved to keep its ranges
  rising, apart and within the labels, and to hold exactly the labels it should (`MergeIs`,
  `BothIs`, `IntersectIs`, `RangesOfIs`, `HoldsInRanges`). That the recursion has a result
  is proved by exhibiting it (`LoopHasResult`, `RangesExist`), and what holds of each step
  holds throughout, as there is no first step, or innermost part, where it fails;
* lists of ranges of positions: a list holds a set of edges (`Lists`) when each of its ranges is
  an interval of the ring that spans its part of the set, in rising order. Lowering a list by a symbol
  (`LoweredLists`) and the searches over a list (`NextInRangesAnswers`, `NextOinPAnswers`,
  `NextEinSPAnswers`, `NextEinOSAnswers`, `NextInList`) rest on the facts of `RingTheorems`
  about one interval, range by range;
* the iterator: `IInv` is, unless the pattern is empty, `ExprRanges` (the ranges of labels are
  the expression's), `Bindings`, `Ranges` (the list of each level holds exactly the edges that
  fit what is bound up to it, in an order that depends on which terms these are), `Lengths`, which
  allows for the one that `up` overwrites, and `Protocol`, with `ScanAt` for the scan over several
  ranges, whose range and position follow the last answer. `MaySkip` names the one
  question whose answer is a match but perhaps not the least.

`NodeLabelsProofs` proves, for any number of nodes, any length of runs, all labels and any set of
expressions that are trees over them (`NodesAssumption`, `ExprAssumption`), that `TypeOK` holds
always, with no further condition, and that the iterator implements `IteratorSpec`
(`ImplementsContract`) if no label ends in a run at the last node (`NoEndRuns`), which the finding
`leave_label` makes necessary. The argument goes from the label outwards:

* a label: `NextNodeIs` and `NextNegNodeIs` say that both searches of `label_nodes` answer the least node
  from a bound on that is in the label, or is not. The second is the one that matters. After
  `RunLength` tries, all in the label, the bound lies in a run that the constructor noted
  (`RunNoted`; this is where the last run is excepted), and the number of runs that begin
  before the place reached is the number of this one, as runs are apart and their beginnings are numbered
  by how many lie below them (`RankOf`, `Next0Is`): so that the zero looked up is the end of this run;
* a conjunction: a turn of its loop leaves the least common node where it was (`TurnRight`), the parts that
  answered the value reached hold of it (`Agreed`, `KnownOf`), and when all agreed it is the answer
  (`AllAgreed`). The number of turns left falls (`LeftFalls`), so that `MostTurns` suffices
  (`LoopRight`, `ConjunctionRight`);
* an expression: the recursions of the answers and of the meanings have each one result
  (`AnswersExist`, `NextNodeRecIs`, `MeaningsExist`, `MeaningIs`), and an expression answers right
  when its parts do (`ExprRight`), hence all do, as there is no innermost wrong one (`AskRight`);
* the iterator: `IInv` says of the last answer that it is right, and of a conjunction in the middle of its
  loop what `TurnRight` keeps (`MidCall`).

Only model-checked: liveness (`Terminates`, `ConjunctionEnds`, the fairness of `JoinSpec`), which
the prover does not reach; and the index and the pipeline, whose parsers and evaluators
are recursive definitions: what one computes for every text cannot be proved with these provers.

## Hazards

`PROJECT.json` lists the places of the code that tests hardly reach, with the
property that covers each. Three have none: a length read from an interval that was not
set, which only orders iterators, and orders are free in the models; a read from an empty list
of ranges, which ends the program; and tables of 50 variables, beyond which the writes are
undefined.

## Not modelled

* The wavelet matrices, bit vectors and dictionaries (external libraries) are
  modelled by their answers. Serialization, copying and swapping are left out.
* Disjunctions in WHERE, which `transform` never writes, comparisons of two constants, of a
  property with an id and of an id with a string, where the code reads a property or a value
  that the comparison does not have; constant ids below 1. Dates and decimals, which are numbers once parsed.
* Patterns whose subject and object are one variable: the iterators assume distinct
  variables, and `AcceptedQueriesRun` says that `transform` refuses such patterns.
* Queries of 50 variables or more, whose numbers are 8 bits and whose flags have 50 entries; an empty
  file of edges, of which `build_bwts` reads the first (`ring_pg.hpp:127`).
* The clock: a query either may time out at any test or never.
* The order of iterators by interval length: `Leapfrog` and `LTJ` hold for any order.
* Counts and selectivities, which only weigh variables: `VEO` and `SimpleOrder` take any weights.
* The texts of Cypher and MQL that `transform` writes for other systems, the text of a CREATE
  statement, `cypher_create_parser` (first version) and `tsv_lex_parser`, which no program includes, the
  prompt of `interactive-query` with its collector, and `query-filter`.
* Utilities, conversion tools (one pass over a text, no state that a property could be about)
  and the vendored `libCSD`. The last two are the largest part of the repository's lines, so
  that most of it has no model: the modules cover what the programs of this repository
  add to their libraries.

## Plan

1. Done: the join, the ring with its iterators, both elimination orders, label expressions,
   node labels, properties, the clauses of WHERE, the text of queries, the building of the index,
   the query programs and their composition.
2. Proved: the seeks, the search and its refinement of `JoinSpec`, both orders, the
   searches by value, the ring, the iterators of patterns without label, with one and with an
   expression and of node labels, and their refinement of `IteratorSpec`, the comparisons of WHERE
   with the ranges collected from them.
3. Left to prove: the building of the index; the ring of results.
