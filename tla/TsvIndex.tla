------------------------------- MODULE TsvIndex -------------------------------
(***************************************************************************)
(* From TSV files to the index.  tsvclean drops what the other of the two  *)
(* files does not use; tsv2lexids (or the older tsv2ids) gives the names   *)
(* their ids and writes the data files, which cypher2ids makes of a Cypher *)
(* file with the same lines; build-index, the constructor of ring_pg,      *)
(* builds the triples, the label lists, the string manager, the properties *)
(* and the dictionaries, each from a file of its own.  Only the order of   *)
(* ids and lines ties one file to another.                                 *)
(*                                                                         *)
(* Names are values in the alphabetical order of Alphabet; they hold no    *)
(* blank.  A property value is a number, or a string: its place in the     *)
(* order of all strings.                                                   *)
(***************************************************************************)
EXTENDS Integers, Sequences, SequencesExt

CONSTANTS
  Corpora,     \* the TSV files: [nodes, edges]
  Alphabet,    \* all names, in alphabetical order
  Tools        \* the programs that assign the ids

IsCorpus(c) ==
  /\ \A n \in ToSet(c.nodes) : {n.name} \union ToSet(n.labels) \subseteq ToSet(Alphabet)
  /\ \A e \in ToSet(c.edges) : {e.from, e.type, e.to} \subseteq ToSet(Alphabet)

ASSUME CorpusAssumption ==
  /\ \A c \in Corpora : IsCorpus(c)
  /\ Tools \subseteq {"tsv2ids", "tsv2lexids", "cypher2ids"}
  /\ \A j, k \in DOMAIN Alphabet : Alphabet[j] = Alphabet[k] => j = k

VARIABLES
  tsv,         \* the node and the edge file
  tool,
  data,        \* the data files: triples, label2nodes, nprops, eprops, dicts
  index,       \* what the constructor has built so far
  made         \* the last step done

tvars == <<tsv, tool, data, index, made>>

Sorted(S) == SelectSeq(Alphabet, LAMBDA x : x \in S)     \* the ids of a PFC dictionary
IdIn(seq, x) == IF x \in ToSet(seq) THEN CHOOSE k \in DOMAIN seq : seq[k] = x ELSE 0

\* get_or_add on one name after the other.
FirstSeen(seq) == FoldLeft(LAMBDA seen, x : IF x \in ToSet(seen) THEN seen ELSE Append(seen, x), <<>>, seq)

NodeNames == [k \in DOMAIN tsv.nodes |-> tsv.nodes[k].name]
NodeLabels == FlattenSeq([k \in DOMAIN tsv.nodes |-> tsv.nodes[k].labels])
Keys(lines) == FlattenSeq([k \in DOMAIN lines |-> [j \in DOMAIN lines[k].props |-> lines[k].props[j].key]])
Types(lines) == [k \in DOMAIN lines |-> lines[k].type]

-----------------------------------------------------------------------------
\* get_invalid_triples looks at the end of an edge, not at its start.
KeepsEdge(e, nodes) == e.to \in nodes

Clean ==
  /\ made = "tsv" /\ tool # "cypher2ids"
  /\ LET edges == SelectSeq(tsv.edges, LAMBDA e : KeepsEdge(e, ToSet(NodeNames)))
         used == UNION {{e.from, e.to} : e \in ToSet(edges)} IN
     tsv' = [nodes |-> SelectSeq(tsv.nodes, LAMBDA n : n.name \in used), edges |-> edges]
  /\ made' = "clean"
  /\ UNCHANGED <<tool, data, index>>

\* The map of a property: to the id of a line its last value.
Values(lines, ids, key) ==
  LET Of(k) == SelectSeq(lines[k].props, LAMBDA p : p.key = key)
      having == {k \in DOMAIN lines : Of(k) # <<>>} IN
  [i \in {ids[k] : k \in having} |->
     Last(Of(CHOOSE k \in having : ids[k] = i /\ \A j \in having : ids[j] = i => j <= k)).value]

\* The line of a label: the ids of its nodes, in the order of the file.
LabelLine(nodes, label) ==
  FlattenSeq([k \in DOMAIN tsv.nodes |->
     LET same == SelectSeq(tsv.nodes[k].labels, LAMBDA l : l = label) IN
     [j \in DOMAIN same |-> IdIn(nodes, tsv.nodes[k].name)]])

Triple(e, nodes, types) == <<IdIn(nodes, e.from), IdIn(types, e.type), IdIn(nodes, e.to)>>

Precedes(j, k) == \E i \in 1 .. 3 : j[i] < k[i] /\ \A h \in 1 .. i - 1 : j[h] = k[h]

\* What the comparator of both programs compares: predicate, object, subject.
FileKey(t) == <<t[2], t[3], t[1]>>

\* The orders std::sort may leave the edges in: equal triples come in any.
Sortings(edges, nodes, types) ==
  {s \in {[k \in DOMAIN edges |-> edges[perm[k]]] : perm \in SetToSeqs(DOMAIN edges)} :
     \A j, k \in DOMAIN s : j < k => 
       ~Precedes(FileKey(Triple(s[k], nodes, types)), FileKey(Triple(s[j], nodes, types)))}

\* Both programs pass over an edge with an unknown end.
KnownEdges(nodes) == SelectSeq(tsv.edges, LAMBDA e : {e.from, e.to} \subseteq ToSet(nodes))

\* A property has a file when its id is at most the largest that a line has.
WithFile(lines, keys) == {p \in DOMAIN keys : \E q \in p .. Len(keys) : keys[q] \in ToSet(Keys(lines))}

Write(nodes, nlabels, nkeys, types, lines, edges, ekeys) ==
  data' = [triples |-> [k \in DOMAIN edges |-> Triple(edges[k], nodes, types)],
           label2nodes |-> lines,
           nprops |-> [p \in DOMAIN nkeys |->
                         Values(tsv.nodes, [k \in DOMAIN tsv.nodes |-> IdIn(nodes, tsv.nodes[k].name)], nkeys[p])],
           eprops |-> [p \in WithFile(edges, ekeys) |-> Values(edges, [k \in DOMAIN edges |-> k], ekeys[p])],
           dicts |-> [nodes |-> nodes, nlabels |-> nlabels, elabels |-> types,
                      nprops |-> nkeys, eprops |-> ekeys]]

\* tsv2ids: ids in the order in which names occur, those of edge keys after the sort.
Tsv2Ids ==
  /\ made = "clean" /\ tool = "tsv2ids"
  /\ LET nodes == FirstSeen(NodeNames)
         nlabels == FirstSeen(NodeLabels)
         known == KnownEdges(nodes)
         types == FirstSeen(Types(known)) IN
     \E edges \in Sortings(known, nodes, types) :
       Write(nodes, nlabels, FirstSeen(Keys(tsv.nodes)), types,
             [l \in DOMAIN nlabels |-> LabelLine(nodes, nlabels[l])],
             edges, FirstSeen(Keys(edges)))
  /\ made' = "ids"
  /\ UNCHANGED <<tsv, tool, index>>

\* tsv2lexids: the alphabetical ids of dictionaries; types and keys are those of all
\* the edges, the ones passed over included.  The line of a label is sorted.
Tsv2LexIds ==
  /\ made = "clean" /\ tool = "tsv2lexids"
  /\ LET nodes == Sorted(ToSet(NodeNames))
         nlabels == Sorted(ToSet(NodeLabels))
         types == Sorted(ToSet(Types(tsv.edges))) IN
     \E edges \in Sortings(KnownEdges(nodes), nodes, types) :
       Write(nodes, nlabels, Sorted(ToSet(Keys(tsv.nodes))), types,
             [l \in DOMAIN nlabels |-> SortSeq(LabelLine(nodes, nlabels[l]), LAMBDA a, b : a < b)],
             edges, Sorted(ToSet(Keys(tsv.edges))))
  /\ made' = "ids"
  /\ UNCHANGED <<tsv, tool, index>>

\* The merges of both files into one: before[k] nodes come before edge k.
Merges == {before \in [DOMAIN tsv.edges -> 0 .. Len(tsv.nodes)] :
             \A j, k \in DOMAIN before : j < k => before[j] <= before[k]}

\* An edge read before one of its ends is passed over; the others stay as they come.
EdgesAfterEnds(before) ==
  LET Seen(k) == {NodeNames[j] : j \in 1 .. before[k]}
      kept == {k \in DOMAIN tsv.edges : {tsv.edges[k].from, tsv.edges[k].to} \subseteq Seen(k)} IN
  [j \in 1 .. Cardinality(kept) |-> tsv.edges[SetToSortSeq(kept, LAMBDA a, b : a < b)[j]]]

\* cypher2ids: ids as with tsv2ids, but nothing is dropped before and nothing is sorted.
Cypher2Ids ==
  /\ made = "tsv" /\ tool = "cypher2ids"
  /\ LET nodes == FirstSeen(NodeNames)
         nlabels == FirstSeen(NodeLabels) IN
     \E before \in Merges : \E edges \in {EdgesAfterEnds(before)} :
       Write(nodes, nlabels, FirstSeen(Keys(tsv.nodes)), FirstSeen(Types(edges)),
             [l \in DOMAIN nlabels |-> LabelLine(nodes, nlabels[l])],
             edges, FirstSeen(Keys(edges)))
  /\ made' = "ids"
  /\ UNCHANGED <<tsv, tool, index>>

-----------------------------------------------------------------------------
\* By subject, predicate and object; then stably by object; then stably by predicate.
\* The positions after the last sort are the edge ids.
AfterTwoSorts(t) == <<t[2], t[1], t[3]>>        \* mutant: the sort by object is left out
AfterSorts(t) == <<t[2], t[3], t[1]>>

Largest(ids) == CHOOSE m \in ids : \A i \in ids : i <= m
LargestStart(triples) == Largest({t[1] : t \in ToSet(triples)})     \* mutant: ends are forgotten

\* The largest node at either end of an edge.
alphabet_SO(triples) == Largest(UNION {{t[1], t[3]} : t \in ToSet(triples)})

\* build_bwts reads the first triple before it looks whether there is one.
BuildBwts ==
  /\ made = "ids" /\ data.triples # <<>>
  /\ index' = [rows |-> SortSeq(data.triples, LAMBDA t, u : Precedes(AfterSorts(t), AfterSorts(u))),
               max_s |-> alphabet_SO(data.triples)]
  /\ made' = "bwts"
  /\ UNCHANGED <<tsv, tool, data>>

\* The lists go by their position; the label that starts a line is not used.
BuildLabelsMap ==
  /\ made = "bwts"
  /\ index' = index @@ [labels |-> [l \in DOMAIN data.label2nodes |->
                                      Append(data.label2nodes[l], index.max_s + 1)]]
  /\ made' = "labels"
  /\ UNCHANGED <<tsv, tool, data>>

\* get_strings leaves a file at its first value that is no string.
StringsOf(values) ==
  {values[i].n : i \in {i \in DOMAIN values : \A j \in DOMAIN values : j <= i => values[j].string}}

NodeStrings == UNION {StringsOf(data.nprops[p]) : p \in DOMAIN data.nprops}   \* mutant: nodes only

strings_in_props == NodeStrings \union UNION {StringsOf(data.eprops[p]) : p \in DOMAIN data.eprops}

CollectStrings ==
  /\ made = "labels"
  /\ index' = index @@ [strings |-> strings_in_props]
  /\ made' = "strings"
  /\ UNCHANGED <<tsv, tool, data>>

\* A number is itself, a string its id in the string manager, 0 if it is not there.
Stored(value) ==
  CASE ~value.string -> value.n
    [] value.string /\ value.n \in index.strings -> Cardinality({s \in index.strings : s <= value.n})
    [] OTHER -> 0

BuildProps ==
  /\ made = "strings"
  /\ LET Grids(files) == [p \in DOMAIN files |-> [i \in DOMAIN files[p] |-> Stored(files[p][i])]] IN
     index' = index @@ [nprops |-> Grids(data.nprops), eprops |-> Grids(data.eprops)]
  /\ made' = "props"
  /\ UNCHANGED <<tsv, tool, data>>

\* build_dict reads the ids of a file and ignores them: its dictionary sorts the names.
build_dict(names) == Sorted(ToSet(names))

BuildDicts ==
  /\ made = "props"
  /\ index' = index @@ [dicts |-> [d \in DOMAIN data.dicts |-> build_dict(data.dicts[d])]]
  /\ made' = "index"
  /\ UNCHANGED <<tsv, tool, data>>

TInit ==
  /\ tsv \in Corpora /\ tool \in Tools
  /\ data = <<>> /\ index = <<>> /\ made = "tsv"

TNext ==
  \/ Clean \/ Tsv2Ids \/ Tsv2LexIds \/ Cypher2Ids
  \/ BuildBwts \/ BuildLabelsMap \/ CollectStrings \/ BuildProps \/ BuildDicts

TSpec == TInit /\ [][TNext]_tvars

-----------------------------------------------------------------------------
\* The ids of the files are those the rebuilt dictionaries give: always so after
\* tsv2lexids, after the others when names first occur in alphabetical order.
IdsAreRanks == \A d \in DOMAIN data.dicts : data.dicts[d] = index.dicts[d]

\* cypher2ids numbers the edges as they come, and needs them in the order of the index,
\* each after its ends.
InIndexOrder == data.triples = index.rows /\ Len(data.triples) = Len(KnownEdges(NodeNames))

Faithful ==
  /\ made = "index"
  /\ tool # "tsv2lexids" => IdsAreRanks
  /\ tool = "cypher2ids" => InIndexOrder

EdgeOfTsv(e) == [from |-> e.from, type |-> e.type, to |-> e.to, keys |-> ToSet(Keys(<<e>>))]
EdgeOfIndex(i) ==
  [from |-> index.dicts.nodes[index.rows[i][1]],
   type |-> index.dicts.elabels[index.rows[i][2]],
   to   |-> index.dicts.nodes[index.rows[i][3]],
   keys |-> {index.dicts.eprops[p] : p \in {p \in DOMAIN index.eprops : i \in DOMAIN index.eprops[p]}}]

\* The index holds the edges of the files that lead from a node to a node, each as
\* often as it is there, under its names and with its own properties: the ids of the
\* triples, the positions of the edges and the rebuilt dictionaries agree, though
\* nothing but the order in which each is sorted makes them.
IndexHoldsEdges ==
  Faithful =>
    LET edges == KnownEdges(NodeNames) IN
    /\ Len(index.rows) = Len(edges)
    /\ \A e \in ToSet(edges) :
         Cardinality({i \in DOMAIN index.rows : EdgeOfIndex(i) = EdgeOfTsv(e)}) =
         Cardinality({k \in DOMAIN edges : EdgeOfTsv(edges[k]) = EdgeOfTsv(e)})

\* Every node is in a triple.  cypher2ids drops no other, and tsvclean keeps those at the
\* end of an edge that starts at a name which is no node: their ids are beyond max_s.
NoneIsolated == ToSet(NodeNames) \subseteq UNION {{e.from, e.to} : e \in ToSet(KnownEdges(NodeNames))}

\* When it is so and every node has one line, the label lists are what the searches of
\* label_nodes need: increasing, below the sentinel, and the nodes of the label; and
\* no property has a value for an id beyond its bit vector.
ListsEndAtSentinel ==
  Faithful /\ NoneIsolated =>
    /\ \A l \in DOMAIN index.labels :
         LET list == index.labels[l] IN
         /\ \A j, k \in DOMAIN list : j < k => list[j] < list[k]
         /\ {index.dicts.nodes[i] : i \in ToSet(Front(list))} =
              {n.name : n \in {n \in ToSet(tsv.nodes) : index.dicts.nlabels[l] \in ToSet(n.labels)}}
    /\ \A p \in DOMAIN index.nprops : DOMAIN index.nprops[p] \subseteq 1 .. index.max_s
    /\ \A p \in DOMAIN index.eprops : DOMAIN index.eprops[p] \subseteq 1 .. Len(index.rows)

AllFiles == {data.nprops[p] : p \in DOMAIN data.nprops} \union {data.eprops[p] : p \in DOMAIN data.eprops}
Unmixed(values) == \A i, j \in DOMAIN values : values[i].string <=> values[j].string

\* Two strings of any properties, of nodes or of edges, compare in the index as they do
\* in the files, as long as no property mixes strings with other values.
StringsCompare ==
  made \in {"strings", "props", "dicts", "index"} /\ (\A f \in AllFiles : Unmixed(f)) =>
    \A f, g \in AllFiles : \A i \in DOMAIN f, j \in DOMAIN g :
      f[i].string /\ g[j].string => (Stored(f[i]) < Stored(g[j]) <=> f[i].n < g[j].n)
=============================================================================
