CONSTANTS
  Corpora <- MCCorpora
  Alphabet <- MCAlphabet
  Tools = {"tsv2ids", "tsv2lexids", "cypher2ids"}
  Literals <- MCLiterals
  Workloads <- MCWorkloads
  Buckets = 2
SPECIFICATION PSpec
INVARIANTS
  IndexHoldsEdges
  ListsEndAtSentinel
  StringsCompare
  ReadsWhatWasWritten
  AcceptedQueriesRun
  AnswersAreOfTheData
  SummaryCountsAnswers
CHECK_DEADLOCK FALSE
