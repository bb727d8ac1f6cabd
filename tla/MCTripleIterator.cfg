\* Graphs of up to 2 edges over two nodes, and three of five edges over three nodes.
CONSTANTS
  Graphs <- MCGraphs
  Patterns <- MCPatterns
  MaxEdges = 3
  MaxAsked = 6
SPECIFICATION Spec
INVARIANTS
  TypeOK
  EmptyIffNoMatch
  IntervalHoldsMatches
PROPERTY AnswersLeastMatch
CHECK_DEADLOCK FALSE
