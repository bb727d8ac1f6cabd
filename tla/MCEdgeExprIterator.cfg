\* Three to five edges with three labels, every end variable or constant; the edge of two
\* bound ends is scanned.
CONSTANTS
  Graphs <- MCGraphs
  Exprs <- MCAll
  Patterns <- MCPatterns
  Strays = {9}
  EdgeBounds = FALSE
  MaxAsked = 6
SPECIFICATION Spec
INVARIANTS
  TypeOK
  RangesAreExpr
  EmptyIffNoMatch
  LengthCountsMatches
PROPERTY AnswersLeastMatch
CHECK_DEADLOCK FALSE
