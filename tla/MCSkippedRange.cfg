\* The same, and the edge of two bound ends is also asked for with a bound.
CONSTANTS
  Graphs <- MCGraphs
  Exprs <- MCAll
  Patterns <- MCPatterns
  Strays = {9}
  EdgeBounds = TRUE
  MaxAsked = 6
SPECIFICATION Spec
INVARIANT LeapIsNext
CHECK_DEADLOCK FALSE
