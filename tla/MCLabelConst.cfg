\* Patterns with a label and both ends constant.
CONSTANTS
  Graphs <- MCGraphs
  Patterns <- LabelConstPatterns
  MaxEdges = 3
  MaxAsked = 6
SPECIFICATION Spec
INVARIANT EmptyIffNoMatch
CHECK_DEADLOCK FALSE
