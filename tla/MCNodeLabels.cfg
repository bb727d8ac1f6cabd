\* Six nodes, runs of two and more noted.
CONSTANTS
  MaxS = 6
  RunLength = 2
  LabelSets <- MCLabelSets
  Exprs <- MCExprs
  AllOnes = 9
  Strays = {0}
SPECIFICATION Spec
INVARIANT TypeOK
PROPERTIES
  AnswersLeastMatch
  ConjunctionEnds
CHECK_DEADLOCK FALSE
