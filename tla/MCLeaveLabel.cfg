\* Every set of nodes for a label, the last run as long as can be.
CONSTANTS
  MaxS = 6
  RunLength = 2
  LabelSets <- AnyLabelSets
  Exprs <- Negation
  AllOnes = 9
  Strays = {0}
SPECIFICATION Spec
INVARIANT LeavesForward
CHECK_DEADLOCK FALSE
