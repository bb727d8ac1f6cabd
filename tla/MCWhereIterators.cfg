\* Numbers of four bits: 0 to 15.
CONSTANTS
  W = 16
  MaxS = 3
  NTriples = 4
  NodeVars = {"x", "y"}
  EdgeVars = {"e"}
  Indexes <- MCIndexes
  Wheres <- MCWheres
SPECIFICATION Spec
INVARIANTS
  TypeOK
  AnswersLeastAllowed
  HoldsValueOfPath
  EmptyWhenNoValue
CHECK_DEADLOCK FALSE
