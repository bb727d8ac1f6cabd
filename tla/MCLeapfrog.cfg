\* Every choice of up to 3 iterators over the ids 1..3, for the three procedures.
CONSTANTS
  MaxItrs = 3
  MaxValue = 3
SPECIFICATION LoopSpec
INVARIANTS
  LoopTypeOK
  ReturnsLeastCommon
  KeptIsReturned
  VisitsIntersection
PROPERTY Terminates
CHECK_DEADLOCK FALSE
