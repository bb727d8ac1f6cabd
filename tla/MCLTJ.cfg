\* Two patterns and a comparison over three variables, ids 1..2.
CONSTANTS
  vx = vx
  vy = vy
  vz = vz
  p1 = p1
  p2 = p2
  w = w
  MaxId = 2
  Vars <- MCVars
  Itrs <- MCItrs
  Queries <- MCQueries
SPECIFICATION Spec
INVARIANTS
  TypeOK
  IteratorsFollowPath
  RestoredWhenDone
  LimitKept
  ResultsArePassedSolutions
PROPERTY ImplementsJoin
CHECK_DEADLOCK FALSE
