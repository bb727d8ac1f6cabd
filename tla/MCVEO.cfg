\* Four queries for the adaptive order, whose iterators report one half, 1 or 2.5 at
\* every value; five for the static one, with the same weights.
CONSTANTS
  Profiles <- MCProfiles
  Reported <- MCReported
  Unit = 2
  StaticQueries <- MCQueries
  StaticWeights <- MCReported
  Part = 2
SPECIFICATION MCSpec
INVARIANTS
  TypeOK
  OrderIsLegal
  StacksFollowSearch
  WeightsRestored
  StaysConnected
  StaticOrderIsLegal
CHECK_DEADLOCK FALSE
