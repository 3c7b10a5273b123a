SPECIFICATION FairSpec
CONSTANTS
  num_of_pakets = 4
  Values = {1, 2}
  Slack = 0
  Sizes = {0, 3, 5, 7}
  Queue = queue
  Caller = caller
  NULL = NULL
CHECK_DEADLOCK FALSE
INVARIANT TypeOK
INVARIANT ReadsAreReady
INVARIANT NoConflict
INVARIANT RowsSplit
INVARIANT ReductionShrinks
INVARIANT OverrunIsATie
INVARIANT SortsUnlessOverrun
PROPERTY SortReturns
