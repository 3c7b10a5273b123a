SPECIFICATION Spec
CONSTANTS
  num_of_pakets = 4
  Values = {1, 2}
  Slack = 16
  Sizes = {4}
  Queue = queue
  Caller = caller
  NULL = NULL
CHECK_DEADLOCK FALSE
INVARIANT SortsEverything
