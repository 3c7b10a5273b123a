SPECIFICATION Spec
CONSTANTS
  p = 2
  Jobs = {j1}
  Items = {i1}
  NULL = NULL
  NoItem = NoItem
  Main = main
  MaxSchedules = 1
  MaxSignals = 0
  InFlight = 1
  Spurious = FALSE
  DeleteJobs = FALSE
CHECK_DEADLOCK FALSE
INVARIANT CallsAJob
