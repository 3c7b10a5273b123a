SPECIFICATION FairSpec
CONSTANTS
  p = 2
  Jobs = {j1}
  Items = {i1}
  NULL = NULL
  NoItem = NoItem
  Main = main
  MaxSchedules = 1
  MaxSignals = 1
  InFlight = 1
  Spurious = FALSE
  DeleteJobs = FALSE
CHECK_DEADLOCK FALSE
PROPERTY BlocksNoLonger
