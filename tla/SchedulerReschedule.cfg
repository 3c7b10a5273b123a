SPECIFICATION FairSpec
CONSTANTS
  p = 2
  Jobs = {j1, j2}
  Items = {i1}
  NULL = NULL
  NoItem = NoItem
  Main = main
  MaxSchedules = 2
  MaxSignals = 0
  InFlight = 1
  Spurious = FALSE
  DeleteJobs = FALSE
CHECK_DEADLOCK FALSE
PROPERTY ScheduledJobRuns
