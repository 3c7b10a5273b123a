SPECIFICATION Spec
CONSTANTS
  p = 2
  Jobs = {j1}
  Items = {i1, i2}
  NULL = NULL
  NoItem = NoItem
  Main = main
  MaxSchedules = 1
  MaxSignals = 2
  InFlight = 1
  Spurious = TRUE
  DeleteJobs = FALSE
CHECK_DEADLOCK FALSE
SYMMETRY Symmetry
INVARIANT TypeOK
INVARIANT SleepingExact
INVARIANT NoLostWakeup
INVARIANT AtMostOneLatePacket
INVARIANT NoUseAfterFree
INVARIANT DestructFindsAllAsleep
