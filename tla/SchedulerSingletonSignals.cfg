SPECIFICATION FairSpec
CONSTANTS
  Objects = {o1, o2, o3}
  Main = main
  NULL = NULL
  MaxSignals = 3
  InFlight = 2
CHECK_DEADLOCK FALSE
INVARIANT PassOnWholeObject
INVARIANT OneScheduler
INVARIANT HandlersFindObject
INVARIANT NoCommandStuck
PROPERTY CallsReturn
