SPECIFICATION FairSession
CONSTANTS
  p = 3
  load_pattern = 1
  send_info = TRUE
  Spurious = FALSE
  MaxSignals = 1
  InFlight = 2
CHECK_DEADLOCK FALSE
INVARIANT SessionTypeOK
INVARIANT ViewSettled
INVARIANT CommandsHold
 
INVARIANT LoadedCoresAreLeft
PROPERTY BlockTakesEffect
