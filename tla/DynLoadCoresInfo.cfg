SPECIFICATION FairSpec
CONSTANTS
  p = 3
  load_pattern = 1
  send_info = TRUE
  Spurious = TRUE
CHECK_DEADLOCK FALSE
INVARIANT NapShowsPattern
INVARIANT LoadIsAnnounced
INVARIANT LoadedIsAwake
PROPERTY QuitReturns
