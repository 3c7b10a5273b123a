SPECIFICATION FairSpec
CONSTANTS
  p = 3
  load_pattern = 1
  send_info = TRUE
  Spurious = FALSE
CHECK_DEADLOCK FALSE
PROPERTY QuitPreventsDeadlock
