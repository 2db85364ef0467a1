SPECIFICATION Spec
CONSTANTS
  Workers = {w1}
  Boot = boot
  Configs = {c1, c2, c3}
  Bad = {c2}
  NoConfig = none
  Requests <- SelectRequests
  OneAtATime = TRUE
  MaxRequests = 4
  MaxExits = 2
  MaxStops = 2
  MaxKills = 0
INVARIANTS
  RunsTheActive
PROPERTIES
  MakeBeforeBreak
CHECK_DEADLOCK FALSE
