SPECIFICATION FairSpec
CONSTANTS
  Workers = {w1}
  Boot = boot
  Configs = {c1, c2}
  Bad = {c2}
  NoConfig = none
  Requests <- AllRequests
  OneAtATime = TRUE
  MaxRequests = 4
  MaxExits = 1
  MaxStops = 1
  MaxKills = 2
PROPERTIES
  SelectionRepairs
CHECK_DEADLOCK FALSE
