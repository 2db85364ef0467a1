SPECIFICATION FairSpec
CONSTANTS
  Workers = {w1, w2}
  Boot = boot
  Configs = {c1, c2}
  Bad = {c2}
  NoConfig = none
  Requests <- UnmarkedRequests
  OneAtATime = FALSE
  MaxRequests = 3
  MaxExits = 1
  MaxStops = 1
  MaxKills = 0
INVARIANTS
  RestConsistent
PROPERTIES
  Terminates
CHECK_DEADLOCK FALSE
