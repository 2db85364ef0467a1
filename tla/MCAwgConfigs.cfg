SPECIFICATION Spec
CONSTANTS
  Viewers = {d1}
  Addresses = {a1, a2, ax}
  None = none
  Down = down
  TTL = 2
  Slow = 1
  Workers = {w1, w2}
  Names = {n1, n2}
  Contents = {a1, a2}
  XrayExit = ax
  Absent = absent
  MaxRequests = 3
  MaxKills = 1
  MaxLines = 3
SYMMETRY Symmetry
INVARIANTS
  ActiveThere
  ActiveIsInstalled
  ServedRecent
  UploadUsable
PROPERTIES
  SwitchTakes
CHECK_DEADLOCK FALSE
