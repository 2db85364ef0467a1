SPECIFICATION FairSpec
CONSTANTS
  Workers = {w1, w2}
  Nobody = nobody
  Sorted <- MCSorted
  Main = "main"
  Domains = {d1}
  Nets = {n1}
  Cidrs = {x1}
  Ranges = {x1, r1}
  Absent = absent
  Down = down
  MaxCopies = 1
  MaxRequests = 2
  Hooks = {h1}
  MaxFaults = 1
  Entries = {"d1", "d2"}
  Comments = {"# a", "# b"}
  MaxText = 4
  MaxRequest = 2
INVARIANTS
  Regenerated
  Served
  NetworksLoaded
  SetFollowsMode
  ListTextExact
PROPERTIES
  Answered
  RangesReturn
CHECK_DEADLOCK FALSE
