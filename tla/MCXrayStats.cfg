SPECIFICATION FairSpec
CONSTANTS
  Users = {a}
  Runners = {timer, poll}
  Timer = timer
  MaxBytes = 2
  MaxEdits = 2
  MaxStops = 1
  MaxKills = 1
INVARIANTS
  NeverOvercounts
  InForce
PROPERTIES
  TotalsKept
  GhostsGo
