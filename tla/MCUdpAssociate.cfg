SPECIFICATION FairSpec
CONSTANTS
  MaxDatagrams = 4
  MaxReplies = 2
INVARIANTS
  PutReady
  AddressKept
PROPERTIES
  AllEnd
CHECK_DEADLOCK FALSE
