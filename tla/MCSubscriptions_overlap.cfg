SPECIFICATION Spec
CONSTANTS
  s1 = s1
  s2 = s2
  home = home
  Absent = absent
  Standalone = {home}
  Workers = {w1, w2}
  Subs = {s1, s2}
  Nodes = {n1}
  Urls = {u1}
  Alike <- SharedPrefix
  Overlap = TRUE
  MaxCrashes = 1
SYMMETRY Symmetry
INVARIANTS
  ActiveExists
