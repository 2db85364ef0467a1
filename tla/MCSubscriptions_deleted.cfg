SPECIFICATION Spec
CONSTANTS
  s1 = s1
  s2 = s2
  home = home
  Absent = absent
  Standalone = {home}
  Workers = {w1}
  Subs = {s1}
  Nodes = {n1}
  Urls = {u1}
  Alike <- Distinct
  Overlap = TRUE
  MaxCrashes = 0
PROPERTIES
  NoResurrection
