SPECIFICATION BothSpec
CONSTANTS
  s1 = s1
  s2 = s2
  home = home
  Absent = absent
  Standalone = {home}
  Workers = {w1}
  Subs = {s1, s2}
  Nodes = {n1, n2}
  Urls = {u1, u2}
  Alike <- Distinct
  Overlap = FALSE
  MaxCrashes = 0
  Passwords = {right, wrong}
  NoPassword = no_password
  Right = {right}
INVARIANTS
  ListedIsThere
  LastMailTrue
PROPERTIES
  NoResurrection
