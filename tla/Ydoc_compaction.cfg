SPECIFICATION Spec
CONSTANTS
  p1 = p1
  p2 = p2
  s1 = s1
  s2 = s2
  away = away
  e1 = e1
  e2 = e2
  e3 = e3
  u1 = u1
  u2 = u2
  Proc = {p1, p2}
  Session = {s1, s2}
  Home <- HomeTwo
  Update = {e1, e2, e3, u1, u2}
  Earlier <- EarlierThree
  Away = away
  Author <- AuthorTwo
  Threshold = 4
  Leaver = {}
  MaxOpens = 2
  MaxFaults = 0
PROPERTIES
  SquashLosesNothing
CHECK_DEADLOCK FALSE
