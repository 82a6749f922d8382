SPECIFICATION FairSpec
CONSTANTS
  p1 = p1
  p2 = p2
  Proc = {p1, p2}
  Sub = {d1, d2}
  Gen = {g1, g2, g3}
  NoProc = NoProc
  NoGen = NoGen
  RowLocks = TRUE
  MaxAsync = 1
  MaxConcurrent = 1
  Serves <- OneEach
  MaxLoad = 3
  MaxFaults = 1
INVARIANTS
  TypeOK
  TakenOnce
  NoneForgotten
  SlotsAccounted
PROPERTIES
  Answered
CHECK_DEADLOCK FALSE
