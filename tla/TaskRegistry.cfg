SPECIFICATION FairSpec
CONSTANTS
  p1 = p1
  p2 = p2
  t1 = t1
  t2 = t2
  c1 = c1
  NoItem = NoItem
  Proc = {p1, p2}
  Task = {t1, t2}
  Item = {c1}
  Home <- SpreadHome
  ItemOf <- SharedItem
  Stoppable = {t2}
  MaxFaults = 1
INVARIANTS
  TypeOK
  NoOrphanEntry
  SetWithinHash
  RunningTaskHasHandle
  RunningIsListed
  CleanerInv
PROPERTIES
  StopTakesEffect
  EndedIsUnlisted
CHECK_DEADLOCK FALSE
