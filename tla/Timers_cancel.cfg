SPECIFICATION Spec
CONSTANTS
  p1 = p1
  p2 = p2
  t1 = t1
  t2 = t2
  c1 = c1
  c2 = c2
  Proc = {p1, p2}
  Timer = {t1}
  Chat = {c1}
  Parents <- SameChat
  Request = {q1}
  ChatOf <- InFirst
  Slot = {1, 2}
  NoProc = NoProc
  NoClaim = NoClaim
  CancelSets <- AnyEvent
  Limit = 1
  RowLocks = TRUE
  MaxFaults = 0
PROPERTIES
  CancelledNeverFires
CHECK_DEADLOCK FALSE
