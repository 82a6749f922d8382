SPECIFICATION Spec
CONSTANTS
  p1 = p1
  p2 = p2
  s1 = s1
  NoProc = NoProc
  NoSession = NoSession
  Proc = {p1, p2}
  Session = {s1}
  Home <- HomeOne
  Timeout = 2
  LockTimeout = 1
  ScanTime = 0
  MaxFaults = 0
PROPERTIES
  ReapsOnlyExpired
CHECK_DEADLOCK FALSE
