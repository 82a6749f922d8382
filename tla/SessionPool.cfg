SPECIFICATION FairSpec
CONSTANTS
  p1 = p1
  p2 = p2
  s1 = s1
  NoProc = NoProc
  NoSession = NoSession
  Proc = {p1, p2}
  Session = {s1}
  Home <- HomeOne
  Timeout = 3
  LockTimeout = 2
  ScanTime = 1
  MaxFaults = 1
INVARIANTS
  TypeOK
  AtMostOneScanner
  ScannerHoldsLock
PROPERTIES
  OwnReapsOnlyExpired
  OrphanReaped
CHECK_DEADLOCK FALSE
