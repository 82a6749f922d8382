SPECIFICATION FairSpec
CONSTANTS
  t1 = t1
  t2 = t2
  N = 5
  Opening = 2
  Tab = {t1, t2}
  MaxLoad = 3
INVARIANTS
  TypeOK
  Acyclic
  CurrentIsMessage
  Mirror
  Sound
PROPERTIES
  Heals
CHECK_DEADLOCK FALSE
