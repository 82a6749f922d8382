SPECIFICATION Spec
CONSTANTS
  t1 = t1
  t2 = t2
  t3 = t3
  c1 = c1
  s1 = s1
  s2 = s2
  Task = {t1, t2, t3}
  Item = {c1}
  ItemOf <- ItemOfThree
  SelfCleaning = {t1}
  Stopper = {s1, s2}
INVARIANTS
  TypeOK
  ListMatchesTasks
  FailureMeansContention
  PairStopped
PROPERTIES
  StopAnswers
CHECK_DEADLOCK FALSE
