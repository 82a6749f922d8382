SPECIFICATION Spec
CONSTANTS
  t1 = t1
  t2 = t2
  t3 = t3
  c1 = c1
  s1 = s1
  s2 = s2
  Task = {t1, t2}
  Item = {c1}
  ItemOf <- ItemOfTwo
  SelfCleaning = {t1, t2}
  Stopper = {s1}
INVARIANTS
  AllStopped
CHECK_DEADLOCK FALSE
