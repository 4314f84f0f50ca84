SPECIFICATION FairSpec
CONSTANTS
  t1 = t1
  t2 = t2
  t3 = t3
  p1 = p1
  p2 = p2
  NoTask = NoTask
  Task = {t1, t2, t3}
  Plugin = {p1, p2}
  Owner <- MCOwner
INVARIANT RefusedOnlyWhenOverwritten
PROPERTIES ImplementsBarrier ProceedsUnlessRaced
CHECK_DEADLOCK FALSE
