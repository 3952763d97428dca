CONSTANTS
  k1 = k1
  k2 = k2
  g1 = g1
  t1 = t1
  t2 = t2
  NULL = NULL
  Controllers <- OneController
  Getters <- OneGetter
  Threads <- OneThread
  LocalCores = 2
  Documents <- NoneOrTwo

SPECIFICATION Spec
INVARIANT DeletedIsNotUsed
CHECK_DEADLOCK FALSE
