CONSTANTS
  k1 = k1
  k2 = k2
  g1 = g1
  t1 = t1
  t2 = t2
  NULL = NULL
  Controllers <- TwoControllers
  Getters <- OneGetter
  Threads <- TwoThreads
  LocalCores = 1
  Documents <- NoneOrOne

SPECIFICATION FairSpec
INVARIANTS DrawnFits UsesAlive OneWorks
PROPERTIES GuiGetsOn
CHECK_DEADLOCK FALSE
