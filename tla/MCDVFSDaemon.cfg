\* Three DVFS threads at a time: the one main starts and two that SIGCONT adds
\* while the older ones have not yet seen the order to stop.
CONSTANTS
  o1 = o1
  t1 = t1
  t2 = t2
  t3 = t3
  Objects <- TheObject
  Threads <- SomeThreads
  NULL = NULL
SPECIFICATION FairSpec
INVARIANTS NotStoppedHasCollector RunFlagHasThread
PROPERTIES ThreadSpec TermEndsDaemon NoLateCrash StopDrains
CHECK_DEADLOCK FALSE
