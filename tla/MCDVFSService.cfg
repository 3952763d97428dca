\* One pipe client beside the SCM, every command, one DVFS thread at a time.
CONSTANTS
  o1 = o1
  o2 = o2
  t1 = t1
  t2 = t2
  client = client
  Objects <- TwoObjects
  Threads <- OneThread
  Clients <- OneClient
  ScmControls <- AllControls
  ClientCommands <- AllCommands
  mp_cpucoreusagegetter = TRUE
  SCM = SCM
  NULL = NULL
SPECIFICATION Spec
INVARIANT StatusReported
PROPERTIES NoLateCrash NoThreadLost
CHECK_DEADLOCK FALSE
