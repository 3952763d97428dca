\* The SCM with every control and a client that stops the service, with
\* overlapping DVFS threads.
CONSTANTS
  o1 = o1
  o2 = o2
  t1 = t1
  t2 = t2
  client = client
  Objects <- OneObject
  Threads <- TwoThreads
  Clients <- OneClient
  ScmControls <- AllControls
  ClientCommands <- OnlyStop
  mp_cpucoreusagegetter = TRUE
  SCM = SCM
  NULL = NULL
SPECIFICATION FairSpec
INVARIANT ContinuedIsRunning
PROPERTY StopEndsService
CHECK_DEADLOCK FALSE
