\* One client competes with the DVFS thread for coreCS and with it and the IPC
\* data thread for ipcCS; two trees that a reader could mix up.
CONSTANTS
  c1 = c1
  c2 = c2
  t1 = t1
  t2 = t2
  Clients <- OneClient
  IPCdataThread = IPCdataThread
  DVFSthread = DVFSthread
  Trees <- TwoTrees
  NULL = NULL
SPECIFICATION FairSpec
INVARIANTS TypeOK SectionsOwned
PROPERTIES ImplementsBoard EveryRequestAnswered StopJoins
