\* The IPC data thread against Stop and a DVFS thread that ends.
CONSTANTS
  c1 = c1
  c2 = c2
  t1 = t1
  t2 = t2
  Clients <- OneClient
  IPCdataThread = IPCdataThread
  DVFSthread = DVFSthread
  Trees <- OneTree
  NULL = NULL
SPECIFICATION FairSpec
PROPERTIES BroadcastIsReceived
