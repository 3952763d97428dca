---------------------------- MODULE MCDVFSService ----------------------------
(* The service for TLC.  One object for ServiceMain and one for each client *)
(* that finds no object: the SCM is obeyed after ServiceMain has made one.  *)
EXTENDS DVFSService
CONSTANTS o1, o2, t1, t2, client
OneObject == {o1}
TwoObjects == {o1, o2}
OneThread == {t1}
TwoThreads == {t1, t2}
OneClient == {client}
AllControls == {"pause", "continue", "stop", "interrogate"}
AllCommands == {"pause", "continue", "stop", "start", "data", "halt"}
OnlyStop == {"stop"}
=============================================================================
