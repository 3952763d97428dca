----------------------------- MODULE MCIPCData -----------------------------
(* The hand-off of core data for TLC.                                       *)
EXTENDS IPCData
CONSTANTS c1, c2, t1, t2
TwoClients == {c1, c2}
OneClient == {c1}
TwoTrees == {t1, t2}
OneTree == {t1}
=============================================================================
