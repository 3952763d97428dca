---------------------------- MODULE MCDVFSDaemon ----------------------------
(* The daemon for TLC: one DVFS object, because main creates one only.      *)
EXTENDS DVFSDaemon
CONSTANTS o1, t1, t2, t3
TheObject == {o1}
SomeThreads == {t1, t2, t3}
=============================================================================
