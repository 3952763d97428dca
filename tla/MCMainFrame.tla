---------------------------- MODULE MCMainFrame ----------------------------
EXTENDS MainFrame

CONSTANTS k1, k2, g1, t1, t2

OneController == {k1}
TwoControllers == {k1, k2}
OneGetter == {g1}
OneThread == {t1}
TwoThreads == {t1, t2}

\* A service without and with a usage getter.
NoneOrOne == {0, 1}
NoneOrTwo == {0, 2}
=============================================================================
