--------------------------- MODULE MCNPTFamily0Fh ---------------------------
EXTENDS NPTFamily0Fh

\* 0.725 V, 0.7625 V, 0.825 V and 0.85 V; 0.75625 V lies between two IDs.
SomeRequests ==
  {[volt |-> 116, fid |-> 0], [volt |-> 121, fid |-> 2], [volt |-> 122, fid |-> 2],
   [volt |-> 132, fid |-> 4], [volt |-> 136, fid |-> 5]}

\* What other programs set; of these odd IDs, too, and the highest voltage.
SomeForeign ==
  {[vid |-> 35, fid |-> 0], [vid |-> 31, fid |-> 1], [vid |-> 32, fid |-> 2],
   [vid |-> 27, fid |-> 6]}

NeededVoltage == [f \in FIDs |->
  CASE f = 0 -> 116 [] f \in 1 .. 2 -> 120 [] f \in 3 .. 4 -> 132 [] OTHER -> 136]
=============================================================================
