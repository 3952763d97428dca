--------------------------- MODULE MCStableVoltage ---------------------------
(* The search for the lowest stable voltage for TLC: four multipliers with a
   gap, so that a bisection has a second round, four voltages, and hardware
   that is instable at the lowest voltage of the highest multiplier.         *)
EXTENDS StableVoltage
MCMultipliers == {1, 2, 3, 5}
MCVoltages == {10, 20, 30, 40}
MCInserted1st == EmptyTable
MCSliders == {[volt |-> 20, multi |-> 5]}
\* Instable at the highest multiplier.
MCCurves == {[m \in MCMultipliers |-> IF m > 3 THEN 10 ELSE 0]}
=============================================================================
