--------------------------- MODULE MCThermalControl ---------------------------
(* One DVFS object of two cores, for TLC.                                    *)
EXTENDS ThermalControl

\* 0 is below the throttle temperature, 1 and 2 are above it.
MCTemperatures == 0 .. 2
MCThrottleTemp == 0

\* A period that divides the size of a WORD and one that does not.
MCPeriods == {1, 3}
OnePeriod == {1}
=============================================================================
