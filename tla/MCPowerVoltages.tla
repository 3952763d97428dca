--------------------------- MODULE MCPowerVoltages ---------------------------
(* P-states and power events for TLC: multipliers with a gap that the factor *)
(* alone does not bridge; tables that have every multiplier, leave out the    *)
(* highest or one in between, and a CPU without default voltages.            *)
EXTENDS PowerVoltages
T(f1, v1, f2, v2) == [f \in {f1, f2} |-> IF f = f1 THEN v1 ELSE v2]
MCMultipliers == {2, 5, 6}
MCVoltages == {10, 20, 30, 40}
MCLoads == {70, 100}
MCMaxima == {5, 6}
MCTablePairs ==
  {[wanted |-> T(200, 10, 600, 20), default |-> T(200, 20, 600, 40)],
   [wanted |-> T(200, 10, 500, 20), default |-> T(500, 30, 600, 40)],
   [wanted |-> T(500, 20, 600, 30), default |-> EmptyTable]}
=============================================================================
