\* Curves leave room for the margin; the countdown of one second is enough for
\* every order of its end, the flags and the broadcasts.
CONSTANTS
  Multipliers <- MCMultipliers
  Voltages <- MCVoltages
  ReferenceClock = 100
  OperatingSafetyMargin = 10
  StartMargin = 5
  Seconds = 1
  Inserted1st <- MCInserted1st
  Curves <- MCCurves
  Sliders <- MCSliders
  Prevent = TRUE
SPECIFICATION FairSpec
INVARIANTS EntriesFound
PROPERTIES SearchNarrows SetAboveInstable AutoEnds
CHECK_DEADLOCK FALSE
