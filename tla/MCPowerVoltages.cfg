\* Two timers: a suspend and a resume before the timer of the resume before elapses.
CONSTANTS
  Multipliers <- MCMultipliers
  Voltages <- MCVoltages
  ReferenceClock = 100
  OperatingSafetyMargin = 10
  StartMargin = 5
  IncreaseFactor = 150
  Threshold = 80
  Loads <- MCLoads
  Maxima <- MCMaxima
  TablePairs <- MCTablePairs
  MaxTimers = 2
SPECIFICATION FairSpec
INVARIANTS VoltageEnough
PROPERTIES LoadServed HigherBeforeSleep BackToWanted
