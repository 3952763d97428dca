\* The load based object.  The periods and the time to wait are such that the
\* WORD does not skip the time in between: period + CoolDown < WordSize.
CONSTANTS
  NumCores = 2
  Temperatures <- MCTemperatures
  ThrottleTemp <- MCThrottleTemp
  NumMultipliers = 2
  LowestPstate = 1
  NumLevels = 3
  LowestFreq = 2
  WordSize = 8
  CoolDown = 2
  Periods <- MCPeriods
  LoadBased = TRUE
SPECIFICATION FairSpec
INVARIANTS TypeOK TimeToCool ThrottledAtLowest
PROPERTIES HotNeverFaster ComparedWithinRow HotEndsLowest
