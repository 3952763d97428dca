---------------------------- MODULE ThermalControl ----------------------------
(***************************************************************************)
(* The decisions of one Dynamic Voltage and Frequency Scaling object: what  *)
(* each round of the loop in DynFreqScalingThreadBase::Entry does to the    *)
(* multiplier and the clock modulation ("throttle level") of every core,    *)
(* given the temperatures it finds.  DVFSThread is about when such a loop   *)
(* runs; this module is about what a running loop does, one round a step.   *)
(*                                                                         *)
(* Abstractions.  Multipliers and throttle levels are ranks 1, 2, ... of    *)
(* the available values, the highest throttle level being 1.0 (no           *)
(* throttling).  The CPU load is left out: wherever the code computes a     *)
(* multiplier from the load, every multiplier some load leads to may be     *)
(* chosen.  A temperature is a number whose order matters and nothing else. *)
(* Writes to the hardware succeed.                                          *)
(***************************************************************************)
EXTENDS Integers

CONSTANTS
  NumCores,        \* m_wNumCPUcores; the cores are 0 .. NumCores - 1
  Temperatures,    \* what the sensor of a core may show
  ThrottleTemp,    \* m_fThrottleTempInDegCelsius
  NumMultipliers,  \* size of m_arfAvailableMultipliers
  LowestPstate,    \* lowest frequency of the wanted voltages, as a multiplier
  NumLevels,       \* size of m_arfAvailableThrottleLevels
  LowestFreq,      \* lowest frequency of the default voltages, in units of
                   \* the lowest multiplier at the lowest throttle level
  WordSize,        \* number of values of the type WORD (65536)
  CoolDown,        \* m_wMilliSecondsToWaitForCoolDown, a WORD
  Periods,         \* how long a round, sleep included, may take
  LoadBased        \* a CPUcoreLoadBasedDynVoltnFreqScaling object, or the base

Cores == 0 .. NumCores - 1
Multipliers == 1 .. NumMultipliers
Levels == 1 .. NumLevels
Pstates == LowestPstate .. NumMultipliers

ASSUME CoresAssumption == NumCores \in Nat \ {0}
ASSUME TemperaturesAssumption ==
  Temperatures \subseteq Int /\ Temperatures # {} /\ ThrottleTemp \in Int
ASSUME MultipliersAssumption ==
  /\ NumMultipliers \in Nat \ {0}
  /\ LowestPstate \in Multipliers
  /\ NumLevels \in Nat \ {0}
  /\ LowestFreq \in Nat
ASSUME TimeAssumption ==
  /\ WordSize \in Nat \ {0}
  /\ CoolDown \in 0 .. WordSize - 1
  /\ Periods \subseteq Nat \ {0}
ASSUME LoadBasedAssumption == LoadBased \in BOOLEAN

VARIABLES
  temp,                     \* what the sensors show
  m_fTempInDegCelsius,      \* the temperatures last stored, per core
  m_ar_fPreviousTemperaturesInDegCelsius,
  m_b1stTimeInRowTooHot,
  m_wMilliSecondsPassed,    \* now - m_dwBeginInMillisOfTooHot, as a WORD
  m_fMultiplier,            \* multiplier of each core
  m_fThrottleLevel,         \* throttle level of each core
  sinceLowered,             \* history: time since a core was last lowered
  waited,                   \* history: the same, when it was last lowered
  cooledMeanwhile           \* history: a round was not too hot since the
                            \* previous temperatures were saved

vars == <<temp, m_fTempInDegCelsius, m_ar_fPreviousTemperaturesInDegCelsius,
          m_b1stTimeInRowTooHot, m_wMilliSecondsPassed, m_fMultiplier,
          m_fThrottleLevel, sinceLowered, waited, cooledMeanwhile>>

\* The bound of the history variables sinceLowered and waited: "longer than
\* CoolDown".
Long == CoolDown + 1

TypeOK ==
  /\ temp \in [Cores -> Temperatures]
  /\ m_fTempInDegCelsius \in [Cores -> Temperatures]
  /\ m_ar_fPreviousTemperaturesInDegCelsius \in [Cores -> Temperatures]
  /\ m_b1stTimeInRowTooHot \in BOOLEAN
  /\ m_wMilliSecondsPassed \in 0 .. WordSize - 1
  /\ m_fMultiplier \in [Cores -> Multipliers]
  /\ m_fThrottleLevel \in [Cores -> Levels]
  /\ sinceLowered \in [Cores -> 0 .. Long]
  /\ waited \in [Cores -> 0 .. Long]
  /\ cooledMeanwhile \in BOOLEAN

\* The arrays of Entry() start uninitialised and are not read before
\* SafePreviousTemperatures fills them.
Init ==
  /\ temp \in [Cores -> Temperatures]
  /\ m_fTempInDegCelsius = temp
  /\ m_ar_fPreviousTemperaturesInDegCelsius = temp
  /\ m_b1stTimeInRowTooHot = TRUE
  /\ m_wMilliSecondsPassed = 0
  /\ m_fMultiplier \in [Cores -> Multipliers]
  /\ m_fThrottleLevel = [c \in Cores |-> NumLevels]
  /\ sinceLowered = [c \in Cores |-> Long]
  /\ waited = [c \in Cores |-> Long]
  /\ cooledMeanwhile = FALSE

-----------------------------------------------------------------------------
(***************************************************************************)
(* The CPU controller.                                                      *)
(***************************************************************************)

TooHot(t) == {c \in Cores : t[c] > ThrottleTemp}

\* GetCPUcoreTooHot reads and stores the temperatures core by core and stops
\* at the first core that is too hot: the cores after it keep what was stored
\* for them before.
Stored(t) ==
  [c \in Cores |-> IF \E hot \in TooHot(t) : hot < c
                     THEN m_fTempInDegCelsius[c] ELSE t[c]]

\* SetFreqAndVoltageFromFreq: a frequency below every P-state of the wanted
\* voltages becomes the lowest of them.
SetFreqAndVoltageFromFreq(m) == IF m < LowestPstate THEN LowestPstate ELSE m

\* SetNextLowerThrottleLevel: one level down, unless there is none or the
\* resulting frequency falls below the lowest one that has a default voltage.
NextLowerThrottleLevel(level, m) ==
  IF level > 1 /\ (level - 1) * m >= LowestFreq
    THEN level - 1 ELSE level

\* Mutant: the closest greater multiplier instead of the closest less.
LowerMultipliersGreater(m) == IF m = NumMultipliers THEN {m} ELSE {m + 1}

\* The multipliers SetLowerFrequencyFromAvailableMultipliers may choose: the
\* next lower one or, by the load, one below it; the lowest one at least.
LowerMultipliers(m) == IF m = 1 THEN {1} ELSE 1 .. m - 1

-----------------------------------------------------------------------------
(***************************************************************************)
(* A round of the loop.  p is the time since the round before, t what the   *)
(* sensors show in this one.                                                *)
(***************************************************************************)

\* Mutant: the difference is not cut to a WORD.
PassedWide(p) == m_wMilliSecondsPassed + p

\* Time passes.  The code keeps the begin and the current time as DWORDs and
\* their difference in a WORD; only the difference is looked at.
Passed(p) == (m_wMilliSecondsPassed + p) % WordSize
Since(p) ==
  [c \in Cores |-> IF sinceLowered[c] + p > Long THEN Long ELSE sinceLowered[c] + p]

\* HandleCPUtooHotDVFS, "1st time too hot".
TooHot1stTime(p, t) ==
  /\ TooHot(t) # {}
  /\ m_b1stTimeInRowTooHot
  /\ m_b1stTimeInRowTooHot' = FALSE
  /\ m_wMilliSecondsPassed' = 0
  /\ m_ar_fPreviousTemperaturesInDegCelsius' = Stored(t)
  /\ cooledMeanwhile' = FALSE
  /\ sinceLowered' = Since(p)
  /\ UNCHANGED <<m_fMultiplier, m_fThrottleLevel, waited>>

\* Mutant: the core need not have stayed hot for the time to wait.
NotCooledDownAtOnce(p, t) ==
  {c \in Cores : m_ar_fPreviousTemperaturesInDegCelsius[c] <= Stored(t)[c]}

\* Mutant: exactly as warm as before counts as cooled down.
NotCooledDownStrict(p, t) ==
  {c \in Cores : /\ m_ar_fPreviousTemperaturesInDegCelsius[c] < Stored(t)[c]
                 /\ Passed(p) > CoolDown}

\* "If temperature did not decrease" in the time to wait for it.
NotCooledDown(p, t) ==
  {c \in Cores : /\ m_ar_fPreviousTemperaturesInDegCelsius[c] <= Stored(t)[c]
                 /\ Passed(p) > CoolDown}

\* HandleCPUtooHotDVFS, "at least 2nd time too hot": every core that did not
\* cool down is lowered, and after that the waiting starts anew.
TooHotAgain(p, t) ==
  LET lower == NotCooledDown(p, t)
  IN  /\ TooHot(t) # {}
      /\ ~ m_b1stTimeInRowTooHot
      /\ \E chosen \in [lower -> Multipliers] :
           /\ \A c \in lower : chosen[c] \in LowerMultipliers(m_fMultiplier[c])
           /\ m_fMultiplier' = [c \in Cores |->
                IF c \in lower THEN SetFreqAndVoltageFromFreq(chosen[c])
                ELSE m_fMultiplier[c]]
           /\ m_fThrottleLevel' = [c \in Cores |->
                IF c \in lower /\ chosen[c] = m_fMultiplier[c]
                  THEN NextLowerThrottleLevel(m_fThrottleLevel[c], chosen[c])
                  ELSE m_fThrottleLevel[c]]
      /\ m_b1stTimeInRowTooHot' = (lower # {})
      /\ m_wMilliSecondsPassed' = IF lower = {} THEN Passed(p) ELSE 0
      /\ sinceLowered' = [c \in Cores |-> IF c \in lower THEN 0 ELSE Since(p)[c]]
      /\ waited' = [c \in Cores |-> IF c \in lower THEN Since(p)[c] ELSE waited[c]]
      /\ UNCHANGED <<m_ar_fPreviousTemperaturesInDegCelsius, cooledMeanwhile>>

\* Mutant: throttling is not taken back.
NotTooHotThrottled(p, t) ==
  /\ TooHot(t) = {}
  /\ IF LoadBased
       THEN /\ m_b1stTimeInRowTooHot' = TRUE
            /\ m_fMultiplier' \in [Cores -> Pstates]
       ELSE UNCHANGED <<m_b1stTimeInRowTooHot, m_fMultiplier>>
  /\ m_wMilliSecondsPassed' = Passed(p)
  /\ cooledMeanwhile' = TRUE
  /\ sinceLowered' = Since(p)
  /\ UNCHANGED <<m_fThrottleLevel, m_ar_fPreviousTemperaturesInDegCelsius, waited>>

\* Mutant: the load based object does not start a new row.
NotTooHotSameRow(p, t) ==
  /\ TooHot(t) = {}
  /\ m_fThrottleLevel' = [c \in Cores |-> NumLevels]
  /\ IF LoadBased THEN m_fMultiplier' \in [Cores -> Pstates]
                  ELSE UNCHANGED m_fMultiplier
  /\ m_wMilliSecondsPassed' = Passed(p)
  /\ cooledMeanwhile' = TRUE
  /\ sinceLowered' = Since(p)
  /\ UNCHANGED <<m_b1stTimeInRowTooHot, m_ar_fPreviousTemperaturesInDegCelsius,
                 waited>>

\* HandleCPUnotTooHot.  Every core is taken out of throttling; only the load
\* based object starts a new row and adapts the multipliers to the load.
NotTooHot(p, t) ==
  /\ TooHot(t) = {}
  /\ m_fThrottleLevel' = [c \in Cores |-> NumLevels]
  /\ IF LoadBased
       THEN /\ m_b1stTimeInRowTooHot' = TRUE
            /\ m_fMultiplier' \in [Cores -> Pstates]
       ELSE UNCHANGED <<m_b1stTimeInRowTooHot, m_fMultiplier>>
  /\ m_wMilliSecondsPassed' = Passed(p)
  /\ cooledMeanwhile' = TRUE
  /\ sinceLowered' = Since(p)
  /\ UNCHANGED <<m_ar_fPreviousTemperaturesInDegCelsius, waited>>

\* The settings are confirmed and GetUsageAndVoltageAndFreqForAllCores works.
Round(p, t) ==
  /\ temp' = t
  /\ m_fTempInDegCelsius' = Stored(t)
  /\ TooHot1stTime(p, t) \/ TooHotAgain(p, t) \/ NotTooHot(p, t)

\* They are not, or it does not: nothing is decided, time passes.
IdleRound(p, t) ==
  /\ temp' = t
  /\ m_wMilliSecondsPassed' = Passed(p)
  /\ sinceLowered' = Since(p)
  /\ UNCHANGED <<m_fTempInDegCelsius, m_ar_fPreviousTemperaturesInDegCelsius,
                 m_b1stTimeInRowTooHot, m_fMultiplier, m_fThrottleLevel,
                 waited, cooledMeanwhile>>

\* The loop has been stopped and another thread enters Entry(): what was
\* saved is given up for new arrays.
Entry ==
  /\ m_b1stTimeInRowTooHot' = TRUE
  /\ UNCHANGED <<temp, m_fTempInDegCelsius,
                 m_ar_fPreviousTemperaturesInDegCelsius, m_wMilliSecondsPassed,
                 m_fMultiplier, m_fThrottleLevel, sinceLowered, waited, cooledMeanwhile>>

SomeRound == \E p \in Periods, t \in [Cores -> Temperatures] : Round(p, t)

Next ==
  \/ SomeRound
  \/ \E p \in Periods, t \in [Cores -> Temperatures] : IdleRound(p, t)
  \/ Entry

Spec == Init /\ [][Next]_vars

\* The loop runs on: it is not stopped and started for ever, and it does not
\* find the data unreadable for ever.
FairSpec == Spec /\ WF_vars(SomeRound) /\ <>[][SomeRound]_vars

-----------------------------------------------------------------------------
(***************************************************************************)
(* Properties.                                                              *)
(***************************************************************************)

\* The core c is lowered by this step (HandleCPUtooHotDVFS calls
\* SetLowerFrequencyFromAvailableMultipliers for it).
Lowered(c) == sinceLowered'[c] = 0 /\ sinceLowered[c] # 0

\* A core that has been lowered is given the time to cool down before it is
\* lowered again (the two assignments at the end of the loop over the cores).
\* It takes the begin, the flag and the WORD arithmetic together, and it must
\* hold across stops and starts of the loop.
TimeToCool == \A c \in Cores : waited[c] > CoolDown

\* Throttling is the last resort: a core is throttled only while it runs at
\* the lowest multiplier (SetNextLowerThrottleLevel is called for it only
\* then, and no other step moves the multiplier of a throttled core).
ThrottledAtLowest ==
  \A c \in Cores : m_fThrottleLevel[c] < NumLevels => m_fMultiplier[c] = 1

\* In a round that is too hot no core becomes faster.
HotNeverFaster ==
  [][TooHot(temp') # {} => \A c \in Cores :
       m_fThrottleLevel'[c] * m_fMultiplier'[c]
         <= m_fThrottleLevel[c] * m_fMultiplier[c]]_vars

\* The temperatures that are compared belong to this row of hot rounds: "In
\* order to calc the difference between the temperature where it began to be
\* too hot and the current temperature".
ComparedWithinRow == [][\A c \in Cores : Lowered(c) => ~ cooledMeanwhile]_vars

Hottest(c) == temp[c] > ThrottleTemp /\ \A x \in Temperatures : x <= temp[c]

\* Heat that lasts is answered: a core that stays as hot as it can get, too
\* hot, ends up at the lowest multiplier and stays there, provided that it is
\* measured (GetCPUcoreTooHot reaches it because no core before it is hot).
HotEndsLowest ==
  \A c \in Cores :
    <>[](Hottest(c) /\ \A b \in TooHot(temp) : b >= c) => <>[](m_fMultiplier[c] = 1)

=============================================================================
