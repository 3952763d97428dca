------------------------- MODULE ThermalControlProofs -------------------------
(***************************************************************************)
(* Proofs about the decisions of a DVFS object, for any number of cores and *)
(* multipliers, any time to wait and any width of the WORD: types, and the  *)
(* time a lowered core is given to cool down.                               *)
(*                                                                         *)
(* The inductive invariant relates the WORD the code looks at to the time   *)
(* that has really passed: while a row is being timed, no core was lowered  *)
(* more recently than the WORD says.                                        *)
(***************************************************************************)
EXTENDS ThermalControl, TLAPS

WordIsHonest ==
  ~ m_b1stTimeInRowTooHot =>
    \A c \in Cores : sinceLowered[c] = Long \/ sinceLowered[c] >= m_wMilliSecondsPassed

ThermalInv == TypeOK /\ TimeToCool /\ WordIsHonest

\* Cutting a difference to a WORD never makes it longer.
LEMMA WordNoLonger ==
  ASSUME NEW a \in Nat
  PROVE  a % WordSize \in 0 .. WordSize - 1 /\ a % WordSize <= a
  BY TimeAssumption

LEMMA PassedWord ==
  ASSUME TypeOK, NEW p \in Periods
  PROVE  /\ Passed(p) \in 0 .. WordSize - 1
         /\ Passed(p) <= m_wMilliSecondsPassed + p
  <1>1. p \in Nat /\ m_wMilliSecondsPassed \in Nat
    BY TimeAssumption DEF TypeOK
  <1>2. m_wMilliSecondsPassed + p \in Nat
    BY <1>1
  <1> QED
    BY <1>2, WordNoLonger DEF Passed

LEMMA SinceType ==
  ASSUME TypeOK, NEW p \in Periods
  PROVE  /\ Since(p) \in [Cores -> 0 .. Long]
         /\ \A c \in Cores : Since(p)[c] = Long \/ Since(p)[c] = sinceLowered[c] + p
  <1>1. p \in Nat /\ CoolDown \in Nat
    BY TimeAssumption
  <1>2. \A c \in Cores : sinceLowered[c] \in 0 .. Long
    BY DEF TypeOK
  <1> QED
    BY <1>1, <1>2 DEF Since, Long

\* A saturated time that was at least the WORD stays so when both move on.
LEMMA SinceHonest ==
  ASSUME TypeOK, NEW p \in Periods, NEW c \in Cores,
         sinceLowered[c] = Long \/ sinceLowered[c] >= m_wMilliSecondsPassed
  PROVE  Since(p)[c] = Long \/ Since(p)[c] >= Passed(p)
  <1>1. p \in Nat /\ CoolDown \in Nat /\ m_wMilliSecondsPassed \in Nat
    BY TimeAssumption DEF TypeOK
  <1>2. sinceLowered[c] \in 0 .. Long /\ Passed(p) \in Int
    BY PassedWord DEF TypeOK
  <1>3. CASE sinceLowered[c] = Long
    BY <1>1, <1>2, <1>3, SinceType DEF Long
  <1>4. CASE sinceLowered[c] >= m_wMilliSecondsPassed
    BY <1>1, <1>2, <1>4, SinceType, PassedWord DEF Long
  <1> QED
    BY <1>3, <1>4


LEMMA StoredType ==
  ASSUME TypeOK, NEW t \in [Cores -> Temperatures]
  PROVE  Stored(t) \in [Cores -> Temperatures]
  BY DEF TypeOK, Stored

LEMMA NextLowerType ==
  ASSUME NEW level \in Levels, NEW m \in Multipliers
  PROVE  NextLowerThrottleLevel(level, m) \in Levels
  <1>1. level \in Nat /\ level <= NumLevels /\ level >= 1
    BY MultipliersAssumption DEF Levels
  <1>2. CASE level > 1 /\ (level - 1) * m >= LowestFreq
    BY <1>1, <1>2, MultipliersAssumption DEF NextLowerThrottleLevel, Levels
  <1>3. CASE ~ (level > 1 /\ (level - 1) * m >= LowestFreq)
    BY <1>3 DEF NextLowerThrottleLevel
  <1> QED
    BY <1>2, <1>3

LEMMA InitThermalInv == Init => ThermalInv
  <1> SUFFICES ASSUME Init PROVE ThermalInv
    OBVIOUS
  <1>1. CoolDown \in Nat /\ Long \in 0 .. Long /\ Long > CoolDown
    BY TimeAssumption DEF Long
  <1>2. 0 \in 0 .. WordSize - 1 /\ NumLevels \in Levels
    BY TimeAssumption, MultipliersAssumption DEF Levels
  <1>3. TypeOK
    BY <1>1, <1>2 DEF Init, TypeOK
  <1>4. TimeToCool
    BY <1>1 DEF Init, TimeToCool
  <1> QED
    BY <1>3, <1>4 DEF Init, ThermalInv, WordIsHonest

LEMMA TooHot1stTimeInv ==
  ASSUME ThermalInv, NEW p \in Periods, NEW t \in [Cores -> Temperatures],
         temp' = t, m_fTempInDegCelsius' = Stored(t), TooHot1stTime(p, t)
  PROVE  ThermalInv'
  <1>1. TypeOK /\ TimeToCool
    BY DEF ThermalInv
  <1>2. Stored(t) \in [Cores -> Temperatures] /\ Since(p) \in [Cores -> 0 .. Long]
    BY <1>1, StoredType, SinceType
  <1>3. 0 \in 0 .. WordSize - 1
    BY TimeAssumption
  <1>4. TypeOK'
    BY <1>1, <1>2, <1>3 DEF TypeOK, TooHot1stTime
  <1>5. TimeToCool'
    BY <1>1 DEF TimeToCool, TooHot1stTime
  <1>6. WordIsHonest'
    BY <1>2, TimeAssumption DEF WordIsHonest, TooHot1stTime, Long
  <1> QED
    BY <1>4, <1>5, <1>6 DEF ThermalInv

\* A core that is lowered was hot for longer than the time to wait, so by the
\* invariant its last lowering is at least as long ago.
LEMMA TooHotAgainInv ==
  ASSUME ThermalInv, NEW p \in Periods, NEW t \in [Cores -> Temperatures],
         temp' = t, m_fTempInDegCelsius' = Stored(t), TooHotAgain(p, t)
  PROVE  ThermalInv'
  <1> DEFINE lower == NotCooledDown(p, t)
  <1>1. TypeOK /\ TimeToCool /\ WordIsHonest /\ ~ m_b1stTimeInRowTooHot
    BY DEF ThermalInv, TooHotAgain
  <1>2. Stored(t) \in [Cores -> Temperatures] /\ Since(p) \in [Cores -> 0 .. Long]
    BY <1>1, StoredType, SinceType
  <1>3. Passed(p) \in 0 .. WordSize - 1 /\ CoolDown \in Nat /\ Long = CoolDown + 1
    BY <1>1, PassedWord, TimeAssumption DEF Long
  <1>4. \A c \in Cores : Since(p)[c] = Long \/ Since(p)[c] >= Passed(p)
    BY <1>1, SinceHonest DEF WordIsHonest
  <1>5. PICK chosen \in [lower -> Multipliers] :
          /\ m_fMultiplier' = [c \in Cores |->
               IF c \in lower THEN SetFreqAndVoltageFromFreq(chosen[c])
               ELSE m_fMultiplier[c]]
          /\ m_fThrottleLevel' = [c \in Cores |->
               IF c \in lower /\ chosen[c] = m_fMultiplier[c]
                 THEN NextLowerThrottleLevel(m_fThrottleLevel[c], chosen[c])
                 ELSE m_fThrottleLevel[c]]
    BY DEF TooHotAgain
  <1>6. m_fMultiplier' \in [Cores -> Multipliers]
    BY <1>1, <1>5, MultipliersAssumption DEF TypeOK, SetFreqAndVoltageFromFreq
  <1>7. m_fThrottleLevel' \in [Cores -> Levels]
    BY <1>1, <1>5, NextLowerType DEF TypeOK
  <1>8. /\ sinceLowered' = [c \in Cores |-> IF c \in lower THEN 0 ELSE Since(p)[c]]
        /\ waited' = [c \in Cores |-> IF c \in lower THEN Since(p)[c] ELSE waited[c]]
        /\ m_b1stTimeInRowTooHot' = (lower # {})
        /\ m_wMilliSecondsPassed' = IF lower = {} THEN Passed(p) ELSE 0
        /\ UNCHANGED <<m_ar_fPreviousTemperaturesInDegCelsius, cooledMeanwhile>>
    BY DEF TooHotAgain
  <1> HIDE DEF lower
  <1>9. m_b1stTimeInRowTooHot' \in BOOLEAN
    BY <1>8
  <1>10. m_wMilliSecondsPassed' \in 0 .. WordSize - 1
    BY <1>3, <1>8, TimeAssumption
  <1>11. /\ sinceLowered' \in [Cores -> 0 .. Long]
         /\ waited' \in [Cores -> 0 .. Long]
    BY <1>1, <1>2, <1>3, <1>8 DEF TypeOK
  <1>12. TypeOK'
    BY <1>1, <1>2, <1>6, <1>7, <1>8, <1>9, <1>10, <1>11 DEF TypeOK
  <1>13. \A c \in lower : Since(p)[c] > CoolDown
    BY <1>2, <1>3, <1>4 DEF lower, NotCooledDown
  <1>14. TimeToCool'
    BY <1>1, <1>8, <1>13 DEF TimeToCool
  <1>15. WordIsHonest'
    BY <1>4, <1>8 DEF WordIsHonest
  <1> QED
    BY <1>12, <1>14, <1>15 DEF ThermalInv

LEMMA NotTooHotInv ==
  ASSUME ThermalInv, NEW p \in Periods, NEW t \in [Cores -> Temperatures],
         temp' = t, m_fTempInDegCelsius' = Stored(t), NotTooHot(p, t)
  PROVE  ThermalInv'
  <1>1. TypeOK /\ TimeToCool /\ WordIsHonest
    BY DEF ThermalInv
  <1>2. Stored(t) \in [Cores -> Temperatures] /\ Since(p) \in [Cores -> 0 .. Long]
    BY <1>1, StoredType, SinceType
  <1>3. Passed(p) \in 0 .. WordSize - 1 /\ NumLevels \in Levels
    BY <1>1, PassedWord, MultipliersAssumption DEF Levels
  <1>4. m_b1stTimeInRowTooHot' \in BOOLEAN
    BY <1>1 DEF NotTooHot, TypeOK
  <1>5. Pstates \subseteq Multipliers
    BY MultipliersAssumption DEF Pstates, Multipliers
  <1>6. m_fMultiplier' \in [Cores -> Multipliers]
    BY <1>1, <1>5 DEF NotTooHot, TypeOK
  <1>7. TypeOK'
    BY <1>1, <1>2, <1>3, <1>4, <1>6 DEF TypeOK, NotTooHot
  <1>8. TimeToCool'
    BY <1>1 DEF TimeToCool, NotTooHot
  <1>9. \/ m_b1stTimeInRowTooHot'
        \/ ~ m_b1stTimeInRowTooHot
    BY DEF NotTooHot
  <1>10. WordIsHonest'
    BY <1>1, <1>9, SinceHonest DEF WordIsHonest, NotTooHot
  <1> QED
    BY <1>7, <1>8, <1>10 DEF ThermalInv

LEMMA IdleRoundInv ==
  ASSUME ThermalInv, NEW p \in Periods, NEW t \in [Cores -> Temperatures],
         IdleRound(p, t)
  PROVE  ThermalInv'
  <1>1. TypeOK /\ TimeToCool /\ WordIsHonest
    BY DEF ThermalInv
  <1>2. TypeOK'
    BY <1>1, SinceType, PassedWord DEF TypeOK, IdleRound
  <1>3. TimeToCool' /\ WordIsHonest'
    BY <1>1, SinceHonest DEF TimeToCool, WordIsHonest, IdleRound
  <1> QED
    BY <1>2, <1>3 DEF ThermalInv

LEMMA ThermalInvariant == Spec => []ThermalInv
  <1>1. ThermalInv /\ [Next]_vars => ThermalInv'
    <2> SUFFICES ASSUME ThermalInv, [Next]_vars PROVE ThermalInv'
      OBVIOUS
    <2>1. CASE SomeRound
      BY <2>1, TooHot1stTimeInv, TooHotAgainInv, NotTooHotInv DEF SomeRound, Round
    <2>2. ASSUME NEW p \in Periods, NEW t \in [Cores -> Temperatures],
                 IdleRound(p, t)
          PROVE  ThermalInv'
      BY <2>2, IdleRoundInv
    <2>3. CASE Entry
      BY <2>3 DEF Entry, ThermalInv, TypeOK, TimeToCool, WordIsHonest
    <2>4. CASE UNCHANGED vars
      BY <2>4 DEF vars, ThermalInv, TypeOK, TimeToCool, WordIsHonest
    <2> QED
      BY <2>1, <2>2, <2>3, <2>4 DEF Next
  <1> QED
    BY <1>1, InitThermalInv, PTL DEF Spec

\* The variables keep their types; the WORD stays a WORD.
THEOREM ThermalTypes == Spec => []TypeOK
  BY ThermalInvariant, PTL DEF ThermalInv

\* No core is lowered twice without having had the time to cool down, however
\* the loop is stopped and started and however the WORD wraps around.
THEOREM ThermalTimeToCool == Spec => []TimeToCool
  BY ThermalInvariant, PTL DEF ThermalInv


-----------------------------------------------------------------------------
\* A throttled core runs at the lowest multiplier, if that multiplier is a
\* P-state of the wanted voltages.
LEMMA ThrottledStep ==
  ASSUME LowestPstate = 1, TypeOK, ThrottledAtLowest, [Next]_vars
  PROVE  ThrottledAtLowest'
  <1>1. ASSUME NEW p \in Periods, NEW t \in [Cores -> Temperatures],
               TooHotAgain(p, t)
        PROVE  ThrottledAtLowest'
    <2> DEFINE lower == NotCooledDown(p, t)
    <2>1. PICK chosen \in [lower -> Multipliers] :
            /\ \A c \in lower : chosen[c] \in LowerMultipliers(m_fMultiplier[c])
            /\ m_fMultiplier' = [c \in Cores |->
                 IF c \in lower THEN SetFreqAndVoltageFromFreq(chosen[c])
                 ELSE m_fMultiplier[c]]
            /\ m_fThrottleLevel' = [c \in Cores |->
                 IF c \in lower /\ chosen[c] = m_fMultiplier[c]
                   THEN NextLowerThrottleLevel(m_fThrottleLevel[c], chosen[c])
                   ELSE m_fThrottleLevel[c]]
      BY <1>1 DEF TooHotAgain
    <2> HIDE DEF lower
    <2> SUFFICES ASSUME NEW c \in Cores, m_fThrottleLevel'[c] < NumLevels
                 PROVE  m_fMultiplier'[c] = 1
      BY DEF ThrottledAtLowest
    <2>2. m_fMultiplier[c] \in Multipliers
      BY DEF TypeOK
    <2>3. CASE c \notin lower
      BY <2>1, <2>3 DEF ThrottledAtLowest
    <2>4. CASE c \in lower /\ m_fMultiplier[c] = 1
      BY <2>1, <2>4 DEF LowerMultipliers, SetFreqAndVoltageFromFreq
    <2>5. CASE c \in lower /\ m_fMultiplier[c] # 1
      <3>1. chosen[c] # m_fMultiplier[c]
        BY <2>1, <2>2, <2>5 DEF LowerMultipliers, Multipliers
      <3>2. m_fThrottleLevel'[c] = m_fThrottleLevel[c]
        BY <2>1, <3>1
      <3> QED
        BY <2>5, <3>2 DEF ThrottledAtLowest
    <2> QED
      BY <2>3, <2>4, <2>5
  <1>2. ASSUME NEW p \in Periods, NEW t \in [Cores -> Temperatures],
               NotTooHot(p, t)
        PROVE  ThrottledAtLowest'
    BY <1>2, MultipliersAssumption DEF NotTooHot, ThrottledAtLowest
  <1>3. ASSUME UNCHANGED <<m_fMultiplier, m_fThrottleLevel>>
        PROVE  ThrottledAtLowest'
    BY <1>3 DEF ThrottledAtLowest
  <1> QED
    BY <1>1, <1>2, <1>3 DEF Next, SomeRound, Round, TooHot1stTime, IdleRound, Entry, vars

THEOREM ThermalThrottling ==
  ASSUME LowestPstate = 1
  PROVE  Spec => []ThrottledAtLowest
  <1>1. Init => ThrottledAtLowest
    BY MultipliersAssumption DEF Init, ThrottledAtLowest
  <1>2. TypeOK /\ ThrottledAtLowest /\ [Next]_vars => ThrottledAtLowest'
    BY ThrottledStep
  <1> QED
    BY <1>1, <1>2, ThermalTypes, PTL DEF Spec

-----------------------------------------------------------------------------
\* The load based object compares temperatures of one row of hot rounds only:
\* while it waits, no round was cool.
RowUnbroken == ~ m_b1stTimeInRowTooHot => ~ cooledMeanwhile

LEMMA OnlyTooHotAgainLowers ==
  ASSUME TypeOK, [Next]_vars, NEW c \in Cores, Lowered(c)
  PROVE  ~ m_b1stTimeInRowTooHot
  <1>1. ASSUME NEW p \in Periods, sinceLowered' = Since(p)
        PROVE  FALSE
    <2>1. p \in Nat /\ p # 0 /\ CoolDown \in Nat /\ sinceLowered[c] \in 0 .. Long
      BY TimeAssumption DEF TypeOK
    <2>2. Since(p)[c] # 0
      BY <2>1, SinceType DEF Long
    <2> QED
      BY <1>1, <2>2 DEF Lowered
  <1>2. ASSUME UNCHANGED sinceLowered
        PROVE  FALSE
    BY <1>2 DEF Lowered
  <1> QED
    BY <1>1, <1>2 DEF Next, SomeRound, Round, TooHot1stTime, TooHotAgain, NotTooHot,
                      IdleRound, Entry, vars

THEOREM ThermalWithinRow ==
  ASSUME LoadBased
  PROVE  Spec => ComparedWithinRow
  <1>1. Init => RowUnbroken
    BY DEF Init, RowUnbroken
  <1>2. RowUnbroken /\ [Next]_vars => RowUnbroken'
    BY DEF RowUnbroken, Next, SomeRound, Round, TooHot1stTime, TooHotAgain,
           NotTooHot, IdleRound, Entry, vars
  <1>3. TypeOK /\ RowUnbroken /\ [Next]_vars
          => [\A c \in Cores : Lowered(c) => ~ cooledMeanwhile]_vars
    BY OnlyTooHotAgainLowers DEF RowUnbroken
  <1> QED
    BY <1>1, <1>2, <1>3, ThermalTypes, PTL DEF Spec, ComparedWithinRow

-----------------------------------------------------------------------------
\* The speed of a core is the product of its multiplier and its throttle level.
LEMMA ProductGrows ==
  ASSUME NEW a \in Nat, NEW b \in Nat, NEW m \in Nat, NEW n \in Nat, a <= b, m <= n
  PROVE  a * m <= b * n
  <1>1. PICK d \in Nat, e \in Nat : b = a + d /\ n = m + e
    <2>1. b - a \in Nat /\ n - m \in Nat /\ b = a + (b - a) /\ n = m + (n - m)
      OBVIOUS
    <2> QED
      BY <2>1
  <1>2. (a + d) * (m + e) = a * m + (a * e + d * m + d * e)
    BY SMT
  <1>3. a * e \in Nat /\ d * m \in Nat /\ d * e \in Nat /\ a * m \in Nat
    BY SMT
  <1> QED
    BY <1>1, <1>2, <1>3

\* Lowering a core takes a multiplier away or a throttle level, and adds none.
LEMMA LoweredIsSlower ==
  ASSUME LowestPstate = 1, NEW m \in Multipliers, NEW level \in Levels,
         NEW chosen \in LowerMultipliers(m)
  PROVE  /\ SetFreqAndVoltageFromFreq(chosen) \in 1 .. m
         /\ chosen = m => m = 1
         /\ NextLowerThrottleLevel(level, chosen) <= level
  <1>1. m \in Nat /\ m >= 1 /\ level \in Nat
    BY DEF Multipliers, Levels
  <1>2. chosen \in 1 .. m /\ (chosen = m => m = 1)
    BY <1>1 DEF LowerMultipliers
  <1> QED
    BY <1>1, <1>2 DEF SetFreqAndVoltageFromFreq, NextLowerThrottleLevel

\* In a round that is too hot no core becomes faster, whatever the load, if the lowest
\* multiplier is a P-state of the wanted voltages.  (Were it not, lowering a core that runs
\* below all of them would raise it to the lowest of them.)
THEOREM ThermalNeverFaster ==
  ASSUME LowestPstate = 1
  PROVE  Spec => HotNeverFaster
  <1> DEFINE Slower == \A c \in Cores : m_fThrottleLevel'[c] * m_fMultiplier'[c]
                                            <= m_fThrottleLevel[c] * m_fMultiplier[c]
  <1>1. ASSUME TypeOK, NEW p \in Periods, NEW t \in [Cores -> Temperatures], TooHotAgain(p, t)
        PROVE  Slower
    <2> DEFINE lower == NotCooledDown(p, t)
    <2>1. PICK chosen \in [lower -> Multipliers] :
            /\ \A c \in lower : chosen[c] \in LowerMultipliers(m_fMultiplier[c])
            /\ m_fMultiplier' = [c \in Cores |->
                 IF c \in lower THEN SetFreqAndVoltageFromFreq(chosen[c])
                 ELSE m_fMultiplier[c]]
            /\ m_fThrottleLevel' = [c \in Cores |->
                 IF c \in lower /\ chosen[c] = m_fMultiplier[c]
                   THEN NextLowerThrottleLevel(m_fThrottleLevel[c], chosen[c])
                   ELSE m_fThrottleLevel[c]]
      BY <1>1 DEF TooHotAgain
    <2> HIDE DEF lower
    <2> SUFFICES ASSUME NEW c \in Cores
                 PROVE  m_fThrottleLevel'[c] * m_fMultiplier'[c] <= m_fThrottleLevel[c] * m_fMultiplier[c]
      OBVIOUS
    <2>2. m_fMultiplier[c] \in Multipliers /\ m_fThrottleLevel[c] \in Levels
      BY <1>1 DEF TypeOK
    <2>3. m_fThrottleLevel'[c] \in Nat /\ m_fThrottleLevel'[c] <= m_fThrottleLevel[c]
          /\ m_fMultiplier'[c] \in Nat /\ m_fMultiplier'[c] <= m_fMultiplier[c]
      <3>1. CASE c \in lower
        <4>1. chosen[c] \in LowerMultipliers(m_fMultiplier[c])
          BY <2>1, <3>1
        <4>2. m_fMultiplier'[c] = SetFreqAndVoltageFromFreq(chosen[c])
          BY <2>1, <3>1
        <4>3. m_fThrottleLevel'[c] \in {m_fThrottleLevel[c], NextLowerThrottleLevel(m_fThrottleLevel[c], chosen[c])}
          BY <2>1
        <4>4. NextLowerThrottleLevel(m_fThrottleLevel[c], chosen[c]) \in Levels
          <5>1. chosen[c] \in Multipliers
            BY <2>1, <3>1
          <5> QED
            BY <2>2, <5>1, NextLowerType
        <4>5. m_fMultiplier'[c] \in 1 .. m_fMultiplier[c]
              /\ NextLowerThrottleLevel(m_fThrottleLevel[c], chosen[c]) <= m_fThrottleLevel[c]
          BY <2>2, <4>1, <4>2, LoweredIsSlower
        <4> QED
          BY <2>2, <4>3, <4>4, <4>5 DEF Levels, Multipliers
      <3>2. CASE c \notin lower
        <4>1. m_fThrottleLevel'[c] = m_fThrottleLevel[c] /\ m_fMultiplier'[c] = m_fMultiplier[c]
          BY <2>1, <3>2
        <4> QED
          BY <2>2, <4>1 DEF Levels, Multipliers
      <3> QED
        BY <3>1, <3>2
    <2>4. m_fThrottleLevel[c] \in Nat /\ m_fMultiplier[c] \in Nat
      BY <2>2 DEF Levels, Multipliers
    <2> QED
      BY <2>3, <2>4, ProductGrows
  <1>2. ASSUME TypeOK, UNCHANGED <<m_fThrottleLevel, m_fMultiplier>> PROVE Slower
    <2> SUFFICES ASSUME NEW c \in Cores
                 PROVE  m_fThrottleLevel[c] * m_fMultiplier[c] <= m_fThrottleLevel[c] * m_fMultiplier[c]
      BY <1>2
    <2>1. m_fThrottleLevel[c] \in Nat /\ m_fMultiplier[c] \in Nat
      BY <1>2 DEF TypeOK, Levels, Multipliers
    <2> QED
      BY <2>1, ProductGrows
  <1> HIDE DEF Slower
  <1>3. TypeOK /\ [Next]_vars => [TooHot(temp') # {} => Slower]_vars
    <2> SUFFICES ASSUME TypeOK, Next, TooHot(temp') # {} PROVE Slower
      OBVIOUS
    <2>1. ASSUME NEW p \in Periods, NEW t \in [Cores -> Temperatures], Round(p, t) PROVE Slower
      <3>1. temp' = t
        BY <2>1 DEF Round
      <3>2. ~ NotTooHot(p, t)
        BY <3>1 DEF NotTooHot
      <3> QED
        BY <1>1, <1>2, <2>1, <3>2 DEF Round, TooHot1stTime
    <2>2. ASSUME NEW p \in Periods, NEW t \in [Cores -> Temperatures], IdleRound(p, t) PROVE Slower
      BY <1>2, <2>2 DEF IdleRound
    <2>3. CASE Entry
      BY <1>2, <2>3 DEF Entry
    <2> QED
      BY <2>1, <2>2, <2>3 DEF Next, SomeRound
  <1>4. HotNeverFaster <=> [][TooHot(temp') # {} => Slower]_vars
    BY DEF HotNeverFaster, Slower
  <1> QED
    BY <1>3, <1>4, ThermalTypes, PTL DEF Spec

=============================================================================
