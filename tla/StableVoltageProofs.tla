------------------------ MODULE StableVoltageProofs ------------------------
(***************************************************************************)
(* The safety properties of the search for the lowest stable voltage, for any *)
(* multipliers, voltages, sliders and hardware: what the check of a voltage    *)
(* prevents, what completes the tables, and how the bisection gets on.  The    *)
(* last two hold where the CPU controller has inserted voltages for the lowest *)
(* multiplier or none at all, and the last for three multipliers or more; the  *)
(* proofs show where they need it.                                          *)
(***************************************************************************)
EXTENDS StableVoltage, FiniteSetTheorems, WellFoundedInduction, TLAPS

-----------------------------------------------------------------------------
(* Least and greatest elements. *)

\* A set of natural numbers that is not empty has a least element.
LEMMA LeastExists ==
  ASSUME NEW S \in SUBSET Nat, S # {}
  PROVE  Min(S) \in S /\ \A y \in S : Min(S) <= y
  <1> DEFINE less == {p \in Nat \X Nat : p[1] < p[2]}
  <1>1. IsWellFoundedOn(less, Nat)
    BY NatLessThanWellFounded DEF OpToRel
  <1>2. PICK x \in S : \A y \in S : <<y, x>> \notin less
    <2> HIDE DEF less
    <2> QED BY <1>1, WFMin
  <1>3. ASSUME NEW y \in S PROVE x <= y
    <2>1. x \in Nat /\ y \in Nat
      OBVIOUS
    <2>2. y < x => <<y, x>> \in less
      BY <2>1
    <2> QED BY <1>2, <2>1, <2>2
  <1> QED BY <1>3 DEF Min

\* One that is bounded has a greatest element.
LEMMA GreatestExists ==
  ASSUME NEW S \in SUBSET Nat, S # {}, NEW b \in Nat, \A y \in S : y <= b
  PROVE  Max(S) \in S /\ \A y \in S : y <= Max(S)
  <1> DEFINE T == {b - y : y \in S}
  <1>1. T \in SUBSET Nat /\ T # {}
    <2>1. \A y \in S : b - y \in Nat
      OBVIOUS
    <2> QED BY <2>1
  <1>2. PICK x \in T : \A z \in T : x <= z
    <2> HIDE DEF T
    <2> QED BY <1>1, LeastExists
  <1>3. PICK y \in S : x = b - y
    BY <1>2
  <1>4. ASSUME NEW z \in S PROVE z <= y
    <2>1. x <= b - z
      BY <1>2, <1>4
    <2> QED BY <1>3, <2>1, <1>4
  <1> QED BY <1>3, <1>4 DEF Max

\* A finite set of natural numbers is bounded.
LEMMA FiniteBounded ==
  ASSUME NEW S \in SUBSET Nat, IsFiniteSet(S)
  PROVE  \E b \in Nat : \A y \in S : y <= b
  <1> DEFINE Bad == {T \in SUBSET S : ~ \E b \in Nat : \A y \in T : y <= b}
             Sizes == {Cardinality(T) : T \in Bad}
  <1>1. SUFFICES ASSUME Bad # {} PROVE FALSE
    OBVIOUS
  <1>2. \A T \in Bad : IsFiniteSet(T) /\ Cardinality(T) \in Nat
    BY FS_Subset, FS_CardinalityType
  <1>3. Sizes \in SUBSET Nat /\ Sizes # {}
    BY <1>1, <1>2
  <1>4. PICK T \in Bad : \A U \in Bad : Cardinality(T) <= Cardinality(U)
    <2>1. PICK n \in Sizes : \A k \in Sizes : n <= k
      <3> HIDE DEF Sizes
      <3> QED BY <1>3, LeastExists
    <2> QED BY <2>1
  <1>5. PICK x \in T : TRUE
    <2>1. T # {}
      OBVIOUS
    <2> QED BY <2>1
  <1>6. T \ {x} \notin Bad
    <2>1. Cardinality(T \ {x}) = Cardinality(T) - 1 /\ Cardinality(T) \in Nat
      BY <1>2, <1>5, FS_RemoveElement
    <2>2. ~ Cardinality(T) <= Cardinality(T \ {x})
      BY <2>1
    <2> HIDE DEF Bad
    <2> QED BY <1>4, <2>2
  <1>7. PICK b \in Nat : \A y \in T \ {x} : y <= b
    BY <1>6
  <1>8. x \in Nat
    BY <1>5
  <1>9. CASE x <= b
    BY <1>7, <1>9
  <1>10. CASE b < x
    <2>1. \A y \in T : y <= x
      BY <1>7, <1>8, <1>10
    <2> QED BY <1>8, <2>1
  <1> QED BY <1>7, <1>8, <1>9, <1>10

-----------------------------------------------------------------------------
(* Nothing is set below what is known to be instable. *)

\* What was checked is still right when it is set: whoever learns of an instable voltage in
\* between has raised the exit flag, and no search begins before its test has ended.
CheckInv ==
  /\ find = "set" /\ Prevent /\ ~ exit => ~ BelowHighestInstable(stable, volt, Freq(multi))
  /\ test \in {"read", "stabilize"} => exit \/ find \in {"none", "begin"}
  /\ auto = "complete" => find = "none"

LEMMA CheckStep == CheckInv /\ [Next]_vars => CheckInv'
<1> SUFFICES ASSUME CheckInv, [Next]_vars PROVE CheckInv'
  OBVIOUS
<1>0. /\ find = "none" => Woken = "none"
      /\ find = "begin" => Woken = "begin"
      /\ Woken = "set" => find = "set"
  BY DEF Woken
<1>1. CASE GuiStep
  <2>1. CASE OnAutoConfigureVoltageSettingsButton
    BY <2>1 DEF OnAutoConfigureVoltageSettingsButton, CheckInv, flags, findVars, testVars, tables
  <2>2. CASE OnFindLowestStableVoltageButton
    BY <2>2 DEF OnFindLowestStableVoltageButton, Start, IsRunning, CheckInv, autoVars, testVars, tables
  <2>3. CASE RequestStop
    BY <2>3 DEF RequestStop, CheckInv, flags, findVars, autoVars, testVars, tables
  <2>4. CASE GuiStop
    BY <1>0, <2>4 DEF GuiStop, Exit, TestStopped, IsRunning, CheckInv, autoVars, tables
  <2> QED BY <1>1, <2>1, <2>2, <2>3, <2>4 DEF GuiStep
<1>2. CASE FindStep
  <2>1. CASE FindBegins
    BY <2>1 DEF FindBegins, FindGoes, Local, CheckInv, flags, autoVars, tables
  <2>2. CASE Decrease
    BY <2>2 DEF Decrease, Local, CheckInv, flags, autoVars, tables
  <2>3. CASE Prevented
    BY <2>3 DEF Prevented, FindGoes, Local, TestStopped, CheckInv, autoVars
  <2>4. CASE Checked
    BY <2>4 DEF Checked, MustNotBeSet, FindGoes, Local, CheckInv, flags, autoVars, tables
  <2>5. CASE SetVoltage \/ SetVoltageFails
    BY <2>5 DEF SetVoltage, SetVoltageFails, FindGoes, Local, CheckInv, flags, autoVars, tables
  <2>6. CASE Count
    BY <2>6 DEF Count, Local, CheckInv, flags, autoVars, tables
  <2>7. CASE Signaled \/ TimedOut \/ TimedOutIdle
    BY <2>7 DEF Signaled, TimedOut, TimedOutIdle, FindGoes, Local, CheckInv, flags, autoVars, tables
  <2>8. CASE TestFlag
    BY <2>8 DEF TestFlag, Local, CheckInv, flags, autoVars, tables
  <2>9. CASE FindEnds
    BY <2>9 DEF FindEnds, FindGoes, TestStopped, Local, CheckInv, flags, autoVars, tables
  <2> QED BY <1>2, <2>1, <2>2, <2>3, <2>4, <2>5, <2>6, <2>7, <2>8, <2>9 DEF FindStep
<1>3. CASE TestStep
  <2>1. CASE VoltageTooLow
    BY <1>0, <2>1 DEF VoltageTooLow, TestGoes, Exit, CheckInv, autoVars, tables
  <2>2. CASE ReadLastSet \/ SetFlag \/ TestEnds
    BY <2>2 DEF ReadLastSet, SetFlag, TestEnds, TestGoes, CheckInv, flags, findVars, autoVars, tables
  <2>3. CASE StabilizeVoltage
    BY <2>3 DEF StabilizeVoltage, TestGoes, CheckInv, flags, findVars, autoVars
  <2>4. CASE HandlerBroadcasts
    BY <1>0, <2>4 DEF HandlerBroadcasts, TestGoes, CheckInv, flags, autoVars, tables
  <2> QED BY <1>3, <2>1, <2>2, <2>3, <2>4 DEF TestStep, HandlerStep
<1>4. CASE AutoStep
  <2>1. CASE AutoBegins \/ ResetFlag \/ SetLast
    BY <2>1 DEF AutoBegins, ResetFlag, SetLast, AutoGoes, CheckInv, flags, findVars, testVars, tables
  <2>2. CASE StartSearch
    BY <2>2 DEF StartSearch, Start, IsRunning, AutoGoes, CheckInv, findVars, testVars, tables
  <2>3. CASE AfterHighest \/ AfterLowest \/ AfterMiddle
    BY <2>3 DEF AfterHighest, AfterLowest, AfterMiddle, Joined, CheckInv, flags, findVars, testVars
  <2>4. CASE Complete
    BY <2>4 DEF Complete, AutoGoes, CheckInv, flags, findVars, testVars
  <2>5. CASE ExitFind
    BY <1>0, <2>5 DEF ExitFind, Exit, AutoGoes, CheckInv, testVars, tables
  <2> QED BY <1>4, <2>1, <2>2, <2>3, <2>4, <2>5 DEF AutoStep
<1>5. CASE UNCHANGED vars
  BY <1>5 DEF vars, flags, findVars, autoVars, testVars, tables, CheckInv
<1> QED BY <1>1, <1>2, <1>3, <1>4, <1>5 DEF Next

\* With the button pressed no voltage is set below the highest one known to be instable,
\* however long after the check it is set: no thread can learn of an instable voltage in
\* between without ending the search first.
THEOREM NoInstableSet == Spec => SetAboveInstable
<1>1. Init => CheckInv
  BY DEF Init, CheckInv
<1>2. CheckInv /\ [Next]_vars =>
        [SetVoltage /\ Prevent /\ ~ exit => ~ BelowHighestInstable(stable, volt, Freq(multi))]_vars
  BY DEF SetVoltage, FindGoes, CheckInv
<1> QED BY <1>1, <1>2, CheckStep, PTL DEF Spec, SetAboveInstable

-----------------------------------------------------------------------------
(* Multipliers. *)

LEMMA MultiplierFacts ==
  /\ \A m \in Multipliers : m \in Nat /\ Freq(m) \in Freqs /\ Freq(m) \in Nat
  /\ LowestMultiplier \in Multipliers /\ HighestMultiplier \in Multipliers
  /\ LowestFreq \in Freqs
<1>1. \A m, r \in Nat : m * r \in Nat
  OBVIOUS
<1>2. \A m \in Multipliers : m \in Nat /\ Freq(m) \in Freqs /\ Freq(m) \in Nat
  BY <1>1, TableAssumption DEF Freq, Freqs
<1>3. LowestMultiplier \in Multipliers
  <2>1. Multipliers \in SUBSET Nat /\ Multipliers # {}
    BY TableAssumption
  <2> QED BY <2>1, LeastExists DEF LowestMultiplier
<1>4. HighestMultiplier \in Multipliers
  <2>1. Multipliers \in SUBSET Nat /\ Multipliers # {} /\ IsFiniteSet(Multipliers)
    BY TableAssumption
  <2>2. PICK b \in Nat : \A m \in Multipliers : m <= b
    BY <2>1, FiniteBounded
  <2> QED BY <2>1, <2>2, GreatestExists DEF HighestMultiplier
<1> QED BY <1>2, <1>3, <1>4 DEF LowestFreq

\* No multiplier is closer to the mean of two than the middle one.
LEMMA MiddleIs ==
  ASSUME NEW a \in Nat, NEW b \in Nat
  PROVE  LET m == MiddleMultiplier(a, b)
         IN /\ m \in Multipliers
            /\ \A n \in Multipliers : Abs(2 * m - (a + b)) <= Abs(2 * n - (a + b))
<1> DEFINE far(n) == Abs(2 * n - (a + b))
           Far == {far(n) : n \in Multipliers}
           Middles == {m \in Multipliers : \A n \in Multipliers : far(m) <= far(n)}
<1>1. \A n \in Multipliers : n \in Nat /\ far(n) \in Nat
  BY MultiplierFacts DEF Abs
<1>2. Multipliers # {}
  BY TableAssumption
<1>3. Middles # {}
  <2>1. Far \in SUBSET Nat /\ Far # {}
    BY <1>1, <1>2
  <2>2. Min(Far) \in Far /\ \A d \in Far : Min(Far) <= d
    <3> HIDE DEF Far
    <3> QED BY <2>1, LeastExists
  <2>3. PICK m \in Multipliers : Min(Far) = far(m)
    BY <2>2
  <2>4. \A n \in Multipliers : far(m) <= far(n)
    BY <2>2, <2>3
  <2> HIDE DEF far
  <2> QED BY <2>4
<1>4. Middles \in SUBSET Nat
  BY <1>1
<1>5. Min(Middles) \in Middles
  <2> HIDE DEF Middles
  <2> QED BY <1>3, <1>4, LeastExists
<1>6. MiddleMultiplier(a, b) = Min(Middles)
  BY DEF MiddleMultiplier, ClosestToHalf
<1> QED BY <1>5, <1>6

\* If there is a multiplier between two the middle one is between them.
LEMMA MiddleBetween ==
  ASSUME NEW a \in Multipliers, NEW b \in Multipliers, NEW n \in Multipliers, a < n, n < b
  PROVE  LET m == MiddleMultiplier(a, b) IN m \in Multipliers /\ a < m /\ m < b
<1> DEFINE m == MiddleMultiplier(a, b)
<1>1. a \in Nat /\ b \in Nat /\ n \in Nat
  BY MultiplierFacts
<1>2. m \in Multipliers /\ Abs(2 * m - (a + b)) <= Abs(2 * n - (a + b))
  BY <1>1, MiddleIs
<1>3. m \in Nat
  BY <1>2, MultiplierFacts
<1> HIDE DEF m
<1>4. a < m /\ m < b
  BY <1>1, <1>2, <1>3 DEF Abs
<1> QED BY <1>2, <1>4 DEF m

\* Of two multipliers that are not neighbours, the second the lower, there is one between.
LEMMA OneBetween ==
  ASSUME NEW a \in Multipliers, NEW b \in Multipliers, a < b, ArentDirectlyNeighboured(b, a)
  PROVE  \E n \in Multipliers : a < n /\ n < b
<1> SUFFICES ASSUME \A n \in Multipliers : ~ (a < n /\ n < b) PROVE FALSE
  OBVIOUS
<1> DEFINE A == {n \in Multipliers : n < a}
           B == {n \in Multipliers : n < b}
<1>1. a \in Nat /\ b \in Nat /\ \A n \in Multipliers : n \in Nat
  BY MultiplierFacts
<1>2. B = A \union {a} /\ a \notin A
  <2>1. \A n \in Multipliers : n < b <=> (n < a \/ n = a)
    BY <1>1
  <2>2. a \notin A
    BY <1>1
  <2> QED BY <2>1, <2>2
<1>3. IsFiniteSet(A)
  BY TableAssumption, FS_Subset
<1>4. Cardinality(B) = Cardinality(A) + 1 /\ Cardinality(A) \in Nat
  BY <1>2, <1>3, FS_AddElement, FS_CardinalityType
<1>5. Cardinality(B) - Cardinality(A) \notin {1, -1}
  BY DEF ArentDirectlyNeighboured, Index
<1> QED BY <1>4, <1>5

-----------------------------------------------------------------------------
(* What completes the tables is there. *)

\* The search for the lowest multiplier starts at the first one that the CPU controller has
\* inserted a voltage for: at the lowest one, that is, if this is or there is none.
StartsAtLowest == DOMAIN Inserted1st = {} \/ Lowest(Inserted1st) = LowestFreq

HasMultiplier(p) == "multi" \in DOMAIN p /\ p.multi \in Multipliers

MultiInv ==
  /\ HasMultiplier(lastSet) /\ HasMultiplier(pstate) /\ HasMultiplier(handled)
  /\ multi \in Multipliers
  /\ notReached \in Nat /\ reached \in Nat

\* The places of the auto-configure thread within a search.
Searches == {"reset", "set", "start", "join"}

\* Each stable voltage has a wanted one, and the lowest multiplier got its wanted voltage
\* before the bisection, from which alone the tables are completed.
EntryInv ==
  /\ stable = [f \in DOMAIN stable |-> stable[f]] /\ DOMAIN stable \subseteq Freqs
  /\ auto \notin {"exit", "ended"} =>
       /\ DOMAIN stable \subseteq DOMAIN wanted
       /\ phase = "middle" => LowestFreq \in DOMAIN wanted
  /\ auto \in {"none", "begin"} => phase = "highest"
  /\ auto = "complete" => phase = "middle"
  /\ phase = "lowest" /\ auto \in Searches => pstate.multi = LowestMultiplier

LEMMA StartsAre ==
  ASSUME StartsAtLowest
  PROVE  /\ HasMultiplier(HighestStart) /\ HighestStart.multi = HighestMultiplier
         /\ HasMultiplier(LowestStart) /\ LowestStart.multi = LowestMultiplier
<1>1. HasMultiplier(HighestStart) /\ HighestStart.multi = HighestMultiplier
  BY MultiplierFacts DEF HighestStart, HasMultiplier
<1>2. LowestFreq \div ReferenceClock = LowestMultiplier
  <2>1. \A m \in Nat, r \in Nat \ {0} : (m * r) \div r = m
    OBVIOUS
  <2> QED BY <2>1, MultiplierFacts, TableAssumption DEF LowestFreq, Freq
<1>3. "multi" \in DOMAIN LowestStart /\ LowestStart.multi = LowestMultiplier
  BY <1>2 DEF LowestStart, StartsAtLowest
<1> QED BY <1>1, <1>3, MultiplierFacts DEF HasMultiplier

LEMMA MiddleStart ==
  ASSUME NEW a \in Nat, NEW b \in Nat, StartInTheMiddle(a, b)
  PROVE  HasMultiplier(pstate') /\ pstate'.multi = MiddleMultiplier(a, b)
  BY MiddleIs DEF StartInTheMiddle, HasMultiplier

LEMMA MultiStep ==
  ASSUME StartsAtLowest, MultiInv, [Next]_vars
  PROVE  MultiInv'
<1>1. CASE GuiStep
  <2>1. CASE OnFindLowestStableVoltageButton
    <3>1. HasMultiplier(lastSet')
      BY <2>1, SearchAssumption DEF OnFindLowestStableVoltageButton, HasMultiplier
    <3> QED BY <2>1, <3>1
        DEF OnFindLowestStableVoltageButton, Start, MultiInv, HasMultiplier, autoVars, testVars, findVars
  <2> QED BY <1>1, <2>1
      DEF GuiStep, OnAutoConfigureVoltageSettingsButton, RequestStop, GuiStop, Exit, MultiInv,
          HasMultiplier, findVars, autoVars, testVars
<1>2. CASE FindStep
  <2>1. CASE FindBegins
    BY <2>1 DEF FindBegins, Local, MultiInv, HasMultiplier, autoVars
  <2>2. CASE Decrease
    BY <2>2 DEF Decrease, Local, MultiInv, HasMultiplier, autoVars
  <2>3. CASE Prevented \/ Checked \/ SetVoltage \/ SetVoltageFails
    BY <2>3 DEF Prevented, Checked, SetVoltage, SetVoltageFails, Local, MultiInv, HasMultiplier, autoVars
  <2>4. CASE Count \/ Signaled \/ TimedOut \/ TimedOutIdle \/ TestFlag \/ FindEnds
    BY <2>4 DEF Count, Signaled, TimedOut, TimedOutIdle, TestFlag, FindEnds, Local, MultiInv,
       HasMultiplier, autoVars
  <2> QED BY <1>2, <2>1, <2>2, <2>3, <2>4 DEF FindStep
<1>3. CASE TestStep
  BY <1>3 DEF TestStep, HandlerStep, VoltageTooLow, Exit, ReadLastSet, StabilizeVoltage, SetFlag,
     HandlerBroadcasts, TestEnds, MultiInv, HasMultiplier, findVars, autoVars
<1>4. CASE AutoStep
  <2>1. CASE AutoBegins
    BY <2>1, StartsAre, MultiplierFacts DEF AutoBegins, MultiInv, HasMultiplier, findVars, testVars
  <2>2. CASE ResetFlag \/ SetLast \/ StartSearch \/ Complete \/ ExitFind
    BY <2>2 DEF ResetFlag, SetLast, StartSearch, Start, Complete, ExitFind, Exit, MultiInv,
       HasMultiplier, findVars, testVars
  <2>3. ASSUME NEW p, Joined(p)
        PROVE  UNCHANGED <<lastSet, handled, multi>>
    BY <2>3 DEF Joined, findVars, testVars
  <2>4. pstate.multi \in Nat
    BY MultiplierFacts DEF MultiInv, HasMultiplier
  <2>5. CASE AfterHighest
    <3>1. reached' \in Nat
      BY <2>4, <2>5 DEF AfterHighest, MultiInv
    <3>2. HasMultiplier(pstate')
      BY <2>5, StartsAre DEF AfterHighest, MultiInv, HasMultiplier
    <3>3. UNCHANGED <<lastSet, handled, multi, notReached>>
      BY <2>3, <2>5 DEF AfterHighest
    <3> QED BY <3>1, <3>2, <3>3 DEF MultiInv, HasMultiplier
  <2>6. CASE AfterLowest
    <3>1. UNCHANGED <<lastSet, handled, multi, reached>>
      BY <2>3, <2>6 DEF AfterLowest
    <3>2. notReached' \in Nat /\ HasMultiplier(pstate')
      <4>1. CASE UNCHANGED <<pstate, notReached>>
        BY <4>1 DEF MultiInv, HasMultiplier
      <4>2. CASE notReached' = pstate.multi /\ StartInTheMiddle(notReached', reached)
        BY <2>4, <4>2, MiddleStart DEF MultiInv
      <4> QED BY <2>6, <4>1, <4>2 DEF AfterLowest
    <3> QED BY <3>1, <3>2 DEF MultiInv, HasMultiplier
  <2>7. CASE AfterMiddle
    <3>1. UNCHANGED <<lastSet, handled, multi>>
      BY <2>3, <2>7 DEF AfterMiddle
    <3>2. notReached' \in Nat /\ reached' \in Nat
      BY <2>4, <2>7 DEF AfterMiddle, MultiInv
    <3>3. HasMultiplier(pstate')
      <4>1. CASE UNCHANGED pstate
        BY <4>1 DEF MultiInv, HasMultiplier
      <4>2. CASE StartInTheMiddle(notReached', reached')
        BY <3>2, <4>2, MiddleIs DEF StartInTheMiddle, HasMultiplier
      <4> QED BY <2>7, <4>1, <4>2 DEF AfterMiddle
    <3> QED BY <3>1, <3>2, <3>3 DEF MultiInv, HasMultiplier
  <2> QED BY <1>4, <2>1, <2>2, <2>5, <2>6, <2>7 DEF AutoStep
<1>5. CASE UNCHANGED vars
  BY <1>5 DEF vars, findVars, autoVars, testVars, MultiInv, HasMultiplier
<1> QED BY <1>1, <1>2, <1>3, <1>4, <1>5 DEF Next

\* What is stabilised is put into both tables.
LEMMA StabilizeEntry ==
  ASSUME EntryInv, NEW v, NEW m \in Multipliers, Stabilize(v, m), UNCHANGED autoVars
  PROVE  EntryInv'
<1>1. Freq(m) \in Freqs
  BY MultiplierFacts
<1>2. /\ stable' = [f \in DOMAIN stable' |-> stable'[f]]
      /\ DOMAIN stable' = DOMAIN stable \union {Freq(m)}
  BY DEF Stabilize, Replaced
<1>3. DOMAIN wanted' = DOMAIN wanted \union {Freq(m)}
  BY DEF Stabilize, Replaced
<1> QED BY <1>1, <1>2, <1>3 DEF EntryInv, autoVars

LEMMA EntryStep ==
  ASSUME StartsAtLowest, MultiInv, EntryInv, [Next]_vars
  PROVE  EntryInv'
<1>1. CASE GuiStep
  <2>1. UNCHANGED <<tables, phase, pstate>>
    BY <1>1 DEF GuiStep, OnAutoConfigureVoltageSettingsButton, OnFindLowestStableVoltageButton,
       RequestStop, GuiStop, autoVars
  <2>2. UNCHANGED auto \/ (auto = "none" /\ auto' = "begin")
    <3>1. CASE OnAutoConfigureVoltageSettingsButton
      BY <3>1 DEF OnAutoConfigureVoltageSettingsButton
    <3> QED BY <1>1, <3>1 DEF GuiStep, OnFindLowestStableVoltageButton, RequestStop, GuiStop, autoVars
  <2> QED BY <2>1, <2>2 DEF EntryInv, Searches, tables
<1>2. CASE FindStep
  <2>1. UNCHANGED autoVars
    BY <1>2 DEF FindStep, FindBegins, Decrease, Prevented, Checked, SetVoltage, SetVoltageFails,
       Count, Signaled, TimedOut, TimedOutIdle, TestFlag, FindEnds, Local
  <2>2. CASE Prevented
    BY <2>1, <2>2, StabilizeEntry DEF Prevented, MultiInv
  <2>3. CASE UNCHANGED tables
    BY <2>1, <2>3 DEF EntryInv, tables, autoVars
  <2> QED BY <1>2, <2>2, <2>3 DEF FindStep, FindBegins, Decrease, Checked, SetVoltage,
       SetVoltageFails, Count, Signaled, TimedOut, TimedOutIdle, TestFlag, FindEnds
<1>3. CASE TestStep
  <2>1. UNCHANGED autoVars
    BY <1>3 DEF TestStep, HandlerStep, VoltageTooLow, ReadLastSet, StabilizeVoltage, SetFlag,
       HandlerBroadcasts, TestEnds
  <2>2. CASE StabilizeVoltage
    BY <2>1, <2>2, StabilizeEntry DEF StabilizeVoltage, MultiInv, HasMultiplier
  <2>3. CASE UNCHANGED tables
    BY <2>1, <2>3 DEF EntryInv, tables, autoVars
  <2> QED BY <1>3, <2>2, <2>3 DEF TestStep, HandlerStep, VoltageTooLow, ReadLastSet, SetFlag,
       HandlerBroadcasts, TestEnds
<1>4. CASE AutoStep
  <2>1. CASE AutoBegins \/ ResetFlag \/ SetLast \/ StartSearch \/ ExitFind
    <3>1. CASE AutoBegins
      BY <3>1 DEF AutoBegins, AutoGoes, EntryInv, Searches, tables
    <3>2. CASE ResetFlag \/ SetLast \/ StartSearch
      BY <3>2 DEF ResetFlag, SetLast, StartSearch, AutoGoes, EntryInv, Searches, tables
    <3>3. CASE ExitFind
      BY <3>3 DEF ExitFind, AutoGoes, EntryInv, Searches, tables
    <3> QED BY <2>1, <3>1, <3>2, <3>3
  <2>2. CASE AfterHighest
    <3>1. UNCHANGED tables /\ auto = "join" /\ phase = "highest"
      BY <2>2 DEF AfterHighest, Joined, tables
    <3>2. CASE auto' \in {"ended", "exit"}
      BY <3>1, <3>2 DEF EntryInv, Searches, tables
    <3>3. CASE auto' = "reset" /\ phase' = "lowest" /\ pstate' = LowestStart
      BY <3>1, <3>3, StartsAre DEF EntryInv, tables
    <3> QED BY <2>2, <3>2, <3>3 DEF AfterHighest
  <2>3. CASE AfterLowest
    <3>1. UNCHANGED stable /\ auto = "join" /\ phase = "lowest"
      BY <2>3 DEF AfterLowest, Joined
    <3>2. CASE auto' = "exit" /\ UNCHANGED <<phase, wanted>>
      BY <3>1, <3>2 DEF EntryInv, Searches
    <3>3. CASE /\ auto' = "reset" /\ phase' = "middle"
               /\ wanted' = Inserted(wanted, Freq(pstate.multi), Min(Voltages))
      <4>1. DOMAIN wanted' = DOMAIN wanted \union {LowestFreq}
        BY <3>1, <3>3 DEF Inserted, EntryInv, Searches, LowestFreq
      <4> QED BY <3>1, <3>3, <4>1 DEF EntryInv
    <3> QED BY <2>3, <3>2, <3>3 DEF AfterLowest
  <2>4. CASE AfterMiddle
    <3>1. /\ UNCHANGED <<stable, phase, wanted>> /\ auto = "join" /\ phase = "middle"
          /\ auto' \in {"complete", "reset"}
      BY <2>4 DEF AfterMiddle, Joined
    <3> QED BY <3>1 DEF EntryInv
  <2>5. CASE Complete
    <3>1. auto' = "exit" /\ UNCHANGED phase
      BY <2>5 DEF Complete, AutoGoes
    <3>2. stable' = stable \/ stable' = WithLowest
      BY <2>5 DEF Complete, tables
    <3>3. stable' = [f \in DOMAIN stable' |-> stable'[f]] /\ DOMAIN stable' \subseteq Freqs
      BY <3>2, MultiplierFacts DEF WithLowest, Inserted, EntryInv
    <3> QED BY <3>1, <3>3 DEF EntryInv, Searches
  <2> QED BY <1>4, <2>1, <2>2, <2>3, <2>4, <2>5 DEF AutoStep
<1>5. CASE UNCHANGED vars
  BY <1>5 DEF vars, autoVars, tables, EntryInv
<1> QED BY <1>1, <1>2, <1>3, <1>4, <1>5 DEF Next

LEMMA MultiInit == StartsAtLowest /\ Init => MultiInv
  BY MultiplierFacts DEF Init, MultiInv, HasMultiplier

\* Where the lowest multiplier's search starts there, what find() looks up in the table of
\* wanted voltages is in it, whichever voltages the tests, searches by hand and a user who
\* stops them have left in the tables.
THEOREM CompletionFindsEntries ==
  ASSUME StartsAtLowest
  PROVE  Spec => []EntriesFound
<1>1. Init => MultiInv /\ EntryInv
  <2>1. Init => EntryInv
    BY DEF Init, EntryInv, EmptyTable, Searches
  <2> QED BY <2>1, MultiInit
<1>2. MultiInv /\ EntryInv /\ [Next]_vars => (MultiInv /\ EntryInv)'
  BY MultiStep, EntryStep
<1>3. EntryInv => EntriesFound
  <2> SUFFICES ASSUME EntryInv, auto = "complete", stable # EmptyTable PROVE EntriesExist
    BY DEF EntriesFound
  <2>1. DOMAIN stable # {}
    BY DEF EntryInv, EmptyTable
  <2>2. DOMAIN stable \in SUBSET Nat
    BY MultiplierFacts DEF EntryInv, Freqs
  <2>3. Lowest(stable) \in DOMAIN stable
    BY <2>1, <2>2, LeastExists DEF Lowest
  <2> QED BY <2>3 DEF EntryInv, EntriesExist
<1> QED BY <1>1, <1>2, <1>3, PTL DEF Spec

-----------------------------------------------------------------------------
(* The bisection gets on. *)

\* A search that has ended has raised the exit flag, so that each looks as if the handler had
\* ended it and the upper bound moves; it starts as the highest multiplier, and the
\* lower one stays the lowest.  The multiplier searched for is between the two.
SearchInv ==
  /\ auto = "join" => exit \/ find # "none"
  /\ phase = "highest" /\ auto \in Searches => pstate.multi = HighestMultiplier
  /\ phase = "lowest" /\ auto \in Searches => reached = HighestMultiplier
  /\ phase = "middle" /\ auto \in Searches =>
       /\ notReached \in Multipliers /\ reached \in Multipliers
       /\ notReached < pstate.multi /\ pstate.multi < reached

\* There is a multiplier between the lowest and the highest one.
ThreeMultipliers == \E n \in Multipliers : LowestMultiplier < n /\ n < HighestMultiplier

LEMMA MiddleNarrows ==
  ASSUME MultiInv, SearchInv, AfterMiddle, auto' = "reset"
  PROVE  /\ notReached' \in Multipliers /\ reached' \in Multipliers
         /\ notReached' < pstate'.multi /\ pstate'.multi < reached'
<1>1. exit /\ phase = "middle" /\ auto = "join"
  BY DEF AfterMiddle, Joined, SearchInv
<1>2. reached' = pstate.multi /\ notReached' = notReached
  BY <1>1 DEF AfterMiddle
<1>3. notReached' \in Multipliers /\ reached' \in Multipliers /\ notReached' < reached'
  BY <1>1, <1>2 DEF SearchInv, Searches, MultiInv, HasMultiplier
<1>4. ArentDirectlyNeighboured(reached', notReached') /\ StartInTheMiddle(notReached', reached')
  BY DEF AfterMiddle
<1>5. PICK n \in Multipliers : notReached' < n /\ n < reached'
  BY <1>3, <1>4, OneBetween
<1>6. pstate'.multi = MiddleMultiplier(notReached', reached')
  BY <1>4 DEF StartInTheMiddle
<1>7. notReached' < pstate'.multi /\ pstate'.multi < reached'
  BY <1>3, <1>5, <1>6, MiddleBetween
<1> QED BY <1>3, <1>7

LEMMA SearchStep ==
  ASSUME StartsAtLowest, ThreeMultipliers, MultiInv, EntryInv, SearchInv, [Next]_vars
  PROVE  SearchInv'
<1>0. ASSUME auto' = auto, UNCHANGED <<phase, pstate, notReached, reached>>,
             auto = "join" => \/ UNCHANGED <<exit, find>>
                              \/ exit' \/ find' # "none"
      PROVE  SearchInv'
  BY <1>0 DEF SearchInv
<1>w. find # "none" => Woken # "none"
  BY DEF Woken
<1>1. CASE GuiStep
  <2>1. CASE OnAutoConfigureVoltageSettingsButton
    BY <2>1 DEF OnAutoConfigureVoltageSettingsButton, SearchInv, Searches
  <2>2. CASE OnFindLowestStableVoltageButton
    BY <1>0, <2>2 DEF OnFindLowestStableVoltageButton, autoVars
  <2>3. CASE RequestStop
    BY <1>0, <2>3 DEF RequestStop, autoVars, flags, findVars
  <2>4. CASE GuiStop
    BY <1>0, <2>4 DEF GuiStop, Exit, autoVars
  <2> QED BY <1>1, <2>1, <2>2, <2>3, <2>4 DEF GuiStep
<1>2. CASE FindStep
  <2>1. auto' = auto /\ UNCHANGED <<phase, pstate, notReached, reached>>
    BY <1>2 DEF FindStep, FindBegins, Decrease, Prevented, Checked, SetVoltage, SetVoltageFails,
       Count, Signaled, TimedOut, TimedOutIdle, TestFlag, FindEnds, Local, autoVars
  <2>2. exit' \/ find' # "none"
    BY <1>2 DEF FindStep, FindBegins, Decrease, Prevented, Checked, SetVoltage, SetVoltageFails,
       Count, Signaled, TimedOut, TimedOutIdle, TestFlag, FindEnds, FindGoes
  <2> QED BY <1>0, <2>1, <2>2
<1>3. CASE TestStep
  <2>1. auto' = auto /\ UNCHANGED <<phase, pstate, notReached, reached>>
    BY <1>3 DEF TestStep, HandlerStep, VoltageTooLow, ReadLastSet, StabilizeVoltage, SetFlag,
       HandlerBroadcasts, TestEnds, autoVars
  <2>2. CASE VoltageTooLow
    BY <1>0, <2>1, <2>2 DEF VoltageTooLow, Exit
  <2>3. CASE HandlerBroadcasts
    <3>1. find' = Woken /\ UNCHANGED exit
      BY <2>3 DEF HandlerBroadcasts, flags
    <3>2. auto = "join" => exit' \/ find' # "none"
      BY <1>w, <3>1 DEF SearchInv
    <3> QED BY <1>0, <2>1, <3>2
  <2>4. CASE ReadLastSet \/ StabilizeVoltage \/ SetFlag \/ TestEnds
    <3>1. UNCHANGED <<exit, find>>
      BY <2>4 DEF ReadLastSet, StabilizeVoltage, SetFlag, TestEnds, flags, findVars
    <3> QED BY <1>0, <2>1, <3>1
  <2> QED BY <1>3, <2>2, <2>3, <2>4 DEF TestStep, HandlerStep
<1>4. CASE AutoStep
  <2>1. CASE AutoBegins
    <3>1. auto = "begin" /\ auto' = "reset" /\ phase' = phase /\ pstate' = HighestStart
      BY <2>1 DEF AutoBegins, AutoGoes
    <3>2. phase' = "highest"
      BY <3>1 DEF EntryInv
    <3> QED BY <3>1, <3>2, StartsAre DEF SearchInv
  <2>2. CASE ResetFlag \/ SetLast
    BY <2>2 DEF ResetFlag, SetLast, AutoGoes, SearchInv, Searches
  <2>3. CASE StartSearch
    <3>1. exit' \/ find' # "none"
      BY <2>3 DEF StartSearch, Start, IsRunning, findVars
    <3> QED BY <2>3, <3>1 DEF StartSearch, AutoGoes, SearchInv, Searches
  <2>4. CASE AfterHighest
    <3>1. auto = "join" /\ phase = "highest" /\ exit
      BY <2>4 DEF AfterHighest, Joined, SearchInv
    <3>2. CASE auto' \in {"ended", "exit"}
      BY <3>2 DEF SearchInv, Searches
    <3>3. CASE auto' = "reset" /\ phase' = "lowest" /\ reached' = pstate.multi
      BY <3>1, <3>3 DEF SearchInv, Searches
    <3> QED BY <2>4, <3>1, <3>2, <3>3 DEF AfterHighest
  <2>5. CASE AfterLowest
    <3>1. auto = "join" /\ phase = "lowest" /\ reached' = reached
      BY <2>5 DEF AfterLowest, Joined
    <3>2. CASE auto' = "exit"
      BY <3>2 DEF SearchInv, Searches
    <3>3. CASE /\ auto' = "reset" /\ phase' = "middle" /\ notReached' = pstate.multi
               /\ StartInTheMiddle(notReached', reached)
      <4>1. notReached' = LowestMultiplier /\ reached' = HighestMultiplier
        BY <3>1, <3>3 DEF EntryInv, SearchInv, Searches
      <4>2. pstate'.multi = MiddleMultiplier(LowestMultiplier, HighestMultiplier)
        BY <3>1, <3>3, <4>1 DEF StartInTheMiddle
      <4>3. LowestMultiplier < pstate'.multi /\ pstate'.multi < HighestMultiplier
        BY <4>2, MiddleBetween, MultiplierFacts DEF ThreeMultipliers
      <4> QED BY <3>3, <4>1, <4>3, MultiplierFacts DEF SearchInv
    <3> QED BY <2>5, <3>2, <3>3 DEF AfterLowest
  <2>6. CASE AfterMiddle
    <3>1. phase' = "middle" /\ auto' \in {"complete", "reset"}
      BY <2>6 DEF AfterMiddle, Joined
    <3>2. CASE auto' = "complete"
      BY <3>1, <3>2 DEF SearchInv, Searches
    <3>3. CASE auto' = "reset"
      BY <2>6, <3>1, <3>3, MiddleNarrows DEF SearchInv
    <3> QED BY <3>1, <3>2, <3>3
  <2>7. CASE Complete \/ ExitFind
    BY <2>7 DEF Complete, ExitFind, AutoGoes, SearchInv, Searches
  <2> QED BY <1>4, <2>1, <2>2, <2>3, <2>4, <2>5, <2>6, <2>7 DEF AutoStep
<1>5. CASE UNCHANGED vars
  BY <1>0, <1>5 DEF vars, autoVars, flags, findVars
<1> QED BY <1>1, <1>2, <1>3, <1>4, <1>5 DEF Next

\* Each round of the bisection searches for a multiplier that lies between the two bounds, so
\* that they approach each other.  With two multipliers there is none between: the
\* middle one is the lower one, both bounds become it, and the bisection goes on with it.
THEOREM BisectionNarrows ==
  ASSUME StartsAtLowest, ThreeMultipliers
  PROVE  Spec => SearchNarrows
<1>1. Init => MultiInv /\ EntryInv /\ SearchInv
  <2>1. Init => EntryInv /\ SearchInv
    BY DEF Init, EntryInv, EmptyTable, SearchInv, Searches
  <2> QED BY <2>1, MultiInit
<1>2. MultiInv /\ EntryInv /\ SearchInv /\ [Next]_vars => (MultiInv /\ EntryInv /\ SearchInv)'
  BY MultiStep, EntryStep, SearchStep
<1>3. MultiInv /\ SearchInv /\ [Next]_vars =>
        [AfterMiddle /\ auto' = "reset" =>
           notReached' < pstate'.multi /\ pstate'.multi < reached']_vars
  BY MiddleNarrows
<1> QED BY <1>1, <1>2, <1>3, PTL DEF Spec, SearchNarrows
=============================================================================
