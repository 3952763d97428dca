---------------------------- MODULE VoltageTable ----------------------------
(***************************************************************************)
(* The tables of voltages by frequency that CPUcoreData keeps (std::set of   *)
(* VoltageAndFreq, ordered by the frequency alone) and what is computed from *)
(* them.  A table is a function from its frequencies to voltages.            *)
(* Frequencies are in MHz; voltages are whole numbers (mV, say): a computed  *)
(* voltage, a float in the code, is rounded down.  The binary search over    *)
(* arrays is not part of the repository and is used as: the closest element. *)
(***************************************************************************)
EXTENDS Integers, FiniteSets, FiniteSetsExt

CONSTANTS
  Multipliers,          \* m_stdset_floatAvailableMultipliers
  Voltages,             \* m_stdset_floatAvailableVoltagesInVolt
  ReferenceClock,       \* m_fReferenceClockInMHz
  OperatingSafetyMargin,\* m_fOperatingSafetyMarginInVolt
  StartMargin           \* the 0.04 V that are added to an interpolated start voltage

ASSUME TableAssumption ==
  /\ Multipliers \subseteq Nat \ {0} /\ Multipliers # {} /\ IsFiniteSet(Multipliers)
  /\ Voltages \subseteq Nat \ {0} /\ Voltages # {} /\ IsFiniteSet(Voltages)
  /\ ReferenceClock \in Nat \ {0}
  /\ OperatingSafetyMargin \in Nat /\ StartMargin \in Nat

NoVoltage == 0  \* what the code returns for "none"
NaN == -1       \* 0.0 / 0.0
Word == 65536   \* a frequency is a WORD

Freq(multiplier) == multiplier * ReferenceClock
Freqs == {Freq(m) : m \in Multipliers}
LowestMultiplier == Min(Multipliers)
HighestMultiplier == Max(Multipliers)
LowestFreq == Freq(LowestMultiplier)

EmptyTable == [f \in {} |-> NoVoltage]
Lowest(t) == Min(DOMAIN t)
Highest(t) == Max(DOMAIN t)

\* insert() keeps an entry of the same frequency, erase() and insert() replace it.
Inserted(t, f, v) == [g \in DOMAIN t \union {f} |-> IF g \in DOMAIN t THEN t[g] ELSE v]
Replaced(t, f, v) == [g \in DOMAIN t \union {f} |-> IF g = f THEN v ELSE t[g]]

-----------------------------------------------------------------------------
Abs(n) == IF n < 0 THEN -n ELSE n

\* GetArrayIndexForClosestValue; of two that are as close the lower.
\* The value looked for is x / 2, for the mean of two multipliers.
ClosestToHalf(S, x) == Min({y \in S : \A z \in S : Abs(2 * y - x) <= Abs(2 * z - x)})
Closest(S, x) == ClosestToHalf(S, 2 * x)

\* The position in the sorted array.
Index(S, x) == Cardinality({y \in S : y < x})

Above(S, x) == {y \in S : y > x}

\* GetNextVoltageAbove(...).  The search is for the closest that is not less.
NextVoltageAbove(v) ==
  LET notLess == {w \in Voltages : w >= v}
  IN IF notLess = {} \/ Above(Voltages, Min(notLess)) = {} THEN NoVoltage
     ELSE Min(Above(Voltages, Min(notLess)))

\* GetVoltageWithOperatingSafetyMargin(...)
WithSafetyMargin(v) ==
  LET wanted == v + OperatingSafetyMargin
      closest == Closest(Voltages, wanted)
  IN IF closest >= wanted THEN closest
     ELSE IF Above(Voltages, closest) # {} THEN Min(Above(Voltages, closest))
     ELSE NoVoltage

-----------------------------------------------------------------------------
LowerEqual(t, f) == {g \in DOMAIN t : g <= f}
HigherEqual(t, f) == {g \in DOMAIN t : g >= f}

\* VoltageAndFreq::GetInterpolatedVoltage(...) between two entries.
Between(lo, vLo, hi, vHi, f) ==
  IF NaN \in {vLo, vHi} THEN NaN ELSE vLo + ((vHi - vLo) * (f - lo)) \div (hi - lo)

\* GetInterpolatedVoltageFromFreq(...): its result and the voltage.
CanInterpolate(t, f) == LowerEqual(t, f) # {} /\ HigherEqual(t, f) # {}
Interpolated(t, f) ==
  LET lo == Max(LowerEqual(t, f))
      hi == Min(HigherEqual(t, f))
  IN IF lo = hi THEN t[lo] ELSE Between(lo, t[lo], hi, t[hi], f)

\* CheckWhetherCPUcoreVoltageIsBelowHighestInstableVoltage(...) on the table of
\* lowest stable voltages; a comparison with NaN is false.
BelowHighestInstable(t, v, f) ==
  /\ CanInterpolate(t, f)
  /\ \E stable \in {Interpolated(t, f)} \ {NaN} :
       \E highestInstable \in Voltages :
         /\ Index(Voltages, highestInstable) = Index(Voltages, Closest(Voltages, stable)) - 1
         /\ v < highestInstable

\* VoltageAndFreq::GetLinearExtrapolatedVoltage(...) of the table's last entry.
\* With that entry as the lower one it divides zero by zero.
ExtrapolatedVoltage(t, lo, f) ==
  LET hi == Highest(t)
  IN IF hi = lo \/ NaN \in {t[hi], t[lo]} THEN NaN
     ELSE t[hi] - ((t[hi] - t[lo]) * (hi - f)) \div (hi - lo)

\* VoltageAndFreq::GetLinearExtrapolatedFrequency(...) of the table's last entry:
\* the frequencies it can give.  If the two voltages are equal the quotient is
\* infinite or NaN and its conversion to a WORD is undefined: any frequency.
ExtrapolatedFreqs(t, lo, v) ==
  LET hi == Highest(t)
  IN IF t[hi] = t[lo] \/ NaN \in {t[hi], t[lo]} THEN {0} \union Freqs
     ELSE {(hi - ((hi - lo) * (t[hi] - v)) \div (t[hi] - t[lo])) % Word}

-----------------------------------------------------------------------------
(* Where the search for the lowest stable voltage starts.                  *)

\* GetClosestHigherVoltageAndFreq and GetClosestLowerVoltageAndFreq
HasHigher(t, f) == Above(DOMAIN t, f) # {}
HasLower(t, f) == \E g \in DOMAIN t : g < f
ClosestHigher(t, f) == LET g == Min(Above(DOMAIN t, f)) IN [freq |-> g, volt |-> t[g]]
ClosestLower(t, f) == LET g == Max({h \in DOMAIN t : h < f}) IN [freq |-> g, volt |-> t[g]]

\* The multiplier in the middle, and the voltage to start at with it:
\* GetStartVoltageForMultiplierForFindingLowestCPUcoreVoltage(...) with the
\* tables of lowest stable and wanted voltages; the default table is empty.
\* (Mutant: a / 2 + b for (a + b) / 2.)
MiddleMultiplierDivided(notReached, reached) ==
  ClosestToHalf(Multipliers, notReached + 2 * reached)
MiddleMultiplier(notReached, reached) == ClosestToHalf(Multipliers, notReached + reached)

HigherEntry(stable, wanted, f) ==
  IF HasHigher(stable, f) THEN ClosestHigher(stable, f)
  ELSE IF HasHigher(wanted, f) THEN ClosestHigher(wanted, f)
  ELSE [freq |-> Freq(HighestMultiplier), volt |-> Max(Voltages)]

LowerEntries(stable, wanted, f) ==
  IF HasLower(stable, f) THEN {ClosestLower(stable, f)}
  ELSE IF HasLower(wanted, f) THEN {ClosestLower(wanted, f)} ELSE {}

\* The margin is added by walking up the array from the closest voltage.  If
\* there is none that high the walk leaves the array: the voltages it may find
\* there are any.
VoltagesFrom(v) ==
  LET enough == {w \in Voltages : w >= Closest(Voltages, v) /\ w >= v + StartMargin}
  IN IF enough = {} THEN Voltages ELSE {Min(enough)}

StartVoltages(stable, wanted, multiplier) ==
  LET f == Freq(multiplier)
      higher == HigherEntry(stable, wanted, f)
  IN IF LowerEntries(stable, wanted, f) = {} THEN {higher.volt}
     ELSE UNION {VoltagesFrom(Between(lower.freq, lower.volt, higher.freq, higher.volt, f)) :
                   lower \in LowerEntries(stable, wanted, f)}

\* ArentDirectlyNeighbouredMultipliers(...): the difference of the positions is
\* unsigned, so it is not 1 either when they are equal or in the other order.
\* no_element is the largest unsigned number.
ArentDirectlyNeighboured(reached, notReached) ==
  Index(Multipliers, reached) - Index(Multipliers, notReached) \notin {1, -1}
=============================================================================
