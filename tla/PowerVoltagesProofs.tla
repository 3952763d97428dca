------------------------ MODULE PowerVoltagesProofs ------------------------
(***************************************************************************)
(* The voltage is enough, for all tables, voltages, multipliers and widths of *)
(* WORD: whatever the DVFS thread looked up and when, what it writes is at    *)
(* least the voltage that the table of wanted voltages has, or interpolates,  *)
(* for the multiplier it writes.  First what the operators of VoltageTable    *)
(* return, then the steps of the thread, then the invariant.                  *)
(***************************************************************************)
EXTENDS PowerVoltages, FiniteSetTheorems, WellFoundedInduction, TLAPS

\* A set of natural numbers that is not empty has a least element.
LEMMA LeastExists ==
  ASSUME NEW S \in SUBSET Nat, S # {}
  PROVE  Min(S) \in S /\ \A y \in S : Min(S) <= y
  <1> DEFINE less == {p \in Nat \X Nat : p[1] < p[2]}
  <1>1. IsWellFoundedOn(less, Nat)
    BY NatLessThanWellFounded DEF OpToRel
  <1>2. PICK x \in S : \A y \in S : <<y, x>> \notin less
    <2> HIDE DEF less
    <2> QED BY <1>1, WFMin
  <1>3. ASSUME NEW y \in S PROVE x <= y
    <2>1. x \in Nat /\ y \in Nat
      OBVIOUS
    <2>2. y < x => <<y, x>> \in less
      BY <2>1
    <2> QED BY <1>2, <2>1, <2>2
  <1> QED BY <1>3 DEF Min

\* One that is bounded has a greatest element.
LEMMA GreatestExists ==
  ASSUME NEW S \in SUBSET Nat, S # {}, NEW b \in Nat, \A y \in S : y <= b
  PROVE  Max(S) \in S /\ \A y \in S : y <= Max(S)
  <1> DEFINE T == {b - y : y \in S}
  <1>1. T \in SUBSET Nat /\ T # {}
    <2>1. \A y \in S : b - y \in Nat
      OBVIOUS
    <2> QED BY <2>1
  <1>2. PICK x \in T : \A z \in T : x <= z
    <2> HIDE DEF T
    <2> QED BY <1>1, LeastExists
  <1>3. PICK y \in S : x = b - y
    BY <1>2
  <1>4. ASSUME NEW z \in S PROVE z <= y
    <2>1. x <= b - z
      BY <1>2, <1>4
    <2> QED BY <1>3, <2>1, <1>4
  <1> QED BY <1>3, <1>4 DEF Max

\* A finite set of natural numbers is bounded.
LEMMA FiniteBounded ==
  ASSUME NEW S \in SUBSET Nat, IsFiniteSet(S)
  PROVE  \E b \in Nat : \A y \in S : y <= b
  <1> DEFINE Bad == {T \in SUBSET S : ~ \E b \in Nat : \A y \in T : y <= b}
             Sizes == {Cardinality(T) : T \in Bad}
  <1>1. SUFFICES ASSUME Bad # {} PROVE FALSE
    OBVIOUS
  <1>2. \A T \in Bad : IsFiniteSet(T) /\ Cardinality(T) \in Nat
    BY FS_Subset, FS_CardinalityType
  <1>3. Sizes \in SUBSET Nat /\ Sizes # {}
    BY <1>1, <1>2
  <1>4. PICK T \in Bad : \A U \in Bad : Cardinality(T) <= Cardinality(U)
    <2>1. PICK n \in Sizes : \A k \in Sizes : n <= k
      <3> HIDE DEF Sizes
      <3> QED BY <1>3, LeastExists
    <2> QED BY <2>1
  <1>5. PICK x \in T : TRUE
    <2>1. T # {}
      OBVIOUS
    <2> QED BY <2>1
  <1>6. T \ {x} \notin Bad
    <2>1. Cardinality(T \ {x}) = Cardinality(T) - 1 /\ Cardinality(T) \in Nat
      BY <1>2, <1>5, FS_RemoveElement
    <2>2. ~ Cardinality(T) <= Cardinality(T \ {x})
      BY <2>1
    <2> HIDE DEF Bad
    <2> QED BY <1>4, <2>2
  <1>7. PICK b \in Nat : \A y \in T \ {x} : y <= b
    BY <1>6
  <1>8. x \in Nat
    BY <1>5
  <1>9. CASE x <= b
    BY <1>7, <1>9
  <1>10. CASE b < x
    <2>1. \A y \in T : y <= x
      BY <1>7, <1>8, <1>10
    <2> QED BY <1>8, <2>1
  <1> QED BY <1>7, <1>8, <1>9, <1>10

LEMMA OfTwo ==
  ASSUME NEW a \in Nat, NEW b \in Nat
  PROVE  /\ Min({a, b}) = IF a <= b THEN a ELSE b
         /\ Max({a, b}) = IF a <= b THEN b ELSE a
  <1>1. {a, b} \in SUBSET Nat /\ {a, b} # {}
    OBVIOUS
  <1>2. Min({a, b}) \in {a, b} /\ \A y \in {a, b} : Min({a, b}) <= y
    BY <1>1, LeastExists
  <1>3. PICK c \in Nat : \A y \in {a, b} : y <= c
    <2>1. \A y \in {a, b} : y <= a + b
      OBVIOUS
    <2> QED BY <2>1
  <1>4. Max({a, b}) \in {a, b} /\ \A y \in {a, b} : y <= Max({a, b})
    BY <1>1, <1>3, GreatestExists
  <1>5. Min({a, b}) = IF a <= b THEN a ELSE b
    BY <1>2
  <1>6. Max({a, b}) = IF a <= b THEN b ELSE a
    BY <1>4
  <1> QED BY <1>5, <1>6

-----------------------------------------------------------------------------
(* Multipliers and frequencies *)

LEMMA Product == \A m, r \in Nat : m * r \in Nat
  OBVIOUS

LEMMA ProductGrows == \A m, n, r \in Nat : m <= n => m * r <= n * r
  OBVIOUS

LEMMA FreqFacts ==
  /\ \A m \in Multipliers : m \in Nat /\ Freq(m) \in Freqs /\ Freq(m) \in Nat
  /\ \A f \in Freqs : f \in Nat /\ \E m \in Multipliers : f = Freq(m)
  /\ \E b \in Nat : \A f \in Freqs : f <= b
  <1>1. \A m \in Multipliers : m \in Nat /\ Freq(m) \in Freqs /\ Freq(m) \in Nat
    BY TableAssumption, Product DEF Freq, Freqs
  <1>2. PICK b \in Nat : \A m \in Multipliers : m <= b
    <2>1. Multipliers \in SUBSET Nat /\ IsFiniteSet(Multipliers)
      BY TableAssumption
    <2> QED BY <2>1, FiniteBounded
  <1>3. \A m \in Multipliers : Freq(m) <= b * ReferenceClock /\ b * ReferenceClock \in Nat
    BY <1>1, <1>2, TableAssumption, ProductGrows, Product DEF Freq
  <1>4. \A f \in Freqs : f <= b * ReferenceClock
    BY <1>3 DEF Freqs
  <1>5. b * ReferenceClock \in Nat
    BY TableAssumption, Product
  <1> QED BY <1>1, <1>4, <1>5 DEF Freqs

LEMMA AbsFacts == \A a, b \in Nat : Abs(a - b) \in Nat /\ Abs(a - b) = (IF a < b THEN b - a ELSE a - b)
  BY DEF Abs

\* The closest multiplier is one, and none is closer.
LEMMA ClosestIs ==
  ASSUME NEW f \in Nat
  PROVE  /\ ClosestMultiplier[f] \in Multipliers
         /\ \A n \in Multipliers : Abs(Freq(ClosestMultiplier[f]) - f) <= Abs(Freq(n) - f)
  <1> DEFINE away(m) == Abs(Freq(m) - f)
             Distances == {away(m) : m \in Multipliers}
             Best == {m \in Multipliers : \A n \in Multipliers : away(m) <= away(n)}
  <1>1. \A m \in Multipliers : away(m) \in Nat
    BY FreqFacts, AbsFacts
  <1>2. Distances \in SUBSET Nat /\ Distances # {}
    <2> HIDE DEF away
    <2> QED BY <1>1, TableAssumption
  <1>3. PICK d \in Distances : \A e \in Distances : d <= e
    <2> HIDE DEF Distances
    <2> QED BY <1>2, LeastExists
  <1>4. Best # {} /\ Best \in SUBSET Nat
    <2> HIDE DEF away
    <2>1. PICK m \in Multipliers : d = away(m)
      BY <1>3
    <2>2. m \in Best
      BY <1>3, <2>1
    <2> QED BY <2>2, TableAssumption
  <1>5. Min(Best) \in Best
    <2> HIDE DEF Best
    <2> QED BY <1>4, LeastExists
  <1>6. ClosestMultiplier[f] = Min(Best)
    BY DEF ClosestMultiplier
  <1> QED BY <1>5, <1>6

-----------------------------------------------------------------------------
(* Tables and interpolation *)

Most == Max(Voltages)

IsTable(t) == DOMAIN t \subseteq Freqs /\ \A f \in DOMAIN t : t[f] \in 0 .. Most

LEMMA MostIs == Most \in Voltages /\ Most \in Nat
  <1>1. Voltages \in SUBSET Nat /\ Voltages # {} /\ IsFiniteSet(Voltages)
    BY TableAssumption
  <1>2. PICK b \in Nat : \A v \in Voltages : v <= b
    BY <1>1, FiniteBounded
  <1> QED BY <1>1, <1>2, GreatestExists DEF Most

\* The first and the last entry of a table.
LEMMA Ends ==
  ASSUME NEW t, IsTable(t), DOMAIN t # {}
  PROVE  /\ Lowest(t) \in DOMAIN t /\ Highest(t) \in DOMAIN t
         /\ Lowest(t) \in Nat /\ Highest(t) \in Nat /\ Lowest(t) <= Highest(t)
         /\ \A f \in DOMAIN t : Lowest(t) <= f /\ f <= Highest(t)
  <1>1. DOMAIN t \in SUBSET Nat
    BY FreqFacts DEF IsTable
  <1>2. PICK b \in Nat : \A f \in DOMAIN t : f <= b
    BY FreqFacts DEF IsTable
  <1>3. Lowest(t) \in DOMAIN t /\ \A f \in DOMAIN t : Lowest(t) <= f
    BY <1>1, LeastExists DEF Lowest
  <1>4. Highest(t) \in DOMAIN t /\ \A f \in DOMAIN t : f <= Highest(t)
    BY <1>1, <1>2, GreatestExists DEF Highest
  <1> QED BY <1>1, <1>3, <1>4

\* A frequency within a table lies between its ends.
LEMMA Within ==
  ASSUME NEW t, IsTable(t), DOMAIN t # {}, NEW f \in Nat
  PROVE  /\ WithinTable(t, f) \in Nat
         /\ Lowest(t) <= WithinTable(t, f) /\ WithinTable(t, f) <= Highest(t)
  <1>1. Lowest(t) \in Nat /\ Highest(t) \in Nat /\ Lowest(t) <= Highest(t)
    BY Ends
  <1> DEFINE low == Min({f, Highest(t)})
  <1>2. low = IF f <= Highest(t) THEN f ELSE Highest(t)
    BY <1>1, OfTwo
  <1>3. low \in Nat
    BY <1>1, <1>2
  <1>4. WithinTable(t, f) = IF Lowest(t) <= low THEN low ELSE Lowest(t)
    <2> HIDE DEF low
    <2>1. Max({Lowest(t), low}) = IF Lowest(t) <= low THEN low ELSE Lowest(t)
      BY <1>1, <1>3, OfTwo
    <2> QED BY <2>1 DEF WithinTable, low
  <1> HIDE DEF low
  <1> QED BY <1>1, <1>2, <1>3, <1>4

\* A quotient of a part of x * d by d is at most x.
LEMMA Part ==
  ASSUME NEW x \in Int, NEW a \in Nat, NEW d \in Nat \ {0}, a <= d
  PROVE  (x * a) \div d \in Int /\ (x * a) \div d <= (IF x < 0 THEN 0 ELSE x)
  OBVIOUS

\* The entries between which a frequency lies.
LEMMA Neighbours ==
  ASSUME NEW t, IsTable(t), NEW f \in Nat, CanInterpolate(t, f)
  PROVE  LET lo == Max(LowerEqual(t, f))
             hi == Min(HigherEqual(t, f))
         IN /\ lo \in DOMAIN t /\ hi \in DOMAIN t /\ lo \in Nat /\ hi \in Nat
            /\ lo <= f /\ f <= hi
            /\ f \in DOMAIN t => lo = f /\ hi = f
  <1> DEFINE lo == Max(LowerEqual(t, f))
             hi == Min(HigherEqual(t, f))
  <1>1. DOMAIN t \in SUBSET Nat
    BY FreqFacts DEF IsTable
  <1>2. lo \in LowerEqual(t, f) /\ \A g \in LowerEqual(t, f) : g <= lo
    <2>1. LowerEqual(t, f) \in SUBSET Nat /\ LowerEqual(t, f) # {} /\ \A g \in LowerEqual(t, f) : g <= f
      BY <1>1 DEF LowerEqual, CanInterpolate
    <2> QED BY <2>1, GreatestExists
  <1>3. hi \in HigherEqual(t, f) /\ \A g \in HigherEqual(t, f) : hi <= g
    <2>1. HigherEqual(t, f) \in SUBSET Nat /\ HigherEqual(t, f) # {}
      BY <1>1 DEF HigherEqual, CanInterpolate
    <2> QED BY <2>1, LeastExists
  <1> HIDE DEF lo, hi
  <1>4. lo \in DOMAIN t /\ hi \in DOMAIN t /\ lo <= f /\ f <= hi
    BY <1>2, <1>3 DEF LowerEqual, HigherEqual
  <1>5. f \in DOMAIN t => lo = f /\ hi = f
    <2>1. ASSUME f \in DOMAIN t PROVE f <= lo /\ hi <= f
      BY <1>2, <1>3, <2>1 DEF LowerEqual, HigherEqual
    <2> QED BY <1>1, <1>4, <2>1
  <1> QED BY <1>1, <1>4, <1>5 DEF lo, hi

\* What is interpolated is a number, and not more than the highest voltage.
LEMMA InterpolatedIs ==
  ASSUME NEW t, IsTable(t), NEW f \in Nat, CanInterpolate(t, f)
  PROVE  /\ Interpolated(t, f) \in Int /\ Interpolated(t, f) <= Most
         /\ f \in DOMAIN t => Interpolated(t, f) = t[f]
  <1> DEFINE lo == Max(LowerEqual(t, f))
             hi == Min(HigherEqual(t, f))
  <1>1. /\ lo \in DOMAIN t /\ hi \in DOMAIN t /\ lo \in Nat /\ hi \in Nat
        /\ lo <= f /\ f <= hi
        /\ f \in DOMAIN t => lo = f /\ hi = f
    BY Neighbours
  <1>2. Interpolated(t, f) = IF lo = hi THEN t[lo] ELSE Between(lo, t[lo], hi, t[hi], f)
    BY DEF Interpolated
  <1> HIDE DEF lo, hi
  <1>3. t[lo] \in Nat /\ t[hi] \in Nat /\ t[lo] <= Most /\ t[hi] <= Most /\ Most \in Nat
    BY <1>1, MostIs DEF IsTable
  <1>4. CASE lo = hi
    BY <1>1, <1>2, <1>3, <1>4
  <1>5. CASE lo # hi
    <2> DEFINE x == t[hi] - t[lo]
               part == (x * (f - lo)) \div (hi - lo)
    <2>1. f - lo \in Nat /\ hi - lo \in Nat \ {0} /\ f - lo <= hi - lo /\ x \in Int
      BY <1>1, <1>3, <1>5
    <2>2. part \in Int /\ part <= (IF x < 0 THEN 0 ELSE x)
      <3> HIDE DEF x
      <3> QED BY <2>1, Part
    <2>3. Interpolated(t, f) = t[lo] + part
      <3>1. NaN \notin {t[lo], t[hi]}
        BY <1>3 DEF NaN
      <3> QED BY <1>2, <1>5, <3>1 DEF Between
    <2>4. t[lo] + part \in Int /\ t[lo] + part <= Most
      <3> HIDE DEF part
      <3> QED BY <1>3, <2>1, <2>2
    <2> HIDE DEF part
    <2> QED BY <1>1, <1>5, <2>3, <2>4
  <1> QED BY <1>4, <1>5

\* The P-state for a frequency: its voltage is that of the table for its multiplier.
LEMMA PStateIs ==
  ASSUME NEW t, IsTable(t), DOMAIN t # {}, NEW f \in Nat
  PROVE  LET p == PState(t, f)
         IN /\ p.multi \in Multipliers /\ CanInterpolate(t, Freq(p.multi))
            /\ p.volt = Interpolated(t, Freq(p.multi))
  <1> DEFINE entry == WithinTable(t, f)
             m == ClosestMultiplier[entry]
  <1>1. PState(t, f) = [volt |-> IF entry \in DOMAIN t THEN t[entry] ELSE Interpolated(t, Freq(m)),
                        multi |-> m]
    BY DEF PState
  <1>2. entry \in Nat /\ Lowest(t) <= entry /\ entry <= Highest(t)
    BY Within
  <1>3. /\ Lowest(t) \in DOMAIN t /\ Highest(t) \in DOMAIN t /\ DOMAIN t \subseteq Freqs
        /\ Lowest(t) \in Nat /\ Highest(t) \in Nat
    BY Ends DEF IsTable
  <1> HIDE DEF entry
  <1>4. /\ m \in Multipliers /\ Freq(m) \in Nat
        /\ \A n \in Multipliers : Abs(Freq(m) - entry) <= Abs(Freq(n) - entry)
    BY <1>2, ClosestIs, FreqFacts
  <1> HIDE DEF m
  \* No entry is closer than the multiplier's frequency.
  <1>5. ASSUME NEW g \in DOMAIN t PROVE g \in Nat /\ Abs(Freq(m) - entry) <= Abs(g - entry)
    <2>1. PICK n \in Multipliers : g = Freq(n)
      BY <1>3, <1>5, FreqFacts
    <2> QED BY <1>4, <2>1, FreqFacts
  <1>6. CASE entry \in DOMAIN t
    <2>1. Abs(entry - entry) = 0
      BY <1>2 DEF Abs
    <2>2. Freq(m) = entry
      <3>1. Abs(Freq(m) - entry) <= 0
        BY <1>5, <1>6, <2>1
      <3> QED BY <1>2, <1>4, <3>1, AbsFacts
    <2>3. CanInterpolate(t, entry)
      BY <1>2, <1>6 DEF CanInterpolate, LowerEqual, HigherEqual
    <2>4. Interpolated(t, entry) = t[entry]
      BY <1>2, <1>6, <2>3, InterpolatedIs
    <2> QED BY <1>1, <1>4, <1>6, <2>2, <2>3, <2>4 DEF m
  <1>7. CASE entry \notin DOMAIN t
    <2>1. Lowest(t) < entry /\ entry < Highest(t)
      BY <1>2, <1>3, <1>7
    <2>2. Lowest(t) <= Freq(m)
      <3>1. Abs(Freq(m) - entry) <= Abs(Lowest(t) - entry)
        BY <1>3, <1>5
      <3>2. Abs(Lowest(t) - entry) = entry - Lowest(t)
        BY <1>2, <1>3, <2>1, AbsFacts
      <3>3. Abs(Freq(m) - entry) = IF Freq(m) < entry THEN entry - Freq(m) ELSE Freq(m) - entry
        BY <1>2, <1>4, AbsFacts
      <3> QED BY <1>2, <1>3, <1>4, <2>1, <3>1, <3>2, <3>3
    <2>3. Freq(m) <= Highest(t)
      <3>1. Abs(Freq(m) - entry) <= Abs(Highest(t) - entry)
        BY <1>3, <1>5
      <3>2. Abs(Highest(t) - entry) = Highest(t) - entry
        BY <1>2, <1>3, <2>1, AbsFacts
      <3>3. Abs(Freq(m) - entry) = IF Freq(m) < entry THEN entry - Freq(m) ELSE Freq(m) - entry
        BY <1>2, <1>4, AbsFacts
      <3> QED BY <1>2, <1>3, <1>4, <2>1, <3>1, <3>2, <3>3
    <2>4. CanInterpolate(t, Freq(m))
      BY <1>3, <2>2, <2>3 DEF CanInterpolate, LowerEqual, HigherEqual
    <2> QED BY <1>1, <1>4, <1>7, <2>4 DEF m
  <1> QED BY <1>6, <1>7

-----------------------------------------------------------------------------
(* The CPU core *)

Names == {"wanted", "default"}

\* Types, which the proof needs for what is read, looked up and written.
TypeOK ==
  /\ tables \in TablePairs /\ use \in Names /\ table \in Names
  /\ cpu.multi \in Multipliers /\ seen.multi \in Multipliers
  /\ load \in Nat /\ asked \in Nat /\ maximum \in Nat
  /\ running \in BOOLEAN
  /\ power \in {"awake", "woken", "suspending", "asleep", "asleep critically",
               "asleep unattended"}
  /\ timers \in 0 .. MaxTimers
  /\ dvfs \in {"poll", "decide", "pointer", "set"}

\* VoltageEnough speaks of every statement of the round, so that it is inductive with the types.
PowerInv == TypeOK /\ VoltageEnough

\* The tables are such, and where both have a voltage the default one is not lower.
LEMMA Pair ==
  ASSUME NEW p \in TablePairs
  PROVE  /\ IsTable(p["wanted"]) /\ IsTable(p["default"])
         /\ DOMAIN p["wanted"] # {}
         /\ \A m \in Multipliers :
              CanInterpolate(p["wanted"], Freq(m)) /\ CanInterpolate(p["default"], Freq(m)) =>
                Interpolated(p["wanted"], Freq(m)) <= Interpolated(p["default"], Freq(m))
  BY PowerAssumption DEF IsTable, Most

LEMMA Asked ==
  ASSUME maximum \in Nat, load \in Nat, NEW m \in Multipliers
  PROVE  Raised(m) \in Nat /\ Lowered(m) \in Nat
  <1>1. \A n \in Multipliers : Hundredths(n) \in Nat
    BY FreqFacts DEF Hundredths
  <1>2. Hundredths(maximum) \in Nat
    BY TableAssumption, Product DEF Hundredths, Freq
  <1>3. \A x \in Nat : (x \div 100) % Word \in Nat
    BY DEF Word
  <1>4. Lowered(m) \in Nat
    <2>1. LowestMultiplier \in Multipliers
      BY TableAssumption, LeastExists DEF LowestMultiplier
    <2>2. Freq(m) * load \in Nat /\ Hundredths(LowestMultiplier) \in Nat
      BY <1>1, <2>1, FreqFacts, Product
    <2>3. Max({Freq(m) * load, Hundredths(LowestMultiplier)}) \in Nat
      BY <2>2, OfTwo
    <2> QED BY <1>3, <2>3 DEF Lowered
  <1>5. Raised(m) \in Nat
    <2> DEFINE grown == Freq(m) * IncreaseFactor
               notLess == {n \in Multipliers : Hundredths(n) >= grown}
               isNext == /\ notLess # {}
                         /\ Index(Multipliers, Min(notLess)) = Index(Multipliers, m) + 1
               ensured == IF isNext THEN Hundredths(Min(notLess)) ELSE grown
    <2>1. grown \in Nat
      BY FreqFacts, PowerAssumption, Product
    <2>2. notLess # {} => Min(notLess) \in Multipliers
      <3>1. notLess \in SUBSET Nat /\ notLess \subseteq Multipliers
        BY TableAssumption
      <3> HIDE DEF notLess
      <3> QED BY <3>1, LeastExists
    <2>3. ensured \in Nat
      <3> HIDE DEF grown, notLess
      <3> QED BY <1>1, <2>1, <2>2
    <2>4. Raised(m) = (Min({ensured, Hundredths(maximum)}) \div 100) % Word
      BY DEF Raised
    <2> HIDE DEF ensured
    <2>5. Min({ensured, Hundredths(maximum)}) \in Nat
      BY <1>2, <2>3, OfTwo
    <2> QED BY <1>3, <2>4, <2>5
  <1> QED BY <1>4, <1>5

\* The hardware's own P-states have the highest voltage.
LEMMA HardwareEnough ==
  ASSUME NEW p \in TablePairs, NEW c \in HardwareStates
  PROVE  /\ c.multi \in Multipliers
         /\ CanInterpolate(p["wanted"], Freq(c.multi)) =>
              c.volt >= Interpolated(p["wanted"], Freq(c.multi))
  <1>1. c.multi \in Multipliers /\ c.volt = Most
    BY DEF HardwareStates, Most
  <1>2. Freq(c.multi) \in Nat /\ IsTable(p["wanted"])
    BY <1>1, FreqFacts, Pair
  <1>3. CanInterpolate(p["wanted"], Freq(c.multi)) =>
          Interpolated(p["wanted"], Freq(c.multi)) \in Int
            /\ Interpolated(p["wanted"], Freq(c.multi)) <= Most
    BY <1>2, InterpolatedIs
  <1> QED BY <1>1, <1>3, MostIs

\* What is written for a frequency is enough, from whichever table it is.
LEMMA WrittenEnough ==
  ASSUME NEW p \in TablePairs, NEW name \in Names, NEW f \in Nat, DOMAIN p[name] # {}
  PROVE  LET c == PState(p[name], f)
         IN /\ c.multi \in Multipliers
            /\ CanInterpolate(p["wanted"], Freq(c.multi)) =>
                 c.volt >= Interpolated(p["wanted"], Freq(c.multi))
  <1> DEFINE c == PState(p[name], f)
  <1>1. IsTable(p[name]) /\ IsTable(p["wanted"])
    BY Pair DEF Names
  <1>2. /\ c.multi \in Multipliers /\ CanInterpolate(p[name], Freq(c.multi))
        /\ c.volt = Interpolated(p[name], Freq(c.multi))
    BY <1>1, PStateIs
  <1> HIDE DEF c
  <1>3. Freq(c.multi) \in Nat
    BY <1>2, FreqFacts
  <1>4. ASSUME CanInterpolate(p["wanted"], Freq(c.multi))
        PROVE  c.volt >= Interpolated(p["wanted"], Freq(c.multi))
    <2>1. /\ Interpolated(p["wanted"], Freq(c.multi)) \in Int
          /\ Interpolated(p[name], Freq(c.multi)) \in Int
      BY <1>1, <1>2, <1>3, <1>4, InterpolatedIs
    <2>2. CASE name = "wanted"
      BY <1>2, <2>1, <2>2
    <2>3. CASE name = "default"
      <3>1. Interpolated(p["wanted"], Freq(c.multi)) <= Interpolated(p["default"], Freq(c.multi))
        BY <1>2, <1>4, <2>3, Pair
      <3> QED BY <1>2, <2>1, <2>3, <3>1
    <2> QED BY <2>2, <2>3 DEF Names
  <1> QED BY <1>2, <1>4 DEF c

LEMMA PowerInit == Init => PowerInv
  <1> SUFFICES ASSUME Init PROVE PowerInv
    OBVIOUS
  <1>1. cpu \in HardwareStates /\ tables \in TablePairs
    BY DEF Init
  <1>2. cpu.multi \in Multipliers /\ VoltageEnough
    BY <1>1, HardwareEnough DEF VoltageEnough, HasVoltageFor, VoltageFor
  <1>3. HighestMultiplier \in Nat
    <2>1. PICK b \in Nat : \A m \in Multipliers : m <= b
      BY TableAssumption, FiniteBounded
    <2> QED BY <2>1, TableAssumption, GreatestExists DEF HighestMultiplier
  <1>4. TypeOK
    BY <1>1, <1>2, <1>3, PowerAssumption DEF Init, TypeOK, Names
  <1> QED BY <1>2, <1>4 DEF PowerInv

LEMMA PowerStep == PowerInv /\ [Next]_vars => PowerInv'
  <1> SUFFICES ASSUME PowerInv, [Next]_vars PROVE PowerInv'
    OBVIOUS
  <1>1. TypeOK /\ VoltageEnough
    BY DEF PowerInv
  <1>2. CASE Poll
    <2>1. load' \in Nat
      <3>1. load' \in 0 .. 100
        BY <1>2, PowerAssumption DEF Poll
      <3> QED BY <3>1
    <2>2. seen'.multi \in Multipliers
      BY <1>1, <1>2 DEF Poll, TypeOK
    <2>3. TypeOK'
      BY <1>1, <1>2, <2>1, <2>2 DEF Poll, DVFSGoes, TypeOK
    <2> QED BY <1>1, <1>2, <2>3
            DEF Poll, DVFSGoes, PowerInv, VoltageEnough, HasVoltageFor, VoltageFor
  <1>3. CASE ChangeOperatingPointByLoad
    <2>1. asked' \in Nat
      BY <1>1, <1>3, Asked DEF ChangeOperatingPointByLoad, TypeOK
    <2>2. TypeOK'
      BY <1>1, <1>3, <2>1 DEF ChangeOperatingPointByLoad, DVFSGoes, TypeOK
    <2> QED BY <1>1, <1>3, <2>2
            DEF ChangeOperatingPointByLoad, DVFSGoes, PowerInv, VoltageEnough, HasVoltageFor, VoltageFor
  <1>4. CASE ReadPointer
    BY <1>1, <1>4
       DEF ReadPointer, DVFSGoes, TypeOK, PowerInv, VoltageEnough, HasVoltageFor, VoltageFor
  <1>5. CASE SetFreqAndVoltageFromFreq
    <2>1. cpu' = Written(tables[table])
      BY <1>5 DEF SetFreqAndVoltageFromFreq
    <2>2. UNCHANGED <<seen, load, asked, table, running, use, maximum, power, timers, tables>> /\ dvfs' = "poll"
      BY <1>5 DEF SetFreqAndVoltageFromFreq, DVFSGoes
    <2>3. CASE cpu' = cpu
      BY <1>1, <2>2, <2>3 DEF TypeOK, PowerInv, VoltageEnough, HasVoltageFor, VoltageFor
    <2>4. CASE DOMAIN tables[table] # {} /\ cpu' = PState(tables[table], asked)
      <3>1. /\ cpu'.multi \in Multipliers
            /\ CanInterpolate(tables["wanted"], Freq(cpu'.multi)) =>
                 cpu'.volt >= Interpolated(tables["wanted"], Freq(cpu'.multi))
        BY <1>1, <2>4, WrittenEnough DEF TypeOK
      <3> QED BY <1>1, <2>2, <3>1 DEF TypeOK, PowerInv, VoltageEnough, HasVoltageFor, VoltageFor
    <2> QED BY <2>1, <2>3, <2>4 DEF Written
  <1>6. CASE StopOrStart \/ SetMaximumCPUcoreMultiplier \/ TimerElapses
    <2>1. /\ UNCHANGED <<cpu, dvfsVars, power, tables>>
          /\ running' \in BOOLEAN /\ maximum' \in Nat /\ use' \in Names /\ timers' \in 0 .. MaxTimers
      <3>1. CASE StopOrStart
        BY <1>1, <3>1 DEF StopOrStart, TypeOK
      <3>2. CASE SetMaximumCPUcoreMultiplier
        <4>1. maximum' \in Nat
          BY <3>2, PowerAssumption DEF SetMaximumCPUcoreMultiplier
        <4> QED BY <1>1, <3>2, <4>1 DEF SetMaximumCPUcoreMultiplier, TypeOK
      <3>3. CASE TimerElapses
        <4>1. timers \in 0 .. MaxTimers /\ MaxTimers \in Nat
          BY <1>1, PowerAssumption DEF TypeOK
        <4>2. timers > 0 /\ timers' = timers - 1
          BY <3>3 DEF TimerElapses
        <4>3. timers' \in 0 .. MaxTimers
          BY <4>1, <4>2
        <4> QED BY <1>1, <3>3, <4>3 DEF TimerElapses, SetToWantedVoltages, TypeOK, Names
      <3> QED BY <1>6, <3>1, <3>2, <3>3
    <2> QED BY <1>1, <2>1 DEF dvfsVars, TypeOK, PowerInv, VoltageEnough, HasVoltageFor, VoltageFor
  <1>7. CASE HandlePowerEvent \/ Sleep \/ SleepCritically
    <2>1. /\ UNCHANGED <<dvfsVars, running, maximum, tables>>
          /\ power' \in {"awake", "woken", "suspending", "asleep", "asleep critically", "asleep unattended"}
          /\ use' \in Names /\ timers' \in 0 .. MaxTimers
          /\ cpu' = cpu \/ cpu' \in HardwareStates
      <3>1. CASE Suspend
        BY <1>1, <3>1 DEF Suspend, PowerGoes, SetToMaximumVoltages, TypeOK, Names
      <3>2. CASE Sleep \/ SleepCritically
        BY <1>1, <3>2 DEF Sleep, SleepCritically, PowerGoes, TypeOK
      <3>3. CASE ResumeAutomatic \/ ResumeCritical
        BY <1>1, <3>3 DEF ResumeAutomatic, ResumeCritical, PowerGoes, TypeOK
      <3>4. CASE ResumeSuspend
        <4>1. timers \in 0 .. MaxTimers /\ MaxTimers \in Nat
          BY <1>1, PowerAssumption DEF TypeOK
        <4>2. timers < MaxTimers /\ timers' = timers + 1
          BY <3>4 DEF ResumeSuspend
        <4>3. timers' \in 0 .. MaxTimers
          BY <4>1, <4>2
        <4> QED BY <1>1, <3>4, <4>3 DEF ResumeSuspend, PowerGoes, TypeOK
      <3> QED BY <1>7, <3>1, <3>2, <3>3, <3>4 DEF HandlePowerEvent
    <2>2. CASE cpu' = cpu
      BY <1>1, <2>1, <2>2 DEF dvfsVars, TypeOK, PowerInv, VoltageEnough, HasVoltageFor, VoltageFor
    <2>3. CASE cpu' \in HardwareStates
      <3>1. /\ cpu'.multi \in Multipliers
            /\ CanInterpolate(tables["wanted"], Freq(cpu'.multi)) =>
                 cpu'.volt >= Interpolated(tables["wanted"], Freq(cpu'.multi))
        BY <1>1, <2>3, HardwareEnough DEF TypeOK
      <3> QED BY <1>1, <2>1, <3>1
              DEF dvfsVars, TypeOK, PowerInv, VoltageEnough, HasVoltageFor, VoltageFor
    <2> QED BY <2>1, <2>2, <2>3
  <1>8. CASE UNCHANGED vars
    BY <1>1, <1>8 DEF vars, dvfsVars, TypeOK, PowerInv, VoltageEnough, HasVoltageFor, VoltageFor
  <1> QED BY <1>2, <1>3, <1>4, <1>5, <1>6, <1>7, <1>8 DEF Next, Round

\* However stale the reading, whichever table the pointer names and whatever the hardware does
\* by itself: the core never has less than the wanted voltage of its multiplier, for all
\* tables, multipliers, loads and maxima.
THEOREM EnoughVoltage == Spec => []VoltageEnough
  <1>1. PowerInv => VoltageEnough
    BY DEF PowerInv
  <1> QED BY <1>1, PowerInit, PowerStep, PTL DEF Spec
=============================================================================
