------------------------- MODULE NPTFamily0FhProofs -------------------------
(*****************************************************************************)
(* The way from one P-state to another never leaves the CPU core with less   *)
(* voltage than its frequency needs, for every table of needed voltages, all *)
(* requests and all widths of the frequency IDs that the assumptions allow,  *)
(* and its steps are those that AMD's guide allows.                          *)
(*                                                                           *)
(* TypeOK and WayInv hold whoever disturbs the call: where the call is among *)
(* its steps bounds the voltage ID it counts with.  CoverInv is about calls  *)
(* that nobody disturbs: there the register is what the call counts with,    *)
(* and before the frequency is changed the voltage on the way to "target"    *)
(* is enough for the higher of the two frequencies, even where the way down  *)
(* to it ends one step below it.                                             *)
(*****************************************************************************)
EXTENDS NPTFamily0Fh, TLAPS

Ways == {"voltage", "steps", "stepped", "single"}
Places == Ways \union {"idle", "frequency", "lower", "higher", "odd", "return"}

TypeOK ==
  /\ register \in PStates /\ lastRead \in PStates
  /\ at \in Places
  /\ request \in [volt : Nat, fid : FIDs] /\ (at # "idle" => request \in Requests)
  /\ vid \in VIDs /\ fid \in Nat /\ was \in FIDs
  /\ phase \in {"before", "after"}
  /\ target \in [volt : Nat, computed : BOOLEAN]
  /\ direction \in {1, -1} /\ goal \in VIDs
  /\ disturbed \in BOOLEAN /\ sound \in BOOLEAN

\* The voltage to transition to is one that IDs are next to.
TargetFits ==
  /\ Volt(63) <= target.volt /\ target.volt <= Volt(MaxVID)
  /\ target.computed => Volt(63) < target.volt
  /\ phase = "before" /\ ~ target.computed => target.volt = Volt(MaxVID)
  /\ phase = "after" => target = [volt |-> request.volt, computed |-> FALSE]

\* Where the steps to it are.
StepsFit ==
  /\ at = "steps" => Volt(vid) + MaximumVoltageStep <= target.volt
  /\ at = "stepped" => Volt(vid) <= target.volt + 2
  /\ at = "single" =>
       /\ goal \in ClosestIDs(target.volt)
       /\ Volt(vid) >= target.volt
       /\ direction = 1 /\ ~ target.computed => Volt(vid) > target.volt
       /\ direction = -1 => vid > 0

WayInv ==
  /\ at # "idle" => TargetFits /\ StepsFit
  /\ at = "frequency" => phase = "before"
  /\ at \in {"lower", "higher", "odd", "return"} => phase = "after"

\* The higher of the two frequencies.
Upper == IF request.fid > fid THEN request.fid ELSE fid

BeforeInv ==
  /\ was = fid /\ fid # request.fid
  /\ at \in Ways =>
       Needed[Upper] <= target.volt - (IF target.computed THEN MaximumVoltageStep ELSE 0)
  /\ at \in {"stepped", "frequency"} => Needed[Upper] <= Volt(vid)

AfterInv ==
  /\ at \in Ways \union {"return"} => fid = request.fid
  /\ at = "higher" => fid < request.fid /\ Needed[request.fid] <= Volt(vid)
  /\ at = "lower" => request.fid < fid
  /\ at # "odd"

CallInv ==
  /\ register = [vid |-> vid, fid |-> fid]
  /\ Even(fid) /\ Even(request.fid)
  /\ phase = "before" => BeforeInv
  /\ phase = "after" => AfterInv

CoverInv == Undisturbed => Covered(register) /\ (at # "idle" => CallInv)

Inv == TypeOK /\ WayInv /\ CoverInv

-----------------------------------------------------------------------------
(* Voltages and their IDs *)

\* A remainder is below the divisor, and what is below the divisor is its own remainder.
LEMMA Remainder ==
  ASSUME NEW a \in Int, NEW n \in Nat \ {0}
  PROVE  a % n \in 0 .. n - 1 /\ (a \in 0 .. n - 1 => a % n = a)
  OBVIOUS

LEMMA Parity == \A n \in Int : n % 2 = 0 => \E k \in Int : n = 2 * k
  OBVIOUS

\* A lower ID stands for a higher voltage: by at least 2, by at most 4 for the next one.
LEMMA VoltOrder ==
  /\ \A v \in VIDs : Volt(v) \in Volt(63) .. Volt(0)
  /\ \A v, w \in VIDs : v < w => Volt(v) >= Volt(w) + 2
  /\ \A v, w \in VIDs : v <= w => Volt(v) >= Volt(w)
  /\ \A v \in VIDs \ {63} : v + 1 \in VIDs /\ Volt(v + 1) >= Volt(v) - MaximumVoltageStep
  BY DEF VIDs, Volt, MaximumVoltageStep

\* The closest ID is at most half a step away.
LEMMA Closest ==
  ASSUME NEW volt \in Nat, NEW id \in ClosestIDs(volt)
  PROVE  /\ id \in VIDs
         /\ volt - 2 <= Volt(id) /\ Volt(id) <= volt + 2
         /\ volt < 124 => volt - 1 <= Volt(id) /\ id >= 31
         /\ volt >= 124 => id <= 31
  BY DEF ClosestIDs, VIDs, Volt

\* A step up ends above where it began, and at most 2 above where it was to end.
LEMMA ClosestAbove ==
  ASSUME NEW v \in VIDs, NEW id \in ClosestIDs(Volt(v) + MaximumVoltageStep)
  PROVE  /\ id \in VIDs /\ Volt(v) < Volt(id)
         /\ Volt(id) - Volt(v) <= IF v = 32 THEN MaximumVoltageStep + 2 ELSE MaximumVoltageStep
  BY DEF ClosestIDs, VIDs, Volt, MaximumVoltageStep

-----------------------------------------------------------------------------
(* Types, and where the steps are: whoever disturbs the call. *)

TypeWay == TypeOK /\ WayInv

LEMMA Facts ==
  /\ FieldSize \in Nat \ {0} /\ ByteSize \in Nat \ {0} /\ FieldSize <= ByteSize
  /\ FIDs \subseteq Nat /\ 0 \in FIDs /\ 0 \in VIDs /\ VIDs \subseteq Nat
  /\ MaxVID \in VIDs /\ MaxVID > 0 /\ MaxVID <= 30
  /\ Needed \in [FIDs -> Nat]
  /\ \A f, g \in FIDs : f <= g => Needed[f] <= Needed[g]
  /\ \A f \in FIDs : Needed[f] <= Volt(MaxVID)
  /\ Foreign \subseteq PStates
  /\ \A r \in Requests :
       /\ r \in [volt : Nat, fid : FIDs]
       /\ Volt(63) <= r.volt /\ r.volt <= Volt(MaxVID)
  BY TransitionAssumption, VoltageAssumption DEF FIDs, VIDs, Volt

LEMMA TypeInit == Init => TypeWay
  <1> SUFFICES ASSUME Init PROVE TypeWay
    OBVIOUS
  <1>1. TypeOK
    BY Facts DEF Init, TypeOK, PStates, Places, Ways, NoTarget
  <1>2. WayInv
    BY DEF Init, WayInv, Ways
  <1> QED BY <1>1, <1>2 DEF TypeWay

\* A frequency ID fits its field and the BYTE, and one in range fits unchanged.
LEMMA Fields ==
  /\ \A f \in Nat : f % FieldSize \in FIDs
  /\ \A f \in Int : f % ByteSize \in Nat
  /\ \A f \in FIDs : f % FieldSize = f /\ f % ByteSize = f
  <1>1. FieldSize \in Nat \ {0} /\ ByteSize \in Nat \ {0} /\ FieldSize <= ByteSize
    BY Facts
  <1>2. \A a \in Int : a % FieldSize \in 0 .. FieldSize - 1
    BY Remainder, <1>1
  <1>3. \A a \in Int : a % ByteSize \in 0 .. ByteSize - 1
    BY Remainder, <1>1
  <1>4. ASSUME NEW f \in 0 .. FieldSize - 1
        PROVE  f % FieldSize = f /\ f % ByteSize = f
    <2>1. f \in Int /\ f \in 0 .. FieldSize - 1 /\ f \in 0 .. ByteSize - 1
      BY <1>1, <1>4
    <2> QED BY <2>1, Remainder, <1>1
  <1> QED BY <1>1, <1>2, <1>3, <1>4 DEF FIDs

LEMMA CallType == TypeWay /\ Call => TypeWay'
  <1> SUFFICES ASSUME TypeWay, Call PROVE TypeWay'
    OBVIOUS
  <1> USE DEF TypeWay
  <1>1. PICK now \in Results :
          /\ lastRead' = now /\ disturbed' = (now # register)
          /\ vid' = now.vid /\ fid' = now.fid /\ was' = now.fid
          /\ phase' = IF now.fid = request'.fid THEN "after" ELSE "before"
          /\ target' = IF now.fid = request'.fid THEN [volt |-> request'.volt, computed |-> FALSE]
                       ELSE RequiredForTransition(now.vid, now.fid, request')
    BY DEF Call
  <1>2. /\ at' = "voltage" /\ request' \in Requests
        /\ sound' = (Covered(register) /\ Even(register.fid) /\ Even(request'.fid))
        /\ UNCHANGED <<register, direction, goal>>
    BY DEF Call
  <1>3. now \in PStates /\ now.vid \in VIDs /\ now.fid \in FIDs /\ now.fid \in Nat
    BY <1>1, Facts DEF Results, TypeOK, PStates
  <1>4. request' \in [volt : Nat, fid : FIDs] /\ request'.volt \in Nat /\ request'.fid \in FIDs
        /\ Volt(63) <= request'.volt /\ request'.volt <= Volt(MaxVID)
    BY <1>2, Facts
  <1>5. Volt(now.vid) \in Nat /\ Volt(now.vid) >= Volt(63) /\ Volt(MaxVID) \in Nat
        /\ Volt(63) = 60 /\ Volt(MaxVID) > 100
    BY <1>3, Facts DEF Volt, VIDs
  <1> DEFINE t == RequiredForTransition(now.vid, now.fid, request')
  <1>6. /\ t \in [volt : Nat, computed : BOOLEAN]
        /\ Volt(63) <= t.volt /\ t.volt <= Volt(MaxVID)
        /\ t.computed => Volt(63) < t.volt
        /\ ~ t.computed => t.volt = Volt(MaxVID)
    BY <1>4, <1>5 DEF RequiredForTransition, RampVoltageOffset
  <1>7. target' \in [volt : Nat, computed : BOOLEAN] /\ TargetFits'
    <2> HIDE DEF t
    <2> QED BY <1>1, <1>4, <1>5, <1>6 DEF TargetFits, t
  <1>8. TypeOK'
    BY <1>1, <1>2, <1>3, <1>4, <1>7 DEF TypeOK, Places, Ways
  <1>9. WayInv'
    BY <1>2, <1>7 DEF WayInv, StepsFit, Ways
  <1> QED BY <1>8, <1>9

\* The voltages the steps are among.
LEMMA Among ==
  ASSUME TypeOK, TargetFits
  PROVE  /\ vid \in VIDs /\ Volt(vid) \in Nat /\ Volt(vid) >= 60 /\ Volt(vid) <= 248
         /\ target.volt \in Nat /\ target.computed \in BOOLEAN
         /\ 60 <= target.volt /\ target.volt <= 244
         /\ target.computed => 60 < target.volt
         /\ 0 < vid \/ target.volt + 2 < Volt(vid)
         /\ vid < 63 \/ Volt(vid) = 60
  <1>1. vid \in 0 .. 63 /\ target.volt \in Nat /\ target.computed \in BOOLEAN
    BY DEF TypeOK, VIDs
  <1>2. Volt(63) = 60 /\ Volt(MaxVID) \in Nat /\ Volt(MaxVID) <= 244
    BY Facts DEF Volt, VIDs
  <1>3. 60 <= target.volt /\ target.volt <= 244 /\ (target.computed => 60 < target.volt)
    BY <1>1, <1>2 DEF TargetFits
  <1>4. /\ Volt(vid) \in Nat /\ Volt(vid) >= 60 /\ Volt(vid) <= 248
        /\ vid = 0 => Volt(vid) = 248
        /\ vid = 63 => Volt(vid) = 60
    BY <1>1 DEF Volt
  <1>5. 0 < vid \/ target.volt + 2 < Volt(vid)
    BY <1>1, <1>3, <1>4
  <1>6. vid < 63 \/ Volt(vid) = 60
    BY <1>1, <1>4
  <1> QED BY <1>1, <1>3, <1>4, <1>5, <1>6 DEF VIDs

\* What the comparisons say.
LEMMA Compared ==
  ASSUME NEW volt \in Nat, NEW t \in [volt : Nat, computed : BOOLEAN]
  PROVE  /\ TRUE \in MayExceed(volt, t) => t.volt <= volt /\ (~ t.computed => t.volt < volt)
         /\ FALSE \in MayExceed(volt, t) => volt <= t.volt
         /\ TRUE \in MayStep(volt, t) => volt + MaximumVoltageStep <= t.volt
         /\ MayStep(volt, t) \subseteq BOOLEAN /\ MayExceed(volt, t) \subseteq BOOLEAN
         /\ FALSE \in MayStep(volt, t) =>
              /\ t.volt <= volt + MaximumVoltageStep
              /\ ~ t.computed /\ OnGrid(t.volt) => t.volt < volt + MaximumVoltageStep
  <1> DEFINE equal == volt = t.volt
             next == volt + MaximumVoltageStep
  <1>1. TRUE \in MayExceed(volt, t) => volt > t.volt \/ (equal /\ t.computed)
    BY Zenon DEF MayExceed
  <1>2. FALSE \in MayExceed(volt, t) => ~ volt > t.volt \/ equal
    BY Zenon DEF MayExceed
  <1>3. TRUE \in MayStep(volt, t) => next <= t.volt \/ next = t.volt
    BY Zenon DEF MayStep
  <1>4. FALSE \in MayStep(volt, t) =>
          ~ next <= t.volt \/ (next = t.volt /\ (t.computed \/ ~ OnGrid(t.volt)))
    BY Zenon DEF MayStep
  <1>5. t.volt \in Nat /\ t.computed \in BOOLEAN /\ MaximumVoltageStep = 4
    BY DEF MaximumVoltageStep
  <1>6. TRUE \in MayExceed(volt, t) => t.volt <= volt /\ (~ t.computed => t.volt < volt)
    BY <1>1, <1>5
  <1>7. FALSE \in MayExceed(volt, t) => volt <= t.volt
    BY <1>2, <1>5
  <1>8. TRUE \in MayStep(volt, t) => next <= t.volt
    BY <1>3, <1>5
  <1>9. FALSE \in MayStep(volt, t) =>
          t.volt <= next /\ (~ t.computed /\ OnGrid(t.volt) => t.volt < next)
    BY <1>4, <1>5
  <1>10. MayStep(volt, t) \subseteq BOOLEAN /\ MayExceed(volt, t) \subseteq BOOLEAN
    <2>1. (volt > t.volt) \in BOOLEAN /\ (next <= t.volt) \in BOOLEAN
      OBVIOUS
    <2> HIDE DEF next
    <2> QED BY <2>1, Zenon DEF MayStep, MayExceed, next
  <1> QED BY <1>6, <1>7, <1>8, <1>9, <1>10

LEMMA TransitionVoltageType == TypeWay /\ TransitionVoltage => TypeWay'
  <1> SUFFICES ASSUME TypeWay, TransitionVoltage PROVE TypeWay'
    OBVIOUS
  <1>1. /\ at = "voltage"
        /\ UNCHANGED <<register, lastRead, request, vid, fid, was, phase, target, disturbed, sound>>
    BY DEF TransitionVoltage
  <1>2. TypeOK /\ TargetFits
    BY <1>1 DEF TypeWay, WayInv, Ways
  <1>3. TargetFits'
    BY <1>1, <1>2 DEF TargetFits
  <1>4. Volt(vid) \in Nat /\ target \in [volt : Nat, computed : BOOLEAN]
    BY <1>2, Among DEF TypeOK
  <1>5. CASE /\ TRUE \in MayExceed(Volt(vid), target)
             /\ goal' \in ClosestIDs(target.volt) /\ direction' = 1
             /\ at' = "single"
    <2>1. goal' \in VIDs
      BY <1>5, <1>2, Among, Closest
    <2>2. Volt(vid) >= target.volt /\ (~ target.computed => Volt(vid) > target.volt)
      BY <1>4, <1>5, Compared, Among, <1>2
    <2>3. TypeOK'
      BY <1>1, <1>2, <1>5, <2>1 DEF TypeOK, Places, Ways
    <2>4. StepsFit'
      BY <1>1, <1>5, <2>2 DEF StepsFit
    <2> QED BY <1>3, <1>5, <2>3, <2>4 DEF TypeWay, WayInv, Ways
  <1>6. CASE /\ \E room \in MayStep(Volt(vid), target) : IF room THEN at' = "steps" ELSE Finish
             /\ UNCHANGED <<direction, goal>>
    <2>1. CASE TRUE \in MayStep(Volt(vid), target) /\ at' = "steps"
      <3>1. Volt(vid) + MaximumVoltageStep <= target.volt
        BY <1>4, <2>1, Compared
      <3>2. TypeOK' /\ StepsFit'
        BY <1>1, <1>2, <1>6, <2>1, <3>1 DEF TypeOK, StepsFit, Places, Ways
      <3> QED BY <1>3, <2>1, <3>2 DEF TypeWay, WayInv, Ways
    <2>2. CASE Finish
      BY <1>1, <1>2, <1>3, <1>6, <2>2 DEF TypeWay, TypeOK, WayInv, StepsFit, Finish, Places, Ways
    <2> QED BY <1>6, <2>1, <2>2 DEF MayStep
  <1> QED BY <1>5, <1>6 DEF TransitionVoltage, MayExceed

LEMMA StepUpType == TypeWay /\ StepUp => TypeWay'
  <1> SUFFICES ASSUME TypeWay, StepUp PROVE TypeWay'
    OBVIOUS
  <1>1. PICK next \in ClosestIDs(Volt(vid) + MaximumVoltageStep), result \in BOOLEAN :
          /\ vid' = next
          /\ Write(next, fid, result)
          /\ \E room \in MayStep(Volt(next), target) :
               at' = IF result /\ room THEN "steps" ELSE "stepped"
    BY DEF StepUp
  <1>2. /\ at = "steps"
        /\ UNCHANGED <<lastRead, request, fid, was, phase, target, direction, goal, sound>>
    BY DEF StepUp
  <1>3. TypeOK /\ TargetFits /\ Volt(vid) + MaximumVoltageStep <= target.volt
    BY <1>2 DEF TypeWay, WayInv, StepsFit, Ways
  <1>4. next \in VIDs /\ Volt(next) \in Nat /\ Volt(next) <= target.volt + 2
        /\ target \in [volt : Nat, computed : BOOLEAN]
    BY <1>1, <1>3, Among, ClosestAbove, VoltOrder DEF TypeOK, MaximumVoltageStep, VIDs, Volt
  <1>5. register' \in PStates /\ disturbed' \in BOOLEAN
    BY <1>1, <1>3, <1>4, Fields DEF Write, TypeOK, PStates
  <1>6. TypeOK'
    BY <1>1, <1>2, <1>3, <1>4, <1>5 DEF TypeOK, Places, Ways
  <1>7. TargetFits'
    BY <1>2, <1>3 DEF TargetFits
  <1>8. at' = "steps" => TRUE \in MayStep(Volt(next), target)
    BY <1>1
  <1>9. at' = "steps" => Volt(next) + MaximumVoltageStep <= target.volt
    BY <1>4, <1>8, Compared
  <1>10. at' \in {"steps", "stepped"} /\ StepsFit'
    BY <1>1, <1>2, <1>4, <1>9 DEF StepsFit
  <1> QED BY <1>6, <1>7, <1>10 DEF TypeWay, WayInv, Ways

LEMMA AfterStepsType == TypeWay /\ AfterSteps => TypeWay'
  <1> SUFFICES ASSUME TypeWay, AfterSteps PROVE TypeWay'
    OBVIOUS
  <1>1. /\ at = "stepped"
        /\ UNCHANGED <<register, lastRead, request, vid, fid, was, phase, target, disturbed, sound>>
    BY DEF AfterSteps
  <1>2. TypeOK /\ TargetFits /\ Volt(vid) <= target.volt + 2
    BY <1>1 DEF TypeWay, WayInv, StepsFit, Ways
  <1>3. CASE /\ TRUE \in MayExceed(Volt(vid), target)
             /\ goal' \in ClosestIDs(target.volt) /\ direction' = -1
             /\ at' = "single"
    <2>1. goal' \in VIDs /\ vid > 0
      BY <1>2, <1>3, Among, Closest
    <2>2. Volt(vid) >= target.volt
      BY <1>2, <1>3, Compared, Among DEF TypeOK
    <2>3. TypeOK' /\ TargetFits'
      BY <1>1, <1>2, <1>3, <2>1 DEF TypeOK, TargetFits, Places, Ways
    <2>4. StepsFit'
      BY <1>1, <1>3, <2>1, <2>2 DEF StepsFit
    <2> QED BY <1>3, <2>3, <2>4 DEF TypeWay, WayInv, Ways
  <1>4. CASE Finish /\ UNCHANGED <<direction, goal>>
    <2>1. TypeOK' /\ TargetFits' /\ StepsFit'
      BY <1>1, <1>2, <1>4 DEF TypeOK, TargetFits, StepsFit, Finish, Places, Ways
    <2> QED BY <1>1, <1>2, <1>4, <2>1 DEF TypeWay, TypeOK, WayInv, Finish
  <1> QED BY <1>3, <1>4 DEF AfterSteps, MayExceed

LEMMA SingleStepType == TypeWay /\ SingleStep => TypeWay'
  <1> SUFFICES ASSUME TypeWay, SingleStep PROVE TypeWay'
    OBVIOUS
  <1>1. /\ at = "single" /\ vid' = vid + direction
        /\ IF direction * vid' < direction * goal THEN at' = "single" ELSE Finish
        /\ UNCHANGED <<lastRead, request, fid, was, phase, target, direction, goal, sound>>
    BY DEF SingleStep
  <1>2. TypeOK /\ TargetFits /\ StepsFit /\ goal \in ClosestIDs(target.volt)
        /\ Volt(vid) >= target.volt /\ direction \in {1, -1} /\ goal \in VIDs
    BY <1>1 DEF TypeWay, WayInv, StepsFit, TypeOK, Ways
  <1>3. vid' \in VIDs
    <2>1. CASE direction = 1
      <3>1. Volt(vid) > 60
        BY <1>1, <1>2, <2>1, Among DEF StepsFit
      <3> QED BY <1>1, <1>2, <2>1, <3>1, Among DEF VIDs
    <2>2. CASE direction = -1
      BY <1>1, <1>2, <2>2, Among DEF StepsFit, VIDs
    <2> QED BY <1>2, <2>1, <2>2
  <1>4. register' \in PStates /\ disturbed' \in BOOLEAN
    BY <1>2, <1>3, Fields DEF SingleStep, Write, TypeOK, PStates
  <1>5. TargetFits'
    BY <1>1, <1>2 DEF TargetFits
  <1>6. CASE Finish
    <2>1. TypeOK'
      BY <1>1, <1>2, <1>3, <1>4, <1>6 DEF TypeOK, Finish, Places, Ways
    <2> QED BY <1>1, <1>2, <1>5, <1>6, <2>1 DEF TypeWay, TypeOK, WayInv, StepsFit, Finish
  <1>7. CASE at' = "single" /\ direction * vid' < direction * goal
    <2>1. TypeOK'
      BY <1>1, <1>2, <1>3, <1>4, <1>7 DEF TypeOK, Places, Ways
    <2>2. CASE direction = 1
      <3>1. vid' < goal
        <4>1. 1 * vid' < 1 * goal
          BY <1>7, <2>2, Zenon
        <4>2. vid' \in Int /\ goal \in Int
          BY <1>2, <1>3 DEF VIDs
        <4>3. \A a, b \in Int : 1 * a < 1 * b => a < b
          OBVIOUS
        <4> QED BY <4>1, <4>2, <4>3, Zenon
      <3>2. Volt(vid') > target.volt
        BY <1>2, <1>3, <3>1, Among DEF ClosestIDs, VIDs, Volt
      <3>3. Volt(vid') \in Int /\ target.volt \in Int
        BY <1>2, <1>3, Among DEF Volt, VIDs
      <3>4. StepsFit'
        BY <1>1, <1>2, <1>7, <2>2, <3>2, <3>3 DEF StepsFit
      <3> QED BY <1>5, <1>7, <2>1, <3>4 DEF TypeWay, WayInv, Ways
    <2>3. CASE direction = -1
      <3>1. goal < vid' /\ vid' < vid
        BY <1>1, <1>2, <1>3, <1>7, <2>3, Among DEF VIDs
      <3>2. vid' > 0 /\ Volt(vid') >= target.volt
        BY <1>2, <1>3, <3>1, Among DEF VIDs, Volt
      <3> QED BY <1>1, <1>2, <1>5, <1>7, <2>1, <2>3, <3>2 DEF TypeWay, WayInv, StepsFit, Ways
    <2> QED BY <1>2, <2>2, <2>3
  <1> QED BY <1>1, <1>6, <1>7

LEMMA FrequencyType ==
  TypeWay /\ (TransitionFrequency \/ LowerFrequency \/ HigherFrequency \/ OddStep) => TypeWay'
  <1>1. ASSUME TypeWay, TransitionFrequency PROVE TypeWay'
    <2>1. TypeOK /\ at = "frequency" /\ phase' = "after" /\ request \in Requests
          /\ target' = [volt |-> request.volt, computed |-> FALSE]
          /\ at' \in {"higher", "lower", "voltage"}
          /\ UNCHANGED <<register, request, vid, was, direction, goal, sound>>
      BY <1>1 DEF TransitionFrequency, TypeWay, TypeOK
    <2>2. lastRead' \in PStates /\ fid' \in Nat /\ disturbed' \in BOOLEAN
      BY <1>1, <2>1, Facts DEF TransitionFrequency, Results, TypeOK, PStates
    <2>3. request \in [volt : Nat, fid : FIDs] /\ Volt(63) <= request.volt
          /\ request.volt <= Volt(MaxVID)
      BY <2>1, Facts
    <2>4. target' \in [volt : Nat, computed : BOOLEAN] /\ TargetFits'
      BY <2>1, <2>3 DEF TargetFits
    <2>5. TypeOK'
      BY <2>1, <2>2, <2>4 DEF TypeOK, Places, Ways
    <2> QED BY <2>1, <2>4, <2>5 DEF TypeWay, WayInv, StepsFit, Ways
  <1>2. ASSUME TypeWay, LowerFrequency \/ HigherFrequency \/ OddStep PROVE TypeWay'
    <2>1. /\ TypeOK /\ at \in {"lower", "higher", "odd"} /\ phase = "after" /\ request \in Requests
          /\ at' \in {"lower", "higher", "odd", "voltage"}
          /\ UNCHANGED <<lastRead, request, vid, was, phase, target, direction, goal, sound>>
      BY <1>2 DEF LowerFrequency, HigherFrequency, OddStep, TypeWay, TypeOK, WayInv
    <2>2. fid' \in Nat
      BY <1>2, <2>1, Fields DEF LowerFrequency, HigherFrequency, OddStep, TypeOK
    <2>3. \E result \in BOOLEAN : Write(vid, fid', result)
      BY <1>2 DEF LowerFrequency, HigherFrequency, OddStep
    <2>4. register' \in PStates /\ disturbed' \in BOOLEAN
      BY <2>1, <2>2, <2>3, Fields DEF Write, TypeOK, PStates
    <2>5. TypeOK'
      BY <2>1, <2>2, <2>4 DEF TypeOK, Places, Ways
    <2>6. TargetFits' /\ StepsFit'
      BY <1>2, <2>1 DEF TypeWay, WayInv, TargetFits, StepsFit
    <2> QED BY <2>1, <2>5, <2>6 DEF TypeWay, WayInv
  <1> QED BY <1>1, <1>2

LEMMA OtherType == TypeWay /\ (Return \/ Others \/ Poll \/ UNCHANGED vars) => TypeWay'
  <1>1. ASSUME TypeWay, Return PROVE TypeWay'
    <2>1. TypeOK'
      BY <1>1, Facts DEF Return, TypeWay, TypeOK, NoTarget, Places, Ways
    <2> QED BY <1>1, <2>1 DEF Return, TypeWay, WayInv
  <1>2. ASSUME TypeWay, Others \/ Poll \/ UNCHANGED vars PROVE TypeWay'
    <2>1. /\ TypeOK /\ WayInv
          /\ UNCHANGED <<at, request, vid, fid, was, phase, target, direction, goal, sound>>
      BY <1>2 DEF Others, Poll, vars, locals, TypeWay
    <2>2. register' \in PStates /\ lastRead' \in PStates /\ disturbed' \in BOOLEAN
      BY <1>2, <2>1, Facts DEF Others, Poll, vars, TypeOK
    <2>3. TypeOK'
      BY <2>1, <2>2 DEF TypeOK
    <2>4. WayInv'
      BY <2>1 DEF WayInv, TargetFits, StepsFit
    <2> QED BY <2>3, <2>4 DEF TypeWay
  <1> QED BY <1>1, <1>2

LEMMA TypeStep == TypeWay /\ [Next]_vars => TypeWay'
  BY CallType, TransitionVoltageType, StepUpType, AfterStepsType, SingleStepType,
     FrequencyType, OtherType DEF Next, Step

\* Types, whoever else sets P-states: a voltage ID never leaves its six bits, and the voltage
\* on the way is within reach of IDs.
THEOREM TypeCorrect == Spec => []TypeWay
  BY TypeInit, TypeStep, PTL DEF Spec

-----------------------------------------------------------------------------
(* The core is covered on the way. *)

LEMMA EvenSteps ==
  /\ \A m, n \in Nat : Even(m) /\ Even(n) /\ m < n => m + 2 <= n /\ Even(m + 2) /\ Even(n - 2)
  /\ \A n \in Nat : Even(n) => n - (n % 2) = n
  <1>1. ASSUME NEW m \in Nat, NEW n \in Nat, Even(m), Even(n), m < n
        PROVE  m + 2 <= n /\ Even(m + 2) /\ Even(n - 2)
    BY <1>1 DEF Even
  <1>2. \A n \in Nat : Even(n) => n - (n % 2) = n
    BY DEF Even
  <1> QED BY <1>1, <1>2

\* The voltage that is asked for covers, and so does the ID below the last one above it.
LEMMA RequestCovers ==
  ASSUME NEW r \in Requests
  PROVE  /\ Needed[r.fid] \in Nat /\ Needed[r.fid] <= r.volt
         /\ \A v \in VIDs \ {63} : r.volt < Volt(v) => Needed[r.fid] <= Volt(v + 1)
  <1>1. r.volt \in Nat /\ r.fid \in FIDs /\ Needed[r.fid] \in Nat /\ Needed[r.fid] <= r.volt
    BY Facts, VoltageAssumption
  <1>2. ASSUME NEW v \in VIDs \ {63}, r.volt < Volt(v)
        PROVE  Needed[r.fid] <= Volt(v + 1)
    <2>1. v + 1 \in VIDs
      BY <1>2, VoltOrder
    <2>2. r.volt - Volt(v + 1) < (IF r.volt >= 124 THEN 4 ELSE 2)
      BY <1>1, <1>2 DEF VIDs, Volt
    <2> QED BY <2>1, <2>2, VoltageAssumption
  <1> QED BY <1>1, <1>2

\* In a call that nobody disturbs.
CallState ==
  /\ TypeOK /\ CallInv /\ Covered(register)
  /\ TargetFits /\ StepsFit
  /\ at = "frequency" => phase = "before"
  /\ at \in {"lower", "higher", "odd", "return"} => phase = "after"
  /\ request \in Requests

LEMMA InCall == TypeWay /\ CoverInv /\ Undisturbed /\ at # "idle" => CallState
  BY DEF TypeWay, TypeOK, WayInv, CoverInv, CallState

\* What a write that nobody disturbs leaves in the register.
LEMMA Written ==
  \A v \in VIDs, f \in FIDs, result \in BOOLEAN :
    Write(v, f, result) /\ ~ disturbed' =>
      register' = [vid |-> v, fid |-> f] /\ ~ disturbed /\ result
  BY Fields DEF Write

LEMMA CallCovers == TypeWay /\ CoverInv /\ Call => CoverInv'
  <1> SUFFICES ASSUME TypeWay, Call, Undisturbed' PROVE Covered(register)' /\ CallInv'
    BY DEF CoverInv
  <1>1. PICK now \in Results :
          /\ disturbed' = (now # register)
          /\ vid' = now.vid /\ fid' = now.fid /\ was' = now.fid
          /\ phase' = IF now.fid = request'.fid THEN "after" ELSE "before"
          /\ target' = IF now.fid = request'.fid THEN [volt |-> request'.volt, computed |-> FALSE]
                       ELSE RequiredForTransition(now.vid, now.fid, request')
    BY DEF Call
  <1>2. /\ at' = "voltage" /\ request' \in Requests
        /\ sound' = (Covered(register) /\ Even(register.fid) /\ Even(request'.fid))
        /\ register' = register
    BY DEF Call
  <1>3. /\ now = register /\ register \in PStates
        /\ Covered(register) /\ Even(register.fid) /\ Even(request'.fid)
    BY <1>1, <1>2 DEF Undisturbed, TypeWay, TypeOK
  <1>4. Covered(register)' /\ register' = [vid |-> vid', fid |-> fid'] /\ Even(fid') /\ Even(request'.fid)
    BY <1>1, <1>2, <1>3 DEF Covered, PStates
  <1>5. /\ vid' \in VIDs /\ Volt(vid') \in Nat /\ fid' \in FIDs
        /\ request'.fid \in FIDs /\ request'.volt \in Nat
        /\ Needed[fid'] \in Nat /\ Needed[request'.fid] \in Nat
        /\ Needed[fid'] <= Volt(vid') /\ Needed[request'.fid] <= request'.volt
        /\ Needed[fid'] <= Volt(MaxVID) /\ Needed[request'.fid] <= Volt(MaxVID)
    BY <1>1, <1>2, <1>3, Facts, RequestCovers DEF PStates, Covered, VIDs, Volt
  <1>6. CASE fid' = request'.fid
    BY <1>1, <1>2, <1>4, <1>6 DEF CallInv, AfterInv
  <1>7. CASE fid' # request'.fid
    <2>1. target' = RequiredForTransition(vid', fid', request') /\ phase' = "before"
      BY <1>1, <1>7
    <2>2. Needed[Upper'] <= target'.volt - (IF target'.computed THEN MaximumVoltageStep ELSE 0)
      <3> DEFINE base == IF request'.fid > fid' THEN request'.volt ELSE Volt(vid')
                 most == Volt(MaxVID)
                 need == Needed[Upper']
      <3>1. base \in Nat /\ most \in Nat /\ need \in Nat /\ need <= base /\ need <= most
        <4>1. MaxVID \in VIDs /\ Volt(MaxVID) \in Nat
          BY Facts DEF Volt, VIDs
        <4>2. CASE request'.fid > fid'
          BY <1>5, <4>1, <4>2 DEF Upper
        <4>3. CASE ~ request'.fid > fid'
          BY <1>5, <4>1, <4>3 DEF Upper
        <4> QED BY <4>2, <4>3
      <3>2. target' = IF 8 + base > most THEN [volt |-> most, computed |-> FALSE]
                      ELSE [volt |-> 8 + base, computed |-> TRUE]
        BY <2>1 DEF RequiredForTransition, RampVoltageOffset
      <3> HIDE DEF base, most, need
      <3>3. need <= target'.volt - (IF target'.computed THEN 4 ELSE 0)
        BY <3>1, <3>2
      <3> QED BY <3>3 DEF need, MaximumVoltageStep
    <2> QED BY <1>1, <1>2, <1>4, <1>7, <2>1, <2>2 DEF CallInv, BeforeInv
  <1> QED BY <1>6, <1>7

\* Enough for both frequencies is what the higher one needs.
LEMMA UpperNeeds ==
  ASSUME request.fid \in FIDs, fid \in FIDs, NEW volt \in Int, Needed[Upper] <= volt
  PROVE  Needed[fid] <= volt /\ Needed[request.fid] <= volt
  <1>1. \A f \in FIDs : f \in Nat /\ Needed[f] \in Nat
    BY Facts
  <1>2. Upper \in FIDs /\ fid <= Upper /\ request.fid <= Upper
    BY <1>1 DEF Upper
  <1>3. /\ Needed[fid] <= Needed[Upper] /\ Needed[request.fid] <= Needed[Upper]
        /\ Needed[fid] \in Int /\ Needed[request.fid] \in Int /\ Needed[Upper] \in Int
    <2>1. \A f, g \in FIDs : f <= g => Needed[f] <= Needed[g]
      BY Facts
    <2> QED BY <1>1, <1>2, <2>1
  <1> HIDE DEF Upper
  <1> QED BY <1>3

\* The facts that a call's step begins with.
LEMMA Begin ==
  ASSUME CallState
  PROVE  /\ register = [vid |-> vid, fid |-> fid]
         /\ fid \in FIDs /\ fid \in Nat /\ vid \in VIDs /\ Volt(vid) \in Nat
         /\ Needed[fid] \in Nat /\ Needed[fid] <= Volt(vid)
         /\ request.fid \in FIDs /\ Needed[request.fid] \in Nat
         /\ target.volt \in Nat /\ target.computed \in BOOLEAN
         /\ Upper \in FIDs /\ Needed[Upper] \in Nat
  <1>1. /\ register = [vid |-> vid, fid |-> fid] /\ register \in PStates
        /\ Needed[register.fid] <= Volt(register.vid)
        /\ request \in [volt : Nat, fid : FIDs] /\ target \in [volt : Nat, computed : BOOLEAN]
    BY DEF CallState, CallInv, TypeOK, Covered
  <1>2. fid \in FIDs /\ vid \in VIDs /\ Needed[fid] <= Volt(vid)
    BY <1>1 DEF PStates
  <1>3. Volt(vid) \in Nat
    BY <1>2 DEF VIDs, Volt
  <1>4. request.fid \in FIDs /\ Upper \in FIDs
    BY <1>1, <1>2 DEF Upper
  <1> QED BY <1>1, <1>2, <1>3, <1>4, Facts

\* Where there is no room for a step more there is enough.
LEMMA EnoughThere ==
  ASSUME NEW v \in VIDs, NEW volt \in Nat, NEW computed \in BOOLEAN, NEW need \in Nat,
         need <= volt - (IF computed THEN MaximumVoltageStep ELSE 0),
         ~ computed => volt = Volt(MaxVID),
         volt <= Volt(v) + MaximumVoltageStep,
         ~ computed /\ OnGrid(volt) => volt < Volt(v) + MaximumVoltageStep
  PROVE  need <= Volt(v)
  <1>1. Volt(v) \in Nat /\ MaximumVoltageStep = 4
    BY DEF VIDs, Volt, MaximumVoltageStep
  <1>2. CASE computed
    BY <1>1, <1>2
  <1>3. CASE ~ computed
    <2>1. OnGrid(volt) /\ MaxVID \in VIDs /\ MaxVID <= 30
      BY <1>3, Facts DEF OnGrid
    <2>2. Volt(MaxVID) < Volt(v) + 4
      BY <1>1, <1>3, <2>1
    <2>3. Volt(MaxVID) <= Volt(v) /\ Volt(MaxVID) \in Nat
      BY <2>1, <2>2 DEF VIDs, Volt
    <2> QED BY <1>1, <1>3, <2>3
  <1> QED BY <1>2, <1>3

LEMMA TransitionVoltageCovers == TypeWay /\ CoverInv /\ TransitionVoltage => CoverInv'
  <1> SUFFICES ASSUME TypeWay, CoverInv, TransitionVoltage, Undisturbed'
               PROVE  Covered(register)' /\ CallInv'
    BY DEF CoverInv
  <1>1. /\ at = "voltage"
        /\ UNCHANGED <<register, request, vid, fid, was, phase, target, disturbed, sound>>
    BY DEF TransitionVoltage
  <1>2. CallState
    BY <1>1, InCall DEF Undisturbed
  <1>3. Covered(register)' /\ UNCHANGED Upper
    BY <1>1, <1>2 DEF CallState, Covered, Upper
  <1>4. at' \in {"single", "steps", "frequency", "return"}
    BY DEF TransitionVoltage, Finish
  <1>5. at' = "frequency" => phase = "before"
    BY <1>1 DEF TransitionVoltage, Finish
  <1>6. at' = "return" => phase = "after"
    BY <1>1, <1>2 DEF TransitionVoltage, Finish, CallState, TypeOK
  <1>7. ASSUME at' = "frequency" PROVE Needed[Upper] <= Volt(vid)
    <2>1. phase = "before" /\ Volt(vid) \in Nat /\ Needed[Upper] \in Nat
          /\ target \in [volt : Nat, computed : BOOLEAN] /\ MaximumVoltageStep = 4
      BY <1>2, <1>5, <1>7, Begin DEF CallState, TypeOK, MaximumVoltageStep
    <2>2. FALSE \in MayStep(Volt(vid), target)
      <3>1. PICK room \in MayStep(Volt(vid), target) : ~ room
        BY <1>7 DEF TransitionVoltage
      <3>2. room \in BOOLEAN
        BY <2>1, Compared
      <3> QED BY <3>1, <3>2
    <2>3. /\ target.volt <= Volt(vid) + MaximumVoltageStep
          /\ ~ target.computed /\ OnGrid(target.volt) =>
               target.volt < Volt(vid) + MaximumVoltageStep
      BY <2>1, <2>2, Compared
    <2>4. Needed[Upper] <= target.volt - (IF target.computed THEN MaximumVoltageStep ELSE 0)
          /\ (~ target.computed => target.volt = Volt(MaxVID))
      BY <1>1, <1>2, <2>1 DEF CallState, CallInv, BeforeInv, TargetFits, Ways
    <2> QED BY <1>2, <2>1, <2>3, <2>4, Begin, EnoughThere
  <1> QED BY <1>1, <1>2, <1>3, <1>4, <1>5, <1>6, <1>7
          DEF CallState, CallInv, BeforeInv, AfterInv, Ways

LEMMA StepUpCovers == TypeWay /\ CoverInv /\ StepUp => CoverInv'
  <1> SUFFICES ASSUME TypeWay, CoverInv, StepUp, Undisturbed'
               PROVE  Covered(register)' /\ CallInv'
    BY DEF CoverInv
  <1>1. PICK next \in ClosestIDs(Volt(vid) + MaximumVoltageStep), result \in BOOLEAN :
          /\ vid' = next
          /\ Write(next, fid, result)
          /\ \E room \in MayStep(Volt(next), target) :
               at' = IF result /\ room THEN "steps" ELSE "stepped"
    BY DEF StepUp
  <1>2. /\ at = "steps" /\ sound
        /\ UNCHANGED <<lastRead, request, fid, was, phase, target, direction, goal, sound>>
    BY DEF StepUp, Undisturbed
  <1>3. ~ disturbed /\ CallState
    BY <1>1, <1>2, InCall DEF Undisturbed, Write
  <1>4. /\ register = [vid |-> vid, fid |-> fid] /\ fid \in FIDs /\ vid \in VIDs
        /\ Volt(vid) \in Nat /\ Needed[fid] \in Nat /\ Needed[fid] <= Volt(vid)
        /\ target \in [volt : Nat, computed : BOOLEAN]
    BY <1>3, Begin DEF CallState, TypeOK
  <1>5. next \in VIDs /\ Volt(vid) < Volt(next) /\ Volt(next) \in Nat
    BY <1>1, <1>4, ClosestAbove, VoltOrder DEF VIDs, Volt
  <1>6. register' = [vid |-> vid', fid |-> fid] /\ result
    BY <1>1, <1>4, <1>5, Written DEF Undisturbed
  <1>7. Covered(register)' /\ UNCHANGED Upper
    BY <1>1, <1>2, <1>4, <1>5, <1>6 DEF Covered, Upper
  <1>8. ASSUME at' = "stepped", phase = "before" PROVE Needed[Upper] <= Volt(next)
    <2>1. FALSE \in MayStep(Volt(next), target)
      <3>1. PICK room \in MayStep(Volt(next), target) : ~ room
        BY <1>1, <1>6, <1>8
      <3>2. room \in BOOLEAN
        BY <1>4, <1>5, Compared
      <3> QED BY <3>1, <3>2
    <2>2. /\ target.volt <= Volt(next) + MaximumVoltageStep
          /\ ~ target.computed /\ OnGrid(target.volt) =>
               target.volt < Volt(next) + MaximumVoltageStep
      BY <1>4, <1>5, <2>1, Compared
    <2>3. Needed[Upper] <= target.volt - (IF target.computed THEN MaximumVoltageStep ELSE 0)
      BY <1>2, <1>3, <1>8 DEF CallState, CallInv, BeforeInv, Ways
    <2>4. ~ target.computed => target.volt = Volt(MaxVID)
      BY <1>3, <1>8 DEF CallState, TargetFits
    <2> QED BY <1>3, <1>4, <1>5, <2>2, <2>3, <2>4, Begin, EnoughThere
  <1> QED BY <1>1, <1>2, <1>3, <1>6, <1>7, <1>8
          DEF CallState, CallInv, BeforeInv, AfterInv, Ways

LEMMA AfterStepsCovers == TypeWay /\ CoverInv /\ AfterSteps => CoverInv'
  <1> SUFFICES ASSUME TypeWay, CoverInv, AfterSteps, Undisturbed'
               PROVE  Covered(register)' /\ CallInv'
    BY DEF CoverInv
  <1>1. /\ at = "stepped" /\ at' \in {"single", "frequency", "return"}
        /\ at' = "frequency" => phase = "before"
        /\ at' = "return" => phase # "before"
        /\ UNCHANGED <<register, request, vid, fid, was, phase, target, disturbed, sound>>
    BY DEF AfterSteps, Finish
  <1>2. CallState
    BY <1>1, InCall DEF Undisturbed
  <1>3. Covered(register)' /\ UNCHANGED Upper
    BY <1>1, <1>2 DEF CallState, Covered, Upper
  <1> QED BY <1>1, <1>2, <1>3 DEF CallState, CallInv, BeforeInv, AfterInv, Ways

LEMMA SingleStepCovers == TypeWay /\ CoverInv /\ SingleStep => CoverInv'
  <1> SUFFICES ASSUME TypeWay, CoverInv, SingleStep, Undisturbed'
               PROVE  Covered(register)' /\ CallInv'
    BY DEF CoverInv
  <1>1. /\ at = "single" /\ sound /\ vid' = vid + direction
        /\ IF direction * vid' < direction * goal THEN at' = "single" ELSE Finish
        /\ UNCHANGED <<lastRead, request, fid, was, phase, target, direction, goal, sound>>
    BY DEF SingleStep, Undisturbed
  <1>2. PICK result \in BOOLEAN : Write(vid', fid, result)
    BY DEF SingleStep
  <1>3. ~ disturbed /\ CallState
    BY <1>1, <1>2, InCall DEF Undisturbed, Write
  <1>4. vid' \in VIDs /\ Volt(vid') \in Nat
    BY SingleStepType, <1>1 DEF TypeWay, TypeOK, VIDs, Volt
  <1>5. /\ register = [vid |-> vid, fid |-> fid] /\ fid \in FIDs /\ vid \in VIDs
        /\ Volt(vid) \in Nat /\ Needed[fid] \in Nat /\ Needed[fid] <= Volt(vid)
        /\ target.volt \in Nat /\ target.computed \in BOOLEAN
        /\ request.fid \in FIDs /\ Upper \in FIDs /\ Needed[Upper] \in Nat
        /\ direction \in {1, -1} /\ Volt(vid) >= target.volt
    BY <1>1, <1>3, Begin DEF CallState, TypeOK, StepsFit
  <1>6. register' = [vid |-> vid', fid |-> fid]
    BY <1>2, <1>4, <1>5, Written DEF Undisturbed
  <1>7. ASSUME phase = "before" PROVE Needed[Upper] <= Volt(vid')
    <2>1. Needed[Upper] <= target.volt - (IF target.computed THEN MaximumVoltageStep ELSE 0)
          /\ (~ target.computed => target.volt = Volt(MaxVID))
      BY <1>1, <1>3, <1>7 DEF CallState, CallInv, BeforeInv, TargetFits, Ways
    <2>2. CASE direction = -1
      <3>1. Volt(vid) < Volt(vid')
        BY <1>1, <1>4, <1>5, <2>2 DEF VIDs, Volt
      <3> HIDE DEF Upper
      <3> QED BY <1>4, <1>5, <2>1, <3>1 DEF MaximumVoltageStep
    <2>3. CASE direction = 1 /\ target.computed
      <3>1. Volt(vid) - 4 <= Volt(vid')
        BY <1>1, <1>4, <1>5, <2>3 DEF VIDs, Volt
      <3> HIDE DEF Upper
      <3> QED BY <1>4, <1>5, <2>1, <2>3, <3>1 DEF MaximumVoltageStep
    <2>4. CASE direction = 1 /\ ~ target.computed
      <3>1. Volt(MaxVID) < Volt(vid) /\ MaxVID \in VIDs
        BY <1>1, <1>3, <2>1, <2>4, Facts DEF CallState, StepsFit
      <3>2. Volt(MaxVID) <= Volt(vid') /\ Volt(MaxVID) \in Nat
        BY <1>1, <1>4, <1>5, <2>4, <3>1 DEF VIDs, Volt
      <3> HIDE DEF Upper
      <3> QED BY <1>4, <1>5, <2>1, <2>4, <3>2
    <2> QED BY <1>5, <2>2, <2>3, <2>4
  <1>8. Covered(register)'
    <2>1. CASE phase = "before"
      BY <1>4, <1>5, <1>6, <1>7, <2>1, UpperNeeds DEF Covered
    <2>2. CASE phase = "after" /\ direction = -1
      <3>1. Volt(vid) < Volt(vid')
        BY <1>1, <1>4, <1>5, <2>2 DEF VIDs, Volt
      <3> QED BY <1>4, <1>5, <1>6, <3>1 DEF Covered
    <2>3. CASE phase = "after" /\ direction = 1
      <3>1. fid = request.fid /\ request.volt < Volt(vid) /\ request \in Requests
        BY <1>1, <1>3, <2>3 DEF CallState, CallInv, AfterInv, TargetFits, StepsFit, Ways
      <3>2. vid \in VIDs \ {63} /\ vid' = vid + 1
        BY <1>1, <1>4, <1>5, <2>3 DEF VIDs
      <3> QED BY <1>5, <1>6, <3>1, <3>2, RequestCovers DEF Covered
    <2> QED BY <1>3, <1>5, <2>1, <2>2, <2>3 DEF CallState, TypeOK
  <1>9. UNCHANGED Upper /\ at' \in {"single", "frequency", "return"}
        /\ (at' = "frequency" => phase = "before") /\ (at' = "return" => phase # "before")
    BY <1>1 DEF Upper, Finish
  <1> QED BY <1>1, <1>3, <1>6, <1>7, <1>8, <1>9
          DEF CallState, CallInv, BeforeInv, AfterInv, Ways

LEMMA TransitionFrequencyCovers == TypeWay /\ CoverInv /\ TransitionFrequency => CoverInv'
  <1> SUFFICES ASSUME TypeWay, CoverInv, TransitionFrequency, Undisturbed'
               PROVE  Covered(register)' /\ CallInv'
    BY DEF CoverInv
  <1>1. /\ at = "frequency" /\ phase' = "after" /\ sound
        /\ target' = [volt |-> request.volt, computed |-> FALSE]
        /\ UNCHANGED <<register, request, vid, was, direction, goal, sound>>
    BY DEF TransitionFrequency, Undisturbed
  <1>2. PICK now \in Results :
          /\ disturbed' = (disturbed \/ now # register)
          /\ fid' = now.fid
          /\ at' = IF request.fid > was THEN "higher"
                   ELSE IF now.fid - 2 >= LowerTarget THEN "lower" ELSE "voltage"
    BY DEF TransitionFrequency
  <1>3. ~ disturbed /\ now = register /\ CallState /\ phase = "before"
    BY <1>1, <1>2, InCall DEF Undisturbed, CallState
  <1>4. /\ register = [vid |-> vid, fid |-> fid] /\ fid \in Nat /\ fid' = fid
        /\ was = fid /\ fid # request.fid /\ request.fid \in Nat
        /\ Needed[Upper] <= Volt(vid) /\ Even(fid) /\ Even(request.fid)
    BY <1>1, <1>2, <1>3, Begin, Facts DEF CallState, CallInv, BeforeInv
  <1>5. LowerTarget = request.fid
    BY <1>4, EvenSteps DEF LowerTarget, EvenTarget
  <1>6. Covered(register)' /\ register' = [vid |-> vid', fid |-> fid']
        /\ Even(fid') /\ Even(request.fid')
    BY <1>1, <1>3, <1>4 DEF CallState, Covered
  <1>7. CASE request.fid > fid
    BY <1>1, <1>2, <1>4, <1>6, <1>7 DEF CallInv, AfterInv, Upper, Ways
  <1>8. CASE request.fid < fid
    <2>1. request.fid + 2 <= fid
      BY <1>4, <1>8, EvenSteps
    <2>2. at' = "lower"
      BY <1>2, <1>3, <1>4, <1>5, <1>8, <2>1
    <2> QED BY <1>1, <1>4, <1>6, <1>8, <2>2 DEF CallInv, AfterInv, Ways
  <1> QED BY <1>4, <1>7, <1>8

LEMMA LowerFrequencyCovers == TypeWay /\ CoverInv /\ LowerFrequency => CoverInv'
  <1> SUFFICES ASSUME TypeWay, CoverInv, LowerFrequency, Undisturbed'
               PROVE  Covered(register)' /\ CallInv'
    BY DEF CoverInv
  <1>1. /\ at = "lower" /\ sound /\ fid' = (fid - 2) % ByteSize
        /\ at' = IF fid' > LowerTarget THEN "lower" ELSE "voltage"
        /\ UNCHANGED <<lastRead, request, vid, was, phase, target, direction, goal, sound>>
    BY DEF LowerFrequency, Undisturbed
  <1>2. PICK result \in BOOLEAN : Write(vid, fid', result)
    BY DEF LowerFrequency
  <1>3. ~ disturbed /\ CallState /\ phase = "after"
    BY <1>1, <1>2, InCall DEF Undisturbed, Write, CallState
  <1>4. /\ fid \in FIDs /\ fid \in Nat /\ request.fid \in Nat /\ vid \in VIDs
        /\ request.fid < fid /\ Even(fid) /\ Even(request.fid)
        /\ Needed[fid] <= Volt(vid) /\ Volt(vid) \in Nat
    BY <1>1, <1>3, Begin, Facts DEF CallState, CallInv, AfterInv
  <1>5. LowerTarget = request.fid /\ request.fid + 2 <= fid /\ Even(fid - 2)
    BY <1>4, EvenSteps DEF LowerTarget, EvenTarget
  <1>6. fid - 2 \in FIDs
    BY <1>4, <1>5, Facts DEF FIDs
  <1>7. fid' = fid - 2 /\ fid' \in FIDs
    BY <1>1, <1>6, Fields
  <1>8. register' = [vid |-> vid', fid |-> fid']
    BY <1>1, <1>2, <1>4, <1>7, Written DEF Undisturbed
  <1>9. Covered(register)'
    <2>1. Needed[fid'] <= Needed[fid] /\ Needed[fid] \in Nat /\ Needed[fid'] \in Nat
      BY <1>4, <1>7, Facts
    <2> QED BY <1>1, <1>4, <1>8, <2>1 DEF Covered
  <1>10. request.fid <= fid' /\ (at' = "lower" <=> request.fid < fid') /\ at' \in {"lower", "voltage"}
    BY <1>1, <1>4, <1>5, <1>7
  <1> QED BY <1>1, <1>3, <1>4, <1>5, <1>7, <1>8, <1>9, <1>10 DEF CallInv, AfterInv, Ways

LEMMA HigherFrequencyCovers == TypeWay /\ CoverInv /\ HigherFrequency => CoverInv'
  <1> SUFFICES ASSUME TypeWay, CoverInv, HigherFrequency, Undisturbed'
               PROVE  Covered(register)' /\ CallInv'
    BY DEF CoverInv
  <1>1. /\ at = "higher" /\ sound /\ fid' = (fid + 2) % ByteSize
        /\ UNCHANGED <<lastRead, request, vid, was, phase, target, direction, goal, sound>>
    BY DEF HigherFrequency, Undisturbed
  <1>2. PICK result \in BOOLEAN :
          /\ Write(vid, fid', result)
          /\ at' = IF fid' >= EvenTarget THEN "voltage" ELSE IF result THEN "higher" ELSE "odd"
    BY DEF HigherFrequency
  <1>3. ~ disturbed /\ CallState /\ phase = "after"
    BY <1>1, <1>2, InCall DEF Undisturbed, Write, CallState
  <1>4. /\ fid \in FIDs /\ fid \in Nat /\ request.fid \in Nat /\ request.fid \in FIDs /\ vid \in VIDs
        /\ fid < request.fid /\ Even(fid) /\ Even(request.fid)
        /\ Needed[request.fid] <= Volt(vid) /\ Volt(vid) \in Nat
    BY <1>1, <1>3, Begin, Facts DEF CallState, CallInv, AfterInv
  <1>5. EvenTarget = request.fid /\ fid + 2 <= request.fid /\ Even(fid + 2)
    BY <1>4, EvenSteps DEF EvenTarget
  <1>6. fid + 2 \in FIDs
    BY <1>4, <1>5, Facts DEF FIDs
  <1>7. fid' = fid + 2 /\ fid' \in FIDs
    BY <1>1, <1>6, Fields
  <1>8. register' = [vid |-> vid', fid |-> fid'] /\ result
    BY <1>1, <1>2, <1>4, <1>7, Written DEF Undisturbed
  <1>9. Covered(register)'
    <2>1. /\ Needed[fid'] <= Needed[request.fid]
          /\ Needed[request.fid] \in Nat /\ Needed[fid'] \in Nat
      BY <1>4, <1>5, <1>7, Facts
    <2> QED BY <1>1, <1>4, <1>8, <2>1 DEF Covered
  <1>10. fid' <= request.fid /\ (at' = "higher" <=> fid' < request.fid)
         /\ at' \in {"higher", "voltage"}
    BY <1>2, <1>4, <1>5, <1>7, <1>8
  <1> QED BY <1>1, <1>3, <1>4, <1>5, <1>7, <1>8, <1>9, <1>10 DEF CallInv, AfterInv, Ways

LEMMA OtherCovers ==
  TypeWay /\ CoverInv /\ (OddStep \/ Return \/ Others \/ Poll \/ UNCHANGED vars) => CoverInv'
  <1>1. ASSUME TypeWay, CoverInv, OddStep PROVE CoverInv'
    <2>1. at = "odd" /\ sound' = sound /\ (~ disturbed' => ~ disturbed)
      BY <1>1 DEF OddStep, Write
    <2>2. ~ Undisturbed
      BY <1>1, <2>1, InCall DEF CallState, CallInv, AfterInv
    <2> QED BY <2>1, <2>2 DEF CoverInv, Undisturbed
  <1>2. ASSUME TypeWay, CoverInv, Return PROVE CoverInv'
    BY <1>2 DEF Return, CoverInv, Undisturbed, Covered
  <1>3. ASSUME CoverInv, Others PROVE CoverInv'
    BY <1>3 DEF Others, CoverInv, Undisturbed
  <1>4. ASSUME CoverInv, Poll PROVE CoverInv'
    BY <1>4 DEF Poll, locals, CoverInv, Undisturbed, Covered
  <1>5. ASSUME CoverInv, UNCHANGED vars PROVE CoverInv'
    BY <1>5 DEF vars, locals, CoverInv, Undisturbed, Covered, CallInv, BeforeInv, AfterInv, Upper
  <1> QED BY <1>1, <1>2, <1>3, <1>4, <1>5

LEMMA CoverStep == TypeWay /\ CoverInv /\ [Next]_vars => CoverInv'
  BY CallCovers, TransitionVoltageCovers, StepUpCovers, AfterStepsCovers, SingleStepCovers,
     TransitionFrequencyCovers, LowerFrequencyCovers, HigherFrequencyCovers, OtherCovers
     DEF Next, Step

\* Whatever is asked for and however the comparisons of floats go: on the way of a call that
\* nobody disturbs the core never has less voltage than its frequency needs.
THEOREM CoveredOnTheWay == Spec => []VoltageCovers
  <1>1. Init => TypeWay /\ CoverInv
    BY TypeInit DEF Init, CoverInv, Undisturbed
  <1>2. TypeWay /\ CoverInv /\ [Next]_vars => TypeWay' /\ CoverInv'
    BY TypeStep, CoverStep
  <1>3. CoverInv => VoltageCovers
    BY DEF CoverInv, VoltageCovers
  <1> QED BY <1>1, <1>2, <1>3, PTL DEF Spec

-----------------------------------------------------------------------------
(* The steps that are allowed. *)

Allowed ==
  /\ register'.vid = register.vid \/ register'.fid = register.fid
  /\ register'.fid - register.fid \in {-2, 0, 2}
  /\ Volt(register'.vid) - Volt(register.vid)
       <= IF register.vid = 32 THEN MaximumVoltageStep + 2 ELSE MaximumVoltageStep

LEMMA StepUpAllowed == TypeWay /\ CoverInv /\ StepUp /\ Undisturbed' => Allowed
  <1> SUFFICES ASSUME TypeWay, CoverInv, StepUp, Undisturbed' PROVE Allowed
    OBVIOUS
  <1>1. PICK next \in ClosestIDs(Volt(vid) + MaximumVoltageStep), result \in BOOLEAN :
          Write(next, fid, result)
    BY DEF StepUp
  <1>2. ~ disturbed /\ CallState
    BY <1>1, InCall DEF StepUp, Undisturbed, Write
  <1>3. register = [vid |-> vid, fid |-> fid] /\ fid \in FIDs /\ fid \in Nat /\ vid \in VIDs
    BY <1>2, Begin
  <1>4. /\ next \in VIDs
        /\ Volt(next) - Volt(vid) <= IF vid = 32 THEN MaximumVoltageStep + 2 ELSE MaximumVoltageStep
    BY <1>1, <1>3, ClosestAbove
  <1>5. register' = [vid |-> next, fid |-> fid]
    BY <1>1, <1>3, <1>4, Written DEF Undisturbed
  <1> QED BY <1>3, <1>4, <1>5 DEF Allowed

LEMMA SingleStepAllowed == TypeWay /\ CoverInv /\ SingleStep /\ Undisturbed' => Allowed
  <1> SUFFICES ASSUME TypeWay, CoverInv, SingleStep, Undisturbed' PROVE Allowed
    OBVIOUS
  <1>1. PICK result \in BOOLEAN : Write(vid', fid, result)
    BY DEF SingleStep
  <1>2. ~ disturbed /\ CallState /\ at = "single" /\ vid' = vid + direction
    BY <1>1, InCall DEF SingleStep, Undisturbed, Write
  <1>3. /\ register = [vid |-> vid, fid |-> fid] /\ fid \in FIDs /\ fid \in Nat /\ vid \in VIDs
        /\ direction \in {1, -1}
    BY <1>2, Begin DEF CallState, TypeOK
  <1>4. vid' \in VIDs
    BY SingleStepType DEF TypeWay, TypeOK
  <1>5. register' = [vid |-> vid', fid |-> fid]
    BY <1>1, <1>3, <1>4, Written DEF Undisturbed
  <1>6. Volt(vid') - Volt(vid) <= 4
    <2>1. \A v \in VIDs, d \in {1, -1} : v + d \in VIDs => Volt(v + d) - Volt(v) <= 4
      BY DEF VIDs, Volt
    <2>2. vid + direction \in VIDs
      BY <1>2, <1>4
    <2>3. Volt(vid + direction) - Volt(vid) <= 4
      BY <1>3, <2>1, <2>2
    <2> QED BY <1>2, <2>3
  <1>7. Volt(vid') - Volt(vid) <= IF vid = 32 THEN MaximumVoltageStep + 2 ELSE MaximumVoltageStep
    <2>1. \A v \in VIDs : Volt(v) \in Nat
      BY DEF VIDs, Volt
    <2>2. Volt(vid') \in Nat /\ Volt(vid) \in Nat
      BY <1>3, <1>4, <2>1
    <2> QED BY <1>6, <2>2 DEF MaximumVoltageStep
  <1> QED BY <1>3, <1>5, <1>7 DEF Allowed

LEMMA FrequencyAllowed ==
  TypeWay /\ CoverInv /\ (LowerFrequency \/ HigherFrequency) /\ Undisturbed' => Allowed
  <1> SUFFICES ASSUME TypeWay, CoverInv, LowerFrequency \/ HigherFrequency, Undisturbed'
               PROVE  Allowed
    OBVIOUS
  <1>1. PICK result \in BOOLEAN : Write(vid, fid', result)
    BY DEF LowerFrequency, HigherFrequency
  <1>2. /\ ~ disturbed /\ CallState /\ phase = "after" /\ at \in {"lower", "higher"}
        /\ at = "lower" => fid' = (fid - 2) % ByteSize
        /\ at = "higher" => fid' = (fid + 2) % ByteSize
    BY <1>1, InCall DEF LowerFrequency, HigherFrequency, Undisturbed, Write, CallState
  <1>3. /\ register = [vid |-> vid, fid |-> fid] /\ fid \in FIDs /\ fid \in Nat /\ vid \in VIDs
        /\ Volt(vid) \in Nat /\ request.fid \in FIDs /\ request.fid \in Nat
        /\ Even(fid) /\ Even(request.fid)
    BY <1>2, Begin, Facts DEF CallState, CallInv
  <1>4. fid' \in FIDs /\ fid' - fid \in {-2, 2}
    <2>1. CASE at = "lower"
      <3>1. request.fid + 2 <= fid
        BY <1>2, <1>3, <2>1, EvenSteps DEF CallState, CallInv, AfterInv
      <3>2. fid - 2 \in FIDs
        BY <1>3, <3>1, Facts DEF FIDs
      <3> QED BY <1>2, <1>3, <2>1, <3>2, Fields
    <2>2. CASE at = "higher"
      <3>1. fid + 2 <= request.fid
        BY <1>2, <1>3, <2>2, EvenSteps DEF CallState, CallInv, AfterInv
      <3>2. fid + 2 \in FIDs
        BY <1>3, <3>1, Facts DEF FIDs
      <3> QED BY <1>2, <1>3, <2>2, <3>2, Fields
    <2> QED BY <1>2, <2>1, <2>2
  <1>5. register' = [vid |-> vid, fid |-> fid']
    BY <1>1, <1>3, <1>4, Written DEF Undisturbed
  <1>6. Volt(vid) - Volt(vid) <= IF vid = 32 THEN MaximumVoltageStep + 2 ELSE MaximumVoltageStep
    BY <1>3 DEF MaximumVoltageStep
  <1> QED BY <1>3, <1>4, <1>5, <1>6 DEF Allowed

LEMMA StepAllowed ==
  TypeWay /\ CoverInv /\ [Next]_vars => (Undisturbed' /\ register' # register => Allowed)
  <1>1. ASSUME Call \/ TransitionVoltage \/ AfterSteps \/ TransitionFrequency \/ Return \/ Poll
                 \/ UNCHANGED vars
        PROVE  register' = register
    BY <1>1 DEF Call, TransitionVoltage, AfterSteps, TransitionFrequency, Return, Poll, vars, locals
  <1>2. Others => ~ Undisturbed'
    BY DEF Others, Undisturbed
  <1>3. TypeWay /\ CoverInv /\ OddStep => ~ Undisturbed'
    <2> SUFFICES ASSUME TypeWay, CoverInv, OddStep, Undisturbed' PROVE FALSE
      OBVIOUS
    <2>1. ~ disturbed /\ sound /\ at = "odd"
      BY DEF OddStep, Write, Undisturbed
    <2>2. CallState
      BY <2>1, InCall DEF Undisturbed
    <2> QED BY <2>1, <2>2 DEF CallState, CallInv, AfterInv
  <1> QED BY <1>1, <1>2, <1>3, StepUpAllowed, SingleStepAllowed, FrequencyAllowed
          DEF Next, Step

\* What the code quotes from AMD's guide, for every call that nobody disturbs: no step changes
\* both IDs, a frequency ID changes by two, and a voltage rises by the maximum voltage step
\* at most, except from 0.7625 V.
THEOREM GuideObeyed == Spec => StepsAllowed
  <1>1. Init => TypeWay /\ CoverInv
    BY TypeInit DEF Init, CoverInv, Undisturbed
  <1>2. TypeWay /\ CoverInv /\ [Next]_vars => TypeWay' /\ CoverInv'
    BY TypeStep, CoverStep
  <1>3. TypeWay /\ CoverInv /\ [Next]_vars =>
          [Undisturbed' /\ register' # register => Allowed]_vars
    BY StepAllowed
  <1> QED BY <1>1, <1>2, <1>3, PTL DEF Spec, StepsAllowed, Allowed
=============================================================================
