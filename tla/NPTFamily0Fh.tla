---------------------------- MODULE NPTFamily0Fh ----------------------------
(*****************************************************************************)
(* SetCurrentVoltageAndMultiplier(...) of the library for AMD's family 0Fh:  *)
(* how a CPU core gets from one P-state to another.  The register takes a    *)
(* voltage ID and a frequency ID; the voltage is raised in steps, then the   *)
(* frequency is changed in steps, then the voltage is brought to what was    *)
(* asked for.                                                                *)
(*                                                                           *)
(* Voltages are in units of 6.25 mV, half a voltage ID's step below 0.775 V. *)
(* They are floats in the code: where two computed ones are equal a          *)
(* comparison of them may go either way.                                     *)
(* The register is hardware: a write takes effect or not, and the result of  *)
(* it is that of reading the status afterwards.  Waiting for the hardware is *)
(* left out.  Another program, or another thread of this one, may set a      *)
(* P-state at any time.                                                      *)
(* Frequency IDs are changed by two.  USE_STARTUP_FID_AS_MIN_FID, which no   *)
(* build file of the library defines, is left out.                           *)
(*****************************************************************************)
EXTENDS Integers

CONSTANTS
  Requests,  \* what the callers ask for: a voltage and a multiplier's frequency ID
  Foreign,   \* P-states that others set
  MaxVID,    \* s_maxVoltageInVolt's voltage ID
  Needed,    \* the voltage that each frequency ID needs
  AllowOdd,  \* ALLOW_ODD_FIDS_FOR_STEPPING_NUMBER_BELOW_3 is defined
  ByteSize,  \* of byCurrentFrequencyID: 256
  FieldSize  \* of a frequency ID in the register: 64

VIDs == 0 .. 63

\* GetVoltageInVolt(...): steps of 25 mV from 1.55 V, of 12.5 mV from 0.7625 V.
Volt(vid) == IF vid < 32 THEN 248 - 4 * vid ELSE 186 - 2 * vid

\* GetVoltageID(...): the closest one.  Of two that are as close either one.
\* From 0.775 V it is an ID of the larger steps.
ClosestIDs(volt) ==
  LET large == volt >= 124
      candidates == IF large THEN 0 .. 31 ELSE 31 .. 63
      halfStep == IF large THEN 2 ELSE 1
  IN {id \in candidates : Volt(id) - volt \in -halfStep .. halfStep}
OnGrid(volt) == \E vid \in VIDs : Volt(vid) = volt

MaximumVoltageStep == 4
RampVoltageOffset == 8

FIDs == 0 .. FieldSize - 1
PStates == [vid : VIDs, fid : FIDs]
Covered(p) == Volt(p.vid) >= Needed[p.fid]
Even(n) == n % 2 = 0

ASSUME TransitionAssumption ==
  /\ AllowOdd \in BOOLEAN
  /\ FieldSize \in Nat \ {0} /\ ByteSize \in Nat /\ FieldSize <= ByteSize
  /\ MaxVID \in VIDs \ {0}
  /\ Needed \in [FIDs -> Nat]
  /\ \A f, g \in FIDs : f <= g => Needed[f] <= Needed[g]
  /\ Requests \subseteq [volt : Volt(63) .. Volt(MaxVID), fid : FIDs]
  /\ Foreign \subseteq PStates
  /\ \A p \in Foreign : Volt(p.vid) <= Volt(MaxVID) /\ Covered(p)

\* What keeps the core covered: the voltage asked for is enough for the frequency asked
\* for, and if no ID stands for it one that is less than a step below it is, too; the
\* highest voltage is enough for every frequency, and it is 0.8 V at least, so that steps
\* of the maximum voltage step end at it.
ASSUME VoltageAssumption ==
  /\ MaxVID <= 30
  /\ \A f \in FIDs : Needed[f] <= Volt(MaxVID)
  /\ \A r \in Requests :
       /\ Needed[r.fid] <= r.volt
       /\ \A v \in VIDs :
            r.volt - Volt(v) < (IF r.volt >= 124 THEN 4 ELSE 2) => Needed[r.fid] <= Volt(v)

VARIABLES
  register,  \* CurrVID and CurrFID of FIDVID_STATUS
  lastRead,  \* lowmostMSRbits and highmostMSRbits: static, kept if a read fails
  at,        \* the next statement
  request,   \* fVoltageInVoltToSet and fMultiplierToSet
  vid,       \* the ID of fCurrentVoltageInVolt
  fid,       \* byCurrentFrequencyID
  was,       \* the frequency ID of fCurrentMultiplier
  phase,     \* "before" or "after" the frequency is changed
  target,    \* the voltage to transition to, and whether it is computed
  direction, goal, \* single steps: voltageIDdirection, voltageIDtoSet
  disturbed, \* history: an access failed or others set a P-state since the call began
  sound      \* history: the call began at a covered P-state, and asks for an even ID from an even one

locals == <<request, vid, fid, was, phase, target, direction, goal>>
vars == <<register, lastRead, at, locals, disturbed, sound>>

NoTarget == [volt |-> 0, computed |-> FALSE]

Init ==
  /\ register \in Foreign
  /\ lastRead = [vid |-> 0, fid |-> 0]
  /\ at = "idle"
  /\ request = [volt |-> 0, fid |-> 0] /\ vid = 0 /\ fid = 0 /\ was = 0
  /\ phase = "after" /\ target = NoTarget /\ direction = 1 /\ goal = 0
  /\ disturbed = FALSE /\ sound = FALSE

-----------------------------------------------------------------------------
(* The register *)

\* FIDVID_STATUS is read; without success what was read last counts.
Results == {register, lastRead}

\* FIDVID_CTL is written: the result is that of reading the status.
Write(v, f, result) ==
  \E written \in BOOLEAN :
    /\ register' = IF written THEN [vid |-> v, fid |-> f % FieldSize] ELSE register
    /\ disturbed' = (disturbed \/ ~ written \/ ~ result)

-----------------------------------------------------------------------------
(* What can come of comparing voltages *)

MayExceed(volt, t) ==
  IF volt = t.volt /\ t.computed THEN BOOLEAN ELSE {volt > t.volt}

\* There is room for a step: fCurrentVoltageInVolt * direction <= fBorderVoltage.
MayStep(volt, t) ==
  IF volt + MaximumVoltageStep = t.volt /\ (t.computed \/ ~ OnGrid(t.volt)) THEN BOOLEAN
  ELSE {volt + MaximumVoltageStep <= t.volt}

-----------------------------------------------------------------------------
(* SetCurrentVoltageAndMultiplier_AMD_NPT_family_0FH(...) *)

\* Mutant: the requested voltage counts for a lower frequency, the current one for a higher.
RequiredOfTheOther(v, f, asked) ==
  LET volt == RampVoltageOffset + IF asked.fid < f THEN asked.volt ELSE Volt(v)
  IN IF volt > Volt(MaxVID) THEN [volt |-> Volt(MaxVID), computed |-> FALSE]
     ELSE [volt |-> volt, computed |-> TRUE]

\* TransitionToVoltageRequiredForFrequencyTransition(...): the voltage of the P-state of
\* the higher frequency with the ramp voltage offset, and not more than the maximum.
RequiredForTransition(v, f, asked) ==
  LET volt == RampVoltageOffset + IF asked.fid > f THEN asked.volt ELSE Volt(v)
  IN IF volt > Volt(MaxVID) THEN [volt |-> Volt(MaxVID), computed |-> FALSE]
     ELSE [volt |-> volt, computed |-> TRUE]

\* It reads where the core is now, and takes other ways for a P-state of the same
\* multiplier and for others.
Call ==
  /\ at = "idle" /\ at' = "voltage"
  /\ request' \in Requests
  /\ \E now \in Results :
       /\ lastRead' = now
       /\ disturbed' = (now # register)
       /\ vid' = now.vid /\ fid' = now.fid /\ was' = now.fid
       /\ phase' = IF now.fid = request'.fid THEN "after" ELSE "before"
       /\ target' = IF now.fid = request'.fid THEN [volt |-> request'.volt, computed |-> FALSE]
                    ELSE RequiredForTransition(now.vid, now.fid, request')
  /\ sound' = (Covered(register) /\ Even(register.fid) /\ Even(request'.fid))
  /\ UNCHANGED <<register, direction, goal>>

-----------------------------------------------------------------------------
(* TransitionVoltage(...) *)

Finish == at' = IF phase = "before" THEN "frequency" ELSE "return"

\* direction: a voltage to set above the current one is reached in steps of the maximum
\* voltage step, as far as there is room for them, one below in single voltage IDs.
\* (For a decrease "MaximumVoltageStepInVolt * direction", direction being a BYTE of 255,
\* is larger than any voltage: there is never room for such a step.)
TransitionVoltage ==
  /\ at = "voltage"
  /\ \E exceeds \in MayExceed(Volt(vid), target) :
       \/ /\ exceeds
          /\ goal' \in ClosestIDs(target.volt) /\ direction' = 1
          /\ at' = "single"
       \/ /\ ~ exceeds
          /\ \E room \in MayStep(Volt(vid), target) : IF room THEN at' = "steps" ELSE Finish
          /\ UNCHANGED <<direction, goal>>
  /\ UNCHANGED <<register, lastRead, request, vid, fid, was, phase, target, disturbed, sound>>

\* ChangeVoltageByMaximumVoltageStep(...): what is kept is the voltage of the ID written,
\* whether or not it took effect.
StepUp ==
  /\ at = "steps"
  /\ \E next \in ClosestIDs(Volt(vid) + MaximumVoltageStep), result \in BOOLEAN :
       /\ vid' = next
       /\ Write(next, fid, result)
       /\ \E room \in MayStep(Volt(next), target) :
            at' = IF result /\ room THEN "steps" ELSE "stepped"
  /\ UNCHANGED <<lastRead, request, fid, was, phase, target, direction, goal, sound>>

\* TransitionVoltage(...): the steps ended above the voltage to set.  The single steps
\* then go up, too.
AfterSteps ==
  /\ at = "stepped"
  /\ \E exceeds \in MayExceed(Volt(vid), target) :
       \/ /\ exceeds
          /\ goal' \in ClosestIDs(target.volt) /\ direction' = -1
          /\ at' = "single"
       \/ /\ ~ exceeds
          /\ Finish
          /\ UNCHANGED <<direction, goal>>
  /\ UNCHANGED <<register, lastRead, request, vid, fid, was, phase, target, disturbed, sound>>

\* TransitionToVoltageInSingleVIDsteps(...): at least one step.
SingleStep ==
  /\ at = "single"
  /\ vid' = vid + direction
  /\ \E result \in BOOLEAN : Write(vid', fid, result)
  /\ IF direction * vid' < direction * goal THEN at' = "single" ELSE Finish
  /\ UNCHANGED <<lastRead, request, fid, was, phase, target, direction, goal, sound>>

-----------------------------------------------------------------------------
(* TransitionFrequency(...) *)

EvenTarget == request.fid - (request.fid % 2)
LowerTarget == IF AllowOdd THEN request.fid ELSE EvenTarget

\* Where the frequency ID is now is read anew; the direction is that of the multiplier
\* read at the begin.  Below two steps of one there is nothing to lower.
TransitionFrequency ==
  /\ at = "frequency"
  /\ \E now \in Results :
       /\ disturbed' = (disturbed \/ now # register)
       /\ lastRead' = now /\ fid' = now.fid
       /\ at' = IF request.fid > was THEN "higher"
                ELSE IF now.fid - 2 >= LowerTarget THEN "lower" ELSE "voltage"
  /\ phase' = "after" /\ target' = [volt |-> request.volt, computed |-> FALSE]
  /\ UNCHANGED <<register, request, vid, was, direction, goal, sound>>

\* TransitionToLowerFrequencyID_StepByStep(...): results are ignored.  From an odd ID the
\* BYTE leaps over a target of 0, again and again.
LowerFrequency ==
  /\ at = "lower"
  /\ fid' = (fid - 2) % ByteSize
  /\ \E result \in BOOLEAN : Write(vid, fid', result)
  /\ at' = IF fid' > LowerTarget THEN "lower" ELSE "voltage"
  /\ UNCHANGED <<lastRead, request, vid, was, phase, target, direction, goal, sound>>

\* Mutant: the requested voltage is written along with the frequency.
HigherFrequencyWithVoltage ==
  /\ at = "higher"
  /\ fid' = (fid + 2) % ByteSize
  /\ vid' \in ClosestIDs(request.volt)
  /\ \E result \in BOOLEAN :
       /\ Write(vid', fid', result)
       /\ at' = IF fid' >= EvenTarget THEN "voltage" ELSE IF result THEN "higher" ELSE "odd"
  /\ UNCHANGED <<lastRead, request, was, phase, target, direction, goal, sound>>

\* Mutant: the loop ends though the ID is still below the target.
HigherFrequencyOnce ==
  /\ at = "higher"
  /\ fid' = (fid + 2) % ByteSize
  /\ \E result \in BOOLEAN :
       /\ Write(vid, fid', result)
       /\ at' = IF result \/ fid' >= EvenTarget THEN "voltage" ELSE "odd"
  /\ UNCHANGED <<lastRead, request, vid, was, phase, target, direction, goal, sound>>

\* TransitionToHigherFrequencyID_StepByStep(...): a bad result ends the steps.
HigherFrequency ==
  /\ at = "higher"
  /\ fid' = (fid + 2) % ByteSize
  /\ \E result \in BOOLEAN :
       /\ Write(vid, fid', result)
       /\ at' = IF fid' >= EvenTarget THEN "voltage" ELSE IF result THEN "higher" ELSE "odd"
  /\ UNCHANGED <<lastRead, request, vid, was, phase, target, direction, goal, sound>>

\* ... and is followed by one step more, of one.
OddStep ==
  /\ at = "odd" /\ at' = "voltage"
  /\ fid' = fid + 1
  /\ \E result \in BOOLEAN : Write(vid, fid', result)
  /\ UNCHANGED <<lastRead, request, vid, was, phase, target, direction, goal, sound>>

\* The call's variables are gone.
Return ==
  /\ at = "return" /\ at' = "idle"
  /\ vid' = 0 /\ fid' = 0 /\ was' = 0
  /\ phase' = "after" /\ target' = NoTarget /\ direction' = 1 /\ goal' = 0
  /\ UNCHANGED <<register, lastRead, request, disturbed, sound>>

-----------------------------------------------------------------------------
(* Others *)

\* Another program, or another thread that sets P-states, has come to its end.
Others ==
  /\ register' \in Foreign
  /\ disturbed' = TRUE
  /\ UNCHANGED <<lastRead, at, locals, sound>>

\* GetCurrentVoltageAndFrequency(...) for a caller that wants to show it.
Poll ==
  /\ at = "idle"
  /\ lastRead' = register
  /\ UNCHANGED <<register, at, locals, disturbed, sound>>

Step ==
  \/ TransitionVoltage \/ StepUp \/ AfterSteps \/ SingleStep
  \/ TransitionFrequency \/ LowerFrequency \/ HigherFrequency \/ OddStep \/ Return

Next == Call \/ Step \/ Others \/ Poll

Spec == Init /\ [][Next]_vars

\* A call that was begun is a thread's: it gets on.
FairSpec == Spec /\ WF_vars(Step)

-----------------------------------------------------------------------------
(* Properties *)

Undisturbed == sound /\ ~ disturbed

\* In no state on the way from one P-state to another has the CPU core less voltage than
\* its frequency needs, if each P-state that is asked for gives it enough: a frequency is
\* raised after the voltage, and a voltage is lowered after the frequency, in spite of the
\* ramp voltage offset, its cap and the rounding to IDs between them.
VoltageCovers == Undisturbed => Covered(register)

\* What the code quotes from AMD's guide: "Software must hold the FID constant when
\* changing the VID", and the other way round; frequency IDs change by two at most, and
\* a voltage rises by the maximum voltage step at most, except where the distance of IDs
\* doubles: 37.5 mV from 0.7625 V, where 0.7875 V may count for 0.8 V.
StepsAllowed ==
  [][Undisturbed' /\ register' # register =>
       /\ register'.vid = register.vid \/ register'.fid = register.fid
       /\ register'.fid - register.fid \in {-2, 0, 2}
       /\ Volt(register'.vid) - Volt(register.vid)
            <= IF register.vid = 32 THEN MaximumVoltageStep + 2 ELSE MaximumVoltageStep]_vars

\* A call from an even frequency ID to an even one that nobody disturbs comes to its end,
\* and leaves the CPU core at the frequency that was asked for and within one step of the
\* voltage that was: at it if an ID stands for it and the steps of IDs are those of the
\* maximum voltage step.
Arrived ==
  /\ at = "idle"
  /\ register.fid = request.fid
  /\ Volt(register.vid) > request.volt - MaximumVoltageStep
  /\ Volt(register.vid) < request.volt + MaximumVoltageStep
  /\ OnGrid(request.volt) /\ request.volt >= 124 => Volt(register.vid) = request.volt
ReachesRequest == (at = "voltage" /\ Undisturbed) ~> (Arrived \/ disturbed)
=============================================================================
