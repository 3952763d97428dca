--------------------------- MODULE StableVoltage ---------------------------
(***************************************************************************)
(* The search for the lowest voltage at which a CPU core still calculates    *)
(* right.  Four kinds of thread take part:                                   *)
(*   - the GUI thread starts and stops searches,                             *)
(*   - the auto-configure thread searches for the highest multiplier, the    *)
(*     lowest, and those between by bisection, and completes the tables,     *)
(*   - the find thread lowers the voltage step by step, one countdown each,  *)
(*   - a test thread inside a dynamic library calculates and calls           *)
(*     VoltageTooLow() when a result is wrong.                               *)
(* They share flags and what was last set, without a lock, and a condition.  *)
(* The class of the condition is not part of the repository: its broadcast   *)
(* wakes who waits just then and no one else.  The library is not part of    *)
(* it either: Stop lets a test end some time, a begun call goes on.          *)
(*                                                                         *)
(* Bounds: auto-configure runs once and after the searches by hand; one test  *)
(* runs at a time.                                                         *)
(***************************************************************************)
EXTENDS VoltageTable

CONSTANTS
  Seconds,  \* m_uiNumberOfSecondsToWaitUntilVoltageIsReduced
  Inserted1st, \* m_std_vec_voltageandfreqInsertedByCPUcontroller, as a table
  Curves,   \* for each multiplier the highest voltage at which it miscalculates
  Sliders,  \* what the sliders of the dialog are set to
  Prevent   \* the button "prevent voltage below lowest stable" is pressed

ASSUME SearchAssumption ==
  /\ Seconds \in Nat \ {0}
  /\ DOMAIN Inserted1st \subseteq Freqs
  /\ \A f \in DOMAIN Inserted1st : Inserted1st[f] \in Voltages
  /\ \A c \in Curves : c \in [Multipliers -> 0 .. Max(Voltages) - 1]
  /\ Sliders \subseteq [volt : Voltages, multi : Multipliers]
  /\ Prevent \in BOOLEAN

VARIABLES
  cpu,        \* the voltage and multiplier the CPU core has
  lastSet,    \* m_lastSetCPUcoreVoltageInVolt and ...Multiplier
  exit,       \* m_vbExitFindLowestStableVoltage
  tooLow,     \* m_bVoltageWasTooLowCalled
  stopWanted, \* m_bStopFindingLowestStableCPUcoreVoltageRequestedViaUI
  gui,        \* the GUI thread's next statement
  find,       \* the find thread's; "none" if it does not run
  seconds,    \* m_secondsUntilCPUcoreVoltageDecrease
  volt,       \* find thread: the voltage at its array index
  multi,      \* find thread: fCPUcoreMultiplierToSet
  failed,     \* the find thread's result is settingVoltageFailed
  auto,       \* the auto-configure thread's next statement
  phase,      \* auto-configure: which of its three calls it is at
  pstate,     \* auto-configure: fVoltageInVolt and fMultiplier
  reached,    \* fLowestMultiplierWhereInstabilityWasReached
  notReached, \* fHighestMultiplierWhereInstabilityCouldntBeReached
  test,       \* the test thread's next statement
  handled,    \* HandleVoltageTooLow's local copy of lastSet
  stable,     \* m_stdsetvoltageandfreqLowestStable
  wanted,     \* m_stdsetvoltageandfreqWanted
  curve       \* what the hardware does

flags == <<exit, tooLow>>
tables == <<stable, wanted>>
findVars == <<find, seconds, volt, multi, failed>>
autoVars == <<auto, phase, pstate, reached, notReached>>
testVars == <<test, handled>>
vars == <<cpu, lastSet, flags, stopWanted, gui, findVars, autoVars, testVars, tables, curve>>

Init ==
  /\ cpu = [volt |-> Max(Voltages), multi |-> LowestMultiplier]
  /\ lastSet = cpu
  /\ exit = FALSE /\ tooLow = FALSE /\ stopWanted = FALSE
  /\ gui = "idle"
  /\ find = "none" /\ seconds = 0 /\ failed = FALSE
  /\ volt = NoVoltage /\ multi = LowestMultiplier
  /\ auto = "none" /\ phase = "highest" /\ pstate = cpu
  /\ reached = 0 /\ notReached = 0
  /\ test = "off" /\ handled = lastSet
  /\ stable = EmptyTable /\ wanted = EmptyTable
  /\ curve \in Curves

-----------------------------------------------------------------------------
(* Shared by the threads.                                                  *)

IsRunning == find # "none"

\* A broadcast wakes the find thread from either of its waits.
Woken == CASE find = "wait" -> "signaled"
           [] find = "handler wait" -> "count"
           [] OTHER -> find

\* ExitFindLowestStableVoltageThread: find' is left to its own step.
Exit ==
  /\ exit' = TRUE
  /\ find' = Woken

\* StabilizeVoltage: the next voltage above counts as the lowest stable one, that
\* with a margin is set and wanted.
Stabilize(v, m) ==
  \E lowestStable \in {NextVoltageAbove(v)} : \E safe \in {WithSafetyMargin(lowestStable)} :
    /\ cpu' = [volt |-> safe, multi |-> m]
    /\ stable' = Replaced(stable, Freq(m), lowestStable)
    /\ wanted' = Replaced(wanted, Freq(m), safe)

\* Start(): nothing if the find thread runs.
Start ==
  IF IsRunning THEN UNCHANGED <<exit, findVars>>
  ELSE /\ exit' = FALSE
       /\ find' = "begin"
       /\ UNCHANGED <<seconds, volt, multi, failed>>

-----------------------------------------------------------------------------
(* The GUI thread.                                                         *)

GuiIdle == gui = "idle" /\ gui' = "idle"
AutoWorks == auto \notin {"none", "ended"}

OnAutoConfigureVoltageSettingsButton ==
  /\ GuiIdle
  /\ auto = "none"
  /\ stopWanted' = FALSE
  /\ auto' = "begin"
  /\ UNCHANGED <<cpu, lastSet, flags, findVars, phase, pstate, reached, notReached, testVars,
                 tables, curve>>

\* The button to find the lowest stable voltage, when no search runs.
OnFindLowestStableVoltageButton ==
  /\ GuiIdle
  /\ auto = "none" /\ ~IsRunning
  /\ stopWanted' = FALSE
  /\ lastSet' \in Sliders
  /\ Start
  /\ UNCHANGED <<cpu, tooLow, autoVars, testVars, tables, curve>>

\* StopFindingLowestStableCPUcoreVoltage, of this button or of the other while
\* a search runs: the flag, then Stop().
RequestStop ==
  /\ gui = "idle" /\ gui' = "stop"
  /\ AutoWorks \/ IsRunning
  /\ stopWanted' = TRUE
  /\ UNCHANGED <<cpu, lastSet, flags, findVars, autoVars, testVars, tables, curve>>

\* The library's Stop: a test ends some time.
TestStopped == test' = IF test = "test" THEN "stopping" ELSE test

GuiStop ==
  /\ gui = "stop" /\ gui' = "idle"
  /\ IF IsRunning THEN Exit /\ TestStopped ELSE UNCHANGED <<exit, find, test>>
  /\ UNCHANGED <<cpu, lastSet, tooLow, stopWanted, seconds, volt, multi, failed, autoVars,
                 handled, tables, curve>>

-----------------------------------------------------------------------------
(* The find thread.                                                        *)

FindGoes(from, to) == find = from /\ find' = to
Local == UNCHANGED <<stopWanted, gui, autoVars, handled, curve>>

\* FindLowestStableVoltage, up to DecreaseVoltageStepByStep.
FindBegins ==
  /\ FindGoes("begin", "decrease")
  /\ test = "off" /\ test' = "test"
  /\ volt' = Min({v \in Voltages : v >= lastSet.volt})
  /\ multi' = lastSet.multi
  /\ failed' = FALSE
  /\ UNCHANGED <<cpu, lastSet, flags, seconds, tables>>
  /\ Local

\* The loop's condition and its first statements.
Decrease ==
  /\ find = "decrease"
  /\ IF volt # NoVoltage /\ ~exit
     THEN /\ find' = "check"
          /\ lastSet' = [lastSet EXCEPT !.volt = volt]
     ELSE find' = "end" /\ UNCHANGED lastSet
  /\ UNCHANGED <<cpu, flags, seconds, volt, multi, failed, test, tables>>
  /\ Local

MustNotBeSet == Prevent /\ BelowHighestInstable(stable, volt, Freq(multi))

\* Below the highest voltage known to be instable: the search ends as if the
\* library had called.  Stop() and the flag are its own.
Prevented ==
  /\ FindGoes("check", "end")
  /\ MustNotBeSet
  /\ Stabilize(volt, multi)
  /\ exit' = TRUE
  /\ tooLow' = TRUE
  /\ TestStopped
  /\ UNCHANGED <<lastSet, seconds, volt, multi, failed>>
  /\ Local

Checked ==
  /\ FindGoes("check", "set")
  /\ ~MustNotBeSet
  /\ UNCHANGED <<cpu, lastSet, flags, seconds, volt, multi, failed, test, tables>>
  /\ Local

\* SetCurrentVoltageAndMultiplier, and reading back what was set.
SetVoltage ==
  /\ FindGoes("set", "count")
  /\ cpu' = [volt |-> volt, multi |-> multi]
  /\ seconds' = Seconds
  /\ UNCHANGED <<lastSet, flags, volt, multi, failed, test, tables>>
  /\ Local

SetVoltageFails ==
  /\ FindGoes("set", "end")
  /\ failed' = TRUE
  /\ UNCHANGED <<cpu, lastSet, flags, seconds, volt, multi, test, tables>>
  /\ Local

\* Mutants: the unsigned index stays where it is at 0; counting goes on below 0.
StaysAtLowest == LET below == {v \in Voltages : v < volt}
                 IN IF below = {} THEN Min(Voltages) ELSE Max(below)

\* CountSecondsDown: its loop's condition, and the index when it is left.
NextLower == LET below == {v \in Voltages : v < volt}
             IN IF below = {} THEN NoVoltage ELSE Max(below)

Count ==
  /\ find = "count"
  /\ IF seconds # 0 /\ ~exit
     THEN find' = "wait" /\ UNCHANGED volt
     ELSE find' = "decrease" /\ volt' = NextLower
  /\ UNCHANGED <<cpu, lastSet, flags, seconds, multi, failed, test, tables>>
  /\ Local

Signaled ==
  /\ FindGoes("signaled", "flag")
  /\ seconds' = 0
  /\ UNCHANGED <<cpu, lastSet, flags, volt, multi, failed, test, tables>>
  /\ Local

\* A second has passed; it counts only if the test has used the core enough.
TimedOut ==
  /\ FindGoes("wait", "flag")
  /\ seconds' = seconds - 1
  /\ UNCHANGED <<cpu, lastSet, flags, volt, multi, failed, test, tables>>
  /\ Local

TimedOutIdle ==
  /\ FindGoes("wait", "flag")
  /\ UNCHANGED <<cpu, lastSet, flags, seconds, volt, multi, failed, test, tables>>
  /\ Local

\* "waiting for VoltageTooLow() to be finished"
TestFlag ==
  /\ find = "flag"
  /\ find' = IF tooLow THEN "handler wait" ELSE "count"
  /\ UNCHANGED <<cpu, lastSet, flags, seconds, volt, multi, failed, test, tables>>
  /\ Local

\* The thread's last statements: it runs, so Stop() stops the test and sets exit.
FindEnds ==
  /\ FindGoes("end", "none")
  /\ exit' = TRUE
  /\ TestStopped
  /\ UNCHANGED <<cpu, lastSet, tooLow, seconds, volt, multi, failed, tables>>
  /\ Local

FindStep ==
  \/ FindBegins \/ Decrease \/ Prevented \/ Checked \/ SetVoltage \/ SetVoltageFails
  \/ Count \/ Signaled \/ TimedOut \/ TimedOutIdle \/ TestFlag \/ FindEnds

-----------------------------------------------------------------------------
(* The test thread and VoltageTooLow().                                    *)

TestGoes(from, to) == test \in from /\ test' = to

Instable == cpu.volt <= curve[cpu.multi]

\* Mutant: the search is not ended before the handler works.
VoltageTooLowNoExit ==
  /\ TestGoes({"test", "stopping"}, "read")
  /\ Instable
  /\ UNCHANGED <<cpu, lastSet, flags, stopWanted, gui, findVars, autoVars, handled, tables, curve>>

\* HandleVoltageTooLow ends the find thread first of all.
VoltageTooLow ==
  /\ TestGoes({"test", "stopping"}, "read")
  /\ Instable
  /\ Exit
  /\ UNCHANGED <<cpu, lastSet, tooLow, stopWanted, gui, seconds, volt, multi, failed, autoVars,
                 handled, tables, curve>>

ReadLastSet ==
  /\ TestGoes({"read"}, "stabilize")
  /\ handled' = lastSet
  /\ UNCHANGED <<cpu, lastSet, flags, stopWanted, gui, findVars, autoVars, tables, curve>>

StabilizeVoltage ==
  /\ TestGoes({"stabilize"}, "flag")
  /\ Stabilize(handled.volt, handled.multi)
  /\ UNCHANGED <<lastSet, flags, stopWanted, gui, findVars, autoVars, handled, curve>>

SetFlag ==
  /\ TestGoes({"flag"}, "broadcast")
  /\ tooLow' = TRUE
  /\ UNCHANGED <<cpu, lastSet, exit, stopWanted, gui, findVars, autoVars, handled, tables, curve>>

HandlerBroadcasts ==
  /\ TestGoes({"broadcast"}, "off")
  /\ find' = Woken
  /\ UNCHANGED <<cpu, lastSet, flags, stopWanted, gui, seconds, volt, multi, failed, autoVars,
                 handled, tables, curve>>

TestEnds ==
  /\ TestGoes({"stopping"}, "off")
  /\ UNCHANGED <<cpu, lastSet, flags, stopWanted, gui, findVars, autoVars, handled, tables, curve>>

HandlerStep == ReadLastSet \/ StabilizeVoltage \/ SetFlag \/ HandlerBroadcasts
TestStep == VoltageTooLow \/ HandlerStep \/ TestEnds

-----------------------------------------------------------------------------
(* The auto-configure thread.                                              *)

AutoGoes(from, to) == auto = from /\ auto' = to

HighestStart ==
  LET f == Freq(HighestMultiplier)
  IN [volt |-> IF f \in DOMAIN Inserted1st THEN Inserted1st[f] ELSE Max(Voltages),
      multi |-> HighestMultiplier]

LowestStart ==
  IF DOMAIN Inserted1st = {} THEN [volt |-> lastSet.volt, multi |-> LowestMultiplier]
  ELSE LET f == Lowest(Inserted1st)
       IN [volt |-> IF f = LowestFreq THEN Inserted1st[f] ELSE lastSet.volt,
           multi |-> f \div ReferenceClock]

StartInTheMiddle(below, above) ==
  \E m \in {MiddleMultiplier(below, above)} :
    \E v \in StartVoltages(stable, wanted', m) : pstate' = [volt |-> v, multi |-> m]

AutoBegins ==
  /\ AutoGoes("begin", "reset")
  /\ pstate' = HighestStart
  /\ notReached' = HighestMultiplier
  /\ UNCHANGED <<cpu, lastSet, flags, stopWanted, gui, findVars, phase, reached, testVars,
                 tables, curve>>

\* StartFindingLowestStableVoltageAndWaitForItsTermination, up to the wait.
ResetFlag ==
  /\ AutoGoes("reset", "set")
  /\ tooLow' = FALSE
  /\ UNCHANGED <<cpu, lastSet, exit, stopWanted, gui, findVars, phase, pstate, reached,
                 notReached, testVars, tables, curve>>

SetLast ==
  /\ AutoGoes("set", "start")
  /\ lastSet' = pstate
  /\ UNCHANGED <<cpu, flags, stopWanted, gui, findVars, phase, pstate, reached, notReached,
                 testVars, tables, curve>>

StartSearch ==
  /\ AutoGoes("start", "join")
  /\ Start
  /\ UNCHANGED <<cpu, lastSet, tooLow, stopWanted, gui, phase, pstate, reached, notReached,
                 testVars, tables, curve>>

\* WaitForTermination has returned; what follows depends on the call.
Joined(p) ==
  /\ auto = "join" /\ find = "none"
  /\ phase = p
  /\ UNCHANGED <<cpu, lastSet, flags, stopWanted, gui, findVars, testVars, stable, curve>>

AfterHighest ==
  /\ Joined("highest")
  /\ UNCHANGED <<notReached, wanted>>
  /\ IF failed THEN auto' = "ended" /\ UNCHANGED <<phase, pstate, reached>>
     ELSE /\ reached' = IF tooLow \/ exit THEN pstate.multi ELSE reached
          /\ IF stopWanted THEN auto' = "exit" /\ UNCHANGED <<phase, pstate>>
             ELSE auto' = "reset" /\ phase' = "lowest" /\ pstate' = LowestStart

\* Mutant: the lowest multiplier gets no wanted voltage.
AfterLowestNotWanted ==
  /\ Joined("lowest")
  /\ UNCHANGED <<reached, wanted>>
  /\ IF stopWanted \/ tooLow THEN auto' = "exit" /\ UNCHANGED <<phase, pstate, notReached>>
     ELSE /\ notReached' = pstate.multi
          /\ phase' = "middle"
          /\ StartInTheMiddle(notReached', reached)
          /\ auto' = "reset"

AfterLowest ==
  /\ Joined("lowest")
  /\ UNCHANGED reached
  /\ IF stopWanted \/ tooLow
     THEN auto' = "exit" /\ UNCHANGED <<phase, pstate, notReached, wanted>>
     ELSE /\ notReached' = pstate.multi
          /\ wanted' = Inserted(wanted, Freq(pstate.multi), Min(Voltages))
          /\ phase' = "middle"
          /\ StartInTheMiddle(notReached', reached)
          /\ auto' = "reset"

\* A round of the bisection.
AfterMiddle ==
  /\ Joined("middle")
  /\ UNCHANGED <<phase, wanted>>
  /\ IF stopWanted THEN auto' = "complete" /\ UNCHANGED <<pstate, reached, notReached>>
     ELSE /\ IF tooLow \/ exit
             THEN reached' = pstate.multi /\ UNCHANGED notReached
             ELSE notReached' = pstate.multi /\ UNCHANGED reached
          /\ IF ArentDirectlyNeighboured(reached', notReached')
             THEN auto' = "reset" /\ StartInTheMiddle(notReached', reached')
             ELSE auto' = "complete" /\ UNCHANGED pstate

\* AddLowestStableVoltageForLowestAvailableMulti
WithLowest == Inserted(stable, LowestFreq, ExtrapolatedVoltage(stable, Lowest(stable), LowestFreq))

\* AddWantedVoltageForLowestAvailableMulti
WantedWithLowest ==
  LET v == ExtrapolatedVoltage(stable, Lowest(stable), LowestFreq)
  IN IF v <= 0 THEN wanted
     ELSE Replaced(wanted, LowestFreq, Max({WithSafetyMargin(v), Min(Voltages)}))

\* The wanted voltages may get an entry where their line meets the lowest voltage.
\* find() must find the entries it is used for.
EntriesExist == {LowestFreq, Lowest(stable)} \subseteq DOMAIN wanted

Complete ==
  /\ AutoGoes("complete", "exit")
  /\ IF DOMAIN stable = {} THEN UNCHANGED tables
     ELSE /\ stable' = WithLowest
          /\ \E w \in {WantedWithLowest} :
             \E f \in ExtrapolatedFreqs(w, Lowest(stable), Min(Voltages)) :
               LET met == IF f > Lowest(stable) THEN Inserted(w, f, Min(Voltages)) ELSE w
               IN wanted' = IF f > LowestFreq THEN Inserted(met, LowestFreq, Min(Voltages)) ELSE met
  /\ UNCHANGED <<cpu, lastSet, flags, stopWanted, gui, findVars, phase, pstate, reached,
                 notReached, testVars, curve>>

ExitFind ==
  /\ AutoGoes("exit", "ended")
  /\ Exit
  /\ UNCHANGED <<cpu, lastSet, tooLow, stopWanted, gui, seconds, volt, multi, failed, phase,
                 pstate, reached, notReached, testVars, tables, curve>>

AutoStep ==
  \/ AutoBegins \/ ResetFlag \/ SetLast \/ StartSearch
  \/ AfterHighest \/ AfterLowest \/ AfterMiddle \/ Complete \/ ExitFind

-----------------------------------------------------------------------------
GuiStep ==
  \/ OnAutoConfigureVoltageSettingsButton \/ OnFindLowestStableVoltageButton
  \/ RequestStop \/ GuiStop

Next == GuiStep \/ FindStep \/ TestStep \/ AutoStep

Spec == Init /\ [][Next]_vars

\* Every thread goes on.  A second passes with the core in use again and again:
\* the tests are made to calculate all the time.
Fairness ==
  /\ WF_gui(GuiStop)
  /\ WF_find(FindStep) /\ SF_find(TimedOut)
  /\ WF_test(HandlerStep) /\ WF_test(TestEnds)
  /\ WF_auto(AutoStep)

FairSpec == Spec /\ Fairness

-----------------------------------------------------------------------------
(* Properties.                                                             *)

\* What the tables are completed with is looked up by find(), whose result is
\* used unasked: the entries are there.
EntriesFound == auto = "complete" /\ stable # EmptyTable => EntriesExist

\* The bisection gets on: each search is for a multiplier between the two.
SearchNarrows ==
  [][AfterMiddle /\ auto' = "reset" => notReached' < pstate'.multi /\ pstate'.multi < reached']_vars

\* With the button pressed no voltage below the highest one known to be instable
\* is set, although it is set a while after the check: a handler that learns of an
\* instable voltage in between ends the search before it stores it.  (What is set
\* then is the last one, and the handler's stable voltage may be overwritten by it.)
SetAboveInstable ==
  [][SetVoltage /\ Prevent /\ ~exit => ~BelowHighestInstable(stable, volt, Freq(multi))]_vars

\* Auto-configure ends, unless its find thread waits for a handler.
AutoEnds == AutoWorks ~> (auto = "ended" \/ find = "handler wait")
=============================================================================
