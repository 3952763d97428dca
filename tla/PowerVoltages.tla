--------------------------- MODULE PowerVoltages ---------------------------
(***************************************************************************)
(* Which P-state (multiplier and voltage) a CPU core gets.  The DVFS thread  *)
(* asks for a frequency by load and looks up its voltage in the table that a *)
(* pointer names: the wanted voltages, or, around a suspend, the default     *)
(* (maximum) ones.  The pointer is switched by the service's handler of power *)
(* events and, some time after a resume, by a timer; clients change the       *)
(* maximum multiplier and stop and start the scaling.                        *)
(*                                                                         *)
(* Windows sends the power events and the hardware wakes up at a P-state of   *)
(* its own; WaitAsyncAndExec, which is not part of the repository, executes   *)
(* its function once, some time after it is called.                          *)
(* The library writes the voltage it is given.  There is a choice of voltages. *)
(*                                                                         *)
(* Bound: MaxTimers timers run at a time.                                   *)
(***************************************************************************)
EXTENDS VoltageTable

CONSTANTS
  IncreaseFactor, \* m_fCPUcoreFreqIncreaseFactor, in percent
  Threshold,      \* m_fCPUcoreLoadThresholdForIncreaseInPercent
  Loads,          \* loads of the CPU core, in percent
  Maxima,         \* maximum multipliers a client may set
  TablePairs,     \* pairs of the tables of wanted and of default voltages
  MaxTimers

\* The tables hold voltages that there are, and the wanted ones need not be as high as the
\* default ones, if there are any.
ASSUME PowerAssumption ==
  /\ IncreaseFactor \in Nat /\ IncreaseFactor > 100
  /\ Threshold \in 0 .. 100 /\ Loads \subseteq 0 .. 100
  /\ Maxima \subseteq Nat
  /\ \A p \in TablePairs :
       /\ DOMAIN p.wanted \subseteq Freqs /\ DOMAIN p.default \subseteq Freqs
       /\ DOMAIN p.wanted # {}
       /\ \A f \in DOMAIN p.wanted : p.wanted[f] \in 0 .. Max(Voltages)
       /\ \A f \in DOMAIN p.default : p.default[f] \in 0 .. Max(Voltages)
       /\ \A m \in Multipliers :
            CanInterpolate(p.wanted, Freq(m)) /\ CanInterpolate(p.default, Freq(m))
              => Interpolated(p.wanted, Freq(m)) <= Interpolated(p.default, Freq(m))
  /\ MaxTimers \in Nat

VARIABLES
  cpu,     \* the P-state the CPU core has
  seen,    \* DVFS thread: m_fMultiplier and m_fVoltageInVolt, read at the round's begin
  load,    \* DVFS thread: the CPU core's load
  asked,   \* DVFS thread: the frequency to set, a WORD
  table,   \* DVFS thread: the table its pointer was read to name
  dvfs,    \* DVFS thread: its next statement
  running, \* the scaling is ordered to run
  use,     \* m_p_std_set_voltageandfreqUseForDVFS
  maximum, \* m_fMaximumCPUcoreMultiplier
  power,   \* "woken" automatically: the user has not been there yet; "asleep unattended":
           \* the battery has failed then
  timers,  \* WaitAsyncAndExec(..., SetToWantedVoltages) that have not elapsed
  tables   \* the two tables

dvfsVars == <<seen, load, asked, table, dvfs>>
vars == <<cpu, dvfsVars, running, use, maximum, power, timers, tables>>

PStates == [volt : {NoVoltage} \union Voltages, multi : Multipliers]

\* A P-state the hardware may have by itself: a default one.
HardwareStates == {[volt |-> Max(Voltages), multi |-> m] : m \in Multipliers}

Init ==
  /\ cpu \in HardwareStates /\ seen = cpu
  /\ load \in Loads /\ asked = 0
  /\ use = "wanted" /\ table = "wanted"
  /\ dvfs = "poll" /\ running = TRUE
  /\ maximum = HighestMultiplier
  /\ power = "awake" /\ timers = 0
  /\ tables \in TablePairs

-----------------------------------------------------------------------------
(* The frequency by load: ChangeOperatingPointByLoad.  Frequencies are in     *)
(* hundredths of a MHz until they become a WORD.                             *)

Hundredths(multiplier) == 100 * Freq(multiplier)

\* Mutant: the factor alone need not reach the next multiplier.
RaisedByFactor(m) == (Min({Freq(m) * IncreaseFactor, Hundredths(maximum)}) \div 100) % Word

\* "Ensure the frequency is upped": if the next multiplier is the first that is
\* not less, it is taken.  no_element is no neighbour.
Raised(m) ==
  LET grown == Freq(m) * IncreaseFactor
      notLess == {n \in Multipliers : Hundredths(n) >= grown}
      ensured == IF /\ notLess # {}
                    /\ Index(Multipliers, Min(notLess)) = Index(Multipliers, m) + 1
                 THEN Hundredths(Min(notLess)) ELSE grown
  IN (Min({ensured, Hundredths(maximum)}) \div 100) % Word

Lowered(m) == (Max({Freq(m) * load, Hundredths(LowestMultiplier)}) \div 100) % Word

-----------------------------------------------------------------------------
(* The P-state for a frequency: SetFreqAndVoltageFromFreq.                  *)

\* By values: a function.
ClosestMultiplier[f \in Nat] ==
  Min({m \in Multipliers : \A n \in Multipliers : Abs(Freq(m) - f) <= Abs(Freq(n) - f)})

\* The lowest or highest entry for a frequency outside the table.
WithinTable(t, f) == Max({Lowest(t), Min({f, Highest(t)})})

\* Mutant: the voltage is that of the frequency asked for.
PStateOfAsked(t, f) ==
  [volt |-> Interpolated(t, WithinTable(t, f)), multi |-> ClosestMultiplier[WithinTable(t, f)]]

\* The entry of this frequency, or else the closest multiplier, with a voltage of
\* its own.
PState(t, f) ==
  LET entry == WithinTable(t, f)
      m == ClosestMultiplier[entry]
  IN [volt |-> IF entry \in DOMAIN t THEN t[entry] ELSE Interpolated(t, Freq(m)), multi |-> m]

\* Mutant: nothing is written if the multiplier is the same.
WrittenForMultiplier(t) ==
  IF DOMAIN t = {} THEN cpu
  ELSE LET p == PState(t, asked) IN IF p.multi = seen.multi THEN cpu ELSE p

\* Nothing is set without an entry, and nothing that is set according to what
\* was read at the round's begin.
Written(t) ==
  IF DOMAIN t = {} THEN cpu
  ELSE LET p == PState(t, asked) IN IF p = seen THEN cpu ELSE p

-----------------------------------------------------------------------------
(* The DVFS thread.                                                        *)

Awake == power \notin {"asleep", "asleep critically", "asleep unattended"}

DVFSGoes(from, to) ==
  /\ Awake
  /\ dvfs = from /\ dvfs' = to
  /\ UNCHANGED <<running, use, maximum, power, timers, tables>>

\* The loop's condition and GetUsageAndVoltageAndFreqForAllCoresThreadSafe.
Poll ==
  /\ DVFSGoes("poll", "decide")
  /\ running
  /\ seen' = cpu
  /\ load' \in Loads
  /\ UNCHANGED <<cpu, asked, table>>

ChangeOperatingPointByLoad ==
  /\ DVFSGoes("decide", "pointer")
  /\ asked' \in {IF load > Threshold THEN Raised(seen.multi) ELSE Lowered(seen.multi)}
  /\ UNCHANGED <<cpu, seen, load, table>>

\* Under m_mutexDVFSthreadMayChangeData.
ReadPointer ==
  /\ DVFSGoes("pointer", "set")
  /\ table' = use
  /\ UNCHANGED <<cpu, seen, load, asked>>

SetFreqAndVoltageFromFreq ==
  /\ DVFSGoes("set", "poll")
  /\ cpu' \in {Written(tables[table])}
  /\ UNCHANGED <<seen, load, asked, table>>

Round == Poll \/ ChangeOperatingPointByLoad \/ ReadPointer \/ SetFreqAndVoltageFromFreq

-----------------------------------------------------------------------------
(* Clients of the service.                                                 *)

StopOrStart ==
  /\ Awake /\ running' = ~ running
  /\ UNCHANGED <<cpu, dvfsVars, use, maximum, power, timers, tables>>

SetMaximumCPUcoreMultiplier ==
  /\ Awake /\ maximum' \in Maxima
  /\ UNCHANGED <<cpu, dvfsVars, running, use, power, timers, tables>>

-----------------------------------------------------------------------------
(* Power events.                                                           *)

PowerGoes(from, to) ==
  /\ power \in from /\ power' = to
  /\ UNCHANGED <<dvfsVars, running, maximum, tables>>

\* The pointer alone is switched: the voltage follows when the DVFS thread sets it.
SetToMaximumVoltages == use' = "default"
SetToWantedVoltages == use' = "wanted"

\* PBT_APMSUSPEND
Suspend ==
  /\ PowerGoes({"awake", "woken"}, "suspending")
  /\ SetToMaximumVoltages
  /\ UNCHANGED <<cpu, timers>>

\* The computer sleeps: without the event if the battery fails.
Sleep ==
  /\ PowerGoes({"suspending"}, "asleep")
  /\ UNCHANGED <<cpu, use, timers>>
SleepCritically ==
  /\ PowerGoes({"awake"}, "asleep critically") \/ PowerGoes({"woken"}, "asleep unattended")
  /\ UNCHANGED <<cpu, use, timers>>

\* PBT_APMRESUMEAUTOMATIC, for which nothing is done.
ResumeAutomatic ==
  /\ PowerGoes({"asleep"}, "woken")
  /\ cpu' \in HardwareStates
  /\ UNCHANGED <<use, timers>>

\* PBT_APMRESUMESUSPEND, when there is a user.
ResumeSuspend ==
  /\ PowerGoes({"woken"}, "awake")
  /\ timers < MaxTimers /\ timers' = timers + 1
  /\ UNCHANGED <<cpu, use>>

\* Mutant: the timer has no effect.
TimerIsLost ==
  /\ Awake /\ timers > 0
  /\ timers' = timers - 1
  /\ UNCHANGED <<cpu, dvfsVars, running, use, maximum, power, tables>>

TimerElapses ==
  /\ Awake /\ timers > 0
  /\ timers' = timers - 1
  /\ SetToWantedVoltages
  /\ UNCHANGED <<cpu, dvfsVars, running, maximum, power, tables>>

\* PBT_APMRESUMECRITICAL: the controller and the usage getter are told, the pointer stays.
\* A user who has not been there is still announced by a PBT_APMRESUMESUSPEND.
ResumeCritical ==
  /\ PowerGoes({"asleep critically"}, "awake") \/ PowerGoes({"asleep unattended"}, "woken")
  /\ cpu' \in HardwareStates
  /\ UNCHANGED <<use, timers>>

HandlePowerEvent == Suspend \/ ResumeAutomatic \/ ResumeSuspend \/ ResumeCritical

-----------------------------------------------------------------------------
Next ==
  \/ Round \/ StopOrStart \/ SetMaximumCPUcoreMultiplier
  \/ HandlePowerEvent \/ Sleep \/ SleepCritically \/ TimerElapses

Spec == Init /\ [][Next]_vars

\* While the computer is awake the DVFS thread goes on and time passes.
FairSpec == Spec /\ WF_dvfs(Round) /\ WF_timers(TimerElapses)

-----------------------------------------------------------------------------
(* Properties.                                                             *)

VoltageFor(name, m) == Interpolated(tables[name], Freq(m))
HasVoltageFor(name, m) == CanInterpolate(tables[name], Freq(m))

\* However requests, the two tables, the hardware's own P-states and stale
\* readings of them meet, the CPU core never has less than the wanted voltage of
\* the multiplier it has: voltage and multiplier always belong together.
VoltageEnough ==
  HasVoltageFor("wanted", cpu.multi) => cpu.volt >= VoltageFor("wanted", cpu.multi)

\* The highest multiplier that a table and a maximum allow.
Top(name, max) == ClosestMultiplier[WithinTable(tables[name], Freq(max))]

\* Load is served: while it stays above the threshold the core is raised up to
\* the top, however far apart the multipliers are and wherever the core was.
LoadServed ==
  /\ <>[](load > Threshold /\ running /\ Awake)
  /\ <>[][UNCHANGED <<use, maximum>>]_vars
  => <>[](DOMAIN tables[use] # {} => cpu.multi = Top(use, maximum))

\* "Set to higher voltages before suspending": if no timer of an earlier resume
\* runs or has elapsed meanwhile, the core gets the default voltage of its multiplier, or the computer
\* sleeps before that, or the scaling is stopped.
HigherBeforeSleep ==
  power = "suspending" /\ use = "default" /\ timers = 0 /\ DOMAIN tables["default"] # {}
    ~> \/ power # "suspending" \/ ~ running
       \/ HasVoltageFor("default", cpu.multi) /\ cpu.volt = VoltageFor("default", cpu.multi)

\* With a user there the core comes back to the wanted voltages, whatever
\* suspends, resumes and timers there were before.
BackToWanted ==
  <>[](power = "awake" /\ running) =>
    <>[](HasVoltageFor("wanted", cpu.multi) /\ cpu.volt = VoltageFor("wanted", cpu.multi))
=============================================================================
