# X86 info and control: TLA+ models, checks and proofs

X86 info and control ("CPUinfoAndControl") does Dynamic Voltage and Frequency
Scaling (DVFS) of x86 CPUs in user space. A *DVFS thread* reads load and
temperature of every core and writes multiplier, voltage and clock modulation.
It runs inside a Linux daemon, a Windows service or the wxWidgets GUI, which
start and stop it on signals, orders of the Service Control Manager (SCM),
messages of pipe or socket clients, or menu commands.

This directory holds models of the parts of that program that decide *when* the
thread runs, *what it does to a hot core* and *which voltage a core gets*; of the
search for the lowest stable voltage; and of the threads and messages by which
service and clients exchange data and the GUI shows it; and of how one CPU family gets from
one P-state to the next. Paths below are relative to the
repository's root, which `PROJECT.json` calls `src/`.

## 1. Inventory of the system

| Component | State | Operations | Modelled |
|---|---|---|---|
| **DVFS thread object** `Controller/DynFreqScalingThreadBase.*` | `m_vbRun`, `m_vbDVFSthreadStopped` (two volatile flags, no lock), one operating system thread per start | constructor, `Start`, `Stop`, `IsStopped`, `WaitForTermination` (empty), `ThreadFunction`, `Entry` | `DVFSThread` |
| **Decisions of a round** `DynFreqScalingThreadBase`, `CPUcoreLoadBasedDynVoltnFreqScaling`, `wxDynLibCPUcontroller`, `I_CPUcontroller` | temperatures stored per core, those saved when a row of hot rounds began, `m_b1stTimeInRowTooHot`, begin of the wait, multiplier and throttle level of the cores | `GetCPUcoreTooHot`, `HandleCPUtooHotDVFS`, `HandleCPUnotTooHot`, `SetLowerFrequencyFromAvailableMultipliers`, `SetNextLowerThrottleLevel` | `ThermalControl` |
| **Linux daemon** `Linux/daemon` | where `main` is, the condition it waits on, the pointer to the DVFS object | `main`, `init_daemon`, `child_handler` (SIGCONT, SIGUSR1, SIGTERM), destruction at the end of `main` | `DVFSDaemon` |
| **Windows service control** `Windows/Service/CPUcontrolService.cpp`, `Controller/CPUcontrolServiceBase.cpp` | service status and what the SCM was told, end event, `m_vbServiceInitialized`, `m_bProcess`, the order to the IPC data thread | `ServiceMain`, `ServiceCtrlHandlerEx`, `IPC_Message`, `Pause`, `Continue`, `Stop`, `StartDynVoltnFreqScaling`, `SetServiceStatus`, `~CPUcontrolService` | `DVFSService` |
| **Controlling base class** `CPUcontrolBase`, `CPUcontrolServiceBase` | pointers to DVFS object, CPU controller, usage getter; scaling type | `Initialize`, `EndDVFS`, `CreateDVFSthreadObject_Inline`, `StartDVFSviaThreadType`, `SetDynVoltnFreqScalingType_Inline` | in the modules of thread, daemon, service and GUI; choice of the scaling type not modelled |
| **Hand-off of core data to clients** `CPUcontrolService.cpp`, `Xerces/service` | published array and its size, two critical sections, two conditions and a mutex between pipe threads, the IPC data thread, the DVFS thread and `Stop` | `GetCurrentCPUcoreData_Inline`, `WakeUpCreateIPCdataThread`, `GetIPCdataThreadSafe`, `GetCurrentCPUcoreDataInLoopThreadFunc`, `SerializeXMLtoMemBuffer`, `EndAlterCurrentCPUcoreIPCdata` | `IPCData` |
| **Power events** `CPUcontrolService::HandlePowerEvent` | the pointer to the table of voltages in use, timers of resumes | suspend, resume, `SetToWantedVoltages`, `SetToMaximumVoltages` | `PowerVoltages` |
| **P-states and voltages** `I_CPUcontroller`, `ModelData/CPUcoreData.cpp`, `VoltageAndFreq` | ordered sets of (frequency, voltage) | interpolation, extrapolation, next voltage above, operating safety margin; frequency by load, `SetFreqAndVoltageFromFreq`, the write | `VoltageTable`, `PowerVoltages` |
| **Instable operation detection** `ModelData/InstableCPUcoreOperationDetection.cpp`, the voltage settings dialog | flags, the voltage last set, the tables of wanted and of lowest stable voltages | searches by hand, auto-configure with bisection, find thread, `HandleVoltageTooLow` | `VoltageTable`, `StableVoltage` |
| **Named pipe server/client** `Windows/NamedPipe` | one thread per client; function-local statics shared by them; the bytes in the pipe | connect, size, command, data, answer, disconnect, restart | `NamedPipe` |
| **Graphical user interface** `MainFrame.cpp`, `App.cpp` | what is attached, the per core arrays, the own DVFS thread, the section between drawing and IPC thread | timer and paint event, fetching the service's values, connecting, switching the own DVFS, closing | `MainFrame` (drawing, dialogs not) |
| **Replacing the CPU controller** (GUI) `CPUcontrolBase.cpp`, `wxWidgets/App.cpp` | pointers used by events and threads | attach, detach, delete of CPU controller and usage getter libraries | `MainFrame` |
| **P-state transition of AMD family 0Fh** `AMD/NPT_family_0Fh`, a library of the CPU controllers | the register with voltage and frequency ID; what was read last | `SetCurrentVoltageAndMultiplier`, `TransitionVoltage`, `TransitionFrequency`, steps up and down | `NPTFamily0Fh` |
| **Socket IPC** `wxWidgets/Controller/non-blocking_socket` | client list, framing | connect, receive, answer | not modelled |
| Register access of the other CPU families, configuration parsing, GUI drawing, logging, OS wrappers | | | not modelled, see section 7 |

How they interact. Every *controlling program* (daemon, service, GUI) holds one
pointer, `mp_dynfreqscalingthreadbase`. It creates the object once, starts
threads on it with `StartDVFSviaThreadType` and stops them by clearing
`m_vbRun`. Nobody joins a DVFS thread. The thread itself sets `m_vbRun` when it
begins and `m_vbDVFSthreadStopped` when it ends. The pipe threads ask
`IsStopped()` to find out who collects the core data. The DVFS thread calls the
CPU controller, a library, for all hardware access, and the table that
`m_p_std_set_voltageandfreqUseForDVFS` names for the voltages; power events of the
service switch that pointer, the voltage dialog's search completes the tables.
A client, the GUI or the task bar icon, sends commands through the pipe, whose
server threads run the handlers of `DVFSService` and `IPCData`. The GUI does all of
this for itself as well: it has libraries of its own, a DVFS thread of its own and
a thread that fetches the service's values.

What is hard about it:

* stop followed by start within one sleep of the loop (up to seconds): two or
  more DVFS threads on one object, each of which sets the object's flags;
* the flags are set by the new thread, later than whoever started it returns;
* a Unix signal handler, the SCM thread and pipe threads that run between any
  two steps of `main`/`ServiceMain` and of each other, without a lock, also
  before there is an object;
* four kinds of thread with two critical sections and two conditions hand the core
  data over; wake-ups are lost by design, one wait is made with a mutex locked;
* a thermal control spread over rounds: a flag, a begin time, a `WORD`
  difference of times, temperatures saved in one round and compared in another,
  stored temperatures that not every round refreshes, and throttling that three
  places in two classes apply and take back;
* voltage and multiplier that are looked up in a table that is switched between two
  steps, written by a thread that remembers what it read before the computer slept;
* four threads that look for a voltage with flags and one condition, no lock, and a
  search whose result is told from its being broken off by one flag;
* a stream of bytes framed by sizes, read by threads that share static variables;
* objects that events of the GUI delete while its own threads use them, and programs
  that destroy theirs at their end while threads that nobody joined go on;
* a P-state transition of many writes, each of which may fail, with rounded voltages, bytes
  that wrap, and other programs that write the same register;
* things that must happen in the end: an order to stop, SIGTERM, `Stop`, a hot
  core that is slowed down.

What makes the components correct. *Thread object*: an object that does not say
"stopped" has a collecting thread; a set run flag never hides that nobody works;
an order to stop that lasts empties the object. *Daemon* and *service*: they do
to the object only what the thread theorems allow; they end when told to; no
command crashes them between the making of the object and the order to end; every
thread stays in reach of an order to stop; the SCM's view equals the state.
*Thermal control*: time to cool between two reductions; throttling as last
resort; no speed-up in a hot round; comparisons within one row of hot rounds;
lasting heat leads to the lowest multiplier. *Hand-off*: a client gets a whole
tree, the last one published; every question is answered; `Stop` joins the IPC
data thread. *Voltages*: a core never has less than the wanted voltage of the
multiplier it has; higher voltages before sleep, the wanted ones some time after;
load is served. *Search*: it gets on and ends; no voltage known to be instable is
set. *Pipe*: client and thread agree on the command in hand; nobody waits for ever.
*P-state transition*: voltage before frequency on the way up and after it
on the way down, in the steps that the hardware allows, to where it was asked to go.
*GUI*: what is drawn fits; nobody uses what is deleted; one own DVFS thread works;
every event ends.

## 2. Modules

```
DVFSThread            the object and its threads, under ANY controlling program
  |- DVFSDaemon       EXTENDS it: main() and the signal handler
  |- DVFSService      EXTENDS it: ServiceMain, SCM thread, pipe clients
ThermalControl        what a round of the loop does to the cores
CoreDataBoard         what a client that asks for core data may get
  |- IPCData          INSTANCEs it: the threads that hand the data over
VoltageTable          operators: tables of voltages by frequency
  |- PowerVoltages    EXTENDS it: load, P-states, power events
  |- StableVoltage    EXTENDS it: the search for the lowest stable voltages
NamedPipe             both ends of the connection between client and service
NPTFamily0Fh          P-state transitions of one CPU family
MainFrame             the GUI: events, IPC thread, own DVFS, replaced libraries
MC<module>            constants for TLC;  <module>Proofs  theorems for TLAPS
DVFSProofs            theorems about DVFSThread and both programs that EXTEND it:
                      EXTENDS DVFSService, and INSTANCEs DVFSDaemon with the same object
```

**DVFSThread.** One action per statement that touches shared state, because the
flags are read and written without a lock. `Start`, `EntryBegins`, `CheckRun`,
`LoopBody`, `SleepEnds`, `EntryEnds` are the life of a thread;
`CreateDVFSthreadObject`, `StartThread`, `ClearRun`, `ProcessEnds` are all a
controlling program can do, at any moment. `entered` is a history variable.
A thread identity that has returned may be used again. `ThreadSpec` is the
*abstract specification* of a controlling program; daemon and service are shown
to implement it (same variables, so that the refinement mapping is the
identity), and every theorem about it holds for both.

**DVFSDaemon.** `main` is a program counter. The handler's SIGCONT and SIGUSR1
are one action each (each touches shared state once), SIGTERM is two:
`EndDVFS()` and `Signal()`. `Signal()` wakes `main` only if it waits. A NULL
object ends the process: by an assertion in `StartDVFSviaThreadType`, by a
dereference in `EndDVFS`. Several signals may be pending in any order.
`Destroy` is the end of `main`'s block: `~CPUcontrolBase` and `FreeRessources` delete
CPU controller, usage getter and access object, then the members and statics go; one
step stands for all of it. DVFS threads are not joined and the handler stays installed.
What they do from then on is undefined behaviour, a nondeterministic choice: the process
ends with a fate of its own (`UseDestroyed`), or the thread or handler goes on as if
nothing had happened (its usual action) until the process is gone (`Exit`). `ending` is a
history variable: a SIGTERM was handled or `Start()` failed.

**DVFSService.** `ServiceMain` and, per controlling thread `c`, a program
counter `at[c]` whose values name the *next* access of `Pause`, `Continue`,
`Stop`, `StartDynVoltnFreqScaling`, `get_current_CPU_data` and
`setVoltageAndFrequency` ("halt": it stops the object). `reported` is what the
SCM was told last. The SCM thread executes one control at a time; every client
has a thread of its own. Starting a thread may fail. `program` is the program's main
function: `StartServiceCtrlDispatcher` returns after STOPPED (`DispatcherReturns`), and the
service object, its local variable, is destroyed: `~CPUcontrolService` orders the IPC data
thread to end, joins it and deletes its thread object, as a `Stop` does, `FreeRessources`
deletes what the DVFS threads use, and `Exit` is the end of the process. Pipe clients,
`ServiceMain` and DVFS threads may be anywhere meanwhile; as in the daemon their use of
what is destroyed ends the process or does not (`UseDestroyed`). `ipcDataThread` tells
whether the thread object has been deleted: whoever waits for it after that, a second `Stop` or the
destructor, uses a deleted object (`WaitAndDelete`), again with either outcome. Between
two handler steps anything may happen, including the end of the process. A test or an
assignment that only the executing thread can see, logging and the answer to the client
are left out.

**ThermalControl.** One loop, one round per step: `temp` is what the sensors
show, `m_fTempInDegCelsius` what is stored. `GetCPUcoreTooHot` breaks off at the
first hot core (release build), so that the stored value of a later core may be
old: `Stored`. Abstractions: multipliers and throttle levels are ranks; the load
is left out, and wherever the code computes a multiplier from the load every
multiplier that some load leads to may be chosen; writes to the hardware
succeed; temperatures are read once per round. `m_wMilliSecondsPassed` is kept
modulo `WordSize`, as the code assigns a `DWORD` difference to a `WORD`.
`sinceLowered`, `waited` and `cooledMeanwhile` are history variables, of true,
not wrapped, time. `IdleRound` is a round in which the settings are not
confirmed or the load is not readable; `Entry` is a stop followed by a start of
the loop. `LoadBased` chooses between the class
`CPUcoreLoadBasedDynVoltnFreqScaling` and its base, which
`CreateDVFSthreadObject_Inline` constructs for temperature based scaling.

**CoreDataBoard** is the abstract specification of the hand-off: a board with the
tree last published; a client asks, is answered with what the board shows at one
moment, and has sent it. **IPCData** implements it (`ImplementsBoard`), with
`board <- shown`, a history variable: the tree as of the last time that
`m_wxcriticalsectionIPCdata` was left by a publisher; an answer is the pair of
array and size that a client copied, and a tree only if both belong together.
`at[p]` is the next statement of a pipe thread or of the IPC data thread: the
two steps of a reader and the three of a publisher inside the critical section
are separate actions. A tree is a value, making it may fail. The DVFS thread is
reduced to its sections, its broadcasts and whether it `IsStopped()`; one such
thread, because overlapping ones are `DVFSThread`'s subject. `Ask` is a command
that arrives. The commands that set the throttle temperature hold the same
section for an assignment and are left out, as is running out of memory inside
it. The conditions' class, `wxConditionBasedI_Condition`, is not in the
repository; the module's head says what its callers rely on and what
`MutexFree` and `WokenFrom` take from it.

**VoltageTable** has no state. A table is a function from frequencies to voltages,
because the `std::set` orders its elements by frequency alone: `Inserted` keeps what
is there, as `insert` does, `Replaced` is erase and insert. Voltages are integers
and computed ones are rounded down. `NoVoltage` and `NaN` stand for what the code
computes at the ends of the ranges. The binary search over arrays is not part of
the repository and is used as "the closest element".

**PowerVoltages.** The DVFS thread's round in four steps: read the P-state and the load,
ask for a frequency, look up the voltage in the table that the pointer names *now*,
write what differs from what was *read*. Meanwhile the SCM's events switch the
pointer, the hardware wakes up in a P-state of its own, timers of earlier resumes
elapse (they are not cancelled), clients set the maximum multiplier and switch the
scaling off and on. Frequencies are `WORD`s, modulo `Word`. The computer may sleep
before the DVFS thread has made another round, and its battery may fail, also when it has
woken by itself. The temperature is left out: a hot
round is `ThermalControl`'s subject.

**StableVoltage.** Program counters of four threads: `gui`, `find` (the countdown of one
second, the wait for a handler), `test` (the external library's thread and the
handler that it calls), `auto` (the highest multiplier, the lowest one, the bisection
between and the completion of the tables). `lastSet`, which handler and find thread
share without a lock, is copied into `handled` in a step of its own. `curve` is what
the hardware does: one choice per behaviour. Auto-configure runs once, and after the
searches by hand.

**NamedPipe.** `client[c]` and `thread[c]` are the next statements of `SendCommandAndGetResponse`
and of the server's thread for that connection, in front of each `ReadFile` and
`WriteFile` and after it, because the results of the calls are kept in static
variables (`static`) that all threads write. The bytes in the pipe are sequences: sizes
are four bytes, a command one, data and answers some. A pipe is open, "left" by the
client or "cut" by the server. The content of an answer is the number of the command it
answers, which the model needs to tell answers apart and the program does not send.
The service may stop and start again. `IPC_Message` is one step, which ends: whether
a handler can hang, on the sections, the mutex or the join of `Stop`, is asked in `IPCData`
(`EveryRequestAnswered`, `StopJoins`, `BroadcastIsReceived`) and in `DVFSService`
(`StopEndsService`), so that `SendEnds` is to be read together with these.

**NPTFamily0Fh.** One call of `SetCurrentVoltageAndMultiplier`, one step per access to the
register: read, raise the voltage by steps, read again, change the frequency by two
at a time, bring the voltage to what was asked. `vid` and `fid` are what the program takes the
core to have; `register` is what it has. A read or write may fail, and the result of a write
is that of reading the status, so that it tells nothing of the write. `Others` is another
program, or another thread of this one: the statics of this code have no lock. Voltages are in
6.25 mV; where two computed floats are equal a comparison goes either way (`MayExceed`,
`MayStep`), and of two IDs as close either is taken. The waits between writes, the core's number (there
is one register) and the time out of a pending write are left out. `Needed` is what each
frequency needs: the strictest that the requests allow. `sound` and `disturbed` are history
variables.

**MainFrame.** The GUI thread handles one event after the other; `gui` is its next
statement. The steps are those between which another thread may act: asking, entering
the section, `SetCPUcoreNumber`, drawing, leaving; for attaching: `EndDVFS`, delete the
old library's object, forget its pointers, create the new one. The IPC thread waits for
a request, fetches and parses core by core; it holds `IPCobject` while it fetches.
`thread[t]` are the GUI's own DVFS threads, each made with the libraries attached then
(`its`). A use of something deleted, of NULL or beyond an array ends the behaviour:
`fate` tells who and what. `uprooted` is a history variable: `SetCPUcoreNumber`, which
deletes the per core attributes together with the DVFS object and the usage getter they
name, has taken away what is in use. `left` is set when an iconized frame's event leaves
without leaving the section. Assumed: controllers come from libraries, not built in;
no nested event loops of modal message boxes; the bitmap exists; the task bar shows
usages; there are at least two wanted voltages; a thread can be created; the service
does not have more cores than this computer (`Documents`), because
`mp_ar_voltage_and_multi` is made once (`MainFrame.cpp:566`).

Definitions marked `Mutant:` are plausible bugs: each replaces one definition to
show that a property depends on it. No specification uses them.

## 3. Runs

| Run | Asks | Result |
|---|---|---|
| `daemon` | Any sequence of signals, three overlapping threads: are the flags of the object honest (`NotStoppedHasCollector`, `RunFlagHasThread`), does a lasting stop empty it (`StopDrains`), does the daemon refine `ThreadSpec`, does SIGTERM end a waiting `main` (`TermEndsDaemon`), does nothing crash it between the making of the object and the order to end (`NoLateCrash`)? | holds |
| `service` | Every SCM control and every client command interleaved, to the destruction of the service: `StatusReported`; what can crash it when (`NoLateCrash`); does every thread stay in reach of an order to stop (`NoThreadLost`)? | holds |
| `service_scm` | The SCM's controls and a client that stops, overlapping threads: after Continue the object runs (`ContinuedIsRunning`); an early stop by a client is not lost (`StopEndsService`) | holds |
| `thermal` | Load based object, two cores: `TimeToCool`, `ThrottledAtLowest`, `HotNeverFaster`, `ComparedWithinRow`, `HotEndsLowest` | holds |
| `ipc` | A client and all other threads interleaved: `SectionsOwned`, `ImplementsBoard`; `EveryRequestAnswered`; `StopJoins`: the join of `Stop` returns from wherever the IPC data thread is in its loop | holds |
| `ipc_stop` | "Lock the mutex so that the thread that called Wait() on the condition receives the wakeup" (`BroadcastIsReceived`) | violated: the broadcast comes before the first wait, or the IPC data thread owns the mutex while it waits for a DVFS thread that has ended |
| `voltage` | Auto-configure and searches by hand, four multipliers, a user who stops them: is what completes the tables there (`EntriesFound`), does the bisection get on (`SearchNarrows`) and end (`AutoEnds`), is nothing set below a voltage known to be instable (`SetAboveInstable`)? | holds |
| `power` | Load, three pairs of tables with gaps, suspend, resume, two timers: `VoltageEnough`, `LoadServed`, `HigherBeforeSleep`, `BackToWanted` | holds |
| `pipe` | Two clients, disconnects, a service that stops and restarts: `InStep`, `NeverSendsFreed`, `SendEnds`, all as long as no client has sent data with a command where they say so | holds |
| `transition` | Five requests, P-states that others set, failing reads and writes: `VoltageCovers`, `StepsAllowed`, `ReachesRequest`, from an even frequency ID to an even one without a disturbance | holds |
| `gui` | Events, IPC thread, two own DVFS threads, two controllers and a getter: `DrawnFits`, `UsesAlive`, `OneWorks`, `GuiGetsOn` | holds |
| `gui_access` | "If the dyn freq scaling thread is active the program would crash when it tries to get the CPU usage the next time and the usage getter is destroyed" (`DeletedIsNotUsed`) | violated: `EndDVFS` tells the thread to stop and does not wait; the getter or controller is deleted while the thread uses it |

The violations are disagreements of the code with its own comments; `PROJECT.json`, "findings", quotes the lines.

`NoLateCrash` says *until when* nothing crashes daemon and service, not that nothing ever
does: when they have been told to end, both destroy objects that others still use, and the
model crashes there as the code may (section 6). The property then limits the reasons to
these; its mutants show crashes before the order to end (a dropped pointer, a `main` that
does not wait). For the service the order is `m_vbAlterCPUcoreDataForIPC = false`,
by `Stop` or by the destructor; until then nothing is deleted.
`NoLateCrash` excludes a service without CPU core usage getter on purpose:
`Continue` calls `Init()` of the getter through a pointer that
`CPUcontrolBase.cpp:1041` allows to be NULL, and crashes (fate "NULL usage
getter"). `Stop` before the object exists crashes likewise ("NULL object").

### Bounds

* *Threads*: two overlapping threads already show every disagreement of flags
  and threads; the third lets an old and a new thread both differ from the one
  that sets a flag. *Objects*: `main` creates one, and the theorems are for any number; `StartObject` creates another
  only if it saw NULL before, so that the service with one client needs two.
* *Clients*: one client besides the SCM gives every overlap of two handlers.
  `service_scm` lets its client only stop: `ContinuedIsRunning` is about the SCM,
  and a liveness check with all commands is too large.
* *Hand-off*: one client and two trees: the client competes with the DVFS thread
  for one section and with it and the IPC data thread for the other, three threads
  publish, and there is a tree to mix up with another. With `Clients <- TwoClients`
  the safety properties hold as well (half a minute), and with one tree the
  liveness (three minutes); the theorems are for any number of clients.
* *Cores*: two, because a core is only influenced by cores *before* it.
  *Temperatures*: one below and two above the throttle temperature; "as warm",
  "warmer" and "cooler" can all happen while hot. *Multipliers and levels*: two
  and three, a step down and the bottom in both. *WordSize* 8 with a wait of 2
  and periods 1 and 3: the difference wraps within a few rounds, and a period
  can jump over the exact wait.
* *Voltages*: four multipliers, 1, 2, 3 and 5, so that the bisection's first middle, 3,
  has 2 on its other side and a second round follows (three multipliers give it a single
  round, and `SearchNarrows` says nothing); the hardware is instable at the lowest voltage
  of the highest multiplier. The countdown is one second, because only the order of its end, the
  flags and the broadcasts matters. In `power` the multipliers 2, 5, 6 have a gap that
  the increase by half does not bridge; the pairs of tables have both ends, lack the
  highest frequency or the lowest, or have no default voltages. Two timers: a suspend
  and a resume before the earlier resume's timer elapses.
* *Pipe*: two clients, one with two messages, for a static variable to be overwritten;
  the sizes of answers are 1 and 2, so that a wrong size shows.
* *GUI*: two controllers and two threads for a replaced controller and a thread told
  to stop next to a new one; one getter, because the second's life is the first's. One
  core keeps the liveness check to a minute; `DrawnFits` then tells a service without
  loads from one with them. With `LocalCores = 2` and `NoneOrTwo` all four properties hold
  as well (1.4 million states, three minutes). `gui_access` needs one of each.
* *P-state transition*: a byte of 16 values and a field of 8, so that the wrap is a few
  steps away; frequency IDs 0 to 6, both sides of where the distance of voltage IDs doubles,
  a voltage between two IDs, and offsets that stay below, meet and exceed the maximum. Accesses fail in
  any combination. With `AllowOdd = FALSE` the properties hold as well.
* Every counter is bounded by the code itself (`WORD`) or by `Long`, the cap of
  the history variables.

`CHECK_DEADLOCK FALSE` in the runs of daemon and service: a process that
has ended does nothing any more. Likewise in `voltage` (auto-configure has ended), `gui` and
`gui_access` (a closed or crashed program). The other runs check for deadlock.

### Fairness

* DVFS threads: weak fairness of each; the scheduler runs them and their sleep
  is finite. `main`, `ServiceMain` and a handler that has begun are scheduled.
* Hand-off: strong fairness of each thread, because who wants to enter a critical
  section waits for others that leave it again and again, and Windows wakes who
  waits. Questions, orders and the writing to the pipe are not fair.
* The service's main function, `program`, is not fair: no property needs it to go on.
* Nothing says that any signal, control or command ever comes, nor that the IPC
  data thread ever notices the order to end: that thread can miss its broadcast.
  `StopEndsService` therefore does not rest on the join in `Stop`.
* `ThermalControl!FairSpec`: the loop goes on making rounds and from some time on is
  neither restarted nor unable to read its data; a loop that is restarted for
  ever never compares two rounds.

* `StableVoltage`: every thread that has begun goes on; the countdown's `TimedOut` is
  strongly fair, because a second passes with the core in use again and again (the tests
  calculate all the time) though not at every moment. That the user starts or stops
  anything is not fair, nor that a voltage is found instable.
* `PowerVoltages`: weak fairness of the DVFS thread's step and of a timer's end, both only
  while the computer is awake. Power events and clients are not fair.
* `NamedPipe`: weak fairness of each client that has begun a command and of each server
  thread. That a client connects or sends, leaves, or the service stops is not fair.
* `NPTFamily0Fh`: weak fairness of a call's next step. Calls and other programs are not fair.
* `MainFrame`: weak fairness of the GUI thread inside an event and of the IPC thread: the
  service answers or the connection breaks. Events are not fair, nor are DVFS threads:
  the GUI waits for none.

## 4. What is proved

Every invariant and every action property that a passing run checks, and every
refinement, is a theorem: for every number of objects, threads, clients, cores,
libraries, messages, multipliers, voltages and levels, every width of `WORD`, every set of
periods. Few of the properties are inductive; what the inductive invariant says beyond the
property is named here.

**DVFSProofs**, the thread object and the two programs that control it.

* *Any program.* `ThreadInv == ThreadTypeOK /\ NotStoppedHasCollector /\
  RunFlagHasThread`; the two properties are inductive together with the types:
  the only step that takes a thread out of the loop saw the run flag cleared, the only
  one that leaves `Inside` sets "stopped". Theorems `ThreadTypes`, `CollectorExists`,
  `RunFlagHonest`, and `ObjectStays` (the pointer is not reset while an object exists).
* *Refinement.* Each step of service and daemon is a step of `ThreadSpec` or leaves its
  variables alone: `ServiceImplementsThread`, `DaemonImplementsThread`; hence
  `ServiceFlagsHonest`, `DaemonFlagsHonest`. (The refinement of the daemon is checked in a
  run as well; that of the service, with the same steps of the object, is proved only.)
* *Crashes and destruction.* `ServiceNoLateCrash` and `DaemonNoLateCrash` rest on `PointerKept`
  (`mp_dynfreqscalingthreadbase = NULL => constructed = {}`), which excludes the NULL object,
  and on who may begin to destroy. In the daemon `EndingInv`: `main` is at or behind its return, or a
  SIGTERM is half handled, only if `ending`. In the service `TeardownInv`: the thread object is
  deleted, the destructor has passed its first step, or a controller is at the join, only if the
  order to the IPC data thread has been given. The property by itself is not inductive: it
  speaks of the last step and says nothing of the states before it.
* *Lost threads.* `ServiceNoThreadLost` (`NoThreadLost`) from `ObjectFirst`: `ServiceMain` starts
  a thread, waits or has returned only after an object was made. With `PointerKept` the test of
  `StartDynVoltnFreqScaling` then always finds an object, so that the pointer is never written again.
* *Service.* `ServiceReported` proves `StatusReported` from `ReportInv`: whenever the
  reported state differs from the current one, some controller is at a step from
  which it will still report. The property speaks of idle controllers only and is not
  inductive. `ServiceContinues` proves `ContinuedIsRunning` from `ContinueInv`: when the
  SCM's Continue is about to report, the object runs (`Runs`: its run flag is set, or a
  thread is on its way that will set it) or a client that stops the service has set the end
  event or will. The only step that ends `Runs` is an order to stop, and the SCM gives no
  other one meanwhile. Hypothesis: no client pauses or halts, for a pause between start and
  report makes the report wrong, by design of the code; clients that start and ask may
  overlap, which the run leaves out.

**ThermalControlProofs.** `ThermalInv == TypeOK /\ TimeToCool /\ WordIsHonest`,
where `WordIsHonest` says that, as long as a row of hot rounds lasts, the
wrapped `WORD` never claims more time than has really passed since any core
was lowered. From it `ThermalTypes` and `ThermalTimeToCool`.
`ThermalThrottling` (`ThrottledAtLowest`) and `ThermalNeverFaster` (`HotNeverFaster`)
assume `LowestPstate = 1` and need one another: no core is made faster by unthrottling in
a hot round because a throttled one is at the lowest multiplier.
`ThermalWithinRow` (`ComparedWithinRow`) assumes `LoadBased` and uses `RowUnbroken`.

**IPCDataProofs.** `IPCImplementsBoard`, `IPCSections`, `IPCTypes`.
`IPCInv == TypeOK /\ SectionsOwned /\ PublishedInv`:
`SectionsOwned` says who is inside; `PublishedInv` that array and size are those
of the tree shown unless the owner of the section is just replacing them, that a
publisher has set the size when it goes on to the array, and that a reader about
to copy has read the size of the tree shown. Without it the copy of one client
could be of one tree and its size of another. `BoardStep` maps every step: the
assignment of the array is `Publish`, the copy `BoardAnswer`, all else but
asking and sending a stutter.

**NamedPipeProofs.** `TypeCorrect`. `DataAllocated` (`NeverSendsFreed`) from `AnswerInv`:
where an answer has a size, it has data, because every command sets the size before
the thread comes to the answer again. `StaysInStep` (`InStep`) from `AnswerInv /\ StepInv`. `StepInv`
says for every connection which pairs of statements its client and its thread can be at,
and which bytes are then in the pipe in each direction (`Resting`, `Asking`, `Answering`), and
that the static number of bytes to read is 0 or that of a message without data. This is
why the sharing of the static variables is harmless here: whichever thread wrote them,
they hold the same value. It is so only while no client sends data.

**MainFrameProofs.** `TypeCorrect`. `DrawnValuesFit` (`DrawnFits`) from `SectionInv`: who draws
or parses has entered the section. `OneThreadWorks` (`OneWorks`) from `WorkInv`: a thread that
scales and was not told to stop is the one that the GUI can end, unless `uprooted`; and
the attributes that name a thread name a getter. `UsedIsAlive` (`UsesAlive`) from
`AliveInv`: as long as nothing went wrong, the frame's and the application's pointer to the controller agree
and name one that lives, likewise the getter unless `uprooted`; while there is an own DVFS thread both are
there and no event is at a statement that deletes; a thread at work was made with the libraries
attached now. It rests on `SectionInv`, `WorkInv` and the types.

**NPTFamily0FhProofs.** `TypeCorrect`: types, which include that no voltage ID leaves its field,
and `WayInv`, which bounds the voltage on the way by the IDs. `CoveredOnTheWay` (`VoltageCovers`) from
`CoverInv`: in a call that nobody disturbs what the program takes the core to have is what it
has; before the frequency changes the target voltage is enough for the higher of the two frequencies, even
where rounding and a comparison of equal floats end the steps one early; afterwards the frequency is already
the requested one. `GuideObeyed` (`StepsAllowed`) follows from the same invariant, step by step.

**PowerVoltagesProofs.** `EnoughVoltage` (`VoltageEnough`). The first half is about the operators
of `VoltageTable`, for all tables, also those with one entry: what `Interpolated` returns is a number not
above the highest voltage, and the entry itself where there is one (`InterpolatedIs`); the multiplier closest to a
frequency of the table lies within the table (`Within`), so that the P-state for a frequency is one
multiplier with what the table has or interpolates for it (`PStateIs`). The invariant is then types and the property: it
does not matter which table the pointer names when it is read, because where both tables have a voltage the
default one is not lower, nor how old the multiplier read is, because multiplier and voltage are written
together or are those the core has.

**StableVoltageProofs.** `NoInstableSet` (`SetAboveInstable`) from `CheckInv`: between check and
setting no thread can learn of an instable voltage without raising the exit flag first, and no search
begins before the last one's handler is done. `CompletionFindsEntries` (`EntriesFound`) from `MultiInv` and
`EntryInv`: each stable voltage has a wanted one, and the lowest multiplier has its wanted voltage before the
bisection begins. `BisectionNarrows` (`SearchNarrows`) from `SearchInv`: the multiplier searched for
is strictly between the bounds, and a search that was joined has raised the exit flag, so that only the
upper bound moves.

### Assumptions

The named `ASSUME`s of the modules, which TLC evaluates in every run, and the hypotheses that
theorems state themselves. What they say beyond the types of the constants:

* `PowerAssumption`: where both tables have a voltage, the default one is at least the wanted
  one, and the tables' voltages do not exceed the highest available, with which the hardware wakes up: were a wanted
  voltage higher, the core would not have it until the first round.
* `VoltageAssumption` (family 0Fh): the requested voltage is enough for the requested frequency, also when it is
  rounded to the next ID; the highest voltage is enough for every frequency and is at least 0.8 V (ID 30).
* `MainFrameAssumption`: the service has no more cores than this computer (see section 2); names of objects differ.
* `PipeAssumption`: answers have at least one byte and messages less than 255, which is what a size
  byte less than 256 leaves besides the command.
* `ThreadsAssumption`: the SCM is not a pipe client.
* `LowestPstate = 1` and `LoadBased` for three theorems about hot cores: without them the properties are false (section 6).
* `StartsAtLowest` for `CompletionFindsEntries` and `BisectionNarrows`: the CPU controller has inserted the voltage of the
  lowest multiplier or none. `ThreeMultipliers` for the latter: some multiplier is between the lowest and the highest.
  TLC refutes the properties without them (section 6).

## 5. What is only model-checked

Liveness (`StopDrains`, `TermEndsDaemon`, `StopEndsService`, `HotEndsLowest`,
`EveryRequestAnswered`, `StopJoins`, `AutoEnds`, `LoadServed`, `HigherBeforeSleep`,
`BackToWanted`, `SendEnds`, `GuiGetsOn`, `ReachesRequest`):
TLAPS as used here proves neither liveness under fairness nor `ENABLED`.
`HotEndsLowest` needs `period + CoolDown < WordSize`; with a wait of 65535 ms
the `WORD` never exceeds the wait and nothing is lowered at all.

## 6. Seen in the model, not stated as properties

* A SIGTERM handled between the start of the thread and `LockAndWait` is lost:
  nobody waits yet, and `main` then waits for another one (`TermEndsDaemon` is
  about a waiting `main`). Its order to stop may be overwritten by the new thread's `Start()`
  besides. Wake-ups of the condition that nobody signalled are left out: its class is not in
  the repository.
* If the wanted voltages do not reach down to the lowest multiplier,
  `SetFreqAndVoltageFromFreq` raises the chosen multiplier to the lowest
  P-state: lowering can then raise a core, and throttling happens above the
  lowest multiplier. The runs and `ThermalThrottling` have `LowestPstate = 1`.
* `Stop` of the service reports STOPPED while the DVFS thread may be in the
  middle of a round: `WaitForTermination` of the DVFS object is empty.
* The first of two overlapping DVFS threads to end says "stopped" for both: a
  client then collects the data itself while the other thread collects too.
* The base class of the DVFS object does not begin a new row of hot rounds after a
  cool one (`LoadBased = FALSE` violates `ComparedWithinRow`).
* A client's answer can be older than its question, also when it collected for
  itself: the IPC data thread may publish an older tree just before the copy.
* Two controllers that both find no object both create one (`ServiceMain` without looking,
  `CPUcontrolServiceBase.cpp:119`; a client at 321). The thread on the first object can then be
  stopped by nobody. `NoThreadLost` says that it cannot happen later.

*Destruction at the end.*

* Daemon: SIGTERM only clears `m_vbRun` and wakes `main`, which returns at once. `~CPUcontrolBase`
  (`CPUcontrolBase.cpp:138`) deletes CPU controller, usage getter and access object while the DVFS
  thread may be in the middle of a round, or may start one if a SIGCONT came behind the SIGTERM;
  line 415 says of the getter's library "problem under _Linux_: when unloading the dyn lib ...
  Program crash when accessing them". `gp_cpucontrolbase` is not reset, so that a
  signal in that window goes through the destroyed object (fates "thread after destruction",
  "handler after destruction"; TLC reaches both).
* Service: `WaitForTermination` of the DVFS object is empty, and nobody waits for the pipe
  threads or `ServiceMain` either, so that the destruction of the service object, when the dispatcher has
  returned, meets them all ("destroyed service").
* Service: every `Stop`, and the destructor always, goes through
  `EndAlterCurrentCPUcoreIPCdata`, which waits for the IPC data thread's object and deletes it
  (`CPUcontrolService.cpp:498-503`) without a note that this has been done ("deleted thread object").
  What a wait for a deleted thread object does is the thread class's matter, which is not in the repository.

*Orders and their results.*

* A SIGCONT before `main` has created the object ends in the assertion that it is not
  NULL (`daemon_functions.cpp:44`, `CPUcontrolServiceBase.cpp:362`).
* "already paused" (`CPUcontrolService.cpp:1406`): `IsStopped()` is also TRUE while a new
  thread has not executed its first statement, which then runs on in a paused service.
  "already continued" (`CPUcontrolService.cpp:327`, `CPUcontrolServiceBase.cpp:341`): the
  constructor sets `m_vbRun`, so that a new object passes for a running one and no thread
  is started.
* A core behind another hot core is never measured, so that it is not lowered while the
  other stays hot (`wxDynLibCPUcontroller.cpp:1237`); `HotEndsLowest` is about measured cores.

*Voltages and power events.*

* A suspend only switches the pointer: a computer that sleeps before the next round, or
  with the scaling stopped, sleeps at the low voltage. The timer of an earlier resume may
  switch back in the middle of a suspend (`CPUcontrolService.cpp:618`). `HigherBeforeSleep`
  excludes both.
* A computer that has woken by itself, and whose battery then fails, resumes critically: that
  leaves the pointer at the default voltages, and starts no timer. `BackToWanted` holds because the
  model takes Windows to announce the user, when one comes, by `PBT_APMRESUMESUSPEND`
  (state "woken" again); if it does not, the core stays at the default voltages.
* Lowering the frequency does not clamp to the maximum multiplier, raising does. With an
  empty default table nothing is set during a suspend.
* A critical resume calls `Init()` of the usage getter through a pointer that may be NULL
  (`CPUcontrolService.cpp:613`).

*Search for the lowest stable voltage.*

* After the join the exit flag is always TRUE, because the find thread sets it itself when
  it ends: to the bisection every multiplier counts as instable.
* The find thread waits for a handler whose flag a search by hand never resets
  (`InstableCPUcoreOperationDetection.cpp:307`): `AutoEnds` excludes "handler wait".
* Its voltage index is unsigned and passes below 0 (line 338); `lastSet` may be that of an
  earlier search when the handler reads it (line 66); a find thread may overwrite the voltage
  that a handler has just stabilised; the tables are completed without the critical section that
  protects them elsewhere (`VoltnFreqSettingsDlg_UnstableCPUcoreVoltageDetect.cpp:249`); the
  auto-configure thread's object is a local variable of the button's handler.
* With two multipliers the bisection never ends: the middle one is the lower one, both bounds
  become it, and `ArentDirectlyNeighbouredMultipliers` (`CPUcoreData.cpp:755`) sees a difference of 0
  instead of 1. With `MCMultipliers` of two TLC shows it as a violation of `AutoEnds`.
* The search for the lowest multiplier starts at the lowest default voltage that the CPU controller has inserted. If that is
  not the lowest multiplier's (the AMD K7 library inserts the start-up one only,
  `CPUiAndCdynLibs/AMD/K7_IandCdynLib/dynlib_main.cpp:181`), the wanted voltage of the lowest multiplier need not
  be there when `AddWantedVoltageForLowestAvailableMulti` looks it up, and `find()` returns `end()`, which
  is dereferenced (`CPUcoreData.cpp:94`, likewise 128). TLC shows it as a violation of `EntriesFound`
  when `Inserted1st` leaves the lowest multiplier out.
* When the highest voltage turns out to be instable, the stable and the wanted voltage become 0.
  Extrapolation from a table with one entry divides 0.0 by 0.0 (line 247 of the same file).

*Named pipe.*

* A client that sends data announces data and command, and sends a byte more than the server
  reads (`NamedPipeClient.cpp:465`; `TaskBarIcon.cpp:437`: "size of float(4 byte) + command
  byte"). The byte stays in the pipe and shifts all that follows: hence `onlyCommands`.
* Statics of the server: the number of bytes another thread has written makes a healthy
  connection be cut; a failed read that another thread's result lets pass for a success makes
  an old or uninitialized command be handled; another message's size makes a thread wait for
  data that its client never sends.
* An answer is leaked when writing its size fails, and a client's handle when it reconnects.

*P-state transition of family 0Fh.*

* `CMakeLists.txt` lets odd frequency IDs be offered. From an odd ID of 3 or more, lowering to ID 0
  subtracts 2 from a `BYTE` of 1: the loop `TransitionToLowerFrequencyID_StepByStep` (line 330) never ends.
  A request one above the current even ID is overshot by one, at the voltage of the request; from an odd ID
  one above or below an even request nothing is lowered, or the target is overshot likewise.
  `TransitionToHigherFrequencyID` makes an odd target even in every build, `TransitionToLowerFrequencyID`
  only without `ALLOW_ODD_FIDS_FOR_STEPPING_NUMBER_BELOW_3`.
* Results of the first phase are ignored (line 935), and the local voltage advances whether or
  not a write took effect: the frequency is then raised at the old voltage, in writes that change
  voltage and frequency at once, against the guide quoted at line 129. A bad result while raising the
  frequency is followed by a step of one, to an odd ID (line 531).
* The decrease by the maximum voltage step never happens: `direction` is a `BYTE`, -1 becomes 255 (line 776).
  All decreases are made in steps of one ID.
* Below 0.775 V a raise at the same multiplier may stop 12.5 mV short; the step from 0.7625 V may be of 37.5 mV,
  more than the maximum of 25 mV.
* `s_maxVoltageInVolt` is 0 until the voltages are enumerated (`AMD_NPT_family_0Fh.hpp:450`): a transition
  before that would lower the voltage first. The core's number is ignored: every call is for core 0.

*GUI.*

* A timer event of an iconized frame without cores leaves the section entered
  (`MainFrame.cpp:4477`). The IPC thread then waits for the section while it holds `IPCobject`,
  and the GUI thread blocks at the next question whether it is connected. `GuiGetsOn` excludes
  it (`left`).
* `SetCPUcoreNumber`, at every paint while connected and for every new controller
  (`I_CPUcontroller.cpp:894`), makes the per core attributes anew; their destructor deletes the own
  DVFS object and the application's usage getter, which are used or deleted again later, and the
  array of loads that a DVFS thread writes. `UsesAlive` and `OneWorks` exclude what follows
  (`uprooted`).
* The iconized path reads temperatures after it has left the section (`MainFrame.cpp:4489-4515`),
  although 3540 says that values of two retrievals must not mix. When the connection breaks
  between two tests of it and only a getter is attached, `OnTimerEvent` calls through the NULL
  pointer of the controller.
* The GUI thread waits for `IPCobject` during a whole fetch. The broadcast of `OnClose` may come
  while the IPC thread does not wait: the join then hangs (`App.cpp:1014-1028`).
* An answer whose parsing fails before `startDocument` leaves a section that was not entered.

## 7. What is not modelled, and why

Register access of the other CPU families (the behaviour is the hardware's), parsing of
configuration files (sequential input by a library), drawing and dialogs,
logging and the thin operating system wrappers (threads, conditions and events
are modelled where they are used). Socket IPC: the same commands as through the pipe,
over the sockets of a library, without shared static variables. The choice of the
scaling type, built-in controllers and the thread that makes load in the GUI. Voltages
do not appear in `ThermalControl`, temperatures not in `PowerVoltages`.
Two DVFS threads that share one object's temperature arrays are not modelled:
`DVFSThread` shows the overlap, `ThermalControl` has one loop. `IPCData` takes a tree as
a value: that the DVFS thread may alter the core data while a tree is made is left out.

Much of the repository is register access for one CPU family each, dialogs, parsing and
wrappers, and code of which several copies exist; the modules cover the code with control
of its own, a small share of all lines.

## 8. Plan

1. The choice of the scaling type (`SetDynVoltnFreqScalingType_Inline`) as a part of the
   controlling programs; socket IPC with the client list.
2. `ThermalControl` with voltages and `LowestPstate > 1`; then `ThermalThrottling` with
   "at the lowest P-state" for every `LowestPstate`.
3. Abstract specifications of the pipe (a command is answered at most once, by its own answer) and
   of the P-state transition (one atomic change of P-state), refined by `NamedPipe` and `NPTFamily0Fh`, and
   proofs of these refinements from `StepInv` and `CoverInv`.
4. Safety halves of the liveness properties: what a waiting thread waits for is there
   (`SendEnds`, `EveryRequestAnswered`), as invariants.
