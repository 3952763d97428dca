----------------------------- MODULE DVFSService -----------------------------
(***************************************************************************)
(* The Windows service (Windows/Service/CPUcontrolService.cpp): ServiceMain *)
(* starts the inter-process communication (IPC) threads, creates and starts *)
(* the DVFS thread and then waits for an event.  Meanwhile it is controlled *)
(* by several threads that share no lock: the Service Control Manager (SCM) *)
(* calls ServiceCtrlHandlerEx on one thread, and the named pipe server      *)
(* gives every client a thread of its own that executes IPC_Message.        *)
(* The handlers Pause, Continue, StartDynVoltnFreqScaling and Stop are      *)
(* modelled one shared access at a time, so that they interleave.           *)
(* The service object is a local variable of the program's main function,   *)
(* which goes on when the SCM has been told STOPPED: it destroys the object *)
(* although pipe threads, DVFS threads and ServiceMain may still use it.    *)
(***************************************************************************)
EXTENDS DVFSThread

CONSTANTS
  SCM,      \* the thread the Service Control Manager calls the handler on
  Clients,  \* the threads of the named pipe clients
  ScmControls,     \* the controls the SCM sends
  ClientCommands,  \* the commands the clients send
  mp_cpucoreusagegetter  \* TRUE: the user has installed a CPU core usage getter

ASSUME UsageGetterAssumption == mp_cpucoreusagegetter \in BOOLEAN
ASSUME CommandsAssumption ==
  /\ ScmControls \subseteq {"pause", "continue", "stop", "interrogate"}
  /\ ClientCommands \subseteq {"pause", "continue", "stop", "start", "data", "halt"}
ASSUME ThreadsAssumption == SCM \notin Clients

Controllers == Clients \union {SCM}

VARIABLES
  main,                         \* where ServiceMain is
  m_vbServiceInitialized,       \* SCM controls are obeyed
  m_hEndProcessingEvent,        \* manual-reset event ServiceMain waits for
  m_servicestatus,              \* m_servicestatus.dwCurrentState
  reported,                     \* the state the SCM was told last
  m_bProcess,                   \* not paused
  m_vbAlterCPUcoreDataForIPC,   \* the IPC data thread shall go on
  ipcDataThread,                \* the IPC data thread and the object that stands for it
  program,                      \* where the program's main function is
  command,                      \* per controller: the command it executes
  at,                           \* per controller: where it is in the command
  fate                          \* how the process ended

serviceVars == <<main, m_vbServiceInitialized, m_hEndProcessingEvent,
                 m_servicestatus, reported, m_bProcess,
                 m_vbAlterCPUcoreDataForIPC, ipcDataThread, program, command, at, fate>>
vars == <<threadVars, serviceVars>>

\* The program's main function: in StartServiceCtrlDispatcher, in ~CPUcontrolService, in
\* FreeRessources, and with the object destroyed until the process is gone.
ProgramPCs == {"dispatching", "end IPC", "join", "free", "destroyed"}

\* m_x86iandc_threadGetCurrentCPUcoreData: Delete() follows each WaitForTermination().
IPCdataThreads == {"none", "running", "returned", "deleted"}

\* ServiceMain: "init" before Initialize, "failed" if that fails, "ipc" before the IPC threads are
\* started, "create" and "start" in HandleStartDynVoltAndFreqScalingThread,
\* "started" before m_vbServiceInitialized = true, "wait" for the event.
MainPCs == {"init", "failed", "ipc", "create", "start", "started", "wait", "returned"}

\* The next step of a controller, "idle" between two commands.
Steps == {"idle", "process", "is stopped?", "stop object", "report", "report already",
          "report failed",
          "status", "usage getter", "object?", "create", "running?", "start",
          "run flag", "wait for DVFS", "stopped", "set event", "end IPC", "join",
          "who collects?", "collect", "wake"}

States == {"RUNNING", "PAUSED", "STOPPED"}
Fates == {"alive", "exited", "NULL object", "NULL usage getter",
          "deleted thread object", "destroyed service"}

TypeOK ==
  /\ ThreadTypeOK
  /\ main \in MainPCs
  /\ m_vbServiceInitialized \in BOOLEAN /\ m_hEndProcessingEvent \in BOOLEAN
  /\ m_servicestatus \in States /\ reported \in States
  /\ m_bProcess \in BOOLEAN
  /\ m_vbAlterCPUcoreDataForIPC \in BOOLEAN /\ ipcDataThread \in IPCdataThreads
  /\ program \in ProgramPCs
  /\ command \in [Controllers -> ScmControls \union ClientCommands \union {"none"}]
  /\ at \in [Controllers -> Steps]
  /\ fate \in Fates /\ (up <=> fate = "alive")

\* The service reports SERVICE_RUNNING immediately, before it is initialised.
Init ==
  /\ ThreadInit
  /\ main = "init"
  /\ m_vbServiceInitialized = FALSE /\ m_hEndProcessingEvent = FALSE
  /\ m_servicestatus = "RUNNING" /\ reported = "RUNNING"
  /\ m_bProcess = TRUE
  /\ m_vbAlterCPUcoreDataForIPC = TRUE /\ ipcDataThread = "none"
  /\ program = "dispatching"
  /\ command = [c \in Controllers |-> "none"]
  /\ at = [c \in Controllers |-> "idle"]
  /\ fate = "alive"

\* What a step of ServiceMain or of a handler leaves alone, if nothing else
\* is said.
KeepFlags == UNCHANGED <<m_vbServiceInitialized, m_hEndProcessingEvent, m_bProcess,
                         m_vbAlterCPUcoreDataForIPC, ipcDataThread>>
KeepStatus == UNCHANGED <<m_servicestatus, reported>>
KeepControllers == UNCHANGED <<command, at, program>>
Alive == UNCHANGED fate
End(how) == ProcessEnds /\ fate' = how

-----------------------------------------------------------------------------
(* ServiceMain                                                             *)

MainGoes(from, to) ==
  /\ up
  /\ main = from
  /\ main' = to
  /\ Alive /\ KeepControllers

\* Initialize() fails without access to the CPU, without a CPU controller or
\* without a way of scaling; HandleInitServiceFailed then reports STOPPED.
Initialize ==
  /\ \/ MainGoes("init", "ipc") /\ KeepStatus
     \/ /\ MainGoes("init", "failed")
        /\ m_servicestatus' = "STOPPED" /\ reported' = "STOPPED"
  /\ KeepFlags /\ UNCHANGED threadVars

\* The IPC data thread and the pipe server: clients can connect from now on.
StartIPCserverThread ==
  /\ MainGoes("ipc", "create")
  /\ ipcDataThread' = "running"
  /\ KeepStatus
  /\ UNCHANGED <<threadVars, m_vbServiceInitialized, m_hEndProcessingEvent, m_bProcess,
                 m_vbAlterCPUcoreDataForIPC>>

\* HandleStartDynVoltAndFreqScalingThread creates an object without looking
\* whether a client has created one.
CreateObject ==
  /\ MainGoes("create", "start")
  /\ \E o \in Objects : CreateDVFSthreadObject(o)
  /\ KeepFlags /\ KeepStatus

StartDVFS ==
  /\ \/ MainGoes("start", "started") /\ \E t \in Threads : StartThread(t)
     \/ MainGoes("start", "returned") /\ UNCHANGED threadVars
  /\ KeepFlags /\ KeepStatus

Initialized ==
  /\ MainGoes("started", "wait")
  /\ m_vbServiceInitialized' = TRUE
  /\ KeepStatus
  /\ UNCHANGED <<threadVars, m_hEndProcessingEvent, m_bProcess,
                 m_vbAlterCPUcoreDataForIPC, ipcDataThread>>

WaitForSingleObject ==
  /\ m_hEndProcessingEvent
  /\ MainGoes("wait", "returned")
  /\ KeepFlags /\ KeepStatus /\ UNCHANGED threadVars

ServiceMain == Initialize \/ StartIPCserverThread \/ CreateObject \/ StartDVFS
                 \/ Initialized \/ WaitForSingleObject

-----------------------------------------------------------------------------
(* The handlers, on the thread c                                           *)

Goes(c, from, to) ==
  /\ up
  /\ at[c] = from
  /\ at' = [at EXCEPT ![c] = to]
  /\ command' = IF to = "idle" THEN [command EXCEPT ![c] = "none"] ELSE command
  /\ UNCHANGED <<main, program>>

FirstStep == [pause |-> "process", continue |-> "status", stop |-> "run flag",
              interrogate |-> "report", start |-> "object?",
              data |-> "who collects?", halt |-> "stop object"]

\* A command arrives.  Pause begins by setting the state, Continue by setting
\* m_bProcess; the other commands by a test, which is their first step.
Begin(c, cmd) ==
  /\ up
  /\ at[c] = "idle"
  /\ at' = [at EXCEPT ![c] = FirstStep[cmd]]
  /\ command' = [command EXCEPT ![c] = cmd]
  /\ m_servicestatus' = IF cmd = "pause" THEN "PAUSED" ELSE m_servicestatus
  /\ m_bProcess' = IF cmd = "continue" THEN TRUE ELSE m_bProcess
  /\ Alive
  /\ UNCHANGED <<threadVars, main, program, m_vbServiceInitialized, m_hEndProcessingEvent,
                 reported, m_vbAlterCPUcoreDataForIPC, ipcDataThread>>

\* ServiceCtrlHandlerEx obeys once the service is initialised; the dispatcher calls it.
ServiceCtrlHandlerEx ==
  m_vbServiceInitialized /\ program = "dispatching" /\ \E cmd \in ScmControls : Begin(SCM, cmd)

\* IPC_Message serves a client from the moment the pipe server runs.
IPC_Message(c) ==
  main \notin {"init", "failed", "ipc"} /\ \E cmd \in ClientCommands : Begin(c, cmd)

\* Pause: m_bProcess = false.
PauseProcess(c) ==
  /\ Goes(c, "process", "is stopped?")
  /\ m_bProcess' = FALSE
  /\ Alive /\ KeepStatus
  /\ UNCHANGED <<threadVars, m_vbServiceInitialized, m_hEndProcessingEvent,
                 m_vbAlterCPUcoreDataForIPC, ipcDataThread>>

Stopped == m_vbDVFSthreadStopped[mp_dynfreqscalingthreadbase]

PauseIsStopped(c) ==
  /\ \/ /\ mp_dynfreqscalingthreadbase = NULL
        /\ Goes(c, "is stopped?", "report")
     \/ /\ mp_dynfreqscalingthreadbase # NULL /\ Stopped
        /\ Goes(c, "is stopped?", "report already")
     \/ /\ mp_dynfreqscalingthreadbase # NULL /\ ~ Stopped
        /\ Goes(c, "is stopped?", "stop object")
  /\ Alive /\ KeepFlags /\ KeepStatus /\ UNCHANGED threadVars

\* Mutant: Stop() drops the object.
StopObjectDrops(c) ==
  /\ \/ Goes(c, "stop object", IF command[c] = "pause" THEN "report" ELSE "idle")
     \/ Goes(c, "run flag", "wait for DVFS")
  /\ mp_dynfreqscalingthreadbase' = NULL
  /\ Alive /\ KeepFlags /\ KeepStatus
  /\ UNCHANGED <<m_vbRun, m_vbDVFSthreadStopped, pc, pv, constructed, entered, up>>

\* mp_dynfreqscalingthreadbase->Stop() of Pause, of setVoltageAndFrequency
\* ("halt") and of Stop; the last two test the pointer first.
StopObject(c) ==
  /\ \/ Goes(c, "stop object", IF command[c] = "pause" THEN "report" ELSE "idle")
     \/ Goes(c, "run flag", "wait for DVFS")
  /\ IF mp_dynfreqscalingthreadbase = NULL THEN UNCHANGED threadVars ELSE ClearRun
  /\ Alive /\ KeepFlags /\ KeepStatus

\* Continue: state, ResumeFromS3orS4 and the usage getter's Init, then
\* StartDynVoltnFreqScaling.  The getter's pointer is not tested.
ContinueStatus(c) ==
  /\ Goes(c, "status", "usage getter")
  /\ m_servicestatus' = "RUNNING"
  /\ Alive /\ KeepFlags /\ UNCHANGED <<threadVars, reported>>

ContinueUsageGetter(c) ==
  /\ Goes(c, "usage getter", "object?")
  /\ IF mp_cpucoreusagegetter THEN UNCHANGED threadVars /\ Alive
                              ELSE End("NULL usage getter")
  /\ KeepFlags /\ KeepStatus

\* Mutant: a stopped object is replaced by a new one.
StartObjectAnew(c) ==
  /\ Goes(c, "object?", IF mp_dynfreqscalingthreadbase = NULL \/ Stopped THEN "create"
                                                                        ELSE "running?")
  /\ Alive /\ KeepFlags /\ KeepStatus /\ UNCHANGED threadVars

\* StartDynVoltnFreqScaling: create the object if there is none, then start a
\* thread on it unless m_vbRun is set.
StartObject(c) ==
  /\ Goes(c, "object?", IF mp_dynfreqscalingthreadbase = NULL THEN "create"
                                                              ELSE "running?")
  /\ Alive /\ KeepFlags /\ KeepStatus /\ UNCHANGED threadVars

StartCreate(c) ==
  /\ Goes(c, "create", "running?")
  /\ \E o \in Objects : CreateDVFSthreadObject(o)
  /\ Alive /\ KeepFlags /\ KeepStatus

\* Mutant: a thread that is still to notice the order to stop counts as running.
StartUnlessStopped(c) ==
  /\ at[c] = "running?"
  /\ IF ~ Stopped
       THEN Goes(c, "running?",
                 IF command[c] = "continue" THEN "report already" ELSE "idle")
       ELSE Goes(c, "running?", "start")
  /\ Alive /\ KeepFlags /\ KeepStatus /\ UNCHANGED threadVars

StartRunning(c) ==
  /\ at[c] = "running?"
  /\ IF m_vbRun[mp_dynfreqscalingthreadbase]
       THEN Goes(c, "running?",
                 IF command[c] = "continue" THEN "report already" ELSE "idle")
       ELSE Goes(c, "running?", "start")
  /\ Alive /\ KeepFlags /\ KeepStatus /\ UNCHANGED threadVars

StartStart(c) ==
  /\ \/ /\ Goes(c, "start", IF command[c] = "continue" THEN "report" ELSE "idle")
        /\ \E t \in Threads : StartThread(t)
     \/ /\ Goes(c, "start", IF command[c] = "continue" THEN "report failed" ELSE "idle")
        /\ UNCHANGED threadVars
  /\ Alive /\ KeepFlags /\ KeepStatus

\* Stop: WaitForTermination() does not wait, but needs an object.
StopWaitForTermination(c) ==
  /\ Goes(c, "wait for DVFS", "stopped")
  /\ IF mp_dynfreqscalingthreadbase = NULL THEN End("NULL object")
                                           ELSE UNCHANGED threadVars /\ Alive
  /\ KeepFlags /\ KeepStatus

StopStatus(c) ==
  /\ Goes(c, "stopped", "set event")
  /\ m_servicestatus' = "STOPPED"
  /\ Alive /\ KeepFlags /\ UNCHANGED <<threadVars, reported>>

\* Mutant: the event wakes who waits, and is not remembered.
StopPulseEvent(c) ==
  /\ Goes(c, "set event", "report")
  /\ m_hEndProcessingEvent' = (main = "wait")
  /\ Alive /\ KeepStatus
  /\ UNCHANGED <<threadVars, m_vbServiceInitialized, m_bProcess,
                 m_vbAlterCPUcoreDataForIPC, ipcDataThread>>

StopSetEvent(c) ==
  /\ Goes(c, "set event", "report")
  /\ m_hEndProcessingEvent' = TRUE
  /\ Alive /\ KeepStatus
  /\ UNCHANGED <<threadVars, m_vbServiceInitialized, m_bProcess,
                 m_vbAlterCPUcoreDataForIPC, ipcDataThread>>

\* Mutant: who finds the work already done does not report.
ReportChangesOnly(c) ==
  /\ \/ /\ Goes(c, "report", IF command[c] = "stop" THEN "end IPC" ELSE "idle")
        /\ reported' = m_servicestatus
     \/ /\ Goes(c, "report already", "idle") \/ Goes(c, "report failed", "idle")
        /\ UNCHANGED reported
  /\ Alive /\ KeepFlags /\ UNCHANGED <<threadVars, m_servicestatus>>

\* The last action of Pause, Continue and of SCM controls not handled; before
\* the last two of Stop.
SetServiceStatus(c) ==
  /\ \/ Goes(c, "report", IF command[c] = "stop" THEN "end IPC" ELSE "idle")
     \/ Goes(c, "report already", "idle")
     \/ Goes(c, "report failed", "idle")
  /\ reported' = m_servicestatus
  /\ Alive /\ KeepFlags /\ UNCHANGED <<threadVars, m_servicestatus>>

\* EndAlterCurrentCPUcoreIPCdata: orders the IPC data thread to end ...
EndAlterCurrentCPUcoreIPCdata(c) ==
  /\ Goes(c, "end IPC", "join")
  /\ m_vbAlterCPUcoreDataForIPC' = FALSE
  /\ Alive /\ KeepStatus
  /\ UNCHANGED <<threadVars, m_vbServiceInitialized, m_hEndProcessingEvent,
                 m_bProcess, ipcDataThread>>

\* ... and waits for it, then calls Delete().  Nothing remembers that this has been done:
\* a second time both calls go to a deleted thread object, with an undefined outcome.
WaitAndDelete ==
  /\ ipcDataThread # "running"
  /\ \/ UNCHANGED threadVars /\ Alive
     \/ ipcDataThread = "deleted" /\ End("deleted thread object")
  /\ ipcDataThread' = "deleted"
  /\ UNCHANGED <<m_vbServiceInitialized, m_hEndProcessingEvent, m_bProcess,
                 m_vbAlterCPUcoreDataForIPC>>

JoinIPCdataThread(c) ==
  /\ Goes(c, "join", "idle")
  /\ WaitAndDelete
  /\ KeepStatus

\* get_current_CPU_data: the service collects the data itself if the DVFS
\* thread has stopped, else it wakes the IPC data thread.
DataWhoCollects(c) ==
  /\ Goes(c, "who collects?",
          IF mp_dynfreqscalingthreadbase # NULL /\ Stopped THEN "collect"
                                                           ELSE "wake")
  /\ Alive /\ KeepFlags /\ KeepStatus /\ UNCHANGED threadVars

DataAnswer(c) ==
  /\ Goes(c, "collect", "idle") \/ Goes(c, "wake", "idle")
  /\ Alive /\ KeepFlags /\ KeepStatus /\ UNCHANGED threadVars

HandlerStep(c) ==
  \/ PauseProcess(c) \/ PauseIsStopped(c) \/ StopObject(c)
  \/ ContinueStatus(c) \/ ContinueUsageGetter(c)
  \/ StartObject(c) \/ StartCreate(c) \/ StartRunning(c) \/ StartStart(c)
  \/ StopWaitForTermination(c) \/ StopStatus(c) \/ StopSetEvent(c)
  \/ SetServiceStatus(c) \/ EndAlterCurrentCPUcoreIPCdata(c) \/ JoinIPCdataThread(c)
  \/ DataWhoCollects(c) \/ DataAnswer(c)

-----------------------------------------------------------------------------
\* GetCurrentCPUcoreDataInLoopThreadFunc returns after it saw the order.
IPCdataThreadReturns ==
  /\ up /\ ipcDataThread = "running" /\ ~ m_vbAlterCPUcoreDataForIPC
  /\ ipcDataThread' = "returned"
  /\ Alive /\ KeepStatus /\ KeepControllers
  /\ UNCHANGED <<threadVars, main, m_vbServiceInitialized, m_hEndProcessingEvent,
                 m_bProcess, m_vbAlterCPUcoreDataForIPC>>

-----------------------------------------------------------------------------
(* The program's main function                                             *)

ProgramGoes(from, to) ==
  /\ up
  /\ program = from
  /\ program' = to
  /\ UNCHANGED <<main, command, at>> /\ KeepStatus

\* StartServiceCtrlDispatcher returns when the SCM has been told STOPPED and no
\* handler is executing on its thread: ServiceMain and clients are not waited for.
DispatcherReturns ==
  /\ reported = "STOPPED" /\ at[SCM] = "idle"
  /\ ProgramGoes("dispatching", "end IPC")
  /\ Alive /\ KeepFlags /\ UNCHANGED threadVars

\* ~CPUcontrolService calls EndAlterCurrentCPUcoreIPCdata() as Stop has done ...
DestructorEndsIPC ==
  /\ ProgramGoes("end IPC", "join")
  /\ m_vbAlterCPUcoreDataForIPC' = FALSE
  /\ Alive
  /\ UNCHANGED <<threadVars, m_vbServiceInitialized, m_hEndProcessingEvent,
                 m_bProcess, ipcDataThread>>

DestructorJoins == ProgramGoes("join", "free") /\ WaitAndDelete

\* ... and ~CPUcontrolBase FreeRessources, which deletes CPU controller, usage getter
\* and access object.  One step stands for these and the members of the object.
FreeRessources ==
  /\ ProgramGoes("free", "destroyed")
  /\ Alive /\ KeepFlags /\ UNCHANGED threadVars

Exit ==
  /\ program = "destroyed"
  /\ End("exited")
  /\ UNCHANGED main /\ KeepFlags /\ KeepStatus /\ KeepControllers

Program == DispatcherReturns \/ DestructorEndsIPC \/ DestructorJoins \/ FreeRessources \/ Exit

(***************************************************************************)
(* ServiceMain, a pipe client's thread, or a DVFS thread that is awake uses  *)
(* what is destroyed.  The process may end here, or go on as if nothing were *)
(* destroyed, by the actions of those threads.                               *)
(***************************************************************************)
UseDestroyed ==
  /\ program = "destroyed"
  /\ \/ main \notin {"failed", "returned"}
     \/ \E c \in Clients : at[c] # "idle"
     \/ \E t \in Threads : pc[t] \notin {"none", "sleep"}
  /\ End("destroyed service")
  /\ UNCHANGED main /\ KeepFlags /\ KeepStatus /\ KeepControllers

DVFSThreadStep ==
  /\ \E t \in Threads : ThreadStep(t)
  /\ UNCHANGED serviceVars

Next ==
  \/ ServiceMain
  \/ ServiceCtrlHandlerEx
  \/ \E c \in Clients : IPC_Message(c)
  \/ \E c \in Controllers : HandlerStep(c)
  \/ IPCdataThreadReturns \/ Program \/ UseDestroyed \/ DVFSThreadStep

\* Every thread is scheduled; commands need not come, and the IPC data thread
\* need not notice the order to end.
Fairness ==
  /\ WF_vars(ServiceMain)
  /\ \A c \in Controllers : WF_vars(HandlerStep(c))

Spec == Init /\ [][Next]_vars
FairSpec == Spec /\ Fairness

-----------------------------------------------------------------------------
(* Properties.                                                             *)

\* Between commands the SCM knows the service's state, although Pause,
\* Continue and Stop of several threads write and report one shared record.
StatusReported ==
  (\A c \in Controllers : at[c] = "idle") => reported = m_servicestatus

\* Stop ends ServiceMain whenever it comes, even from a client that is served
\* before ServiceMain has begun to wait: the event stays set.
StopEndsService ==
  \A c \in Controllers : at[c] = "set event" ~> main = "returned" \/ ~ up

\* Once there is an object, and if there is a usage getter, no order and no
\* overlap of commands makes the service crash before it is stopped: until a Stop, or
\* the destructor after the SCM was told STOPPED, has ordered the IPC data thread to
\* end, nothing is deleted that is in use.  After that order it can crash, in two
\* ways: who ends the IPC data thread a second time uses the deleted thread object,
\* and threads that nobody joined use the destroyed service.
NoLateCrash ==
  [][up /\ ~ up' /\ constructed # {} /\ mp_cpucoreusagegetter
       => \/ fate' = "exited"
          \/ /\ ~ m_vbAlterCPUcoreDataForIPC
             /\ fate' \in {"deleted thread object", "destroyed service"}]_vars

\* A DVFS thread works on an object that the pointer no longer names: no order to stop
\* reaches it.  ServiceMain and a client that has found no object both create one.
Lost(t) == pc[t] # "none" /\ pv[t] # mp_dynfreqscalingthreadbase

Settled == /\ main \in {"start", "started", "wait", "returned"}
           /\ \A c \in Controllers : at[c] # "create"

\* That happens only as long as ServiceMain is still to create its object or someone
\* who found none before is: afterwards nobody creates a further object and no thread gets
\* out of reach, whatever is started, stopped, paused and continued.
NoThreadLost == [][Settled => Settled' /\ \A t \in Threads : Lost(t)' => Lost(t)]_vars

\* While the SCM alone gives orders, and before a client has stopped the service:
\* when Continue has not failed to start a thread and reports RUNNING, the object's
\* loop is ordered to run or a thread that will order it is on its way.  (Hence, by
\* RunFlagHasThread, the frequency is scaled.)
ContinuedIsRunning ==
  /\ command[SCM] = "continue" /\ at[SCM] \in {"report", "report already"}
  /\ ~ m_hEndProcessingEvent /\ \A c \in Clients : at[c] = "idle"
  => \/ m_vbRun[mp_dynfreqscalingthreadbase]
     \/ On(mp_dynfreqscalingthreadbase, {"started"}) # {}
=============================================================================
