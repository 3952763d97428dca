------------------------------ MODULE DVFSProofs ------------------------------
(***************************************************************************)
(* Theorems about the DVFS thread and the two programs that control it, for   *)
(* all sets of objects, threads and clients.  The first part is about what    *)
(* any of them may do to the object; the service, with any number of pipe     *)
(* clients, and the daemon, whatever signals it gets, do nothing else, so     *)
(* what the first part shows holds of both.  Until they are told to end they  *)
(* crash in no way but those that NoLateCrash leaves open, and afterwards     *)
(* only through what they destroy while others use it.  Of the service:       *)
(* between commands the SCM knows its state, what it reports RUNNING will     *)
(* run, and a thread that an order to stop reaches stays within reach.        *)
(***************************************************************************)
EXTENDS DVFSService, TLAPS

\* The two invariants do not need each other, only the types.
ThreadInv == ThreadTypeOK /\ NotStoppedHasCollector /\ RunFlagHasThread

LEMMA InitThreadInv == ThreadInit => ThreadInv
BY NullAssumption
   DEF ThreadInit, ThreadInv, ThreadTypeOK, NotStoppedHasCollector,
       RunFlagHasThread, PCs

\* Every step keeps the types.
LEMMA StepTypeOK ==
  ASSUME ThreadTypeOK, [ThreadNext]_threadVars
  PROVE  ThreadTypeOK'
<1> USE NullAssumption DEF ThreadTypeOK, PCs
<1>1. ASSUME NEW o \in Objects, CreateDVFSthreadObject(o) PROVE ThreadTypeOK'
  BY <1>1 DEF CreateDVFSthreadObject
<1>2. CASE ClearRun
  BY <1>2 DEF ClearRun
<1>3. CASE ProcessEnds
  BY <1>3 DEF ProcessEnds
<1>4. ASSUME NEW t \in Threads, StartThread(t) PROVE ThreadTypeOK'
  BY <1>4 DEF StartThread
<1>5. ASSUME NEW t \in Threads, ThreadStep(t) PROVE ThreadTypeOK'
  <2>1. CASE Start(t)
    BY <2>1 DEF Start, Transition
  <2>2. CASE EntryBegins(t)
    BY <2>2 DEF EntryBegins, Transition
  <2>3. CASE CheckRun(t)
    BY <2>3 DEF CheckRun, Transition
  <2>4. CASE LoopBody(t)
    BY <2>4 DEF LoopBody, Transition
  <2>5. CASE SleepEnds(t)
    BY <2>5 DEF SleepEnds, Transition
  <2>6. CASE EntryEnds(t)
    BY <2>6 DEF EntryEnds, Transition
  <2>7. QED
    BY <1>5, <2>1, <2>2, <2>3, <2>4, <2>5, <2>6 DEF ThreadStep
<1>6. CASE UNCHANGED threadVars
  BY <1>6 DEF threadVars
<1>7. QED
  BY <1>1, <1>2, <1>3, <1>4, <1>5, <1>6 DEF ThreadNext

\* A collector can only be lost by leaving, and leaving raises the flag.
LEMMA StepNotStopped ==
  ASSUME ThreadTypeOK, NotStoppedHasCollector, [ThreadNext]_threadVars
  PROVE  NotStoppedHasCollector'
<1> USE NullAssumption DEF ThreadTypeOK, NotStoppedHasCollector, On, Inside
<1>1. ASSUME NEW o \in Objects, CreateDVFSthreadObject(o)
      PROVE  NotStoppedHasCollector'
  BY <1>1 DEF CreateDVFSthreadObject
<1>2. CASE ClearRun
  BY <1>2 DEF ClearRun
<1>3. CASE ProcessEnds
  BY <1>3 DEF ProcessEnds
<1>4. ASSUME NEW t \in Threads, StartThread(t) PROVE NotStoppedHasCollector'
  BY <1>4 DEF StartThread
<1>5. ASSUME NEW t \in Threads, ThreadStep(t) PROVE NotStoppedHasCollector'
  <2>1. CASE Start(t)
    BY <2>1 DEF Start, Transition
  <2>2. CASE EntryBegins(t)
    BY <2>2 DEF EntryBegins, Transition
  <2>3. CASE CheckRun(t)
    BY <2>3 DEF CheckRun, Transition
  <2>4. CASE LoopBody(t)
    BY <2>4 DEF LoopBody, Transition
  <2>5. CASE SleepEnds(t)
    BY <2>5 DEF SleepEnds, Transition
  <2>6. CASE EntryEnds(t)
    BY <2>6 DEF EntryEnds, Transition
  <2>7. QED
    BY <1>5, <2>1, <2>2, <2>3, <2>4, <2>5, <2>6 DEF ThreadStep
<1>6. CASE UNCHANGED threadVars
  BY <1>6 DEF threadVars
<1>7. QED
  BY <1>1, <1>2, <1>3, <1>4, <1>5, <1>6 DEF ThreadNext

\* Only the starting thread raises m_vbRun, and only a thread that saw it
\* down stops going.
LEMMA StepRunFlag ==
  ASSUME ThreadTypeOK, RunFlagHasThread, [ThreadNext]_threadVars
  PROVE  RunFlagHasThread'
<1> USE NullAssumption DEF ThreadTypeOK, RunFlagHasThread, On, Going
<1>1. ASSUME NEW o \in Objects, CreateDVFSthreadObject(o)
      PROVE  RunFlagHasThread'
  BY <1>1 DEF CreateDVFSthreadObject
<1>2. CASE ClearRun
  BY <1>2 DEF ClearRun
<1>3. CASE ProcessEnds
  BY <1>3 DEF ProcessEnds
<1>4. ASSUME NEW t \in Threads, StartThread(t) PROVE RunFlagHasThread'
  BY <1>4 DEF StartThread
<1>5. ASSUME NEW t \in Threads, ThreadStep(t) PROVE RunFlagHasThread'
  <2>1. CASE Start(t)
    BY <2>1 DEF Start, Transition
  <2>2. CASE EntryBegins(t)
    BY <2>2 DEF EntryBegins, Transition
  <2>3. CASE CheckRun(t)
    BY <2>3 DEF CheckRun, Transition
  <2>4. CASE LoopBody(t)
    BY <2>4 DEF LoopBody, Transition
  <2>5. CASE SleepEnds(t)
    BY <2>5 DEF SleepEnds, Transition
  <2>6. CASE EntryEnds(t)
    BY <2>6 DEF EntryEnds, Transition
  <2>7. QED
    BY <1>5, <2>1, <2>2, <2>3, <2>4, <2>5, <2>6 DEF ThreadStep
<1>6. CASE UNCHANGED threadVars
  BY <1>6 DEF threadVars
<1>7. QED
  BY <1>1, <1>2, <1>3, <1>4, <1>5, <1>6 DEF ThreadNext

\* The inductive invariant holds in every reachable state.
LEMMA ThreadInvariant == ThreadSpec => []ThreadInv
<1>1. ThreadInv /\ [ThreadNext]_threadVars => ThreadInv'
  BY StepTypeOK, StepNotStopped, StepRunFlag DEF ThreadInv
<1>2. QED
  BY InitThreadInv, <1>1, PTL DEF ThreadSpec

\* Every variable of the DVFS thread keeps its type, whatever controls it.
THEOREM ThreadTypes == ThreadSpec => []ThreadTypeOK
<1>1. ThreadInv => ThreadTypeOK
  BY DEF ThreadInv
<1>2. QED
  BY ThreadInvariant, <1>1, PTL

\* If IsStopped() answers FALSE a thread is inside Entry() on the object.
THEOREM CollectorExists == ThreadSpec => []NotStoppedHasCollector
<1>1. ThreadInv => NotStoppedHasCollector
  BY DEF ThreadInv
<1>2. QED
  BY ThreadInvariant, <1>1, PTL

\* If m_vbRun is set on an object on which a thread was ever started, a
\* thread is still going on it.
THEOREM RunFlagHonest == ThreadSpec => []RunFlagHasThread
<1>1. ThreadInv => RunFlagHasThread
  BY DEF ThreadInv
<1>2. QED
  BY ThreadInvariant, <1>1, PTL

\* The pointer to the object is never reset.
PointerKept == mp_dynfreqscalingthreadbase = NULL => constructed = {}

\* From the first construction on there is a current object.
THEOREM ObjectStays == ThreadSpec => []PointerKept
<1>1. ThreadInit => PointerKept
  BY DEF ThreadInit, PointerKept
<1>2. PointerKept /\ [ThreadNext]_threadVars => PointerKept'
  BY NullAssumption DEF PointerKept, ThreadNext, threadVars, CreateDVFSthreadObject,
     StartThread, ClearRun, ProcessEnds, ThreadStep, Start, EntryBegins, CheckRun,
     LoopBody, SleepEnds, EntryEnds
<1> QED
  BY <1>1, <1>2, PTL DEF ThreadSpec

-----------------------------------------------------------------------------
(* The service. *)

\* A step that does anything to the object and its threads but to order the object to stop.
KeepsRunning ==
  \/ \E o \in Objects : CreateDVFSthreadObject(o)
  \/ \E t \in Threads : StartThread(t) \/ ThreadStep(t)
  \/ ProcessEnds
  \/ UNCHANGED threadVars

\* The program's main function does nothing in anyone else's place: neither in that of
\* ServiceMain nor in a handler's.
LEMMA ProgramStep ==
  Program \/ UseDestroyed =>
    /\ UNCHANGED <<main, command, at, m_servicestatus, reported>>
    /\ UNCHANGED <<m_hEndProcessingEvent, m_vbServiceInitialized, m_bProcess>>
BY DEF Program, DispatcherReturns, DestructorEndsIPC, DestructorJoins, FreeRessources, Exit,
   UseDestroyed, ProgramGoes, WaitAndDelete, KeepFlags, KeepStatus, KeepControllers

\* Only Stop() of the object orders it to stop.
LEMMA ObjectStep == Next => KeepsRunning \/ \E c \in Controllers : StopObject(c)
<1> SUFFICES ASSUME Next PROVE KeepsRunning \/ \E c \in Controllers : StopObject(c)
  OBVIOUS
<1>0. ASSUME NEW how, End(how) PROVE KeepsRunning
  BY <1>0 DEF End, KeepsRunning
<1>w. ASSUME WaitAndDelete PROVE KeepsRunning
  BY <1>0, <1>w DEF WaitAndDelete, KeepsRunning
<1>1. CASE ServiceMain
  <2>1. CASE CreateObject
    BY <2>1 DEF CreateObject, KeepsRunning
  <2>2. CASE StartDVFS
    BY <2>2 DEF StartDVFS, KeepsRunning
  <2> QED
    BY <1>1, <2>1, <2>2 DEF ServiceMain, Initialize, StartIPCserverThread, Initialized,
       WaitForSingleObject, KeepsRunning
<1>2. ASSUME NEW c, NEW cmd, Begin(c, cmd) PROVE KeepsRunning
  BY <1>2 DEF Begin, KeepsRunning
<1>3. ASSUME NEW c \in Controllers, HandlerStep(c) PROVE KeepsRunning \/ StopObject(c)
  <2>1. CASE StartCreate(c)
    BY <2>1 DEF StartCreate, KeepsRunning
  <2>2. CASE StartStart(c)
    BY <2>2 DEF StartStart, KeepsRunning
  <2>3. CASE ContinueUsageGetter(c)
    BY <2>3, <1>0 DEF ContinueUsageGetter, KeepsRunning
  <2>4. CASE StopWaitForTermination(c)
    BY <2>4, <1>0 DEF StopWaitForTermination, KeepsRunning
  <2>5. CASE PauseProcess(c) \/ PauseIsStopped(c) \/ ContinueStatus(c) \/ StartObject(c)
    BY <2>5 DEF PauseProcess, PauseIsStopped, ContinueStatus, StartObject, KeepsRunning
  <2>6. CASE StartRunning(c) \/ StopStatus(c) \/ StopSetEvent(c) \/ SetServiceStatus(c)
    BY <2>6 DEF StartRunning, StopStatus, StopSetEvent, SetServiceStatus, KeepsRunning
  <2>7. CASE EndAlterCurrentCPUcoreIPCdata(c) \/ JoinIPCdataThread(c)
    BY <2>7, <1>w DEF EndAlterCurrentCPUcoreIPCdata, JoinIPCdataThread, KeepsRunning
  <2>8. CASE DataWhoCollects(c) \/ DataAnswer(c)
    BY <2>8 DEF DataWhoCollects, DataAnswer, KeepsRunning
  <2> QED
    BY <1>3, <2>1, <2>2, <2>3, <2>4, <2>5, <2>6, <2>7, <2>8 DEF HandlerStep
<1>4. CASE Program \/ UseDestroyed
  BY <1>4, <1>0, <1>w DEF Program, DispatcherReturns, DestructorEndsIPC, DestructorJoins,
     FreeRessources, Exit, UseDestroyed, KeepsRunning
<1>5. CASE DVFSThreadStep
  BY <1>5 DEF DVFSThreadStep, KeepsRunning
<1>6. CASE IPCdataThreadReturns
  BY <1>6 DEF IPCdataThreadReturns, KeepsRunning
<1> QED
  BY <1>1, <1>2, <1>3, <1>4, <1>5, <1>6 DEF Next, ServiceCtrlHandlerEx, IPC_Message

LEMMA ServiceStep == Next => [ThreadNext]_threadVars
<1>1. KeepsRunning => [ThreadNext]_threadVars
  BY DEF KeepsRunning, ThreadNext
<1>2. \A c \in Controllers : StopObject(c) => [ThreadNext]_threadVars
  BY DEF StopObject, ThreadNext
<1> QED
  BY <1>1, <1>2, ObjectStep

\* Whatever the SCM and the clients ask for, and however their commands
\* overlap, the service's steps are steps of DVFSThread.
THEOREM ServiceImplementsThread == Spec => ThreadSpec
<1>1. Init => ThreadInit
  BY DEF Init
<1>2. [Next]_vars => [ThreadNext]_threadVars
  BY ServiceStep DEF vars
<1> QED
  BY <1>1, <1>2, PTL DEF Spec, ThreadSpec

\* In the service an object that has once been worked on and is ordered to run
\* is being worked on, and one that is not reported stopped has a thread.
THEOREM ServiceFlagsHonest == Spec => [](RunFlagHasThread /\ NotStoppedHasCollector)
BY ServiceImplementsThread, RunFlagHonest, CollectorExists, PTL

-----------------------------------------------------------------------------
(* StatusReported needs to know who is still going to report.              *)

AllCommandNames == {"pause", "continue", "stop", "interrogate", "start", "data", "halt"}

\* The controller c is in a command that has set the state, or may set it in
\* its next step, and has not yet reported it.
WillReport(c) ==
  \/ /\ command[c] = "pause"
     /\ at[c] \in {"process", "is stopped?", "stop object", "report", "report already"}
  \/ /\ command[c] = "continue"
     /\ at[c] \in {"usage getter", "object?", "create", "running?", "start",
                   "report", "report already", "report failed"}
  \/ /\ command[c] = "stop"
     /\ at[c] \in {"set event", "report"}

\* Steps that set the state belong to the command they should.
OwnSteps(c) ==
  /\ at[c] = "status" => command[c] = "continue"
  /\ at[c] \in {"run flag", "wait for DVFS", "stopped"} => command[c] = "stop"

ReportInv ==
  /\ at \in [Controllers -> Steps]
  /\ command \in [Controllers -> AllCommandNames \union {"none"}]
  /\ \A c \in Controllers : OwnSteps(c)
  /\ reported # m_servicestatus => \E c \in Controllers : WillReport(c)

LEMMA FirstSteps ==
  /\ FirstStep["pause"] = "process" /\ FirstStep["continue"] = "status"
  /\ FirstStep["stop"] = "run flag" /\ FirstStep["interrogate"] = "report"
  /\ FirstStep["start"] = "object?" /\ FirstStep["data"] = "who collects?"
  /\ FirstStep["halt"] = "stop object"
BY DEF FirstStep

LEMMA BeginReport ==
  ASSUME ReportInv, NEW c \in Controllers, NEW cmd \in AllCommandNames, Begin(c, cmd)
  PROVE  ReportInv'
<1>a. at \in [Controllers -> Steps]
  BY DEF ReportInv
<1>b. command \in [Controllers -> AllCommandNames \union {"none"}]
  BY DEF ReportInv
<1>0. FirstStep[cmd] \in Steps
  BY FirstSteps DEF AllCommandNames, Steps
<1>1. /\ at' \in [Controllers -> Steps]
      /\ command' \in [Controllers -> AllCommandNames \union {"none"}]
  BY <1>0 DEF ReportInv, Begin
<1>2. /\ at[c] = "idle" /\ at'[c] = FirstStep[cmd] /\ command'[c] = cmd
      /\ \A d \in Controllers \ {c} : at'[d] = at[d] /\ command'[d] = command[d]
  BY <1>a, <1>b DEF Begin
<1>3. \A d \in Controllers : OwnSteps(d)'
  <2>1. ASSUME NEW d \in Controllers, d # c PROVE OwnSteps(d)'
    BY <1>2, <2>1 DEF ReportInv, OwnSteps
  <2>2. OwnSteps(c)'
    BY <1>2, FirstSteps DEF OwnSteps, AllCommandNames
  <2> QED
    BY <2>1, <2>2
<1>4. ~ WillReport(c) /\ \A d \in Controllers \ {c} : WillReport(d) => WillReport(d)'
  BY <1>2 DEF WillReport
<1>5. cmd = "pause" => WillReport(c)'
  BY <1>2, FirstSteps DEF WillReport
<1>6. cmd # "pause" => UNCHANGED <<m_servicestatus, reported>>
  BY DEF Begin
<1>7. (reported # m_servicestatus => \E d \in Controllers : WillReport(d))'
  BY <1>4, <1>5, <1>6 DEF ReportInv
<1> QED
  BY <1>1, <1>3, <1>7 DEF ReportInv

\* A handler's step that keeps its promise to report, and its place.
LEMMA GoesReport ==
  ASSUME ReportInv, NEW c \in Controllers, NEW from, NEW to \in Steps, Goes(c, from, to),
         OwnSteps(c)',
         \/ UNCHANGED <<m_servicestatus, reported>> /\ (WillReport(c) => WillReport(c)')
         \/ WillReport(c)'
         \/ reported' = m_servicestatus'
  PROVE  ReportInv'
<1>a. at \in [Controllers -> Steps]
  BY DEF ReportInv
<1>b. command \in [Controllers -> AllCommandNames \union {"none"}]
  BY DEF ReportInv
<1>1. /\ at' \in [Controllers -> Steps]
      /\ command' \in [Controllers -> AllCommandNames \union {"none"}]
      /\ \A d \in Controllers \ {c} : at'[d] = at[d] /\ command'[d] = command[d]
  BY <1>a, <1>b DEF Goes
<1>2. \A d \in Controllers : OwnSteps(d)'
  <2>1. ASSUME NEW d \in Controllers, d # c PROVE OwnSteps(d)'
    BY <1>1, <2>1 DEF ReportInv, OwnSteps
  <2> QED
    BY <2>1
<1>3. ASSUME NEW d \in Controllers, d # c, WillReport(d) PROVE WillReport(d)'
  BY <1>1, <1>3 DEF WillReport
<1>4. (reported # m_servicestatus => \E d \in Controllers : WillReport(d))'
  <2>1. CASE UNCHANGED <<m_servicestatus, reported>> /\ (WillReport(c) => WillReport(c)')
    BY <1>3, <2>1 DEF ReportInv
  <2>2. CASE WillReport(c)'
    BY <2>2
  <2>3. CASE reported' = m_servicestatus'
    BY <2>3
  <2> QED
    BY <2>1, <2>2, <2>3
<1> QED
  BY <1>1, <1>2, <1>4 DEF ReportInv

LEMMA GoesHere ==
  ASSUME ReportInv, NEW c \in Controllers, NEW from, NEW to, Goes(c, from, to)
  PROVE  at[c] = from /\ at'[c] = to /\ (to # "idle" => command'[c] = command[c])
BY DEF ReportInv, Goes

LEMMA HandlerReport ==
  ASSUME ReportInv, NEW c \in Controllers, HandlerStep(c)
  PROVE  ReportInv'
<1>0. OwnSteps(c)
  BY DEF ReportInv
<1>1. CASE PauseProcess(c) \/ PauseIsStopped(c)
  <2>1. PICK to \in {"is stopped?", "report", "report already", "stop object"} :
          \E from \in {"process", "is stopped?"} : Goes(c, from, to)
    BY <1>1 DEF PauseProcess, PauseIsStopped
  <2>2. UNCHANGED <<m_servicestatus, reported>>
    BY <1>1 DEF PauseProcess, PauseIsStopped, KeepStatus
  <2>3. OwnSteps(c)' /\ (WillReport(c) => WillReport(c)')
    BY <2>1, GoesHere DEF OwnSteps, WillReport
  <2> QED
    BY <2>1, <2>2, <2>3, GoesReport DEF Steps
<1>2. CASE StopObject(c)
  <2>1. PICK to \in {"report", "idle", "wait for DVFS"} :
          \/ Goes(c, "stop object", to) /\ (to = "report" <=> command[c] = "pause")
                                       /\ to # "wait for DVFS"
          \/ Goes(c, "run flag", to) /\ to = "wait for DVFS"
    BY <1>2 DEF StopObject
  <2>2. UNCHANGED <<m_servicestatus, reported>>
    BY <1>2 DEF StopObject, KeepStatus
  <2>3. at'[c] = to /\ (to # "idle" => command'[c] = command[c])
    BY <2>1, GoesHere
  <2>5. ASSUME to = "wait for DVFS"
        PROVE  OwnSteps(c)' /\ (WillReport(c) => WillReport(c)')
    <3>1. at[c] = "run flag"
      BY <2>1, <2>5, GoesHere
    <3> QED
      BY <1>0, <2>3, <2>5, <3>1 DEF OwnSteps, WillReport
  <2>6. ASSUME to # "wait for DVFS"
        PROVE  OwnSteps(c)' /\ (WillReport(c) => WillReport(c)')
    <3>1. at[c] = "stop object" /\ (to = "report" <=> command[c] = "pause")
      BY <2>1, <2>6, GoesHere
    <3> QED
      BY <2>3, <2>6, <3>1 DEF OwnSteps, WillReport
  <2>7. OwnSteps(c)' /\ (WillReport(c) => WillReport(c)')
    BY <2>5, <2>6
  <2> QED
    BY <2>1, <2>2, <2>7, GoesReport DEF Steps
<1>3. CASE ContinueStatus(c)
  <2>1. Goes(c, "status", "usage getter")
    BY <1>3 DEF ContinueStatus
  <2>2. at[c] = "status" /\ at'[c] = "usage getter" /\ command'[c] = command[c]
    BY <2>1, GoesHere
  <2>3. OwnSteps(c)' /\ WillReport(c)'
    BY <1>0, <2>2 DEF OwnSteps, WillReport
  <2> QED
    BY <2>1, <2>3, GoesReport DEF Steps
<1>4. CASE ContinueUsageGetter(c) \/ StartObject(c) \/ StartCreate(c)
  <2>1. PICK to \in {"object?", "create", "running?"} :
          \E from \in {"usage getter", "object?", "create"} : Goes(c, from, to)
    BY <1>4 DEF ContinueUsageGetter, StartObject, StartCreate
  <2>2. UNCHANGED <<m_servicestatus, reported>>
    BY <1>4 DEF ContinueUsageGetter, StartObject, StartCreate, KeepStatus
  <2>3. OwnSteps(c)' /\ (WillReport(c) => WillReport(c)')
    BY <2>1, GoesHere DEF OwnSteps, WillReport
  <2> QED
    BY <2>1, <2>2, <2>3, GoesReport DEF Steps
<1>5. CASE StartRunning(c) \/ StartStart(c)
  <2>1. PICK to \in {"start", "report", "report already", "report failed", "idle"} :
          /\ \E from \in {"running?", "start"} : Goes(c, from, to)
          /\ to = "idle" => command[c] # "continue"
    BY <1>5 DEF StartRunning, StartStart
  <2>2. UNCHANGED <<m_servicestatus, reported>>
    BY <1>5 DEF StartRunning, StartStart, KeepStatus
  <2>3. OwnSteps(c)' /\ (WillReport(c) => WillReport(c)')
    BY <2>1, GoesHere DEF OwnSteps, WillReport
  <2> QED
    BY <2>1, <2>2, <2>3, GoesReport DEF Steps
<1>6. CASE StopWaitForTermination(c)
  <2>1. Goes(c, "wait for DVFS", "stopped") /\ UNCHANGED <<m_servicestatus, reported>>
    BY <1>6 DEF StopWaitForTermination, KeepStatus
  <2>2. at[c] = "wait for DVFS" /\ at'[c] = "stopped" /\ command'[c] = command[c]
    BY <2>1, GoesHere
  <2>3. OwnSteps(c)' /\ (WillReport(c) => WillReport(c)')
    BY <1>0, <2>2 DEF OwnSteps, WillReport
  <2> QED
    BY <2>1, <2>3, GoesReport DEF Steps
<1>7. CASE StopStatus(c)
  <2>1. Goes(c, "stopped", "set event")
    BY <1>7 DEF StopStatus
  <2>2. at[c] = "stopped" /\ at'[c] = "set event" /\ command'[c] = command[c]
    BY <2>1, GoesHere
  <2>3. OwnSteps(c)' /\ WillReport(c)'
    BY <1>0, <2>2 DEF OwnSteps, WillReport
  <2> QED
    BY <2>1, <2>3, GoesReport DEF Steps
<1>8. CASE StopSetEvent(c)
  <2>1. Goes(c, "set event", "report") /\ UNCHANGED <<m_servicestatus, reported>>
    BY <1>8 DEF StopSetEvent, KeepStatus
  <2>2. at[c] = "set event" /\ at'[c] = "report" /\ command'[c] = command[c]
    BY <2>1, GoesHere
  <2>3. OwnSteps(c)' /\ (WillReport(c) => WillReport(c)')
    BY <2>2 DEF OwnSteps, WillReport
  <2> QED
    BY <2>1, <2>3, GoesReport DEF Steps
<1>9. CASE SetServiceStatus(c)
  <2>1. PICK to \in {"end IPC", "idle"} :
          \E from \in {"report", "report already", "report failed"} : Goes(c, from, to)
    BY <1>9 DEF SetServiceStatus
  <2>2. reported' = m_servicestatus'
    BY <1>9 DEF SetServiceStatus
  <2>3. OwnSteps(c)'
    BY <2>1, GoesHere DEF OwnSteps
  <2> QED
    BY <2>1, <2>2, <2>3, GoesReport DEF Steps
<1>10. CASE \/ EndAlterCurrentCPUcoreIPCdata(c) \/ JoinIPCdataThread(c)
            \/ DataWhoCollects(c) \/ DataAnswer(c)
  <2>1. PICK to \in {"join", "idle", "collect", "wake"} :
          \E from \in {"end IPC", "join", "who collects?", "collect", "wake"} :
            Goes(c, from, to)
    BY <1>10 DEF EndAlterCurrentCPUcoreIPCdata, JoinIPCdataThread, DataWhoCollects,
       DataAnswer
  <2>2. UNCHANGED <<m_servicestatus, reported>>
    BY <1>10 DEF EndAlterCurrentCPUcoreIPCdata, JoinIPCdataThread, DataWhoCollects,
       DataAnswer, KeepStatus
  <2>3. OwnSteps(c)' /\ (WillReport(c) => WillReport(c)')
    BY <2>1, GoesHere DEF OwnSteps, WillReport
  <2> QED
    BY <2>1, <2>2, <2>3, GoesReport DEF Steps
<1> QED
  BY <1>1, <1>2, <1>3, <1>4, <1>5, <1>6, <1>7, <1>8, <1>9, <1>10 DEF HandlerStep

\* No step loses track of who is going to report.
LEMMA ReportStep == ReportInv /\ [Next]_vars => ReportInv'
<1> SUFFICES ASSUME ReportInv, [Next]_vars PROVE ReportInv'
  OBVIOUS
<1>0. ASSUME UNCHANGED <<at, command>>, reported' = m_servicestatus'
               \/ UNCHANGED <<m_servicestatus, reported>>
      PROVE  ReportInv'
  <2>1. (\A c \in Controllers : OwnSteps(c)') /\ \A c \in Controllers : WillReport(c)' <=> WillReport(c)
    BY <1>0 DEF ReportInv, OwnSteps, WillReport
  <2> QED
    BY <1>0, <2>1 DEF ReportInv
<1>1. CASE ServiceMain
  BY <1>0, <1>1 DEF ServiceMain, Initialize, StartIPCserverThread, CreateObject,
     StartDVFS, Initialized, WaitForSingleObject, MainGoes, KeepStatus, KeepControllers
<1>2. CASE ServiceCtrlHandlerEx
  BY <1>2, BeginReport, CommandsAssumption DEF ServiceCtrlHandlerEx, Controllers,
     AllCommandNames
<1>3. CASE \E c \in Clients : IPC_Message(c)
  BY <1>3, BeginReport, CommandsAssumption DEF IPC_Message, Controllers, AllCommandNames
<1>4. CASE \E c \in Controllers : HandlerStep(c)
  BY <1>4, HandlerReport
<1>5. CASE IPCdataThreadReturns \/ DVFSThreadStep \/ UNCHANGED vars
  BY <1>0, <1>5 DEF IPCdataThreadReturns, DVFSThreadStep, KeepStatus,
     KeepControllers, serviceVars, vars
<1>6. CASE Program \/ UseDestroyed
  BY <1>0, <1>6, ProgramStep
<1> QED
  BY <1>1, <1>2, <1>3, <1>4, <1>5, <1>6 DEF Next

\* The SCM knows the state of the service whenever no command is executing,
\* for any number of clients.
THEOREM ServiceReported == Spec => []StatusReported
<1>1. Init => ReportInv
  BY DEF Init, ReportInv, OwnSteps, Steps
<1>2. ReportInv => StatusReported
  BY DEF ReportInv, WillReport, StatusReported
<1> QED
  BY <1>1, <1>2, ReportStep, PTL DEF Spec

-----------------------------------------------------------------------------
(* ContinuedIsRunning                                                      *)

Runs == \/ m_vbRun[mp_dynfreqscalingthreadbase]
        \/ On(mp_dynfreqscalingthreadbase, {"started"}) # {}

\* The event is set, or a client is going to set it.
Stopping == m_hEndProcessingEvent \/ \E c \in Clients : at[c] \in {"wait for DVFS", "stopped", "set event"}

\* A client that does not pause and not halt takes the run flag away only when it stops
\* the service, and then sets the event.
ContinueInv ==
  /\ \A c \in Clients : at[c] \notin {"process", "is stopped?", "stop object"}
  /\ command[SCM] = "continue" =>
       at[SCM] \in {"status", "usage getter", "object?", "create", "running?", "start",
                   "report", "report already", "report failed", "idle"}
  /\ command[SCM] = "continue" /\ at[SCM] \in {"report", "report already"} =>
       Runs \/ Stopping

\* Of all that is done to the object only an order to stop ends that it runs.
LEMMA RunsStays ==
  ASSUME ThreadTypeOK, KeepsRunning, Runs
  PROVE  Runs'
<1> USE NullAssumption DEF ThreadTypeOK, Runs, On
<1>1. ASSUME NEW o \in Objects, CreateDVFSthreadObject(o) PROVE Runs'
  BY <1>1 DEF CreateDVFSthreadObject
<1>2. ASSUME NEW t \in Threads, StartThread(t) PROVE Runs'
  BY <1>2 DEF StartThread
<1>3. ASSUME NEW t \in Threads, Start(t) PROVE Runs'
  BY <1>3 DEF Start, Transition
<1>4. ASSUME NEW t \in Threads, EntryBegins(t) \/ CheckRun(t) \/ LoopBody(t) \/ SleepEnds(t) \/ EntryEnds(t)
      PROVE  Runs'
  <2>1. /\ UNCHANGED <<mp_dynfreqscalingthreadbase, m_vbRun>>
        /\ pc[t] # "started" /\ \A u \in Threads \ {t} : pc'[u] = pc[u] /\ pv'[u] = pv[u]
    BY <1>4 DEF EntryBegins, CheckRun, LoopBody, SleepEnds, EntryEnds, Transition
  <2> QED
    BY <2>1
<1>5. CASE ProcessEnds \/ UNCHANGED threadVars
  BY <1>5 DEF ProcessEnds, threadVars
<1> QED
  BY <1>1, <1>2, <1>3, <1>4, <1>5 DEF KeepsRunning, ThreadStep

\* Every step of a handler goes from one place of the command to another.
LEMMA HandlerGoes ==
  ASSUME NEW c \in Controllers, HandlerStep(c)
  PROVE  \E from, to : Goes(c, from, to)
<1>1. CASE PauseProcess(c) \/ PauseIsStopped(c) \/ StopObject(c) \/ ContinueStatus(c)
  BY <1>1 DEF PauseProcess, PauseIsStopped, StopObject, ContinueStatus
<1>2. CASE ContinueUsageGetter(c) \/ StartObject(c) \/ StartCreate(c) \/ StartRunning(c) \/ StartStart(c)
  BY <1>2 DEF ContinueUsageGetter, StartObject, StartCreate, StartRunning, StartStart
<1>3. CASE StopWaitForTermination(c) \/ StopStatus(c) \/ StopSetEvent(c) \/ SetServiceStatus(c)
  BY <1>3 DEF StopWaitForTermination, StopStatus, StopSetEvent, SetServiceStatus
<1>4. CASE \/ EndAlterCurrentCPUcoreIPCdata(c) \/ JoinIPCdataThread(c)
           \/ DataWhoCollects(c) \/ DataAnswer(c)
  BY <1>4 DEF EndAlterCurrentCPUcoreIPCdata, JoinIPCdataThread, DataWhoCollects, DataAnswer
<1> QED
  BY <1>1, <1>2, <1>3, <1>4 DEF HandlerStep

\* The event stays set, and whoever is going to set it does.
LEMMA StoppingStays == ReportInv /\ Stopping /\ [Next]_vars => Stopping'
<1> SUFFICES ASSUME ReportInv, Stopping, [Next]_vars PROVE Stopping'
  OBVIOUS
<1>a. at \in [Controllers -> Steps]
  BY DEF ReportInv
<1>1. ASSUME m_hEndProcessingEvent PROVE m_hEndProcessingEvent'
  <2>1. CASE ServiceMain
    BY <1>1, <2>1 DEF ServiceMain, Initialize, StartIPCserverThread, CreateObject, StartDVFS,
       Initialized, WaitForSingleObject, KeepFlags
  <2>2. ASSUME NEW c, NEW cmd, Begin(c, cmd) PROVE m_hEndProcessingEvent'
    BY <1>1, <2>2 DEF Begin
  <2>3. ASSUME NEW c \in Controllers, HandlerStep(c) PROVE m_hEndProcessingEvent'
    BY <1>1, <2>3 DEF HandlerStep, PauseProcess, PauseIsStopped, StopObject, ContinueStatus,
       ContinueUsageGetter, StartObject, StartCreate, StartRunning, StartStart, StopWaitForTermination,
       StopStatus, StopSetEvent, SetServiceStatus, EndAlterCurrentCPUcoreIPCdata, JoinIPCdataThread,
       WaitAndDelete, DataWhoCollects, DataAnswer, KeepFlags
  <2>4. CASE IPCdataThreadReturns \/ Program \/ UseDestroyed \/ DVFSThreadStep \/ UNCHANGED vars
    BY <1>1, <2>4, ProgramStep DEF IPCdataThreadReturns, DVFSThreadStep, serviceVars, vars
  <2> QED
    BY <2>1, <2>2, <2>3, <2>4 DEF Next, ServiceCtrlHandlerEx, IPC_Message
<1>2. ASSUME NEW c \in Clients, at[c] \in {"wait for DVFS", "stopped", "set event"}
      PROVE  m_hEndProcessingEvent' \/ at'[c] \in {"wait for DVFS", "stopped", "set event"}
  <2>0. c \in Controllers
    BY DEF Controllers
  <2>1. ASSUME UNCHANGED at PROVE at'[c] = at[c]
    BY <2>1
  <2>2. ASSUME NEW d \in Controllers, d # c, NEW new, at' = [at EXCEPT ![d] = new] PROVE at'[c] = at[c]
    BY <1>a, <2>0, <2>2
  <2>3. CASE ServiceMain
    BY <1>2, <2>3 DEF ServiceMain, Initialize, StartIPCserverThread, CreateObject, StartDVFS,
       Initialized, WaitForSingleObject, MainGoes, KeepControllers
  <2>4. ASSUME NEW d \in Controllers, NEW cmd, Begin(d, cmd) PROVE at'[c] = at[c]
    BY <1>2, <2>2, <2>4 DEF Begin
  <2>5. ASSUME NEW d \in Controllers, d # c, HandlerStep(d) PROVE at'[c] = at[c]
    <3>1. \E from, to : Goes(d, from, to)
      BY <2>5, HandlerGoes
    <3> QED
      BY <2>2, <2>5, <3>1 DEF Goes
  <2>6. ASSUME HandlerStep(c)
        PROVE  m_hEndProcessingEvent' \/ at'[c] \in {"wait for DVFS", "stopped", "set event"}
    <3>1. \/ StopWaitForTermination(c) /\ Goes(c, "wait for DVFS", "stopped")
          \/ StopStatus(c) /\ Goes(c, "stopped", "set event")
          \/ StopSetEvent(c)
      <4>1. ~ (PauseProcess(c) \/ PauseIsStopped(c) \/ StopObject(c) \/ ContinueStatus(c))
        BY <1>2 DEF PauseProcess, PauseIsStopped, StopObject, ContinueStatus, Goes
      <4>2. ~ (ContinueUsageGetter(c) \/ StartObject(c) \/ StartCreate(c) \/ StartRunning(c) \/ StartStart(c))
        BY <1>2 DEF ContinueUsageGetter, StartObject, StartCreate, StartRunning, StartStart, Goes
      <4>3. ~ (SetServiceStatus(c) \/ EndAlterCurrentCPUcoreIPCdata(c) \/ JoinIPCdataThread(c))
        BY <1>2 DEF SetServiceStatus, EndAlterCurrentCPUcoreIPCdata, JoinIPCdataThread, Goes
      <4>4. ~ (DataWhoCollects(c) \/ DataAnswer(c))
        BY <1>2 DEF DataWhoCollects, DataAnswer, Goes
      <4> QED
        BY <2>6, <4>1, <4>2, <4>3, <4>4 DEF HandlerStep, StopWaitForTermination, StopStatus
    <3>2. StopSetEvent(c) => m_hEndProcessingEvent'
      BY DEF StopSetEvent
    <3>3. ASSUME NEW from, NEW to, Goes(c, from, to) PROVE at'[c] = to
      BY <1>a, <2>0, <3>3 DEF Goes
    <3> QED
      BY <3>1, <3>2, <3>3
  <2>7. CASE IPCdataThreadReturns \/ Program \/ UseDestroyed \/ DVFSThreadStep \/ UNCHANGED vars
    BY <1>2, <2>7, ProgramStep DEF IPCdataThreadReturns, DVFSThreadStep, KeepControllers, serviceVars, vars
  <2>8. CASE ServiceCtrlHandlerEx \/ \E d \in Clients : IPC_Message(d)
    BY <1>2, <2>4, <2>8 DEF ServiceCtrlHandlerEx, IPC_Message, Controllers
  <2>9. CASE \E d \in Controllers : HandlerStep(d)
    BY <1>2, <2>5, <2>6, <2>9
  <2> QED
    BY <2>3, <2>7, <2>8, <2>9 DEF Next
<1> QED
  BY <1>1, <1>2 DEF Stopping

\* The SCM's Continue goes from step to step until the object runs.
LEMMA ContinueHandler ==
  ASSUME ThreadTypeOK, ReportInv, ContinueInv, HandlerStep(SCM), command'[SCM] = "continue"
  PROVE  /\ at'[SCM] \in {"usage getter", "object?", "create", "running?", "start",
                           "report", "report already", "report failed", "idle"}
         /\ at'[SCM] \in {"report", "report already"} => Runs'
<1> USE DEF Goes
<1>a. SCM \in Controllers /\ at \in [Controllers -> Steps] /\ command \in [Controllers -> AllCommandNames \union {"none"}]
  BY DEF Controllers, ReportInv
<1>b. command[SCM] = "continue"
  <2>1. PICK from, to : Goes(SCM, from, to)
    BY <1>a, HandlerGoes
  <2> QED
    BY <1>a, <2>1
<1>c. at[SCM] \in {"status", "usage getter", "object?", "create", "running?", "start",
                   "report", "report already", "report failed", "idle"}
  BY <1>b DEF ContinueInv
<1>1. CASE ContinueStatus(SCM) \/ ContinueUsageGetter(SCM)
  BY <1>a, <1>1 DEF ContinueStatus, ContinueUsageGetter
<1>2. CASE StartObject(SCM) \/ StartCreate(SCM)
  BY <1>a, <1>2 DEF StartObject, StartCreate
<1>3. CASE StartRunning(SCM)
  BY <1>a, <1>b, <1>3 DEF StartRunning, Runs, threadVars
<1>4. CASE StartStart(SCM)
  <2>1. CASE Goes(SCM, "start", "report failed") /\ UNCHANGED threadVars
    BY <1>a, <2>1
  <2>2. CASE Goes(SCM, "start", "report") /\ \E t \in Threads : StartThread(t)
    <3>1. at'[SCM] = "report"
      BY <1>a, <2>2
    <3>2. Runs'
      BY <2>2 DEF StartThread, Runs, On, ThreadTypeOK
    <3> QED
      BY <3>1, <3>2
  <2> QED
    BY <1>4, <1>b, <2>1, <2>2 DEF StartStart
<1>5. CASE SetServiceStatus(SCM)
  BY <1>a, <1>b, <1>5 DEF SetServiceStatus
<1>6. ~ (PauseProcess(SCM) \/ PauseIsStopped(SCM) \/ StopObject(SCM) \/ StopWaitForTermination(SCM))
  BY <1>c DEF PauseProcess, PauseIsStopped, StopObject, StopWaitForTermination
<1>7. ~ (StopStatus(SCM) \/ StopSetEvent(SCM) \/ EndAlterCurrentCPUcoreIPCdata(SCM) \/ JoinIPCdataThread(SCM))
  BY <1>c DEF StopStatus, StopSetEvent, EndAlterCurrentCPUcoreIPCdata, JoinIPCdataThread
<1>8. ~ (DataWhoCollects(SCM) \/ DataAnswer(SCM))
  BY <1>c DEF DataWhoCollects, DataAnswer
<1> QED
  BY <1>1, <1>2, <1>3, <1>4, <1>5, <1>6, <1>7, <1>8 DEF HandlerStep

\* A client that neither pauses nor halts does none of the steps of Pause.
LEMMA ClientPlaces ==
  ASSUME ClientCommands \intersect {"pause", "halt"} = {}, ReportInv, [Next]_vars, NEW c \in Clients,
         at[c] \notin {"process", "is stopped?", "stop object"}
  PROVE  at'[c] \notin {"process", "is stopped?", "stop object"}
<1>a. c \in Controllers /\ c # SCM /\ at \in [Controllers -> Steps]
  BY ThreadsAssumption DEF Controllers, ReportInv
<1>1. ASSUME NEW d \in Controllers, NEW to, at' = [at EXCEPT ![d] = to],
             d = c => to \notin {"process", "is stopped?", "stop object"}
      PROVE  at'[c] \notin {"process", "is stopped?", "stop object"}
  BY <1>a, <1>1
<1>2. CASE ServiceMain
  BY <1>2 DEF ServiceMain, Initialize, StartIPCserverThread, CreateObject, StartDVFS,
     Initialized, WaitForSingleObject, MainGoes, KeepControllers
<1>3. CASE ServiceCtrlHandlerEx
  BY <1>1, <1>3, <1>a DEF ServiceCtrlHandlerEx, Begin, Controllers
<1>4. ASSUME NEW d \in Clients, IPC_Message(d) PROVE at'[c] \notin {"process", "is stopped?", "stop object"}
  <2>1. PICK cmd \in {"continue", "stop", "start", "data"} : Begin(d, cmd)
    BY <1>4, CommandsAssumption DEF IPC_Message
  <2>2. FirstStep[cmd] \notin {"process", "is stopped?", "stop object"}
    BY FirstSteps
  <2> QED
    BY <1>1, <2>1, <2>2 DEF Begin, Controllers
<1>5. ASSUME NEW d \in Controllers, HandlerStep(d) PROVE at'[c] \notin {"process", "is stopped?", "stop object"}
  <2>1. PICK from, to : Goes(d, from, to)
    BY <1>5, HandlerGoes
  <2>2. CASE d # c
    BY <1>1, <2>1, <2>2 DEF Goes
  <2>3. CASE d = c
    <3>1. ~ (PauseProcess(c) \/ PauseIsStopped(c))
      BY DEF PauseProcess, PauseIsStopped, Goes
    <3>2. CASE StopObject(c) \/ ContinueStatus(c) \/ ContinueUsageGetter(c) \/ StartObject(c) \/ StartCreate(c)
      BY <1>a, <3>2 DEF StopObject, ContinueStatus, ContinueUsageGetter, StartObject, StartCreate, Goes
    <3>3. CASE StartRunning(c) \/ StartStart(c) \/ StopWaitForTermination(c) \/ StopStatus(c) \/ StopSetEvent(c)
      BY <1>a, <3>3 DEF StartRunning, StartStart, StopWaitForTermination, StopStatus, StopSetEvent, Goes
    <3>4. CASE \/ SetServiceStatus(c) \/ EndAlterCurrentCPUcoreIPCdata(c) \/ JoinIPCdataThread(c)
               \/ DataWhoCollects(c) \/ DataAnswer(c)
      BY <1>a, <3>4 DEF SetServiceStatus, EndAlterCurrentCPUcoreIPCdata, JoinIPCdataThread,
         DataWhoCollects, DataAnswer, Goes
    <3> QED
      BY <1>5, <2>3, <3>1, <3>2, <3>3, <3>4 DEF HandlerStep
  <2> QED
    BY <2>2, <2>3
<1>6. CASE IPCdataThreadReturns \/ Program \/ UseDestroyed \/ DVFSThreadStep \/ UNCHANGED vars
  BY <1>6, ProgramStep DEF IPCdataThreadReturns, DVFSThreadStep, KeepControllers, serviceVars, vars
<1> QED
  BY <1>2, <1>3, <1>4, <1>5, <1>6 DEF Next

\* What Continue found or made stays until a client stops the service.
LEMMA ContinueStep ==
  ASSUME ClientCommands \intersect {"pause", "halt"} = {},
         ThreadTypeOK, ReportInv, ContinueInv, [Next]_vars
  PROVE  ContinueInv'
<1>a. SCM \in Controllers /\ at \in [Controllers -> Steps] /\ command \in [Controllers -> AllCommandNames \union {"none"}]
  BY DEF Controllers, ReportInv
<1>1. \A c \in Clients : at'[c] \notin {"process", "is stopped?", "stop object"}
  BY ClientPlaces DEF ContinueInv
<1>2. ASSUME command'[SCM] = command[SCM], at'[SCM] = at[SCM] PROVE ContinueInv'
  <2>1. ASSUME command[SCM] = "continue", at[SCM] \in {"report", "report already"} PROVE Runs' \/ Stopping'
    <3>1. CASE Stopping
      BY <3>1, StoppingStays
    <3>2. CASE Runs /\ KeepsRunning
      BY <3>2, RunsStays
    <3>3. ASSUME NEW c \in Controllers, StopObject(c) PROVE Stopping'
      <4>1. at[c] \in {"run flag", "stop object"} /\ (at[c] = "run flag" => at'[c] = "wait for DVFS")
        BY <1>a, <3>3 DEF StopObject, Goes
      <4>2. c \in Clients
        BY <2>1, <4>1 DEF Controllers
      <4> QED
        BY <4>1, <4>2 DEF ContinueInv, Stopping
    <3>4. KeepsRunning \/ \E c \in Controllers : StopObject(c)
      BY ObjectStep DEF KeepsRunning, vars
    <3> QED
      BY <2>1, <3>1, <3>2, <3>3, <3>4 DEF ContinueInv
  <2> QED
    BY <1>1, <1>2, <2>1 DEF ContinueInv
<1>3. ASSUME NEW c \in Controllers, c # SCM, \E from, to : Goes(c, from, to) PROVE ContinueInv'
  <2>1. command'[SCM] = command[SCM] /\ at'[SCM] = at[SCM]
    BY <1>a, <1>3 DEF Goes
  <2> QED
    BY <1>2, <2>1
<1>4. ASSUME HandlerStep(SCM) PROVE ContinueInv'
  <2>1. command'[SCM] = "continue" =>
          /\ at'[SCM] \in {"usage getter", "object?", "create", "running?", "start",
                           "report", "report already", "report failed", "idle"}
          /\ at'[SCM] \in {"report", "report already"} => Runs'
    BY <1>4, ContinueHandler
  <2> QED
    BY <1>1, <2>1 DEF ContinueInv
<1>5. CASE ServiceCtrlHandlerEx
  <2>1. PICK cmd \in {"pause", "continue", "stop", "interrogate"} : Begin(SCM, cmd)
    BY <1>5, CommandsAssumption DEF ServiceCtrlHandlerEx
  <2>2. command'[SCM] = cmd /\ at'[SCM] = FirstStep[cmd]
    BY <1>a, <2>1 DEF Begin
  <2> QED
    BY <1>1, <2>2, FirstSteps DEF ContinueInv
<1>6. ASSUME NEW c \in Clients, IPC_Message(c) PROVE ContinueInv'
  <2>1. c # SCM /\ c \in Controllers
    BY ThreadsAssumption DEF Controllers
  <2>2. command'[SCM] = command[SCM] /\ at'[SCM] = at[SCM]
    BY <1>a, <1>6, <2>1 DEF IPC_Message, Begin
  <2> QED
    BY <1>2, <2>2
<1>7. CASE ServiceMain \/ IPCdataThreadReturns \/ Program \/ UseDestroyed \/ DVFSThreadStep \/ UNCHANGED vars
  <2>1. UNCHANGED <<command, at>>
    BY <1>7, ProgramStep DEF ServiceMain, Initialize, StartIPCserverThread, CreateObject, StartDVFS,
       Initialized, WaitForSingleObject, MainGoes, KeepControllers, IPCdataThreadReturns, DVFSThreadStep,
       serviceVars, vars
  <2> QED
    BY <1>2, <2>1
<1>8. CASE \E c \in Controllers : HandlerStep(c)
  BY <1>3, <1>4, <1>8, HandlerGoes
<1> QED
  BY <1>5, <1>6, <1>7, <1>8 DEF Next

\* When Continue of the SCM reports RUNNING, the object's loop is ordered to run or a thread
\* that will order it is on its way, whatever else the clients do and however often they
\* start: only a client that pauses, halts or stops the service comes between.
THEOREM ServiceContinues ==
  ASSUME ClientCommands \intersect {"pause", "halt"} = {}
  PROVE  Spec => []ContinuedIsRunning
<1>1. Init => ContinueInv /\ ReportInv
  BY ThreadsAssumption DEF Init, ContinueInv, Controllers, ReportInv, OwnSteps, Steps
<1>2. ThreadTypeOK /\ ReportInv /\ ContinueInv /\ [Next]_vars => ContinueInv'
  BY ContinueStep
<1>3. ContinueInv => ContinuedIsRunning
  BY DEF ContinueInv, ContinuedIsRunning, Runs, Stopping
<1> QED
  BY <1>1, <1>2, <1>3, ReportStep, ServiceImplementsThread, ThreadTypes, PTL DEF Spec

-----------------------------------------------------------------------------
(* NoLateCrash and NoThreadLost                                            *)

\* The IPC data thread is joined, its object deleted and the service destroyed only by
\* who has ordered it to end before; and nobody takes that order back.
TeardownInv ==
  /\ at \in [Controllers -> Steps]
  /\ \/ ipcDataThread = "deleted"
     \/ program \notin {"dispatching", "end IPC"}
     \/ \E c \in Controllers : at[c] = "join"
     => ~ m_vbAlterCPUcoreDataForIPC

\* A step that leaves alone how far the IPC data thread has been ended.
KeepsTeardown == UNCHANGED <<m_vbAlterCPUcoreDataForIPC, ipcDataThread, program>>

LEMMA TeardownStep == TeardownInv /\ [Next]_vars => TeardownInv'
<1> SUFFICES ASSUME TeardownInv, [Next]_vars PROVE TeardownInv'
  OBVIOUS
<1>a. at \in [Controllers -> Steps]
  BY DEF TeardownInv
<1>0. ASSUME KeepsTeardown, UNCHANGED at PROVE TeardownInv'
  BY <1>0 DEF KeepsTeardown, TeardownInv
<1>1. ASSUME KeepsTeardown, NEW c \in Controllers, NEW to \in Steps \ {"join"}, at' = [at EXCEPT ![c] = to]
      PROVE  TeardownInv'
  BY <1>1 DEF KeepsTeardown, TeardownInv
<1>2. CASE ServiceMain
  <2>1. CASE StartIPCserverThread
    BY <2>1 DEF StartIPCserverThread, MainGoes, KeepControllers, TeardownInv
  <2> QED
    BY <1>0, <1>2, <2>1 DEF ServiceMain, Initialize, CreateObject, StartDVFS, Initialized, WaitForSingleObject,
       MainGoes, KeepControllers, KeepFlags, KeepsTeardown
<1>3. ASSUME NEW c \in Controllers, NEW cmd \in AllCommandNames, Begin(c, cmd) PROVE TeardownInv'
  <2>1. FirstStep[cmd] \in Steps \ {"join"}
    BY FirstSteps DEF AllCommandNames, Steps
  <2> QED
    BY <1>1, <1>3, <2>1 DEF Begin, KeepsTeardown
<1>4. ASSUME NEW c \in Controllers, HandlerStep(c) PROVE TeardownInv'
  <2> USE DEF Goes, KeepFlags, KeepsTeardown, Steps
  <2>1. CASE PauseProcess(c) \/ PauseIsStopped(c) \/ StopObject(c) \/ ContinueStatus(c) \/ ContinueUsageGetter(c)
    BY <1>1, <2>1 DEF PauseProcess, PauseIsStopped, StopObject, ContinueStatus, ContinueUsageGetter
  <2>2. CASE StartObject(c) \/ StartCreate(c) \/ StartRunning(c) \/ StartStart(c)
    BY <1>1, <2>2 DEF StartObject, StartCreate, StartRunning, StartStart
  <2>3. CASE StopWaitForTermination(c) \/ StopStatus(c) \/ StopSetEvent(c) \/ SetServiceStatus(c)
    BY <1>1, <2>3 DEF StopWaitForTermination, StopStatus, StopSetEvent, SetServiceStatus
  <2>4. CASE DataWhoCollects(c) \/ DataAnswer(c)
    BY <1>1, <2>4 DEF DataWhoCollects, DataAnswer
  <2>5. CASE EndAlterCurrentCPUcoreIPCdata(c)
    BY <1>a, <2>5 DEF EndAlterCurrentCPUcoreIPCdata, TeardownInv
  <2>6. CASE JoinIPCdataThread(c)
    BY <1>a, <2>6 DEF JoinIPCdataThread, WaitAndDelete, TeardownInv
  <2> QED
    BY <1>4, <2>1, <2>2, <2>3, <2>4, <2>5, <2>6 DEF HandlerStep
<1>5. CASE Program \/ UseDestroyed
  <2>0. UNCHANGED at
    BY <1>5, ProgramStep
  <2>1. CASE DispatcherReturns
    BY <2>0, <2>1 DEF DispatcherReturns, ProgramGoes, KeepFlags, TeardownInv
  <2>2. CASE DestructorEndsIPC
    BY <2>0, <2>2 DEF DestructorEndsIPC, TeardownInv
  <2>3. CASE DestructorJoins
    BY <2>0, <2>3 DEF DestructorJoins, ProgramGoes, WaitAndDelete, TeardownInv
  <2>4. CASE FreeRessources
    BY <2>0, <2>4 DEF FreeRessources, ProgramGoes, KeepFlags, TeardownInv
  <2> QED
    BY <1>0, <1>5, <2>1, <2>2, <2>3, <2>4
    DEF Program, Exit, UseDestroyed, KeepFlags, KeepControllers, KeepsTeardown
<1>6. CASE DVFSThreadStep \/ UNCHANGED vars
  BY <1>0, <1>6 DEF DVFSThreadStep, serviceVars, vars, KeepsTeardown
<1>8. CASE IPCdataThreadReturns
  <2>1. UNCHANGED <<at, program, m_vbAlterCPUcoreDataForIPC>> /\ ipcDataThread' # "deleted"
    BY <1>8 DEF IPCdataThreadReturns, KeepControllers
  <2> QED
    BY <2>1 DEF TeardownInv
<1>7. CASE ServiceCtrlHandlerEx \/ \E c \in Clients : IPC_Message(c)
  BY <1>3, <1>7, CommandsAssumption DEF ServiceCtrlHandlerEx, IPC_Message, Controllers, AllCommandNames
<1> QED
  BY <1>2, <1>4, <1>5, <1>6, <1>7, <1>8 DEF Next

\* Which steps end the process, and what for.
LEMMA EndStep ==
  ASSUME PointerKept, TeardownInv, Next, up, ~ up', constructed # {}, mp_cpucoreusagegetter
  PROVE  \/ fate' = "exited"
         \/ ~ m_vbAlterCPUcoreDataForIPC /\ fate' \in {"deleted thread object", "destroyed service"}
<1> DEFINE Crash == ~ m_vbAlterCPUcoreDataForIPC /\ fate' \in {"deleted thread object", "destroyed service"}
<1>0. mp_dynfreqscalingthreadbase # NULL
  BY DEF PointerKept
<1>1. ASSUME UNCHANGED threadVars PROVE FALSE
  BY <1>1 DEF threadVars
<1>2. ASSUME \/ \E o \in Objects : CreateDVFSthreadObject(o)
             \/ ClearRun
             \/ \E t \in Threads : StartThread(t) \/ ThreadStep(t)
      PROVE  FALSE
  BY <1>2 DEF CreateDVFSthreadObject, ClearRun, StartThread, ThreadStep, Start,
     EntryBegins, CheckRun, LoopBody, SleepEnds, EntryEnds
<1>3. ~ ServiceMain
  BY <1>1, <1>2 DEF ServiceMain, Initialize, StartIPCserverThread, CreateObject,
     StartDVFS, Initialized, WaitForSingleObject
<1>4. ASSUME NEW c, NEW cmd, Begin(c, cmd) PROVE FALSE
  BY <1>4, <1>1 DEF Begin
<1>5. ASSUME NEW c \in Controllers, HandlerStep(c) PROVE Crash
  <2>1. ~ (PauseProcess(c) \/ PauseIsStopped(c) \/ StopObject(c) \/ ContinueStatus(c))
    BY <1>1, <1>2 DEF PauseProcess, PauseIsStopped, StopObject, ContinueStatus
  <2>2. ~ (ContinueUsageGetter(c) \/ StopWaitForTermination(c))
    BY <1>0, <1>1 DEF ContinueUsageGetter, StopWaitForTermination
  <2>3. ~ (StartObject(c) \/ StartCreate(c) \/ StartRunning(c) \/ StartStart(c))
    BY <1>1, <1>2 DEF StartObject, StartCreate, StartRunning, StartStart
  <2>4. ~ (StopStatus(c) \/ StopSetEvent(c) \/ SetServiceStatus(c) \/ EndAlterCurrentCPUcoreIPCdata(c))
    BY <1>1 DEF StopStatus, StopSetEvent, SetServiceStatus, EndAlterCurrentCPUcoreIPCdata
  <2>5. ~ (DataWhoCollects(c) \/ DataAnswer(c))
    BY <1>1 DEF DataWhoCollects, DataAnswer
  <2>6. at[c] = "join" /\ WaitAndDelete
    BY <1>5, <2>1, <2>2, <2>3, <2>4, <2>5 DEF HandlerStep, JoinIPCdataThread, Goes
  <2> QED
    BY <1>1, <2>6 DEF WaitAndDelete, End, TeardownInv
<1>6. ~ IPCdataThreadReturns /\ ~ DVFSThreadStep
  BY <1>1, <1>2 DEF IPCdataThreadReturns, DVFSThreadStep
<1>7. CASE Program
  <2>1. ~ (DispatcherReturns \/ DestructorEndsIPC \/ FreeRessources)
    BY <1>1 DEF DispatcherReturns, DestructorEndsIPC, FreeRessources
  <2>2. CASE DestructorJoins
    BY <1>1, <2>2 DEF DestructorJoins, ProgramGoes, WaitAndDelete, End, TeardownInv
  <2> QED
    BY <1>7, <2>1, <2>2 DEF Program, Exit, End
<1>8. CASE UseDestroyed
  BY <1>8 DEF UseDestroyed, End, TeardownInv
<1> QED
  BY <1>3, <1>4, <1>5, <1>6, <1>7, <1>8 DEF Next, ServiceCtrlHandlerEx, IPC_Message

\* With a usage getter, and once there is an object, no order or overlap of commands
\* ends the process before the IPC data thread has been ordered to end; and afterwards, if
\* not regularly, only because its object was used after Delete(), or the service after
\* its destructor.
THEOREM ServiceNoLateCrash == Spec => NoLateCrash
<1> DEFINE Good == up /\ ~ up' /\ constructed # {} /\ mp_cpucoreusagegetter
                     => \/ fate' = "exited"
                        \/ /\ ~ m_vbAlterCPUcoreDataForIPC
                           /\ fate' \in {"deleted thread object", "destroyed service"}
<1>1. Init => TeardownInv
  BY DEF Init, TeardownInv, Steps
<1>2. PointerKept /\ TeardownInv /\ [Next]_vars => [Good]_vars
  BY EndStep
<1> QED
  BY <1>1, <1>2, TeardownStep, ServiceImplementsThread, ObjectStays, PTL DEF Spec, NoLateCrash

\* ServiceMain starts a thread, and waits, only with an object.
ObjectFirst == main \in {"start", "started", "wait", "returned"} => constructed # {}

LEMMA ObjectFirstStep == ThreadTypeOK /\ ObjectFirst /\ [Next]_vars => ObjectFirst'
<1> SUFFICES ASSUME ThreadTypeOK, ObjectFirst, [Next]_vars PROVE ObjectFirst'
  OBVIOUS
<1>0. ASSUME UNCHANGED main, constructed \subseteq constructed' PROVE ObjectFirst'
  BY <1>0 DEF ObjectFirst
<1>1. constructed \subseteq constructed'
  BY ServiceStep DEF vars, ThreadNext, threadVars, CreateDVFSthreadObject, StartThread, ClearRun, ProcessEnds,
     ThreadStep, Start, EntryBegins, CheckRun, LoopBody, SleepEnds, EntryEnds
<1>2. CASE ServiceMain
  <2>1. CASE CreateObject
    BY <2>1 DEF CreateObject, CreateDVFSthreadObject, MainGoes, ObjectFirst
  <2> QED
    BY <1>1, <1>2, <2>1 DEF ServiceMain, Initialize, StartIPCserverThread, StartDVFS, Initialized,
       WaitForSingleObject, MainGoes, ObjectFirst
<1>3. ASSUME NEW c \in Controllers, HandlerStep(c) PROVE UNCHANGED main
  BY <1>3, HandlerGoes DEF Goes
<1>4. CASE ServiceCtrlHandlerEx \/ \E c \in Clients : IPC_Message(c)
  BY <1>0, <1>1, <1>4 DEF ServiceCtrlHandlerEx, IPC_Message, Begin
<1>5. CASE IPCdataThreadReturns \/ Program \/ UseDestroyed \/ DVFSThreadStep \/ UNCHANGED vars
  BY <1>0, <1>1, <1>5, ProgramStep DEF IPCdataThreadReturns, DVFSThreadStep, serviceVars, vars
<1> QED
  BY <1>0, <1>1, <1>2, <1>3, <1>4, <1>5 DEF Next

\* Who is settled makes no new object, so that the pointer stays.
LEMMA SettledStep ==
  ASSUME ThreadTypeOK, PointerKept, ObjectFirst, at \in [Controllers -> Steps],
         Settled, Next
  PROVE  Settled' /\ UNCHANGED mp_dynfreqscalingthreadbase
<1>a. mp_dynfreqscalingthreadbase # NULL
  BY DEF Settled, ObjectFirst, PointerKept
<1>0. ASSUME UNCHANGED threadVars \/ ProcessEnds \/ ClearRun \/ \E t \in Threads : StartThread(t) \/ ThreadStep(t)
      PROVE  UNCHANGED mp_dynfreqscalingthreadbase
  BY <1>0 DEF threadVars, ProcessEnds, ClearRun, StartThread, ThreadStep, Start, EntryBegins, CheckRun, LoopBody,
     SleepEnds, EntryEnds
<1>1. ASSUME UNCHANGED main, NEW c \in Controllers, NEW to, to # "create", at' = [at EXCEPT ![c] = to]
      PROVE  Settled'
  BY <1>1 DEF Settled
<1>2. CASE ServiceMain
  <2>1. StartDVFS \/ Initialized \/ WaitForSingleObject
    BY <1>2 DEF ServiceMain, Settled, Initialize, StartIPCserverThread, CreateObject, MainGoes
  <2>2. UNCHANGED at /\ main' \in {"started", "wait", "returned"}
    BY <2>1 DEF StartDVFS, Initialized, WaitForSingleObject, MainGoes, KeepControllers
  <2>3. UNCHANGED mp_dynfreqscalingthreadbase
    BY <1>0, <2>1 DEF StartDVFS, Initialized, WaitForSingleObject
  <2> QED
    BY <2>2, <2>3 DEF Settled
<1>3. ASSUME NEW c \in Controllers, NEW cmd \in AllCommandNames, Begin(c, cmd)
      PROVE  Settled' /\ UNCHANGED mp_dynfreqscalingthreadbase
  <2>1. FirstStep[cmd] # "create"
    BY FirstSteps DEF AllCommandNames
  <2> QED
    BY <1>0, <1>1, <1>3, <2>1 DEF Begin
<1>4. ASSUME NEW c \in Controllers, HandlerStep(c) PROVE Settled' /\ UNCHANGED mp_dynfreqscalingthreadbase
  <2> USE <1>0, <1>1 DEF Goes
  <2>1. CASE PauseProcess(c) \/ PauseIsStopped(c) \/ StopObject(c) \/ ContinueStatus(c)
    BY <2>1 DEF PauseProcess, PauseIsStopped, StopObject, ContinueStatus
  <2>2. CASE ContinueUsageGetter(c) \/ StopWaitForTermination(c)
    BY <2>2 DEF ContinueUsageGetter, StopWaitForTermination, End
  <2>3. CASE StartObject(c)
    BY <1>a, <2>3 DEF StartObject
  <2>4. ~ StartCreate(c)
    BY DEF StartCreate, Settled
  <2>5. CASE StartRunning(c) \/ StartStart(c)
    BY <2>5 DEF StartRunning, StartStart
  <2>6. CASE StopStatus(c) \/ StopSetEvent(c) \/ SetServiceStatus(c) \/ EndAlterCurrentCPUcoreIPCdata(c)
    BY <2>6 DEF StopStatus, StopSetEvent, SetServiceStatus, EndAlterCurrentCPUcoreIPCdata
  <2>7. CASE JoinIPCdataThread(c) \/ DataWhoCollects(c) \/ DataAnswer(c)
    BY <2>7 DEF JoinIPCdataThread, WaitAndDelete, End, DataWhoCollects, DataAnswer
  <2> QED
    BY <1>4, <2>1, <2>2, <2>3, <2>4, <2>5, <2>6, <2>7 DEF HandlerStep
<1>5. CASE ServiceCtrlHandlerEx \/ \E c \in Clients : IPC_Message(c)
  BY <1>3, <1>5, CommandsAssumption DEF ServiceCtrlHandlerEx, IPC_Message, Controllers, AllCommandNames
<1>6. CASE Program \/ UseDestroyed
  <2>1. UNCHANGED mp_dynfreqscalingthreadbase
    BY <1>0, <1>6 DEF Program, DispatcherReturns, DestructorEndsIPC, DestructorJoins, FreeRessources, Exit,
       UseDestroyed, WaitAndDelete, End
  <2> QED
    BY <1>6, <2>1, ProgramStep DEF Settled
<1>7. CASE IPCdataThreadReturns \/ DVFSThreadStep
  BY <1>0, <1>7 DEF IPCdataThreadReturns, DVFSThreadStep, KeepControllers, serviceVars, Settled
<1> QED
  BY <1>2, <1>4, <1>5, <1>6, <1>7 DEF Next

\* A thread is started on the object the pointer names.
LEMMA LostStep ==
  ASSUME ThreadTypeOK, Next, UNCHANGED mp_dynfreqscalingthreadbase, NEW t \in Threads, Lost(t)'
  PROVE  Lost(t)
<1> USE DEF Lost, ThreadTypeOK
<1>1. ASSUME NEW o \in Objects, CreateDVFSthreadObject(o) PROVE Lost(t)
  BY <1>1 DEF CreateDVFSthreadObject
<1>2. CASE ClearRun \/ ProcessEnds \/ UNCHANGED threadVars
  BY <1>2 DEF ClearRun, ProcessEnds, threadVars
<1>3. ASSUME NEW u \in Threads, StartThread(u) PROVE Lost(t)
  BY <1>3 DEF StartThread
<1>4. ASSUME NEW u \in Threads, ThreadStep(u) PROVE Lost(t)
  BY <1>4 DEF ThreadStep, Start, EntryBegins, CheckRun, LoopBody, SleepEnds, EntryEnds, Transition
<1> QED
  BY <1>1, <1>2, <1>3, <1>4, ServiceStep DEF ThreadNext

\* For any number of clients: when ServiceMain has created its object and nobody is still
\* creating one, no command makes a DVFS thread work on an object that the pointer does not
\* name, so that every thread not lost by then can be stopped.
THEOREM ServiceNoThreadLost == Spec => NoThreadLost
<1> DEFINE Good == Settled => Settled' /\ \A t \in Threads : Lost(t)' => Lost(t)
<1>1. Init => ObjectFirst
  BY DEF Init, ObjectFirst
<1>2. ThreadTypeOK /\ PointerKept /\ ObjectFirst /\ TeardownInv /\ [Next]_vars => [Good]_vars
  BY SettledStep, LostStep DEF TeardownInv
<1>3. Init => TeardownInv
  BY DEF Init, TeardownInv, Steps
<1> QED
  BY <1>1, <1>2, <1>3, ObjectFirstStep, TeardownStep, ServiceImplementsThread, ThreadTypes, ObjectStays, PTL
  DEF Spec, NoThreadLost

-----------------------------------------------------------------------------
(* The daemon. *)

\* The daemon, with the same objects and threads.
VARIABLES daemonMain, terminating, ending, daemonFate
Daemon == INSTANCE DVFSDaemon WITH main <- daemonMain, fate <- daemonFate

\* What the daemon does to the object is what the thread's specification says.
LEMMA DaemonObject ==
  /\ UNCHANGED Daemon!threadVars => UNCHANGED threadVars
  /\ Daemon!ThreadInit => ThreadInit
  /\ \A o \in Objects : Daemon!CreateDVFSthreadObject(o) => CreateDVFSthreadObject(o)
  /\ Daemon!ClearRun => ClearRun
  /\ Daemon!ProcessEnds => ProcessEnds
  /\ \A t \in Threads : Daemon!StartThread(t) => StartThread(t)
  /\ \A t \in Threads : Daemon!ThreadStep(t) => ThreadStep(t)
<1>1. UNCHANGED Daemon!threadVars => UNCHANGED threadVars
  BY DEF Daemon!threadVars, threadVars
<1>2. Daemon!ThreadInit => ThreadInit
  BY DEF Daemon!ThreadInit, ThreadInit
<1>3. ASSUME NEW o \in Objects, Daemon!CreateDVFSthreadObject(o) PROVE CreateDVFSthreadObject(o)
  BY <1>3 DEF Daemon!CreateDVFSthreadObject, CreateDVFSthreadObject
<1>4. Daemon!ClearRun => ClearRun
  BY DEF Daemon!ClearRun, ClearRun
<1>5. Daemon!ProcessEnds => ProcessEnds
  BY DEF Daemon!ProcessEnds, ProcessEnds
<1>6. ASSUME NEW t \in Threads, Daemon!StartThread(t) PROVE StartThread(t)
  BY <1>6 DEF Daemon!StartThread, StartThread
<1>7. ASSUME NEW t \in Threads, Daemon!ThreadStep(t) PROVE ThreadStep(t)
  <2>1. ASSUME NEW from, NEW to, Daemon!Transition(t, from, to) PROVE Transition(t, from, to)
    BY <2>1 DEF Daemon!Transition, Transition
  <2>2. CASE Daemon!Start(t)
    BY <2>1, <2>2 DEF Daemon!Start, Start, ThreadStep
  <2>3. CASE Daemon!EntryBegins(t)
    BY <2>1, <2>3 DEF Daemon!EntryBegins, EntryBegins, ThreadStep
  <2>4. CASE Daemon!CheckRun(t)
    BY <2>1, <2>4 DEF Daemon!CheckRun, CheckRun, ThreadStep
  <2>5. CASE Daemon!LoopBody(t) \/ Daemon!SleepEnds(t)
    BY <2>1, <2>5 DEF Daemon!LoopBody, LoopBody, Daemon!SleepEnds, SleepEnds, ThreadStep
  <2>6. CASE Daemon!EntryEnds(t)
    BY <2>1, <2>6 DEF Daemon!EntryEnds, EntryEnds, ThreadStep
  <2> QED
    BY <1>7, <2>2, <2>3, <2>4, <2>5, <2>6 DEF Daemon!ThreadStep
<1> QED
  BY <1>1, <1>2, <1>3, <1>4, <1>5, <1>6, <1>7

LEMMA DaemonStep == Daemon!Next => [ThreadNext]_threadVars
<1> SUFFICES ASSUME Daemon!Next PROVE [ThreadNext]_threadVars
  OBVIOUS
<1>0. ASSUME NEW how, Daemon!End(how) PROVE ThreadNext
  BY <1>0, DaemonObject DEF Daemon!End, ThreadNext
<1>1. CASE Daemon!Main
  <2>1. CASE Daemon!Exit
    BY <2>1, <1>0 DEF Daemon!Exit
  <2>2. CASE Daemon!CreateObject
    BY <2>2, DaemonObject DEF Daemon!CreateObject, ThreadNext
  <2>3. CASE Daemon!StartDVFS
    BY <2>3, DaemonObject DEF Daemon!StartDVFS, ThreadNext
  <2> QED
    BY <1>1, <2>1, <2>2, <2>3, DaemonObject
    DEF Daemon!Main, Daemon!Initialize, Daemon!LockAndWait, Daemon!Destroy
<1>2. CASE Daemon!Signals
  <2>1. ASSUME Daemon!EndDVFS PROVE ThreadNext
    BY <2>1, <1>0, DaemonObject DEF Daemon!EndDVFS, ThreadNext
  <2>2. CASE Daemon!SigCont
    BY <2>2, <1>0, DaemonObject DEF Daemon!SigCont, ThreadNext
  <2> QED
    BY <1>2, <2>1, <2>2, DaemonObject
    DEF Daemon!Signals, Daemon!SigUsr1, Daemon!SigTermEndDVFS, Daemon!SigTermSignal
<1>3. CASE Daemon!DVFSThreadStep
  BY <1>3, DaemonObject DEF Daemon!DVFSThreadStep, ThreadNext
<1>4. CASE Daemon!UseDestroyed
  BY <1>4, <1>0 DEF Daemon!UseDestroyed
<1> QED
  BY <1>1, <1>2, <1>3, <1>4 DEF Daemon!Next

\* Whatever signals arrive, and whenever: seen through the variables of
\* DVFSThread every step of the daemon is a step of that specification.
THEOREM DaemonImplementsThread == Daemon!Spec => ThreadSpec
<1>1. Daemon!Init => ThreadInit
  BY DaemonObject DEF Daemon!Init
<1>2. [Daemon!Next]_Daemon!vars => [ThreadNext]_threadVars
  BY DaemonStep, DaemonObject DEF Daemon!vars
<1> QED
  BY <1>1, <1>2, PTL DEF Daemon!Spec, ThreadSpec

\* In the daemon an object that has once been worked on and is ordered to run
\* is being worked on, and one that is not reported stopped has a thread.
THEOREM DaemonFlagsHonest == Daemon!Spec => [](RunFlagHasThread /\ NotStoppedHasCollector)
BY DaemonImplementsThread, RunFlagHonest, CollectorExists, PTL

\* The end of main is reached only when the daemon has been told to end.
EndingInv ==
  /\ terminating => ending
  /\ daemonMain \in {"return", "destroyed"} => ending

LEMMA DaemonEnding == EndingInv /\ [Daemon!Next]_Daemon!vars => EndingInv'
<1> SUFFICES ASSUME EndingInv, [Daemon!Next]_Daemon!vars PROVE EndingInv'
  OBVIOUS
<1> USE DEF EndingInv
<1>0. ASSUME UNCHANGED <<daemonMain, terminating, ending>> PROVE EndingInv'
  <2>1. daemonMain' = daemonMain /\ (terminating' <=> terminating) /\ (ending' <=> ending)
    BY <1>0, Zenon
  <2> QED
    BY <2>1
<1>1. CASE Daemon!Initialize \/ Daemon!StartDVFS
  <2>1. /\ UNCHANGED terminating /\ daemonMain' # "destroyed"
        /\ ending' = (ending \/ daemonMain' = "return")
    BY <1>1 DEF Daemon!Initialize, Daemon!StartDVFS, Daemon!MainGoes
  <2>2. daemonMain' = "return" => ending'
    BY <2>1, Zenon
  <2>3. ending => ending'
    BY <2>1, Zenon
  <2> QED
    BY <2>1, <2>2, <2>3
<1>2. CASE Daemon!CreateObject \/ Daemon!LockAndWait \/ Daemon!Destroy \/ Daemon!Exit
  BY <1>2 DEF Daemon!CreateObject, Daemon!LockAndWait, Daemon!Destroy, Daemon!Exit, Daemon!MainGoes
<1>3. CASE Daemon!SigCont \/ Daemon!SigUsr1
  BY <1>0, <1>3 DEF Daemon!SigCont, Daemon!SigUsr1
<1>4. CASE Daemon!SigTermEndDVFS
  BY <1>4 DEF Daemon!SigTermEndDVFS
<1>5. CASE Daemon!SigTermSignal
  BY <1>5 DEF Daemon!SigTermSignal
<1>6. CASE Daemon!DVFSThreadStep \/ Daemon!UseDestroyed \/ UNCHANGED Daemon!vars
  BY <1>0, <1>6 DEF Daemon!DVFSThreadStep, Daemon!UseDestroyed, Daemon!daemonVars, Daemon!vars
<1> QED
  BY <1>1, <1>2, <1>3, <1>4, <1>5, <1>6 DEF Daemon!Next, Daemon!Main, Daemon!Signals

\* Whatever signals arrive, a daemon that has created its object does not crash before
\* a SIGTERM was handled or its start failed; and afterwards, if it does not return from
\* main, only because a thread or a handler used what the end of main destroys.
THEOREM DaemonNoLateCrash == Daemon!Spec => Daemon!NoLateCrash
<1> DEFINE Good == constructed # {} /\ up /\ ~ up' =>
                     \/ daemonFate' = "exited"
                     \/ /\ ending
                        /\ daemonFate' \in {"thread after destruction", "handler after destruction"}
<1>0. Daemon!Init => EndingInv
  BY DEF Daemon!Init, EndingInv
<1>1. PointerKept /\ EndingInv /\ [Daemon!Next]_Daemon!vars => [Good]_Daemon!vars
  <2> SUFFICES ASSUME PointerKept, EndingInv, Daemon!Next PROVE Good
    OBVIOUS
  <2>0. /\ \A o \in Objects : CreateDVFSthreadObject(o) => up'
        /\ \A t \in Threads : (StartThread(t) \/ ThreadStep(t)) => up'
        /\ ClearRun => up'
        /\ UNCHANGED threadVars => up' = up
    BY DEF CreateDVFSthreadObject, StartThread, ThreadStep, ClearRun, threadVars, Start, Transition,
       EntryBegins, CheckRun, LoopBody, SleepEnds, EntryEnds
  <2>1. CASE Daemon!Main
    <3>1. CASE Daemon!Exit
      BY <3>1 DEF Daemon!Exit, Daemon!End
    <3>2. CASE Daemon!CreateObject \/ Daemon!StartDVFS
      BY <2>0, <3>2, DaemonObject DEF Daemon!CreateObject, Daemon!StartDVFS
    <3> QED
      BY <2>0, <2>1, <3>1, <3>2, DaemonObject
      DEF Daemon!Main, Daemon!Initialize, Daemon!LockAndWait, Daemon!Destroy
  <2>2. CASE Daemon!Signals
    <3>1. ASSUME Daemon!EndDVFS PROVE Good
      BY <2>0, <3>1, DaemonObject DEF Daemon!EndDVFS, PointerKept
    <3>2. CASE Daemon!SigCont
      BY <2>0, <3>2, DaemonObject DEF Daemon!SigCont, PointerKept
    <3> QED
      BY <2>0, <2>2, <3>1, <3>2, DaemonObject
      DEF Daemon!Signals, Daemon!SigUsr1, Daemon!SigTermEndDVFS, Daemon!SigTermSignal
  <2>3. CASE Daemon!DVFSThreadStep
    BY <2>0, <2>3, DaemonObject DEF Daemon!DVFSThreadStep
  <2>4. CASE Daemon!UseDestroyed
    BY <2>4 DEF Daemon!UseDestroyed, Daemon!End, EndingInv
  <2> QED
    BY <2>1, <2>2, <2>3, <2>4 DEF Daemon!Next
<1> QED
  BY <1>0, <1>1, DaemonEnding, DaemonImplementsThread, ObjectStays, PTL DEF Daemon!Spec, Daemon!NoLateCrash
=============================================================================
