----------------------------- MODULE MainFrame -----------------------------
(***************************************************************************)
(* The GUI.  Its thread handles one event after another: the timer and the    *)
(* paint event show the values of the service if connected, else those of the *)
(* attached CPU controller and usage getter; the menu attaches and detaches   *)
(* these libraries, connects to the service and switches the GUI's own DVFS.   *)
(* Two other kinds of thread work meanwhile: the IPC thread fetches the       *)
(* service's values, and the own DVFS thread uses controller and getter.      *)
(*                                                                         *)
(* IPC thread and drawing share the section wxconditionIPC2InProgramData,     *)
(* which its owner may enter again, and m_wxcriticalsectionIPCobject, which    *)
(* the IPC thread holds while it fetches.  The GUI thread holds the latter     *)
(* only inside one step.  Wait() and Broadcast() of the condition are those    *)
(* of IPCData.  A use of a deleted object, of a NULL pointer or beyond an array *)
(* ends the program as far as the model goes: fate tells who did what.       *)
(***************************************************************************)
EXTENDS Integers, FiniteSets

CONSTANTS
  Controllers, Getters, Threads, \* objects that may come to be
  LocalCores,  \* the cores of this computer
  Documents,   \* the number of cores with a load in the service's answers
  NULL

ASSUME MainFrameAssumption ==
  /\ LocalCores \in Nat \ {0}
  /\ Documents \subseteq 0 .. LocalCores
  /\ NULL \notin Controllers \union Getters \union Threads \union {"GUI", "IPC", "service"}
  /\ Controllers \intersect Getters = {} /\ (Controllers \union Getters) \intersect Threads = {}
  /\ "GUI" \notin Threads
  /\ NULL \notin [by : Threads \union {"GUI"}, what : SUBSET {"array", "controller", "getter", "NULL", "thread"}]

VARIABLES
  gui,         \* the next statement of the GUI thread
  mode,        \* its locals: who asks for the values ("paint", "iconized"), ...
  source,      \* ... where they come from ("service", "own"), ...
  attaching,   \* ... whether a library is loaded after the old one was deleted
  timerRuns,
  m_bConnected,
  ipc,         \* the next statement of the IPC thread
  m_vbRetrieveCPUcoreData,
  document,    \* the number of cores in the answer it parses
  fUsage,      \* the size of the map m_stdmap_wCoreNumber2fUsage
  section,     \* owner of wxconditionIPC2InProgramData: NULL, "GUI", "IPC"
  left,        \* the GUI thread has left an event without leaving the section
  m_byNumberOfCPUCores,
  arraySize,   \* of the arrays that SetCPUcoreNumber(...) makes
  made, alive, \* the objects that came to be, and those not deleted
  mp_cpucontroller,      \* of the application
  mp_i_cpucontroller,    \* of the frame
  mp_cpucoreusagegetter,
  mp_dynfreqscalingthread, mp_icpucoreusagegetter, \* of the first core's attributes
  thread,      \* per DVFS thread: its next statement
  told,        \* per DVFS thread: Stop() was called
  its,         \* per DVFS thread: the controller and the getter it was made with
  freed,       \* per DVFS thread: the arrays it refers to were deleted
  uprooted,    \* history: SetCPUcoreNumber(...) took away what is still in use
  fate         \* NULL, or who has done what wrong

drawVars == <<mode, source>>
ipcVars == <<ipc, document>>
coreVars == <<m_byNumberOfCPUCores, arraySize>>
attributes == <<mp_dynfreqscalingthread, mp_icpucoreusagegetter>>
objects == <<made, alive>>
pointers == <<mp_cpucontroller, mp_i_cpucontroller, mp_cpucoreusagegetter>>
dvfsVars == <<thread, told, its, freed>>
vars == <<gui, drawVars, attaching, timerRuns, m_bConnected, ipcVars, m_vbRetrieveCPUcoreData,
          fUsage, section, left, coreVars, attributes, objects, pointers, dvfsVars, uprooted, fate>>

Nothing == [controller |-> NULL, getter |-> NULL]

Init ==
  /\ gui = "loop" /\ mode = "paint" /\ source = "own" /\ attaching = FALSE /\ timerRuns = TRUE
  /\ m_bConnected = FALSE
  /\ ipc = "before wait" /\ m_vbRetrieveCPUcoreData = TRUE /\ document = 0 /\ fUsage = 0
  /\ section = NULL /\ left = FALSE
  /\ m_byNumberOfCPUCores = LocalCores /\ arraySize = LocalCores
  /\ made = {} /\ alive = {}
  /\ mp_cpucontroller = NULL /\ mp_i_cpucontroller = NULL /\ mp_cpucoreusagegetter = NULL
  /\ mp_dynfreqscalingthread = NULL /\ mp_icpucoreusagegetter = NULL
  /\ thread = [t \in Threads |-> "none"]
  /\ told = [t \in Threads |-> FALSE]
  /\ its = [t \in Threads |-> Nothing]
  /\ freed = [t \in Threads |-> FALSE]
  /\ uprooted = FALSE /\ fate = NULL

-----------------------------------------------------------------------------
\* Only the IPC thread holds m_wxcriticalsectionIPCobject for longer.
IPCobjectFree == ipc \notin {"sent", "start", "parse"}

Running(t) == thread[t] \in {"entry", "test", "round"}
HasArrays(t) == thread[t] \in {"test", "round"}

\* A pointer leads to an object that was deleted.
Dead(o) == o # NULL /\ o \notin alive

\* What goes wrong in a step: nothing, or something of these kinds.
If(wrong, kind) == IF wrong THEN {kind} ELSE {}
Fate(who, kinds) == fate' = IF kinds = {} THEN NULL ELSE [by |-> who, what |-> kinds]

\* The next object of a kind.
Fresh(kind) == CHOOSE o \in kind \ made : TRUE
MayMake(kind) == kind \ made # {}

\* The locals of an event are gone when it ends.
EventGoes(next) ==
  /\ gui' = next
  /\ mode' = IF next = "loop" THEN "paint" ELSE mode
  /\ source' = IF next = "loop" THEN "own" ELSE source

\* What a step of the GUI thread leaves alone, apart from the objects.
KeepThreads == UNCHANGED <<ipcVars, m_vbRetrieveCPUcoreData, fUsage, dvfsVars>>
KeepSection == UNCHANGED <<section, left, coreVars, uprooted>>
KeepDrawing == UNCHANGED drawVars /\ KeepSection
KeepObjects == UNCHANGED <<attributes, objects, pointers>>

-----------------------------------------------------------------------------
(* Timer and paint event *)

\* OnTimerEvent(...) while the frame is iconized, or OnPaint(...).  (The timer of a frame that
\* is shown only makes Windows send a paint event.)
BeginEvent(m) ==
  /\ gui = "loop" /\ (m = "iconized" => timerRuns)
  /\ gui' = "ask" /\ mode' = m
  /\ UNCHANGED <<source, attaching, timerRuns, m_bConnected, section, left, coreVars, uprooted, fate>>
  /\ KeepThreads /\ KeepObjects

\* It asks whether the service is connected.
AskWhoShows ==
  /\ gui = "ask" /\ IPCobjectFree
  /\ EventGoes(IF \/ m_bConnected \/ mp_i_cpucontroller # NULL
                  \/ mode = "paint" /\ mp_cpucoreusagegetter # NULL
               THEN "get" ELSE "loop")
  /\ UNCHANGED <<attaching, timerRuns, m_bConnected, fate>>
  /\ KeepThreads /\ KeepSection /\ KeepObjects

\* GetCPUcoreInfoDirectlyOrFromService(...) asks again, and wakes the IPC thread.
AskAgain ==
  /\ gui = "get" /\ IPCobjectFree
  /\ gui' = "enter"
  /\ source' = IF m_bConnected THEN "service" ELSE "own"
  /\ ipc' = IF m_bConnected /\ ipc = "waiting" THEN "test" ELSE ipc
  /\ UNCHANGED <<mode, attaching, timerRuns, m_bConnected, m_vbRetrieveCPUcoreData, document,
                 fUsage, section, left, coreVars, dvfsVars, uprooted, fate>>
  /\ KeepObjects

\* The destructor of the attributes deletes the DVFS thread object and the getter that
\* they refer to.
Deleted == {mp_dynfreqscalingthread, mp_icpucoreusagegetter}
DestructorWrong ==
  If(Dead(mp_dynfreqscalingthread), "thread") \union If(Dead(mp_icpucoreusagegetter), "getter")

\* SetCPUcoreNumber(...): the arrays are made anew, those of the attributes included.
SetCPUcoreNumber(n) ==
  /\ m_byNumberOfCPUCores' = n /\ arraySize' = n
  /\ mp_dynfreqscalingthread' = NULL /\ mp_icpucoreusagegetter' = NULL
  /\ freed' = [t \in Threads |-> freed[t] \/ HasArrays(t)]
  /\ uprooted' = (uprooted \/ n # LocalCores \/ mp_icpucoreusagegetter # NULL
                            \/ \E t \in Threads : HasArrays(t))

EnterSection ==
  /\ gui = "enter" /\ section # "IPC"
  /\ section' = "GUI" /\ gui' = "show"
  /\ IF source = "service"
     THEN SetCPUcoreNumber(fUsage) /\ alive' = alive \ Deleted /\ Fate("GUI", DestructorWrong)
     ELSE UNCHANGED <<coreVars, attributes, alive, freed, uprooted, fate>>
  /\ UNCHANGED <<drawVars, attaching, timerRuns, m_bConnected, ipcVars, m_vbRetrieveCPUcoreData,
                 fUsage, left, made, pointers, thread, told, its>>

Getter == IF source = "service" THEN "service" ELSE mp_cpucoreusagegetter
Controller == IF source = "service" THEN "service" ELSE mp_i_cpucontroller
HasCores == m_byNumberOfCPUCores > 0

\* The usages are got if no DVFS thread does.  The service's map is copied as far as it
\* goes, a getter's values are as many as this computer has cores.
GetsUsage == Getter # NULL /\ HasCores /\ mp_dynfreqscalingthread = NULL
UsageWrong ==
  If(GetsUsage /\ (IF source = "service" THEN fUsage ELSE LocalCores) > arraySize, "array")
    \union If(GetsUsage /\ source = "own" /\ Dead(mp_cpucoreusagegetter), "getter")

\* What GetCPUcoreInfoDirectlyOrFromService(...) returns.
Shows == (Controller # NULL \/ Getter # NULL) /\ HasCores

\* StoreCurrentVoltageAndFreqInArray(...), for every core.
ControllerWrong ==
  If(Controller # NULL /\ m_byNumberOfCPUCores > arraySize, "array")
    \union If(source = "own" /\ Dead(mp_i_cpucontroller), "controller")

\* Leave() of a thread that entered more often leaves the section entered.
AfterLeave == IF left THEN "GUI" ELSE NULL

\* DrawCurrentCPUcoreInfo(...), and OnPaint(...) draws the crosses of its controller.
Draw ==
  /\ gui = "show" /\ mode = "paint"
  /\ EventGoes("loop") /\ section' = AfterLeave
  /\ Fate("GUI", UsageWrong \union ControllerWrong
                     \union If(Dead(mp_i_cpucontroller), "controller"))
  /\ UNCHANGED <<attaching, timerRuns, m_bConnected, left, coreVars, uprooted>>
  /\ KeepThreads /\ KeepObjects

\* OnTimerEvent(...) leaves the section only if there is something to show.
GetForIcons ==
  /\ gui = "show" /\ mode = "iconized"
  /\ EventGoes(IF Shows THEN "icons" ELSE "loop")
  /\ section' = IF Shows THEN AfterLeave ELSE "GUI"
  /\ left' = (left \/ ~ Shows)
  /\ Fate("GUI", UsageWrong)
  /\ UNCHANGED <<attaching, timerRuns, m_bConnected, coreVars, uprooted>>
  /\ KeepThreads /\ KeepObjects

\* The icons show what the controller tells then, which may be none: the service may have
\* been connected when it was asked first.
ShowInTaskBar ==
  /\ gui = "icons"
  /\ EventGoes("loop")
  /\ Fate("GUI", IF Controller = NULL THEN {"NULL"} ELSE ControllerWrong)
  /\ UNCHANGED <<attaching, timerRuns, m_bConnected>>
  /\ KeepThreads /\ KeepObjects /\ KeepSection

-----------------------------------------------------------------------------
(* Menu: CPU controller and usage getter *)

\* EndDVFS(): the thread is told to stop, not waited for, and forgotten.
EndDVFS ==
  /\ told' = [t \in Threads |-> told[t] \/ t = mp_dynfreqscalingthread]
  /\ mp_dynfreqscalingthread' = NULL
  /\ Fate("GUI", If(arraySize = 0, "array") \union If(Dead(mp_dynfreqscalingthread), "thread"))

\* OnAttachCPUcontrollerDLL(...) and OnDetachCPUcontrollerDLL(...) delete the controller
\* there is: PossiblyDeleteCPUcontrollerDynLib().
ReplaceController(attach) ==
  /\ gui = "loop" /\ (attach \/ mp_cpucontroller # NULL)
  /\ attaching' = attach
  /\ IF mp_cpucontroller # NULL
     THEN gui' = "delete controller" /\ EndDVFS
     ELSE gui' = "create controller" /\ UNCHANGED <<told, mp_dynfreqscalingthread, fate>>
  /\ UNCHANGED <<timerRuns, m_bConnected, ipcVars, m_vbRetrieveCPUcoreData, fUsage, objects, pointers,
                 mp_icpucoreusagegetter, thread, its, freed>>
  /\ KeepDrawing

\* EndAllAccessToCPUcontroller() and the begin of DeleteCPUcontroller().
DeleteController ==
  /\ gui = "delete controller" /\ gui' = "forget controller"
  /\ timerRuns' = FALSE
  /\ alive' = alive \ {mp_cpucontroller}
  /\ UNCHANGED <<attaching, m_bConnected, made, pointers, attributes, fate>>
  /\ KeepThreads /\ KeepDrawing

\* A plausible fault: the frame is not told of it.
ForgetControllerOfApp ==
  /\ gui = "forget controller" /\ IPCobjectFree
  /\ gui' = IF attaching THEN "create controller" ELSE "loop"
  /\ mp_cpucontroller' = NULL
  /\ Fate("GUI", If(Dead(mp_cpucoreusagegetter), "getter"))
  /\ UNCHANGED <<attaching, timerRuns, m_bConnected, objects, mp_i_cpucontroller,
                 mp_cpucoreusagegetter, attributes>>
  /\ KeepThreads /\ KeepDrawing

\* The rest: the getter and the frame are told of it, and RedrawEverything() asks whether
\* the service is connected.
ForgetController ==
  /\ gui = "forget controller" /\ IPCobjectFree
  /\ gui' = IF attaching THEN "create controller" ELSE "loop"
  /\ mp_cpucontroller' = NULL /\ mp_i_cpucontroller' = NULL
  /\ Fate("GUI", If(Dead(mp_cpucoreusagegetter), "getter"))
  /\ UNCHANGED <<attaching, timerRuns, m_bConnected, objects, mp_cpucoreusagegetter, attributes>>
  /\ KeepThreads /\ KeepDrawing

\* CreateDynLibCPUcontroller(...) and SetCPUcontroller(...).  The getter is told of the new
\* controller, then SetModelData(...) sets the number of cores, and the first call of
\* RedrawEverything() finds no controller of the frame.
CreateController ==
  /\ gui = "create controller" /\ IPCobjectFree /\ MayMake(Controllers)
  /\ gui' = "loop" /\ attaching' = FALSE
  /\ made' = made \union {Fresh(Controllers)}
  /\ alive' = (alive \ Deleted) \union {Fresh(Controllers)}
  /\ mp_cpucontroller' = Fresh(Controllers) /\ mp_i_cpucontroller' = Fresh(Controllers)
  /\ SetCPUcoreNumber(LocalCores)
  /\ timerRuns' = TRUE
  /\ Fate("GUI", DestructorWrong \union If(Dead(mp_cpucoreusagegetter), "getter"))
  /\ UNCHANGED <<drawVars, section, left, m_bConnected, ipcVars, m_vbRetrieveCPUcoreData, fUsage,
                 mp_cpucoreusagegetter, thread, told, its>>

\* OnAttachCPUcoreUsageGetterDLL(...) and OnDetachCPUcoreUsageGetterDLL(...) delete the getter
\* there is: PossiblyDeleteCPUcoreUsageGetter().
ReplaceGetter(attach) ==
  /\ gui = "loop" /\ (attach \/ mp_cpucoreusagegetter # NULL)
  /\ attaching' = attach
  /\ IF mp_cpucoreusagegetter # NULL
     THEN gui' = "delete getter" /\ EndDVFS
     ELSE gui' = "create getter" /\ UNCHANGED <<told, mp_dynfreqscalingthread, fate>>
  /\ UNCHANGED <<timerRuns, m_bConnected, ipcVars, m_vbRetrieveCPUcoreData, fUsage, objects, pointers,
                 mp_icpucoreusagegetter, thread, its, freed>>
  /\ KeepDrawing

DeleteGetter ==
  /\ gui = "delete getter" /\ gui' = "forget getter"
  /\ alive' = alive \ {mp_cpucoreusagegetter}
  /\ Fate("GUI", If(Dead(mp_cpucoreusagegetter), "getter"))
  /\ UNCHANGED <<attaching, timerRuns, m_bConnected, made, pointers, attributes>>
  /\ KeepThreads /\ KeepDrawing

ForgetGetter ==
  /\ gui = "forget getter"
  /\ gui' = IF attaching THEN "create getter" ELSE "loop"
  /\ mp_cpucoreusagegetter' = NULL
  /\ UNCHANGED <<attaching, timerRuns, m_bConnected, objects, mp_cpucontroller, mp_i_cpucontroller,
                 attributes, fate>>
  /\ KeepThreads /\ KeepDrawing

\* RedrawEverything() asks whether the service is connected if there is no controller.
CreateGetter ==
  /\ gui = "create getter" /\ MayMake(Getters) /\ (mp_i_cpucontroller # NULL \/ IPCobjectFree)
  /\ gui' = "loop" /\ attaching' = FALSE
  /\ made' = made \union {Fresh(Getters)} /\ alive' = alive \union {Fresh(Getters)}
  /\ mp_cpucoreusagegetter' = Fresh(Getters)
  /\ UNCHANGED <<timerRuns, m_bConnected, mp_cpucontroller, mp_i_cpucontroller, attributes, fate>>
  /\ KeepThreads /\ KeepDrawing

\* The library cannot be loaded.
CreateFails ==
  /\ gui \in {"create controller", "create getter"} /\ gui' = "loop" /\ attaching' = FALSE
  /\ UNCHANGED <<timerRuns, m_bConnected, fate>>
  /\ KeepThreads /\ KeepDrawing /\ KeepObjects

-----------------------------------------------------------------------------
(* Menu: own DVFS, service; closing *)

\* StartDynamicVoltageAndFrequencyScaling() ends the DVFS thread if there is one, ...
SwitchDVFSoff ==
  /\ gui = "loop" /\ mp_cpucontroller # NULL /\ mp_cpucoreusagegetter # NULL
  /\ mp_dynfreqscalingthread # NULL
  /\ EndDVFS
  /\ UNCHANGED <<gui, attaching, timerRuns, m_bConnected, ipcVars, m_vbRetrieveCPUcoreData, fUsage,
                 objects, pointers, mp_icpucoreusagegetter, thread, its, freed>>
  /\ KeepDrawing

\* ... else makes one: CreateDynFreqScalingThread(...).
MakeDVFSthread(t) ==
  /\ made' = made \union {t} /\ alive' = alive \union {t}
  /\ mp_dynfreqscalingthread' = t /\ mp_icpucoreusagegetter' = mp_cpucoreusagegetter
  /\ thread' = [thread EXCEPT ![t] = "entry"]
  /\ its' = [its EXCEPT ![t] = [controller |-> mp_cpucontroller, getter |-> mp_cpucoreusagegetter]]
  /\ Fate("GUI", If(arraySize = 0, "array"))
  /\ UNCHANGED <<gui, attaching, timerRuns, m_bConnected, ipcVars, m_vbRetrieveCPUcoreData, fUsage,
                 pointers, told, freed>>
  /\ KeepDrawing

\* A plausible fault: the pointer to the thread there is is not looked at.
SwitchDVFSonAgain ==
  /\ gui = "loop" /\ mp_cpucontroller # NULL /\ mp_cpucoreusagegetter # NULL
  /\ MayMake(Threads) /\ MakeDVFSthread(Fresh(Threads))

SwitchDVFSon ==
  /\ gui = "loop" /\ mp_cpucontroller # NULL /\ mp_cpucoreusagegetter # NULL
  /\ mp_dynfreqscalingthread = NULL
  /\ MayMake(Threads) /\ MakeDVFSthread(Fresh(Threads))

\* OnConnectToService(...) (if that succeeds) and OnDisconnectFromService(...).
ConnectOrDisconnect ==
  /\ gui = "loop" /\ IPCobjectFree
  /\ m_bConnected' = ~ m_bConnected
  /\ UNCHANGED <<gui, attaching, timerRuns, fate>>
  /\ KeepThreads /\ KeepDrawing /\ KeepObjects

\* OnClose(...), EndGetCPUcoreDataViaIPCthread(): the flag, then the broadcast.
Close ==
  /\ gui = "loop" /\ gui' = "broadcast"
  /\ timerRuns' = FALSE /\ m_vbRetrieveCPUcoreData' = FALSE
  /\ UNCHANGED <<attaching, m_bConnected, ipcVars, fUsage, dvfsVars, fate>>
  /\ KeepDrawing /\ KeepObjects

BroadcastEnd ==
  /\ gui = "broadcast" /\ gui' = "join"
  /\ ipc' = IF ipc = "waiting" THEN "test" ELSE ipc
  /\ UNCHANGED <<attaching, timerRuns, m_bConnected, document, m_vbRetrieveCPUcoreData, fUsage,
                 dvfsVars, fate>>
  /\ KeepDrawing /\ KeepObjects

\* The thread is joined, then OnClose(...) does what EndDVFS() does if there are cores.
Join ==
  /\ gui = "join" /\ ipc = "returned" /\ gui' = "free"
  /\ IF HasCores THEN EndDVFS ELSE UNCHANGED <<told, mp_dynfreqscalingthread, fate>>
  /\ UNCHANGED <<attaching, timerRuns, m_bConnected, ipcVars, m_vbRetrieveCPUcoreData, fUsage, objects,
                 pointers, mp_icpucoreusagegetter, thread, its, freed>>
  /\ KeepDrawing

\* FreeRessources(), called by ~CPUcontrolBase() of the application object, after OnExit().
FreeRessources ==
  /\ gui = "free" /\ gui' = "ended"
  /\ alive' = alive \ {mp_cpucontroller, mp_cpucoreusagegetter}
  /\ Fate("GUI", If(Dead(mp_cpucoreusagegetter), "getter") \union If(Dead(mp_cpucontroller), "controller"))
  /\ UNCHANGED <<attaching, timerRuns, m_bConnected, made, pointers, attributes>>
  /\ KeepThreads /\ KeepDrawing

-----------------------------------------------------------------------------
(* GetCurrentCPUcoreDataViaIPCinLoopThreadFunc(...) *)

KeepGUI ==
  UNCHANGED <<gui, drawVars, attaching, timerRuns, left, coreVars, m_vbRetrieveCPUcoreData, attributes,
              objects, pointers, dvfsVars, uprooted, fate>>

WaitForRequest ==
  /\ ipc = "before wait" /\ ipc' = "waiting"
  /\ UNCHANGED <<m_bConnected, document, fUsage, section>>
  /\ KeepGUI

\* The flag is looked at after a wait and after a fetch.
TestFlag ==
  /\ ipc \in {"test", "again"}
  /\ ipc' = IF ~ m_vbRetrieveCPUcoreData THEN "returned"
            ELSE IF ipc = "test" THEN "fetch" ELSE "before wait"
  /\ UNCHANGED <<m_bConnected, document, fUsage, section>>
  /\ KeepGUI

\* FetchCPUcoreDataFromIPC(...) enters m_wxcriticalsectionIPCobject and sends the command.
Send ==
  /\ ipc = "fetch"
  /\ ipc' = IF m_bConnected THEN "sent" ELSE "again"
  /\ UNCHANGED <<m_bConnected, document, fUsage, section>>
  /\ KeepGUI

\* The answer comes, or the connection is lost.
Answer ==
  /\ ipc = "sent"
  /\ \/ \E n \in Documents : ipc' = "start" /\ document' = n /\ UNCHANGED m_bConnected
     \/ ipc' = "again" /\ m_bConnected' = FALSE /\ UNCHANGED document
  /\ UNCHANGED <<fUsage, section>>
  /\ KeepGUI

\* A plausible fault: the maps are cleared before the section is entered.
startDocumentAtOnce ==
  /\ ipc = "start" /\ ipc' = "parse"
  /\ section' = "IPC" /\ fUsage' = 0
  /\ UNCHANGED <<m_bConnected, document>>
  /\ KeepGUI

startDocument ==
  /\ ipc = "start" /\ section = NULL
  /\ ipc' = "parse" /\ section' = "IPC" /\ fUsage' = 0
  /\ UNCHANGED <<m_bConnected, document>>
  /\ KeepGUI

\* HandleCoreXMLelement_Inline(...)
startElement ==
  /\ ipc = "parse" /\ fUsage < document
  /\ fUsage' = fUsage + 1
  /\ UNCHANGED <<ipcVars, m_bConnected, section>>
  /\ KeepGUI

\* A plausible fault: nobody leaves the section if the document is not well-formed.
endDocumentOnly ==
  /\ ipc = "parse" /\ ipc' = "again"
  /\ section' = (IF fUsage = document THEN NULL ELSE "IPC") /\ document' = 0
  /\ UNCHANGED <<m_bConnected, fUsage>>
  /\ KeepGUI

\* Leave() by endDocument(), or in FetchCPUcoreDataFromIPC(...) if the document is not well-formed.
endDocumentOrFailure ==
  /\ ipc = "parse" /\ ipc' = "again"
  /\ section' = NULL /\ document' = 0
  /\ UNCHANGED <<m_bConnected, fUsage>>
  /\ KeepGUI

-----------------------------------------------------------------------------
(* The DVFS thread of the GUI: Entry() of DynFreqScalingThreadBase *)

KeepRest ==
  UNCHANGED <<gui, drawVars, attaching, timerRuns, m_bConnected, ipcVars, m_vbRetrieveCPUcoreData,
              fUsage, section, left, coreVars, attributes, objects, pointers, uprooted>>
KeepLocals == UNCHANGED <<told, its, freed>>

\* mp_icpu->Init(); the getter is the one the attributes got with the thread.
BeginEntry(t) ==
  /\ thread[t] = "entry" /\ thread' = [thread EXCEPT ![t] = "test"]
  /\ Fate(t, If(Dead(t), "thread") \union If(Dead(its[t].getter), "getter"))
  /\ KeepLocals /\ KeepRest

TestRun(t) ==
  /\ thread[t] = "test"
  /\ Fate(t, If(Dead(t), "thread"))
  /\ IF told[t]
     THEN /\ thread' = [thread EXCEPT ![t] = "ended"]
          /\ its' = [its EXCEPT ![t] = Nothing]
          /\ freed' = [freed EXCEPT ![t] = FALSE]
          /\ UNCHANGED told
     ELSE thread' = [thread EXCEPT ![t] = "round"] /\ KeepLocals
  /\ KeepRest

\* A round: the getter and the controller of the application as they are now, the
\* controller and the arrays as they were.
Round(t) ==
  /\ thread[t] = "round" /\ thread' = [thread EXCEPT ![t] = "test"]
  /\ Fate(t, If(Dead(t), "thread") \union If(freed[t], "array")
               \union If(Dead(mp_cpucoreusagegetter), "getter")
               \union If(Dead(mp_cpucontroller) \/ Dead(its[t].controller), "controller")
               \union If(mp_cpucontroller = NULL, "NULL"))
  /\ KeepLocals /\ KeepRest

-----------------------------------------------------------------------------
\* Events: they come as they like.
Event ==
  \/ \E m \in {"paint", "iconized"} : BeginEvent(m)
  \/ \E attach \in BOOLEAN : ReplaceController(attach) \/ ReplaceGetter(attach)
  \/ SwitchDVFSoff \/ SwitchDVFSon
  \/ ConnectOrDisconnect \/ Close

\* The statements of an event that has begun.
GUIstep ==
  \/ AskWhoShows \/ AskAgain \/ EnterSection \/ Draw \/ GetForIcons \/ ShowInTaskBar
  \/ DeleteController \/ ForgetController \/ CreateController
  \/ DeleteGetter \/ ForgetGetter \/ CreateGetter \/ CreateFails
  \/ BroadcastEnd \/ Join \/ FreeRessources

IPCstep ==
  \/ WaitForRequest \/ TestFlag \/ Send \/ Answer
  \/ startDocument \/ startElement \/ endDocumentOrFailure

DVFSstep(t) == BeginEntry(t) \/ TestRun(t) \/ Round(t)

Next ==
  /\ fate = NULL
  /\ Event \/ GUIstep \/ IPCstep \/ \E t \in Threads : DVFSstep(t)

Spec == Init /\ [][Next]_vars

\* The GUI and the IPC thread go on if they can (nobody waits for a DVFS thread), and the
\* service answers or the connection breaks.
FairSpec ==
  /\ Spec
  /\ WF_vars(fate = NULL /\ GUIstep) /\ WF_vars(fate = NULL /\ IPCstep)

-----------------------------------------------------------------------------
\* While the values of the service are drawn the arrays have as many elements as there are
\* values, whatever the IPC thread parses meanwhile ("Prevent the concurrent modification of
\* the # of log(ical?). cores"): GetPercentalUsageForAllCores(...) copies the whole map.
DrawnFits ==
  gui = "show" /\ source = "service" => fUsage = arraySize /\ fUsage = m_byNumberOfCPUCores

\* Nobody uses a deleted controller but a DVFS thread that was told to stop and not waited
\* for (EndDVFS), and nobody uses what else is gone but that and what is left after
\* SetCPUcoreNumber(...) took away what was in use.  (The NULL pointer of ShowInTaskBar is
\* another matter.)
UsesAlive ==
  fate # NULL =>
    LET toldThread == fate.by \in Threads /\ told[fate.by]
    IN /\ "controller" \in fate.what => toldThread \/ "thread" \in fate.what
       /\ fate.what \intersect {"getter", "array", "thread"} # {} => toldThread \/ uprooted

\* Of all threads that still scale, one at most was not told to stop: switching, replacing
\* libraries and closing never leave one behind that nobody can end.  Not if
\* SetCPUcoreNumber(...) made the GUI forget it.
OneWorks ==
  uprooted \/ \A t, u \in Threads : Running(t) /\ Running(u) /\ ~ told[t] /\ ~ told[u] => t = u

\* The GUI thread comes back from every event, however the IPC thread stands to it with its
\* two sections, if it has never left an iconized frame's event without leaving the section.
\* (Closing is not one of these events: the broadcast may be lost.)
Handlers == {"ask", "get", "enter", "show", "icons", "delete controller", "forget controller",
             "create controller", "delete getter", "forget getter", "create getter"}
GuiGetsOn == gui \in Handlers ~> gui = "loop" \/ left \/ fate # NULL

\* "If the dyn freq scaling thread is active the program would crash when it tries to get the
\* CPU usage the next time and the usage getter is destroyed": EndDVFS() is called before, so
\* nobody uses a deleted getter or controller.
DeletedIsNotUsed ==
  fate # NULL /\ ~ uprooted => fate.what \intersect {"getter", "controller"} = {}
=============================================================================
