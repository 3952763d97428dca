--------------------------- MODULE MainFrameProofs ---------------------------
(***************************************************************************)
(* For any controllers, usage getters, DVFS threads, answers of the service   *)
(* and number of cores: what is drawn fits its arrays, one DVFS thread at most *)
(* works, and who may use what is gone.                                     *)
(***************************************************************************)
EXTENDS MainFrame, TLAPS

GUIsteps ==
  {"loop", "ask", "get", "enter", "show", "icons", "delete controller", "forget controller",
   "create controller", "delete getter", "forget getter", "create getter",
   "broadcast", "join", "free", "ended"}
IPCsteps == {"before wait", "waiting", "test", "fetch", "sent", "start", "parse", "again", "returned"}

GUItypes ==
  /\ gui \in GUIsteps /\ mode \in {"paint", "iconized"} /\ source \in {"own", "service"}
  /\ section \in {NULL, "GUI", "IPC"} /\ uprooted \in BOOLEAN
  /\ arraySize \in Nat /\ m_byNumberOfCPUCores \in Nat
IPCtypes == ipc \in IPCsteps /\ document \in Nat /\ fUsage \in Nat
ObjectTypes ==
  /\ made \subseteq Controllers \union Getters \union Threads
  /\ alive \subseteq made
  /\ mp_cpucontroller \in Controllers \union {NULL}
  /\ mp_i_cpucontroller \in Controllers \union {NULL}
  /\ mp_cpucoreusagegetter \in Getters \union {NULL}
  /\ mp_icpucoreusagegetter \in Getters \union {NULL}
  /\ mp_dynfreqscalingthread \in Threads \union {NULL}
DVFStypes ==
  /\ thread \in [Threads -> {"none", "entry", "test", "round", "ended"}]
  /\ told \in [Threads -> BOOLEAN] /\ freed \in [Threads -> BOOLEAN]
  /\ its \in [Threads -> [controller : Controllers \union {NULL}, getter : Getters \union {NULL}]]
TypeOK == GUItypes /\ IPCtypes /\ ObjectTypes /\ DVFStypes

\* An object that is made is one that was not there before.
LEMMA FreshIsNew == ASSUME NEW kind, MayMake(kind) PROVE Fresh(kind) \in kind /\ Fresh(kind) \notin made
<1>1. \E o \in kind \ made : TRUE
  BY DEF MayMake
<1> QED
  BY <1>1 DEF Fresh

\* No step breaks a type.
LEMMA TypeStep == TypeOK /\ [Next]_vars => TypeOK'
<1> SUFFICES ASSUME TypeOK, [Next]_vars PROVE TypeOK'
  OBVIOUS
<1> USE DEF TypeOK
<1>1. ASSUME NEW m \in {"paint", "iconized"}, BeginEvent(m) PROVE TypeOK'
  BY <1>1 DEF BeginEvent, KeepThreads, KeepObjects, GUItypes, IPCtypes, ObjectTypes, DVFStypes, GUIsteps,
     ipcVars, dvfsVars, coreVars, attributes, objects, pointers
<1>2. CASE AskWhoShows
  BY <1>2 DEF AskWhoShows, EventGoes, KeepThreads, KeepSection, KeepObjects, GUItypes, IPCtypes,
     ObjectTypes, DVFStypes, GUIsteps, ipcVars, dvfsVars, coreVars, attributes, objects, pointers
<1>3. CASE AskAgain
  BY <1>3 DEF AskAgain, KeepObjects, GUItypes, IPCtypes, IPCsteps,
     ObjectTypes, DVFStypes, GUIsteps, dvfsVars, coreVars, attributes, objects, pointers
<1>4. ASSUME NEW n \in Nat, SetCPUcoreNumber(n)
      PROVE  /\ arraySize' \in Nat /\ m_byNumberOfCPUCores' \in Nat
             /\ mp_dynfreqscalingthread' = NULL /\ mp_icpucoreusagegetter' = NULL
             /\ freed' \in [Threads -> BOOLEAN] /\ uprooted' \in BOOLEAN
  BY <1>4 DEF SetCPUcoreNumber, GUItypes, DVFStypes
<1>5. CASE EnterSection
  <2>1. IPCtypes' /\ UNCHANGED <<mode, source, made, pointers, thread, told, its>>
    BY <1>5 DEF EnterSection, IPCtypes, ipcVars, drawVars
  <2>2. gui' \in GUIsteps /\ section' \in {NULL, "GUI", "IPC"} /\ alive' \subseteq made
    BY <1>5 DEF EnterSection, GUIsteps, ObjectTypes
  <2>3. CASE source = "service"
    <3>1. SetCPUcoreNumber(fUsage)
      BY <1>5, <2>3 DEF EnterSection
    <3> QED
      BY <1>4, <2>1, <2>2, <3>1 DEF GUItypes, IPCtypes, ObjectTypes, DVFStypes, pointers
  <2>4. CASE source # "service"
    <3>1. UNCHANGED <<coreVars, attributes, alive, freed, uprooted>>
      BY <1>5, <2>4 DEF EnterSection
    <3> QED
      BY <2>1, <2>2, <3>1 DEF GUItypes, IPCtypes, ObjectTypes, DVFStypes, pointers, coreVars, attributes
  <2> QED
    BY <2>3, <2>4
<1>6. CASE Draw \/ GetForIcons \/ ShowInTaskBar
  <2>1. UNCHANGED <<coreVars, uprooted>> /\ KeepThreads /\ KeepObjects
    BY <1>6 DEF Draw, GetForIcons, ShowInTaskBar, KeepSection
  <2>2. section' \in {NULL, "GUI", "IPC"}
    BY <1>6 DEF Draw, GetForIcons, ShowInTaskBar, AfterLeave, KeepSection, GUItypes
  <2>3. \E next \in GUIsteps : EventGoes(next)
    BY <1>6 DEF Draw, GetForIcons, ShowInTaskBar, GUIsteps
  <2>4. gui' \in GUIsteps /\ mode' \in {"paint", "iconized"} /\ source' \in {"own", "service"}
    BY <2>3 DEF EventGoes, GUItypes
  <2> QED
    BY <2>1, <2>2, <2>4 DEF KeepThreads, KeepObjects, GUItypes, IPCtypes, ObjectTypes, DVFStypes,
       ipcVars, dvfsVars, coreVars, attributes, objects, pointers
<1>7. ASSUME EndDVFS PROVE told' \in [Threads -> BOOLEAN] /\ mp_dynfreqscalingthread' = NULL
  BY <1>7 DEF EndDVFS, DVFStypes
<1>8. ASSUME EndDVFS \/ UNCHANGED <<told, mp_dynfreqscalingthread>>
      PROVE  told' \in [Threads -> BOOLEAN] /\ mp_dynfreqscalingthread' \in Threads \union {NULL}
  BY <1>7, <1>8 DEF DVFStypes, ObjectTypes
<1>9. ASSUME NEW attach \in BOOLEAN, ReplaceController(attach) \/ ReplaceGetter(attach) PROVE TypeOK'
  <2>1. /\ UNCHANGED <<ipcVars, fUsage, objects, pointers, mp_icpucoreusagegetter, thread, its, freed>>
        /\ KeepDrawing /\ gui' \in GUIsteps
    BY <1>9 DEF ReplaceController, ReplaceGetter, GUIsteps
  <2>2. told' \in [Threads -> BOOLEAN] /\ mp_dynfreqscalingthread' \in Threads \union {NULL}
    BY <1>8, <1>9 DEF ReplaceController, ReplaceGetter
  <2> QED
    BY <2>1, <2>2 DEF KeepDrawing, KeepSection, drawVars, ipcVars, objects, pointers, coreVars,
       GUItypes, IPCtypes, ObjectTypes, DVFStypes
<1>10. CASE SwitchDVFSoff \/ Join
  <2>1. /\ UNCHANGED <<ipcVars, fUsage, objects, pointers, mp_icpucoreusagegetter, thread, its, freed>>
        /\ KeepDrawing /\ gui' \in GUIsteps
    BY <1>10 DEF SwitchDVFSoff, Join, GUIsteps, GUItypes
  <2>2. told' \in [Threads -> BOOLEAN] /\ mp_dynfreqscalingthread' \in Threads \union {NULL}
    BY <1>8, <1>10 DEF SwitchDVFSoff, Join
  <2> QED
    BY <2>1, <2>2 DEF KeepDrawing, KeepSection, drawVars, ipcVars, objects, pointers, coreVars,
       GUItypes, IPCtypes, ObjectTypes, DVFStypes
<1>11. CASE DeleteController \/ DeleteGetter \/ FreeRessources
  <2>1. gui' \in GUIsteps /\ alive' \subseteq alive
    BY <1>11 DEF DeleteController, DeleteGetter, FreeRessources, GUIsteps
  <2>2. UNCHANGED <<made, pointers, attributes>> /\ KeepThreads /\ KeepDrawing
    BY <1>11 DEF DeleteController, DeleteGetter, FreeRessources
  <2> QED
    BY <2>1, <2>2 DEF KeepThreads, KeepDrawing, KeepSection, drawVars, ipcVars, pointers, attributes,
       dvfsVars, coreVars, GUItypes, IPCtypes, ObjectTypes, DVFStypes
<1>12. CASE ForgetController \/ ForgetGetter
  <2>1. /\ gui' \in GUIsteps /\ mp_cpucontroller' \in {mp_cpucontroller, NULL}
        /\ mp_i_cpucontroller' \in {mp_i_cpucontroller, NULL}
        /\ mp_cpucoreusagegetter' \in {mp_cpucoreusagegetter, NULL}
    BY <1>12 DEF ForgetController, ForgetGetter, GUIsteps
  <2>2. UNCHANGED <<objects, attributes>> /\ KeepThreads /\ KeepDrawing
    BY <1>12 DEF ForgetController, ForgetGetter
  <2> QED
    BY <2>1, <2>2 DEF KeepThreads, KeepDrawing, KeepSection, drawVars, ipcVars, objects, attributes,
       dvfsVars, coreVars, GUItypes, IPCtypes, ObjectTypes, DVFStypes
<1>13. CASE CreateController
  <2>1. Fresh(Controllers) \in Controllers
    BY <1>13, FreshIsNew DEF CreateController
  <2>2. SetCPUcoreNumber(LocalCores) /\ LocalCores \in Nat
    BY <1>13, MainFrameAssumption DEF CreateController
  <2>3. ObjectTypes'
    BY <1>4, <1>13, <2>1, <2>2 DEF CreateController, ObjectTypes
  <2>4. DVFStypes'
    BY <1>4, <1>13, <2>2 DEF CreateController, DVFStypes
  <2>5. GUItypes'
    BY <1>4, <1>13, <2>2 DEF CreateController, GUItypes, GUIsteps, drawVars
  <2> QED
    BY <1>13, <2>3, <2>4, <2>5 DEF CreateController, IPCtypes, ipcVars
<1>14. CASE CreateGetter
  <2>1. Fresh(Getters) \in Getters
    BY <1>14, FreshIsNew DEF CreateGetter
  <2>2. ObjectTypes'
    BY <1>14, <2>1 DEF CreateGetter, ObjectTypes, attributes
  <2> QED
    BY <1>14, <2>2 DEF CreateGetter, KeepThreads, KeepDrawing, KeepSection, drawVars, ipcVars,
       dvfsVars, coreVars, GUItypes, IPCtypes, DVFStypes, GUIsteps
<1>15. CASE CreateFails \/ ConnectOrDisconnect \/ Close
  <2>1. (gui' \in GUIsteps /\ KeepDrawing /\ KeepObjects /\ KeepThreads) \/ Close
    BY <1>15 DEF CreateFails, ConnectOrDisconnect, GUIsteps, GUItypes
  <2>2. ASSUME Close PROVE gui' \in GUIsteps /\ KeepDrawing /\ KeepObjects /\ UNCHANGED <<ipcVars, fUsage, dvfsVars>>
    BY <2>2 DEF Close, GUIsteps
  <2> QED
    BY <2>1, <2>2 DEF KeepThreads, KeepDrawing, KeepSection, KeepObjects, drawVars, ipcVars, objects,
       pointers, attributes, dvfsVars, coreVars, GUItypes, IPCtypes, ObjectTypes, DVFStypes
<1>16. CASE BroadcastEnd
  BY <1>16 DEF BroadcastEnd, KeepDrawing, KeepSection, KeepObjects, drawVars, objects, GUIsteps, IPCsteps,
     pointers, attributes, dvfsVars, coreVars, GUItypes, IPCtypes, ObjectTypes, DVFStypes
<1>17. CASE SwitchDVFSon
  <2> DEFINE t == Fresh(Threads)
  <2>1. t \in Threads /\ MakeDVFSthread(t)
    BY <1>17, FreshIsNew DEF SwitchDVFSon
  <2> HIDE DEF t
  <2>2. ObjectTypes'
    BY <2>1 DEF MakeDVFSthread, ObjectTypes, pointers
  <2>3. DVFStypes'
    BY <2>1 DEF MakeDVFSthread, DVFStypes, ObjectTypes
  <2> QED
    BY <2>1, <2>2, <2>3 DEF MakeDVFSthread, KeepDrawing, KeepSection, drawVars, ipcVars, coreVars,
       GUItypes, IPCtypes
<1>18. CASE IPCstep
  <2>1. KeepGUI
    BY <1>18 DEF IPCstep, WaitForRequest, TestFlag, Send, Answer, startDocument, startElement,
       endDocumentOrFailure
  <2>2. section' \in {NULL, "GUI", "IPC"}
    BY <1>18 DEF IPCstep, WaitForRequest, TestFlag, Send, Answer, startDocument, startElement,
       endDocumentOrFailure, GUItypes
  <2>3. IPCtypes'
    <3>1. Documents \subseteq Nat
      BY MainFrameAssumption
    <3>2. CASE Answer
      <4>1. ipc' \in {"start", "again"} /\ fUsage' = fUsage
        BY <3>2 DEF Answer
      <4>2. document' \in Nat
        BY <3>1, <3>2 DEF Answer, IPCtypes
      <4> QED
        BY <4>1, <4>2 DEF IPCtypes, IPCsteps
    <3>3. CASE WaitForRequest \/ TestFlag \/ Send
      <4>1. ipc' \in IPCsteps /\ UNCHANGED <<document, fUsage>>
        BY <3>3 DEF WaitForRequest, TestFlag, Send, IPCsteps
      <4> QED
        BY <4>1 DEF IPCtypes
    <3>4. CASE startDocument \/ endDocumentOrFailure
      <4>1. ipc' \in IPCsteps
        BY <3>4 DEF startDocument, endDocumentOrFailure, IPCsteps
      <4>2. document' \in Nat /\ fUsage' \in Nat
        <5>1. document' \in {document, 0} /\ fUsage' \in {fUsage, 0}
          BY <3>4 DEF startDocument, endDocumentOrFailure
        <5> QED
          BY <5>1 DEF IPCtypes
      <4> QED
        BY <4>1, <4>2 DEF IPCtypes
    <3>5. CASE startElement
      BY <3>5 DEF startElement, IPCtypes, ipcVars
    <3> QED
      BY <1>18, <3>2, <3>3, <3>4, <3>5 DEF IPCstep
  <2> QED
    BY <2>1, <2>2, <2>3 DEF KeepGUI, drawVars, coreVars, attributes, objects, pointers, dvfsVars,
       GUItypes, ObjectTypes, DVFStypes
<1>19. ASSUME NEW t \in Threads, DVFSstep(t) PROVE TypeOK'
  <2>1. KeepRest
    BY <1>19 DEF DVFSstep, BeginEntry, TestRun, Round
  <2>2. DVFStypes'
    <3>1. CASE BeginEntry(t) \/ Round(t)
      <4>1. thread' = [thread EXCEPT ![t] = "test"] /\ UNCHANGED <<told, its, freed>>
        BY <3>1 DEF BeginEntry, Round, KeepLocals
      <4> QED
        BY <4>1 DEF DVFStypes
    <3>2. CASE TestRun(t) /\ told[t]
      <4>1. /\ thread' = [thread EXCEPT ![t] = "ended"] /\ UNCHANGED told
            /\ its' = [its EXCEPT ![t] = Nothing] /\ freed' = [freed EXCEPT ![t] = FALSE]
        BY <3>2 DEF TestRun
      <4>2. Nothing \in [controller : Controllers \union {NULL}, getter : Getters \union {NULL}]
        BY DEF Nothing
      <4> QED
        BY <4>1, <4>2 DEF DVFStypes
    <3>3. CASE TestRun(t) /\ ~ told[t]
      <4>1. thread' = [thread EXCEPT ![t] = "round"] /\ UNCHANGED <<told, its, freed>>
        BY <3>3 DEF TestRun, KeepLocals
      <4> QED
        BY <4>1 DEF DVFStypes
    <3> QED
      BY <1>19, <3>1, <3>2, <3>3 DEF DVFSstep
  <2> QED
    BY <2>1, <2>2 DEF KeepRest, drawVars, ipcVars, coreVars, attributes, objects, pointers,
       GUItypes, IPCtypes, ObjectTypes
<1>20. CASE UNCHANGED vars
  BY <1>20 DEF vars, drawVars, ipcVars, coreVars, attributes, objects, pointers, dvfsVars,
     GUItypes, IPCtypes, ObjectTypes, DVFStypes
<1>21. CASE Event
  BY <1>1, <1>9, <1>10, <1>15, <1>17, <1>21 DEF Event
<1>22. CASE GUIstep
  BY <1>2, <1>3, <1>5, <1>6, <1>10, <1>11, <1>12, <1>13, <1>14, <1>15, <1>16, <1>22 DEF GUIstep
<1>23. CASE \E t \in Threads : DVFSstep(t)
  BY <1>19, <1>23
<1> QED
  BY <1>18, <1>20, <1>21, <1>22, <1>23 DEF Next

\* The GUI keeps its types: every object it refers to is one of its kind, and every
\* thread and event is at one of its statements.
THEOREM TypeCorrect == Spec => []TypeOK
<1>1. Init => TypeOK
  <2> SUFFICES ASSUME Init PROVE TypeOK
    OBVIOUS
  <2>1. GUItypes /\ IPCtypes
    BY MainFrameAssumption DEF Init, GUItypes, IPCtypes, GUIsteps, IPCsteps
  <2>2. ObjectTypes
    BY DEF Init, ObjectTypes
  <2>3. DVFStypes
    BY DEF Init, DVFStypes, Nothing
  <2> QED
    BY <2>1, <2>2, <2>3 DEF TypeOK
<1> QED
  BY <1>1, TypeStep, PTL DEF Spec
-----------------------------------------------------------------------------
(* What is drawn fits its arrays *)

\* Who draws, or parses an answer, has entered the section; and the service's values that
\* are drawn are as many as the arrays have elements.
SectionInv ==
  /\ gui = "show" => section = "GUI"
  /\ ipc = "parse" => section = "IPC"
  /\ DrawnFits

\* Only the steps of these actions enter or leave the section, or change what is in it.
LEMMA SectionStep == SectionInv /\ [Next]_vars => SectionInv'
<1> SUFFICES ASSUME SectionInv, [Next]_vars PROVE SectionInv'
  OBVIOUS
<1>1. ASSUME gui' # "show", ipc' = "parse" => ipc = "parse", section' = section PROVE SectionInv'
  BY <1>1 DEF SectionInv, DrawnFits
<1>2. CASE EnterSection
  <2>1. section' = "GUI" /\ gui' = "show" /\ ipc' = ipc /\ ipc # "parse" /\ UNCHANGED <<source, fUsage>>
    BY <1>2 DEF EnterSection, SectionInv, ipcVars, drawVars
  <2>2. source = "service" => arraySize' = fUsage /\ m_byNumberOfCPUCores' = fUsage
    BY <1>2 DEF EnterSection, SetCPUcoreNumber
  <2> QED
    BY <2>1, <2>2 DEF SectionInv, DrawnFits
<1>3. CASE Draw \/ GetForIcons
  <2>1. gui = "show" /\ ipc' = ipc /\ gui' # "show"
    BY <1>3 DEF Draw, GetForIcons, EventGoes, KeepThreads, ipcVars
  <2> QED
    BY <2>1 DEF SectionInv, DrawnFits
<1>4. CASE BroadcastEnd \/ AskAgain
  <2>1. gui' # "show" /\ section' = section
    BY <1>4 DEF BroadcastEnd, AskAgain, KeepDrawing, KeepSection
  <2>2. ipc' = "parse" => ipc = "parse"
    BY <1>4 DEF BroadcastEnd, AskAgain
  <2> QED
    BY <1>1, <2>1, <2>2
<1>5. CASE AskWhoShows \/ ShowInTaskBar
  BY <1>1, <1>5 DEF AskWhoShows, ShowInTaskBar, EventGoes, KeepThreads, KeepSection, ipcVars
<1>6. ASSUME NEW m \in {"paint", "iconized"}, BeginEvent(m) PROVE SectionInv'
  BY <1>1, <1>6 DEF BeginEvent, KeepThreads, ipcVars
<1>7. ASSUME NEW attach \in BOOLEAN, ReplaceController(attach) \/ ReplaceGetter(attach) PROVE SectionInv'
  BY <1>1, <1>7 DEF ReplaceController, ReplaceGetter, KeepDrawing, KeepSection, ipcVars
<1>8. CASE DeleteController \/ ForgetController \/ DeleteGetter \/ ForgetGetter \/ CreateGetter
           \/ CreateFails \/ FreeRessources \/ ConnectOrDisconnect
  <2>1. KeepThreads /\ KeepDrawing /\ gui' # "show"
    BY <1>8 DEF DeleteController, ForgetController, DeleteGetter, ForgetGetter, CreateGetter,
       CreateFails, FreeRessources, ConnectOrDisconnect
  <2> QED
    BY <1>1, <2>1 DEF KeepThreads, KeepDrawing, KeepSection, ipcVars
<1>9. CASE CreateController
  BY <1>1, <1>9 DEF CreateController, ipcVars
<1>10. CASE SwitchDVFSoff \/ SwitchDVFSon \/ Close \/ Join
  BY <1>1, <1>10 DEF SwitchDVFSoff, SwitchDVFSon, MakeDVFSthread, Close, Join, KeepDrawing, KeepSection,
     ipcVars
<1>11. CASE IPCstep
  <2>1. KeepGUI
    BY <1>11 DEF IPCstep, WaitForRequest, TestFlag, Send, Answer, startDocument, startElement,
       endDocumentOrFailure
  <2>2. ASSUME ipc' # "parse", UNCHANGED <<section, fUsage>> PROVE SectionInv'
    BY <2>1, <2>2 DEF KeepGUI, drawVars, coreVars, SectionInv, DrawnFits
  <2>3. CASE WaitForRequest \/ TestFlag \/ Send
    BY <2>2, <2>3 DEF WaitForRequest, TestFlag, Send
  <2>4. CASE Answer
    BY <2>2, <2>4 DEF Answer
  <2>5. CASE startDocument
    <3>1. section = NULL /\ section' = "IPC" /\ gui' = gui
      BY <2>1, <2>5 DEF startDocument, KeepGUI
    <3>2. NULL # "GUI"
      BY MainFrameAssumption
    <3> QED
      BY <3>1, <3>2 DEF SectionInv, DrawnFits
  <2>6. CASE startElement
    <3>1. section = "IPC" /\ section' = "IPC" /\ gui' = gui
      BY <2>1, <2>6 DEF startElement, KeepGUI, SectionInv
    <3> QED
      BY <3>1 DEF SectionInv, DrawnFits
  <2>7. CASE endDocumentOrFailure
    <3>1. section = "IPC" /\ ipc' = "again" /\ gui' = gui
      BY <2>1, <2>7 DEF endDocumentOrFailure, KeepGUI, SectionInv
    <3> QED
      BY <3>1 DEF SectionInv, DrawnFits
  <2> QED
    BY <1>11, <2>3, <2>4, <2>5, <2>6, <2>7 DEF IPCstep
<1>12. ASSUME NEW t \in Threads, DVFSstep(t) PROVE SectionInv'
  <2>1. KeepRest
    BY <1>12 DEF DVFSstep, BeginEntry, TestRun, Round
  <2> QED
    BY <2>1 DEF KeepRest, drawVars, ipcVars, coreVars, SectionInv, DrawnFits
<1>13. CASE UNCHANGED vars
  BY <1>13 DEF vars, drawVars, ipcVars, coreVars, SectionInv, DrawnFits
<1>14. CASE Event
  BY <1>6, <1>7, <1>8, <1>10, <1>14 DEF Event
<1>15. CASE GUIstep
  BY <1>2, <1>3, <1>4, <1>5, <1>8, <1>9, <1>10, <1>15 DEF GUIstep
<1>16. CASE \E t \in Threads : DVFSstep(t)
  BY <1>12, <1>16
<1> QED
  BY <1>11, <1>13, <1>14, <1>15, <1>16 DEF Next

\* While the values of the service are drawn the arrays have as many elements as there are
\* values, whatever the IPC thread parses meanwhile: it and the GUI thread exclude one
\* another in the section.
THEOREM DrawnValuesFit == Spec => []DrawnFits
<1>1. Init => SectionInv
  BY DEF Init, SectionInv, DrawnFits
<1>2. SectionInv => DrawnFits
  BY DEF SectionInv
<1> QED
  BY <1>1, <1>2, SectionStep, PTL DEF Spec

-----------------------------------------------------------------------------
(* One DVFS thread works *)

\* The thread that works is the one the GUI can end, and the attributes that refer to it
\* refer to a getter too: whatever makes the GUI forget it takes the getter from it.
WorkInv ==
  /\ mp_dynfreqscalingthread # NULL => mp_icpucoreusagegetter # NULL
  /\ uprooted \/ \A t \in Threads : Running(t) /\ ~ told[t] => t = mp_dynfreqscalingthread

\* Only these actions begin or end a thread, tell it to stop or make the GUI forget it.
LEMMA WorkStep == TypeOK /\ WorkInv /\ [Next]_vars => WorkInv'
<1> SUFFICES ASSUME TypeOK, WorkInv, [Next]_vars PROVE WorkInv'
  OBVIOUS
<1>1. ASSUME UNCHANGED <<attributes, thread, told, uprooted>> PROVE WorkInv'
  BY <1>1 DEF WorkInv, attributes, Running
<1>2. ASSUME EndDVFS, UNCHANGED <<thread, uprooted>> PROVE WorkInv'
  <2>1. mp_dynfreqscalingthread' = NULL
    BY <1>2 DEF EndDVFS
  <2>2. ASSUME NEW t \in Threads, Running(t)', ~ told'[t] PROVE uprooted
    <3>1. Running(t) /\ ~ told[t] /\ t # mp_dynfreqscalingthread
      BY <1>2, <2>2 DEF EndDVFS, Running
    <3> QED
      BY <3>1 DEF WorkInv
  <2> QED
    BY <1>2, <2>1, <2>2 DEF WorkInv
<1>3. ASSUME NEW n, SetCPUcoreNumber(n), UNCHANGED <<thread, told>> PROVE WorkInv'
  <2>1. mp_dynfreqscalingthread' = NULL
    BY <1>3 DEF SetCPUcoreNumber
  <2>2. ASSUME NEW t \in Threads, Running(t)', ~ told'[t] PROVE uprooted'
    <3>1. Running(t) /\ ~ told[t]
      BY <1>3, <2>2 DEF Running
    <3>2. CASE uprooted
      BY <1>3, <3>2 DEF SetCPUcoreNumber
    <3>3. CASE ~ uprooted
      <4>1. t = mp_dynfreqscalingthread
        BY <3>1, <3>3 DEF WorkInv
      <4>2. mp_icpucoreusagegetter # NULL
        BY <4>1, MainFrameAssumption DEF WorkInv
      <4> QED
        BY <1>3, <4>2 DEF SetCPUcoreNumber
    <3> QED
      BY <3>2, <3>3
  <2> QED
    BY <2>1, <2>2 DEF WorkInv
<1>4. ASSUME NEW m \in {"paint", "iconized"}, BeginEvent(m) PROVE WorkInv'
  BY <1>1, <1>4 DEF BeginEvent, KeepThreads, KeepObjects, dvfsVars
<1>5. CASE AskWhoShows \/ AskAgain \/ ShowInTaskBar
  BY <1>1, <1>5 DEF AskWhoShows, AskAgain, ShowInTaskBar, KeepThreads, KeepSection, KeepObjects, dvfsVars
<1>6. CASE Draw \/ GetForIcons
  BY <1>1, <1>6 DEF Draw, GetForIcons, KeepThreads, KeepObjects, dvfsVars
<1>7. CASE EnterSection
  <2>1. UNCHANGED <<thread, told>>
    BY <1>7 DEF EnterSection
  <2>2. SetCPUcoreNumber(fUsage) \/ UNCHANGED <<attributes, uprooted>>
    BY <1>7 DEF EnterSection
  <2> QED
    BY <1>1, <1>3, <2>1, <2>2
<1>8. ASSUME NEW attach \in BOOLEAN, ReplaceController(attach) \/ ReplaceGetter(attach) PROVE WorkInv'
  <2>1. UNCHANGED <<mp_icpucoreusagegetter, thread, uprooted>>
    BY <1>8 DEF ReplaceController, ReplaceGetter, KeepDrawing, KeepSection
  <2>2. EndDVFS \/ UNCHANGED <<told, mp_dynfreqscalingthread>>
    BY <1>8 DEF ReplaceController, ReplaceGetter
  <2> QED
    BY <1>1, <1>2, <2>1, <2>2 DEF attributes
<1>9. CASE SwitchDVFSoff \/ Join
  <2>1. UNCHANGED <<mp_icpucoreusagegetter, thread, uprooted>>
    BY <1>9 DEF SwitchDVFSoff, Join, KeepDrawing, KeepSection
  <2>2. EndDVFS \/ UNCHANGED <<told, mp_dynfreqscalingthread>>
    BY <1>9 DEF SwitchDVFSoff, Join
  <2> QED
    BY <1>1, <1>2, <2>1, <2>2 DEF attributes
<1>10. CASE \/ DeleteController \/ ForgetController \/ DeleteGetter \/ ForgetGetter \/ CreateGetter
            \/ CreateFails \/ FreeRessources \/ ConnectOrDisconnect
  <2>1. KeepThreads /\ KeepDrawing /\ UNCHANGED attributes
    BY <1>10 DEF DeleteController, ForgetController, DeleteGetter, ForgetGetter, CreateGetter,
       CreateFails, FreeRessources, ConnectOrDisconnect, KeepObjects
  <2> QED
    BY <1>1, <2>1 DEF KeepThreads, KeepDrawing, KeepSection, dvfsVars
<1>11. CASE CreateController
  BY <1>3, <1>11 DEF CreateController
<1>12. CASE SwitchDVFSon
  <2> DEFINE t == Fresh(Threads)
  <2>1. t \in Threads /\ MakeDVFSthread(t) /\ mp_dynfreqscalingthread = NULL /\ mp_cpucoreusagegetter # NULL
    BY <1>12, FreshIsNew DEF SwitchDVFSon
  <2> HIDE DEF t
  <2>2. mp_dynfreqscalingthread' = t /\ mp_icpucoreusagegetter' # NULL /\ UNCHANGED <<told, uprooted>>
    BY <2>1 DEF MakeDVFSthread, KeepDrawing, KeepSection
  <2>3. ASSUME NEW u \in Threads, Running(u)', ~ told'[u], u # t PROVE uprooted
    <3>1. thread'[u] = thread[u]
      BY <2>1, <2>3 DEF MakeDVFSthread, TypeOK, DVFStypes
    <3>2. u # mp_dynfreqscalingthread
      BY <2>1, MainFrameAssumption
    <3> QED
      BY <2>2, <2>3, <3>1, <3>2 DEF WorkInv, Running
  <2> QED
    BY <2>2, <2>3 DEF WorkInv
<1>13. CASE Close \/ BroadcastEnd
  BY <1>1, <1>13 DEF Close, BroadcastEnd, KeepDrawing, KeepSection, KeepObjects, dvfsVars
<1>14. CASE IPCstep
  <2>1. KeepGUI
    BY <1>14 DEF IPCstep, WaitForRequest, TestFlag, Send, Answer, startDocument, startElement,
       endDocumentOrFailure
  <2> QED
    BY <1>1, <2>1 DEF KeepGUI, dvfsVars
<1>15. ASSUME NEW t \in Threads, DVFSstep(t) PROVE WorkInv'
  <2>1. UNCHANGED <<attributes, told, uprooted>>
    BY <1>15 DEF DVFSstep, BeginEntry, TestRun, Round, KeepRest, KeepLocals
  <2>2. \A u \in Threads : Running(u)' => Running(u)
    <3>1. Running(t) /\ \E next \in {"test", "round", "ended"} : thread' = [thread EXCEPT ![t] = next]
      BY <1>15 DEF DVFSstep, BeginEntry, TestRun, Round, Running
    <3> QED
      BY <3>1 DEF TypeOK, DVFStypes, Running
  <2> QED
    BY <2>1, <2>2 DEF WorkInv, attributes
<1>16. CASE UNCHANGED vars
  BY <1>1, <1>16 DEF vars, dvfsVars
<1>17. CASE Event
  BY <1>4, <1>8, <1>9, <1>10, <1>12, <1>13, <1>17 DEF Event
<1>18. CASE GUIstep
  BY <1>5, <1>6, <1>7, <1>9, <1>10, <1>11, <1>13, <1>18 DEF GUIstep
<1>19. CASE \E t \in Threads : DVFSstep(t)
  BY <1>15, <1>19
<1> QED
  BY <1>14, <1>16, <1>17, <1>18, <1>19 DEF Next

\* Of all threads that still scale, one at most was not told to stop, unless
\* SetCPUcoreNumber(...) made the GUI forget one: EndDVFS() and the guard of
\* StartDynamicVoltageAndFrequencyScaling() never leave one behind that nobody can end.
THEOREM OneThreadWorks == Spec => []OneWorks
<1>1. Init => WorkInv
  BY DEF Init, WorkInv, Running
<1>2. WorkInv => OneWorks
  BY DEF WorkInv, OneWorks
<1> QED
  BY <1>1, <1>2, TypeCorrect, WorkStep, PTL DEF Spec

-----------------------------------------------------------------------------
(* Nobody uses what is gone *)

\* The events in which there may be a DVFS thread of the GUI: before it deletes a library
\* the GUI has ended the thread.
Undisturbed == {"loop", "ask", "get", "enter", "show", "icons", "broadcast", "join"}

CoresInv ==
  /\ m_byNumberOfCPUCores = arraySize
  /\ ~ uprooted => arraySize = LocalCores
\* The frame's controller is the application's, and it is there until it is deleted.
ControllerInv ==
  /\ mp_i_cpucontroller = mp_cpucontroller
  /\ gui \notin {"forget controller", "ended"} => ~ Dead(mp_cpucontroller)
\* So is the getter, if the attributes did not delete it.
GetterInv == uprooted \/ (gui \notin {"forget getter", "ended"} => ~ Dead(mp_cpucoreusagegetter))
\* As long as the GUI refers to a DVFS thread there is all that such a thread uses.
DVFSInv ==
  mp_dynfreqscalingthread # NULL =>
    /\ mp_dynfreqscalingthread \in alive /\ arraySize # 0
    /\ mp_cpucontroller # NULL /\ mp_cpucoreusagegetter # NULL
    /\ gui \in Undisturbed
\* A thread that works was not forgotten, or its object was deleted with the attributes.
Kept(t) ==
  \/ /\ t = mp_dynfreqscalingthread
     /\ its[t] = [controller |-> mp_cpucontroller, getter |-> mp_cpucoreusagegetter]
  \/ t \notin alive /\ uprooted
ThreadInv == \A t \in Threads : Running(t) /\ ~ told[t] => Kept(t)
FreedInv == \A t \in Threads : freed[t] => uprooted

AllThere == CoresInv /\ ControllerInv /\ GetterInv /\ DVFSInv /\ ThreadInv /\ FreedInv

\* So it is as long as nothing went wrong.
AliveInv == fate = NULL => AllThere

\* Whoever does something wrong has a fate.
LEMMA WrongIsFate ==
  ASSUME NEW who \in Threads \union {"GUI"},
         NEW kinds \in SUBSET {"array", "controller", "getter", "NULL", "thread"},
         Fate(who, kinds)
  PROVE  /\ fate' = NULL <=> kinds = {}
         /\ fate' # NULL => fate' = [by |-> who, what |-> kinds]
<1>1. [by |-> who, what |-> kinds]
        \in [by : Threads \union {"GUI"}, what : SUBSET {"array", "controller", "getter", "NULL", "thread"}]
  OBVIOUS
<1>2. [by |-> who, what |-> kinds] # NULL
  BY <1>1, MainFrameAssumption
<1> QED
  BY <1>2 DEF Fate

\* An event that deletes, makes and ends nothing.
LEMMA CalmKeeps ==
  ASSUME AllThere, TypeOK,
         gui' = gui \/ (gui' \in Undisturbed /\ gui \notin {"forget controller", "forget getter", "ended"}),
         UNCHANGED <<coreVars, attributes, objects, pointers, dvfsVars, uprooted>>
  PROVE  AllThere'
<1> USE DEF coreVars, attributes, objects, pointers, dvfsVars
<1>1. CoresInv' /\ FreedInv'
  BY DEF AllThere, CoresInv, FreedInv
<1>2. ControllerInv' /\ GetterInv'
  <2>1. gui' \in {"forget controller", "forget getter", "ended"} => gui' = gui
    BY DEF Undisturbed
  <2>2. gui \in {"forget controller", "forget getter", "ended"} => gui' = gui
    OBVIOUS
  <2>3. ControllerInv'
    BY <2>1, <2>2 DEF AllThere, ControllerInv, Dead
  <2>4. GetterInv'
    BY <2>1, <2>2 DEF AllThere, GetterInv, Dead
  <2> QED
    BY <2>3, <2>4
<1>3. DVFSInv'
  BY DEF AllThere, DVFSInv
<1>4. ThreadInv'
  BY DEF AllThere, ThreadInv, Running, Kept
<1> QED
  BY <1>1, <1>2, <1>3, <1>4 DEF AllThere

\* EndDVFS() with a change of the GUI's statement.
LEMMA EndKeeps ==
  ASSUME AllThere, TypeOK, EndDVFS, gui' \notin {"forget controller", "forget getter", "ended"},
         gui \in Undisturbed,
         UNCHANGED <<coreVars, objects, pointers, thread, its, freed, uprooted>>
  PROVE  AllThere'
<1> USE DEF coreVars, objects, pointers
<1>1. CoresInv' /\ FreedInv'
  BY DEF AllThere, CoresInv, FreedInv
<1>2. ControllerInv' /\ GetterInv'
  BY DEF AllThere, ControllerInv, GetterInv, Dead, Undisturbed
<1>3. mp_dynfreqscalingthread' = NULL
  BY DEF EndDVFS
<1>4. ASSUME NEW t \in Threads, Running(t)', ~ told'[t] PROVE Kept(t)'
  <2>1. Running(t) /\ ~ told[t] /\ t # mp_dynfreqscalingthread
    BY <1>4 DEF EndDVFS, Running
  <2> QED
    BY <2>1 DEF AllThere, ThreadInv, Kept
<1> QED
  BY <1>1, <1>2, <1>3, <1>4 DEF AllThere, DVFSInv, ThreadInv

\* SetCPUcoreNumber(...): the attributes are made anew, a new controller may be among the
\* objects.
LEMMA CoresKeep ==
  ASSUME AllThere, TypeOK, WorkInv, NEW n, SetCPUcoreNumber(n),
         alive \ Deleted \subseteq alive', alive' \intersect Threads \subseteq alive \ Deleted,
         mp_i_cpucontroller' = mp_cpucontroller',
         mp_cpucontroller' = mp_cpucontroller \/ mp_cpucontroller' \in alive',
         gui \notin {"forget controller", "forget getter", "ended"},
         UNCHANGED <<mp_cpucoreusagegetter, thread, told, its>>
  PROVE  AllThere'
<1>1. mp_dynfreqscalingthread' = NULL /\ (uprooted => uprooted')
  BY DEF SetCPUcoreNumber
<1>2. CoresInv'
  BY DEF SetCPUcoreNumber, CoresInv
<1>3. FreedInv'
  BY DEF SetCPUcoreNumber, FreedInv, AllThere
<1>4. ControllerInv'
  <2>1. mp_cpucontroller # NULL => mp_cpucontroller \notin Deleted
    BY MainFrameAssumption DEF Deleted, TypeOK, ObjectTypes
  <2>2. mp_cpucontroller # NULL => mp_cpucontroller \in alive
    BY DEF AllThere, ControllerInv, Dead
  <2> QED
    BY <2>1, <2>2 DEF ControllerInv, Dead
<1>5. GetterInv'
  <2>1. ASSUME ~ uprooted' PROVE mp_icpucoreusagegetter = NULL
    BY <2>1 DEF SetCPUcoreNumber
  <2>2. mp_cpucoreusagegetter \in Getters => mp_cpucoreusagegetter # mp_dynfreqscalingthread
    BY MainFrameAssumption DEF TypeOK, ObjectTypes
  <2>3. ASSUME ~ uprooted', mp_cpucoreusagegetter # NULL PROVE mp_cpucoreusagegetter \in alive'
    <3>1. mp_cpucoreusagegetter \in Getters
      BY <2>3 DEF TypeOK, ObjectTypes
    <3>2. mp_cpucoreusagegetter \in alive
      BY <1>1, <2>3 DEF AllThere, GetterInv, Dead
    <3> QED
      BY <2>1, <2>2, <2>3, <3>1, <3>2 DEF Deleted
  <2> QED
    BY <2>3 DEF GetterInv, Dead
<1>6. ASSUME NEW t \in Threads, Running(t)', ~ told'[t] PROVE Kept(t)'
  <2>1. Running(t) /\ ~ told[t]
    BY <1>6 DEF Running
  <2>3. CASE t = mp_dynfreqscalingthread
    <3>1. t \notin alive'
      BY <2>3 DEF Deleted
    <3>2. mp_icpucoreusagegetter # NULL
      BY <2>3, MainFrameAssumption DEF WorkInv
    <3> QED
      BY <3>1, <3>2 DEF SetCPUcoreNumber, Kept
  <2>4. CASE t # mp_dynfreqscalingthread
    BY <1>1, <2>1, <2>4 DEF AllThere, ThreadInv, Kept
  <2> QED
    BY <2>3, <2>4
<1> QED
  BY <1>1, <1>2, <1>3, <1>4, <1>5, <1>6 DEF AllThere, DVFSInv, ThreadInv

\* Deleting, forgetting and making a library while no DVFS thread of the GUI is there.
LEMMA LibraryKeeps ==
  ASSUME AllThere, mp_dynfreqscalingthread = NULL, ControllerInv', GetterInv',
         alive' \intersect Threads \subseteq alive,
         UNCHANGED <<coreVars, attributes, dvfsVars, uprooted>>
  PROVE  AllThere'
<1> USE DEF coreVars, attributes, dvfsVars
<1>1. CoresInv' /\ FreedInv'
  BY DEF AllThere, CoresInv, FreedInv
<1>2. ASSUME NEW t \in Threads, Running(t)', ~ told'[t] PROVE Kept(t)'
  <2>1. Kept(t) /\ t # NULL
    BY <1>2, MainFrameAssumption DEF AllThere, ThreadInv, Running
  <2> QED
    BY <2>1 DEF Kept
<1> QED
  BY <1>1, <1>2 DEF AllThere, DVFSInv, ThreadInv

\* A step that does nothing wrong leaves all there.
LEMMA AliveStep ==
  ASSUME TypeOK, WorkInv, AliveInv, Next, fate' = NULL
  PROVE  AllThere'
<1>1. AllThere
  BY DEF AliveInv, Next
<1>2. ASSUME gui \notin Undisturbed PROVE mp_dynfreqscalingthread = NULL
  BY <1>1, <1>2 DEF AllThere, DVFSInv
<1>3. ASSUME NEW m \in {"paint", "iconized"}, BeginEvent(m) PROVE AllThere'
  <2>1. gui = "loop" /\ gui' = "ask" /\ UNCHANGED <<coreVars, attributes, objects, pointers, dvfsVars, uprooted>>
    BY <1>3 DEF BeginEvent, KeepThreads, KeepObjects
  <2> QED
    BY <1>1, <2>1, CalmKeeps DEF Undisturbed
<1>4. CASE AskWhoShows \/ AskAgain \/ ShowInTaskBar \/ Draw \/ GetForIcons
  <2>1. gui \in {"ask", "get", "icons", "show"} /\ gui' \in {"get", "loop", "enter", "icons"}
    BY <1>4 DEF AskWhoShows, AskAgain, ShowInTaskBar, Draw, GetForIcons, EventGoes
  <2>2. UNCHANGED <<coreVars, attributes, objects, pointers, dvfsVars, uprooted>>
    BY <1>4 DEF AskWhoShows, AskAgain, ShowInTaskBar, Draw, GetForIcons, KeepThreads, KeepSection, KeepObjects
  <2> QED
    BY <1>1, <2>1, <2>2, CalmKeeps DEF Undisturbed
<1>5. CASE EnterSection
  <2>1. gui = "enter" /\ gui' = "show" /\ UNCHANGED <<made, pointers, thread, told, its>>
    BY <1>5 DEF EnterSection
  <2>2. CASE source = "service"
    <3>1. SetCPUcoreNumber(fUsage) /\ alive' = alive \ Deleted
      BY <1>5, <2>2 DEF EnterSection
    <3>2. mp_i_cpucontroller' = mp_cpucontroller'
      BY <1>1, <2>1 DEF AllThere, ControllerInv, pointers
    <3>3. mp_cpucontroller' = mp_cpucontroller
          /\ UNCHANGED <<mp_cpucoreusagegetter, thread, told, its>>
          /\ gui \notin {"forget controller", "forget getter", "ended"}
      BY <2>1 DEF pointers
    <3> QED
      BY <1>1, <3>1, <3>2, <3>3, CoresKeep
  <2>3. CASE source # "service"
    <3>1. UNCHANGED <<coreVars, attributes, objects, pointers, dvfsVars, uprooted>>
      BY <1>5, <2>1, <2>3 DEF EnterSection, objects, dvfsVars
    <3> QED
      BY <1>1, <2>1, <3>1, CalmKeeps DEF Undisturbed
  <2> QED
    BY <2>2, <2>3
<1>6. ASSUME NEW attach \in BOOLEAN, ReplaceController(attach) PROVE AllThere'
  <2>1. gui = "loop" /\ UNCHANGED <<coreVars, objects, pointers, thread, its, freed, uprooted, mp_icpucoreusagegetter>>
    BY <1>6 DEF ReplaceController, KeepDrawing, KeepSection
  <2>2. CASE mp_cpucontroller # NULL
    <3>1. EndDVFS /\ gui' = "delete controller"
      BY <1>6, <2>2 DEF ReplaceController
    <3> QED
      BY <1>1, <2>1, <3>1, EndKeeps DEF Undisturbed
  <2>3. CASE mp_cpucontroller = NULL
    <3>1. UNCHANGED <<told, mp_dynfreqscalingthread>> /\ gui' = "create controller"
      BY <1>6, <2>3 DEF ReplaceController
    <3>2. mp_dynfreqscalingthread = NULL
      BY <1>1, <2>3 DEF AllThere, DVFSInv
    <3>3. ControllerInv' /\ GetterInv'
      BY <1>1, <2>1, <3>1 DEF AllThere, ControllerInv, GetterInv, Dead, pointers, objects
    <3> QED
      BY <1>1, <2>1, <3>1, <3>2, <3>3, LibraryKeeps DEF attributes, dvfsVars, objects
  <2> QED
    BY <2>2, <2>3
<1>7. ASSUME NEW attach \in BOOLEAN, ReplaceGetter(attach) PROVE AllThere'
  <2>1. gui = "loop" /\ UNCHANGED <<coreVars, objects, pointers, thread, its, freed, uprooted, mp_icpucoreusagegetter>>
    BY <1>7 DEF ReplaceGetter, KeepDrawing, KeepSection
  <2>2. CASE mp_cpucoreusagegetter # NULL
    <3>1. EndDVFS /\ gui' = "delete getter"
      BY <1>7, <2>2 DEF ReplaceGetter
    <3> QED
      BY <1>1, <2>1, <3>1, EndKeeps DEF Undisturbed
  <2>3. CASE mp_cpucoreusagegetter = NULL
    <3>1. UNCHANGED <<told, mp_dynfreqscalingthread>> /\ gui' = "create getter"
      BY <1>7, <2>3 DEF ReplaceGetter
    <3>2. mp_dynfreqscalingthread = NULL
      BY <1>1, <2>3 DEF AllThere, DVFSInv
    <3>3. ControllerInv' /\ GetterInv'
      BY <1>1, <2>1, <3>1 DEF AllThere, ControllerInv, GetterInv, Dead, pointers, objects
    <3> QED
      BY <1>1, <2>1, <3>1, <3>2, <3>3, LibraryKeeps DEF attributes, dvfsVars, objects
  <2> QED
    BY <2>2, <2>3
<1>8. CASE SwitchDVFSoff
  <2>1. EndDVFS /\ gui = "loop" /\ gui' = gui
        /\ UNCHANGED <<coreVars, objects, pointers, thread, its, freed, uprooted>>
    BY <1>8 DEF SwitchDVFSoff, KeepDrawing, KeepSection
  <2> QED
    BY <1>1, <2>1, EndKeeps DEF Undisturbed
<1>9. CASE Join
  <2>1. gui = "join" /\ gui' = "free"
        /\ UNCHANGED <<coreVars, objects, pointers, thread, its, freed, uprooted, mp_icpucoreusagegetter>>
    BY <1>9 DEF Join, KeepDrawing, KeepSection
  <2>2. CASE HasCores
    <3>1. EndDVFS
      BY <1>9, <2>2 DEF Join
    <3> QED
      BY <1>1, <2>1, <3>1, EndKeeps DEF Undisturbed
  <2>3. CASE ~ HasCores
    <3>1. UNCHANGED <<told, mp_dynfreqscalingthread>>
      BY <1>9, <2>3 DEF Join
    <3>2. arraySize = 0
      BY <1>1, <2>3 DEF AllThere, CoresInv, HasCores, TypeOK, GUItypes
    <3>3. mp_dynfreqscalingthread = NULL
      BY <1>1, <3>2 DEF AllThere, DVFSInv
    <3>4. ControllerInv' /\ GetterInv'
      BY <1>1, <2>1 DEF AllThere, ControllerInv, GetterInv, Dead, pointers, objects
    <3> QED
      BY <1>1, <2>1, <3>1, <3>3, <3>4, LibraryKeeps DEF attributes, dvfsVars, objects
  <2> QED
    BY <2>2, <2>3
<1>10. CASE DeleteController
  <2>1. /\ gui = "delete controller" /\ gui' = "forget controller" /\ alive' = alive \ {mp_cpucontroller}
        /\ UNCHANGED <<pointers, attributes, coreVars, dvfsVars, uprooted>>
    BY <1>10 DEF DeleteController, KeepThreads, KeepDrawing, KeepSection
  <2>2. ControllerInv'
    BY <1>1, <2>1 DEF AllThere, ControllerInv, pointers
  <2>3. GetterInv'
    <3>1. mp_cpucoreusagegetter # NULL => mp_cpucoreusagegetter # mp_cpucontroller
      BY MainFrameAssumption DEF TypeOK, ObjectTypes
    <3> QED
      BY <1>1, <2>1, <3>1 DEF AllThere, GetterInv, Dead, pointers
  <2> QED
    BY <1>1, <1>2, <2>1, <2>2, <2>3, LibraryKeeps DEF Undisturbed
<1>11. CASE ForgetController
  <2>1. /\ gui = "forget controller" /\ gui' \in {"create controller", "loop"}
        /\ mp_cpucontroller' = NULL /\ mp_i_cpucontroller' = NULL
        /\ UNCHANGED <<objects, mp_cpucoreusagegetter, attributes, coreVars, dvfsVars, uprooted>>
    BY <1>11 DEF ForgetController, KeepThreads, KeepDrawing, KeepSection
  <2>2. ControllerInv' /\ GetterInv'
    BY <1>1, <2>1 DEF AllThere, ControllerInv, GetterInv, Dead, objects
  <2> QED
    BY <1>1, <1>2, <2>1, <2>2, LibraryKeeps DEF Undisturbed, objects
<1>12. CASE CreateController
  <2> DEFINE k == Fresh(Controllers)
  <2>1. k \in Controllers
    BY <1>12, FreshIsNew DEF CreateController
  <2>2. /\ gui = "create controller" /\ alive' = (alive \ Deleted) \union {k}
        /\ mp_cpucontroller' = k /\ mp_i_cpucontroller' = k /\ SetCPUcoreNumber(LocalCores)
        /\ UNCHANGED <<mp_cpucoreusagegetter, thread, told, its>>
    BY <1>12 DEF CreateController
  <2> HIDE DEF k
  <2>3. alive' \intersect Threads \subseteq alive \ Deleted
    BY <2>1, <2>2, MainFrameAssumption
  <2> QED
    BY <1>1, <2>2, <2>3, CoresKeep
<1>13. CASE DeleteGetter
  <2>1. /\ gui = "delete getter" /\ gui' = "forget getter" /\ alive' = alive \ {mp_cpucoreusagegetter}
        /\ UNCHANGED <<pointers, attributes, coreVars, dvfsVars, uprooted>>
    BY <1>13 DEF DeleteGetter, KeepThreads, KeepDrawing, KeepSection
  <2>2. GetterInv'
    BY <2>1 DEF GetterInv
  <2>3. ControllerInv'
    <3>1. mp_cpucontroller # NULL => mp_cpucoreusagegetter # mp_cpucontroller
      BY MainFrameAssumption DEF TypeOK, ObjectTypes
    <3> QED
      BY <1>1, <2>1, <3>1 DEF AllThere, ControllerInv, Dead, pointers
  <2> QED
    BY <1>1, <1>2, <2>1, <2>2, <2>3, LibraryKeeps DEF Undisturbed
<1>14. CASE ForgetGetter
  <2>1. /\ gui = "forget getter" /\ gui' \in {"create getter", "loop"} /\ mp_cpucoreusagegetter' = NULL
        /\ UNCHANGED <<objects, mp_cpucontroller, mp_i_cpucontroller, attributes, coreVars, dvfsVars, uprooted>>
    BY <1>14 DEF ForgetGetter, KeepThreads, KeepDrawing, KeepSection
  <2>2. ControllerInv' /\ GetterInv'
    BY <1>1, <2>1 DEF AllThere, ControllerInv, GetterInv, Dead, objects
  <2> QED
    BY <1>1, <1>2, <2>1, <2>2, LibraryKeeps DEF Undisturbed, objects
<1>15. CASE CreateGetter
  <2> DEFINE g == Fresh(Getters)
  <2>1. g \in Getters
    BY <1>15, FreshIsNew DEF CreateGetter
  <2>2. /\ gui = "create getter" /\ gui' = "loop" /\ alive' = alive \union {g}
        /\ mp_cpucoreusagegetter' = g
        /\ UNCHANGED <<mp_cpucontroller, mp_i_cpucontroller, attributes, coreVars, dvfsVars, uprooted>>
    BY <1>15 DEF CreateGetter, KeepThreads, KeepDrawing, KeepSection
  <2> HIDE DEF g
  <2>3. ControllerInv' /\ GetterInv'
    BY <1>1, <2>2 DEF AllThere, ControllerInv, GetterInv, Dead
  <2>4. {g} \intersect Threads = {}
    BY <2>1, MainFrameAssumption
  <2> QED
    BY <1>1, <1>2, <2>2, <2>3, <2>4, LibraryKeeps DEF Undisturbed
<1>16. CASE CreateFails
  <2>1. /\ gui \in {"create controller", "create getter"} /\ gui' = "loop"
        /\ UNCHANGED <<coreVars, attributes, objects, pointers, dvfsVars, uprooted>>
    BY <1>16 DEF CreateFails, KeepThreads, KeepDrawing, KeepSection, KeepObjects
  <2> QED
    BY <1>1, <2>1, CalmKeeps DEF Undisturbed
<1>17. CASE ConnectOrDisconnect \/ Close \/ BroadcastEnd
  <2>1. /\ gui \in {"loop", "broadcast"} /\ gui' \in {"loop", "broadcast", "join"}
        /\ UNCHANGED <<coreVars, attributes, objects, pointers, dvfsVars, uprooted>>
    BY <1>17 DEF ConnectOrDisconnect, Close, BroadcastEnd, KeepThreads, KeepDrawing, KeepSection, KeepObjects
  <2> QED
    BY <1>1, <2>1, CalmKeeps DEF Undisturbed
<1>18. CASE FreeRessources
  <2>1. /\ gui = "free" /\ gui' = "ended" /\ alive' \subseteq alive
        /\ UNCHANGED <<pointers, attributes, coreVars, dvfsVars, uprooted>>
    BY <1>18 DEF FreeRessources, KeepThreads, KeepDrawing, KeepSection
  <2>2. ControllerInv' /\ GetterInv'
    BY <1>1, <2>1 DEF AllThere, ControllerInv, GetterInv, pointers
  <2> QED
    BY <1>1, <1>2, <2>1, <2>2, LibraryKeeps DEF Undisturbed
<1>19. CASE SwitchDVFSon
  <2> DEFINE t == Fresh(Threads)
  <2>1. /\ t \in Threads /\ MakeDVFSthread(t) /\ mp_dynfreqscalingthread = NULL
        /\ mp_cpucontroller # NULL /\ mp_cpucoreusagegetter # NULL /\ gui = "loop"
    BY <1>19, FreshIsNew DEF SwitchDVFSon
  <2> HIDE DEF t
  <2>2. /\ alive' = alive \union {t} /\ mp_dynfreqscalingthread' = t
        /\ thread' = [thread EXCEPT ![t] = "entry"]
        /\ its' = [its EXCEPT ![t] = [controller |-> mp_cpucontroller, getter |-> mp_cpucoreusagegetter]]
        /\ UNCHANGED <<gui, pointers, told, freed, coreVars, uprooted>>
    BY <2>1 DEF MakeDVFSthread, KeepDrawing, KeepSection
  <2>3. arraySize # 0
    <3>1. Fate("GUI", If(arraySize = 0, "array"))
      BY <2>1 DEF MakeDVFSthread
    <3>2. If(arraySize = 0, "array") \subseteq {"array", "controller", "getter", "NULL", "thread"}
      BY DEF If
    <3>3. If(arraySize = 0, "array") = {}
      BY <3>1, <3>2, WrongIsFate
    <3> QED
      BY <3>3 DEF If
  <2>4. CoresInv' /\ FreedInv' /\ ControllerInv' /\ GetterInv'
    BY <1>1, <2>2 DEF AllThere, CoresInv, FreedInv, ControllerInv, GetterInv, Dead, coreVars, pointers
  <2>5. DVFSInv'
    BY <2>1, <2>2, <2>3 DEF DVFSInv, Undisturbed, pointers, coreVars
  <2>6. ASSUME NEW u \in Threads, Running(u)', ~ told'[u] PROVE Kept(u)'
    <3>1. CASE u = t
      <4>1. its'[t] = [controller |-> mp_cpucontroller, getter |-> mp_cpucoreusagegetter]
        BY <2>1, <2>2 DEF TypeOK, DVFStypes
      <4> QED
        BY <2>2, <3>1, <4>1 DEF Kept, pointers
    <3>2. CASE u # t
      <4>1. thread'[u] = thread[u] /\ told'[u] = told[u]
        BY <2>2, <3>2 DEF TypeOK, DVFStypes
      <4>2. Kept(u) /\ u # NULL
        BY <1>1, <2>6, <4>1, MainFrameAssumption DEF AllThere, ThreadInv, Running
      <4> QED
        BY <2>1, <2>2, <3>2, <4>2 DEF Kept
    <3> QED
      BY <3>1, <3>2
  <2> QED
    BY <2>4, <2>5, <2>6 DEF AllThere, ThreadInv
<1>20. CASE IPCstep
  <2>1. KeepGUI
    BY <1>20 DEF IPCstep, WaitForRequest, TestFlag, Send, Answer, startDocument, startElement,
       endDocumentOrFailure
  <2>2. gui' = gui /\ UNCHANGED <<coreVars, attributes, objects, pointers, dvfsVars, uprooted>>
    BY <2>1 DEF KeepGUI
  <2> QED
    BY <1>1, <2>2, CalmKeeps
<1>21. ASSUME NEW t \in Threads, DVFSstep(t) PROVE AllThere'
  <2>1. UNCHANGED <<gui, coreVars, attributes, objects, pointers, told, uprooted>>
    BY <1>21 DEF DVFSstep, BeginEntry, TestRun, Round, KeepRest, KeepLocals
  <2>2. Running(t) /\ \E next \in {"test", "round", "ended"} : thread' = [thread EXCEPT ![t] = next]
    BY <1>21 DEF DVFSstep, BeginEntry, TestRun, Round, Running
  <2>3. \/ UNCHANGED <<its, freed>>
        \/ told[t] /\ its' = [its EXCEPT ![t] = Nothing] /\ freed' = [freed EXCEPT ![t] = FALSE]
    BY <1>21 DEF DVFSstep, BeginEntry, TestRun, Round, KeepLocals
  <2>4. CoresInv' /\ ControllerInv' /\ GetterInv' /\ DVFSInv'
    BY <1>1, <2>1 DEF AllThere, CoresInv, ControllerInv, GetterInv, DVFSInv, Dead, coreVars, attributes,
       objects, pointers
  <2>5. FreedInv'
    <3>1. \A u \in Threads : freed'[u] => freed[u]
      BY <2>3 DEF TypeOK, DVFStypes
    <3> QED
      BY <1>1, <2>1, <3>1 DEF AllThere, FreedInv
  <2>6. ASSUME NEW u \in Threads, Running(u)', ~ told'[u] PROVE Kept(u)'
    <3>1. Running(u)
      BY <2>2, <2>6 DEF TypeOK, DVFStypes, Running
    <3>2. its'[u] = its[u]
      BY <2>1, <2>3, <2>6 DEF TypeOK, DVFStypes
    <3> QED
      BY <1>1, <2>1, <2>6, <3>1, <3>2 DEF AllThere, ThreadInv, Kept, attributes, objects, pointers
  <2> QED
    BY <2>4, <2>5, <2>6 DEF AllThere, ThreadInv
<1>22. CASE Event
  BY <1>3, <1>6, <1>7, <1>8, <1>17, <1>19, <1>22 DEF Event
<1>23. CASE GUIstep
  BY <1>4, <1>5, <1>9, <1>10, <1>11, <1>12, <1>13, <1>14, <1>15, <1>16, <1>17, <1>18, <1>23 DEF GUIstep
<1> QED
  BY <1>20, <1>21, <1>22, <1>23 DEF Next

Kinds == {"array", "controller", "getter", "NULL", "thread"}

\* A wrong step of the GUI thread is no use of a deleted controller, and one of a getter,
\* an array or a thread only when what was in use had been taken away.
LEMMA GuiWrong ==
  ASSUME NEW kinds \in SUBSET Kinds, Fate("GUI", kinds), "controller" \notin kinds,
         kinds \intersect {"getter", "array", "thread"} # {} => uprooted'
  PROVE  UsesAlive'
<1>1. fate' # NULL => fate'.what = kinds
  BY WrongIsFate DEF Kinds
<1> QED
  BY <1>1 DEF UsesAlive

\* What a step may do wrong when all is there.
LEMMA UsesStep ==
  ASSUME TypeOK, SectionInv, WorkInv, AliveInv, Next
  PROVE  UsesAlive'
<1>1. AllThere
  BY DEF AliveInv, Next
<1>2. ASSUME fate' = fate PROVE UsesAlive'
  BY <1>2 DEF UsesAlive, Next
<1>3. ASSUME EndDVFS, UNCHANGED uprooted PROVE UsesAlive'
  <2> DEFINE kinds == If(arraySize = 0, "array") \union If(Dead(mp_dynfreqscalingthread), "thread")
  <2>1. Fate("GUI", kinds) /\ kinds \in SUBSET Kinds /\ "controller" \notin kinds
    BY <1>3 DEF EndDVFS, If, Kinds
  <2>2. kinds # {} => uprooted'
    <3>1. ~ Dead(mp_dynfreqscalingthread)
      BY <1>1 DEF AllThere, DVFSInv, Dead
    <3>2. arraySize = 0 => uprooted
      BY <1>1, MainFrameAssumption DEF AllThere, CoresInv
    <3> QED
      BY <1>3, <3>1, <3>2 DEF If
  <2> HIDE DEF kinds
  <2> QED
    BY <2>1, <2>2, GuiWrong
<1>4. SetCPUcoreNumber(fUsage) \/ SetCPUcoreNumber(LocalCores) => (DestructorWrong # {} => uprooted')
  <2>1. ~ Dead(mp_dynfreqscalingthread)
    BY <1>1 DEF AllThere, DVFSInv, Dead
  <2>2. Dead(mp_icpucoreusagegetter) => mp_icpucoreusagegetter # NULL
    BY DEF Dead
  <2> QED
    BY <2>1, <2>2 DEF SetCPUcoreNumber, DestructorWrong, If
<1>5. CASE EnterSection
  <2>1. CASE source = "service"
    <3>1. Fate("GUI", DestructorWrong) /\ SetCPUcoreNumber(fUsage)
      BY <1>5, <2>1 DEF EnterSection
    <3>2. DestructorWrong \in SUBSET Kinds /\ "controller" \notin DestructorWrong
      BY DEF DestructorWrong, If, Kinds
    <3> QED
      BY <1>4, <3>1, <3>2, GuiWrong
  <2>2. CASE source # "service"
    BY <1>2, <1>5, <2>2 DEF EnterSection
  <2> QED
    BY <2>1, <2>2
<1>6. gui = "show" => (UsageWrong # {} => uprooted)
  <2> SUFFICES ASSUME gui = "show", ~ uprooted PROVE UsageWrong = {}
    OBVIOUS
  <2>1. arraySize = LocalCores /\ ~ Dead(mp_cpucoreusagegetter)
    BY <1>1 DEF AllThere, CoresInv, GetterInv
  <2>2. source = "service" => fUsage = arraySize
    BY DEF SectionInv, DrawnFits
  <2>3. ~ ((IF source = "service" THEN fUsage ELSE LocalCores) > arraySize)
    BY <2>1, <2>2, MainFrameAssumption
  <2> QED
    BY <2>1, <2>3 DEF UsageWrong, If
<1>7. gui \in {"show", "icons"} => ControllerWrong = {} /\ ~ Dead(mp_i_cpucontroller)
  <2> SUFFICES ASSUME gui \in {"show", "icons"} PROVE ControllerWrong = {} /\ ~ Dead(mp_i_cpucontroller)
    OBVIOUS
  <2>1. ~ Dead(mp_i_cpucontroller)
    BY <1>1 DEF AllThere, ControllerInv
  <2>2. ~ (m_byNumberOfCPUCores > arraySize)
    BY <1>1 DEF AllThere, CoresInv, TypeOK, GUItypes
  <2> QED
    BY <2>1, <2>2 DEF ControllerWrong, If
<1>8. UsageWrong \in SUBSET Kinds /\ "controller" \notin UsageWrong
  BY DEF UsageWrong, If, Kinds
<1>9. CASE Draw \/ GetForIcons
  <2>1. gui = "show" /\ uprooted' = uprooted
    BY <1>9 DEF Draw, GetForIcons
  <2>2. Fate("GUI", UsageWrong)
    BY <1>7, <1>9, <2>1 DEF Draw, GetForIcons, If
  <2> QED
    BY <1>6, <1>8, <2>1, <2>2, GuiWrong
<1>10. CASE ShowInTaskBar
  <2>1. gui = "icons" /\ Fate("GUI", IF Controller = NULL THEN {"NULL"} ELSE ControllerWrong)
    BY <1>10 DEF ShowInTaskBar
  <2> DEFINE kinds == IF Controller = NULL THEN {"NULL"} ELSE ControllerWrong
  <2>2. kinds \subseteq {"NULL"} /\ kinds \in SUBSET Kinds
    BY <1>7, <2>1 DEF Kinds
  <2> HIDE DEF kinds
  <2>3. Fate("GUI", kinds)
    BY <2>1 DEF kinds
  <2> QED
    BY <2>2, <2>3, GuiWrong
<1>11. ASSUME NEW m \in {"paint", "iconized"}, BeginEvent(m) PROVE UsesAlive'
  BY <1>2, <1>11 DEF BeginEvent
<1>12. CASE \/ AskWhoShows \/ AskAgain \/ DeleteController \/ ForgetGetter \/ CreateGetter
            \/ CreateFails \/ BroadcastEnd \/ ConnectOrDisconnect \/ Close
  BY <1>2, <1>12 DEF AskWhoShows, AskAgain, DeleteController, ForgetGetter, CreateGetter,
     CreateFails, BroadcastEnd, ConnectOrDisconnect, Close
<1>13. ASSUME NEW attach \in BOOLEAN, ReplaceController(attach) \/ ReplaceGetter(attach) PROVE UsesAlive'
  <2>1. UNCHANGED uprooted /\ (EndDVFS \/ UNCHANGED fate)
    BY <1>13 DEF ReplaceController, ReplaceGetter, KeepDrawing, KeepSection
  <2> QED
    BY <1>2, <1>3, <2>1
<1>14. CASE SwitchDVFSoff \/ Join
  <2>1. UNCHANGED uprooted /\ (EndDVFS \/ UNCHANGED fate)
    BY <1>14 DEF SwitchDVFSoff, Join, KeepDrawing, KeepSection
  <2> QED
    BY <1>2, <1>3, <2>1
<1>15. ASSUME gui \notin {"forget getter", "ended"} PROVE Dead(mp_cpucoreusagegetter) => uprooted
  BY <1>1, <1>15 DEF AllThere, GetterInv
<1>16. CASE ForgetController \/ DeleteGetter \/ FreeRessources
  <2>1. gui \in {"forget controller", "delete getter", "free"} /\ uprooted' = uprooted
    BY <1>16 DEF ForgetController, DeleteGetter, FreeRessources, KeepDrawing, KeepSection
  <2>2. gui = "free" => ~ Dead(mp_cpucontroller)
    BY <1>1 DEF AllThere, ControllerInv
  <2> DEFINE kinds == If(Dead(mp_cpucoreusagegetter), "getter")
  <2>3. Fate("GUI", kinds)
    BY <1>16, <2>2 DEF ForgetController, DeleteGetter, FreeRessources, If
  <2>4. kinds \in SUBSET Kinds /\ "controller" \notin kinds
    BY DEF If, Kinds
  <2>5. kinds # {} => uprooted'
    BY <1>15, <2>1 DEF If
  <2> HIDE DEF kinds
  <2> QED
    BY <2>3, <2>4, <2>5, GuiWrong
<1>17. CASE CreateController
  <2> DEFINE kinds == DestructorWrong \union If(Dead(mp_cpucoreusagegetter), "getter")
  <2>1. gui = "create controller" /\ SetCPUcoreNumber(LocalCores) /\ Fate("GUI", kinds)
    BY <1>17 DEF CreateController
  <2>2. kinds \in SUBSET Kinds /\ "controller" \notin kinds
    BY DEF DestructorWrong, If, Kinds
  <2>3. kinds # {} => uprooted'
    <3>1. uprooted => uprooted'
      BY <2>1 DEF SetCPUcoreNumber
    <3> QED
      BY <1>4, <1>15, <2>1, <3>1 DEF If
  <2> HIDE DEF kinds
  <2> QED
    BY <2>1, <2>2, <2>3, GuiWrong
<1>18. CASE SwitchDVFSon
  <2>1. Fate("GUI", If(arraySize = 0, "array")) /\ uprooted' = uprooted
    BY <1>18 DEF SwitchDVFSon, MakeDVFSthread, KeepDrawing, KeepSection
  <2>2. If(arraySize = 0, "array") \in SUBSET Kinds /\ "controller" \notin If(arraySize = 0, "array")
    BY DEF If, Kinds
  <2>3. arraySize = 0 => uprooted
    BY <1>1, MainFrameAssumption DEF AllThere, CoresInv
  <2> QED
    BY <2>1, <2>2, <2>3, GuiWrong DEF If
<1>19. CASE IPCstep
  <2>1. KeepGUI
    BY <1>19 DEF IPCstep, WaitForRequest, TestFlag, Send, Answer, startDocument, startElement,
       endDocumentOrFailure
  <2> QED
    BY <1>2, <2>1 DEF KeepGUI
<1>20. ASSUME NEW t \in Threads, DVFSstep(t) PROVE UsesAlive'
  <2>1. UNCHANGED <<told, uprooted>> /\ Running(t)
    BY <1>20 DEF DVFSstep, BeginEntry, TestRun, Round, KeepRest, KeepLocals, Running
  <2>2. PICK kinds \in SUBSET Kinds : Fate(t, kinds)
             /\ (~ told[t] => /\ "controller" \in kinds => "thread" \in kinds
                              /\ kinds \intersect {"getter", "array", "thread"} # {} => uprooted)
    <3>1. ~ told[t] => Kept(t)
      BY <1>1, <2>1 DEF AllThere, ThreadInv
    <3>2. freed[t] => uprooted
      BY <1>1 DEF AllThere, FreedInv
    <3>3. t # NULL
      BY MainFrameAssumption
    <3>4. ~ told[t] /\ Dead(t) => uprooted
      BY <1>1, <3>1, <3>3 DEF Kept, Dead, AllThere, DVFSInv
    <3>5. t = mp_dynfreqscalingthread => ~ Dead(mp_cpucontroller) /\ (Dead(mp_cpucoreusagegetter) => uprooted)
      <4>1. t = mp_dynfreqscalingthread => gui \in Undisturbed
        BY <1>1, <3>3 DEF AllThere, DVFSInv
      <4> QED
        BY <1>1, <4>1 DEF AllThere, ControllerInv, GetterInv, Undisturbed
    <3>6. CASE BeginEntry(t)
      <4> DEFINE kinds == If(Dead(t), "thread") \union If(Dead(its[t].getter), "getter")
      <4>1. Fate(t, kinds) /\ kinds \in SUBSET Kinds /\ "controller" \notin kinds
        BY <3>6 DEF BeginEntry, If, Kinds
      <4>2. ~ told[t] /\ kinds # {} => uprooted
        <5>1. ~ told[t] /\ Dead(its[t].getter) => uprooted
          BY <3>1, <3>5 DEF Kept
        <5> QED
          BY <3>4, <5>1 DEF If
      <4> HIDE DEF kinds
      <4> QED
        BY <4>1, <4>2
    <3>7. CASE TestRun(t)
      <4> DEFINE kinds == If(Dead(t), "thread")
      <4>1. Fate(t, kinds) /\ kinds \in SUBSET Kinds /\ "controller" \notin kinds
        BY <3>7 DEF TestRun, If, Kinds
      <4>2. ~ told[t] /\ kinds # {} => uprooted
        BY <3>4 DEF If
      <4> HIDE DEF kinds
      <4> QED
        BY <4>1, <4>2
    <3>8. CASE Round(t)
      <4> DEFINE kinds == If(Dead(t), "thread") \union If(freed[t], "array")
                            \union If(Dead(mp_cpucoreusagegetter), "getter")
                            \union If(Dead(mp_cpucontroller) \/ Dead(its[t].controller), "controller")
                            \union If(mp_cpucontroller = NULL, "NULL")
      <4>1. Fate(t, kinds)
        BY <3>8 DEF Round
      <4>2. kinds \in SUBSET Kinds
        BY DEF If, Kinds
      <4>3. ~ told[t] /\ "controller" \in kinds => "thread" \in kinds
        <5>1. "controller" \in kinds => Dead(mp_cpucontroller) \/ Dead(its[t].controller)
          BY DEF If
        <5>2. Kept(t) /\ t = mp_dynfreqscalingthread /\ its[t] = [controller |-> mp_cpucontroller, getter |-> mp_cpucoreusagegetter]
              => "controller" \notin kinds
          BY <3>5, <5>1
        <5>3. t \notin alive => "thread" \in kinds
          BY <3>3 DEF If, Dead
        <5> QED
          BY <3>1, <5>2, <5>3 DEF Kept
      <4>4. ~ told[t] /\ kinds \intersect {"getter", "array", "thread"} # {} => uprooted
        <5>1. kinds \intersect {"getter", "array", "thread"} # {} => Dead(t) \/ freed[t] \/ Dead(mp_cpucoreusagegetter)
          BY DEF If
        <5>2. ~ told[t] /\ Dead(mp_cpucoreusagegetter) => uprooted
          BY <3>1, <3>5 DEF Kept
        <5> QED
          BY <3>2, <3>4, <5>1, <5>2
      <4> HIDE DEF kinds
      <4> QED
        BY <4>1, <4>2, <4>3, <4>4
    <3> QED
      BY <1>20, <3>6, <3>7, <3>8 DEF DVFSstep
  <2>3. fate' # NULL => fate'.by = t /\ fate'.what = kinds
    BY <2>2, WrongIsFate DEF Kinds
  <2> QED
    BY <2>1, <2>2, <2>3 DEF UsesAlive
<1>21. CASE Event
  BY <1>11, <1>12, <1>13, <1>14, <1>18, <1>21 DEF Event
<1>22. CASE GUIstep
  BY <1>5, <1>9, <1>10, <1>12, <1>14, <1>16, <1>17, <1>22 DEF GUIstep
<1> QED
  BY <1>19, <1>20, <1>21, <1>22 DEF Next

\* Nobody uses a deleted controller but a DVFS thread that was told to stop and not waited
\* for (EndDVFS), and nobody uses a getter, an array or a thread object that is gone but
\* that and what is left after SetCPUcoreNumber(...) took away what was in use.
THEOREM UsedIsAlive == Spec => []UsesAlive
<1> DEFINE Inv == AliveInv /\ UsesAlive
<1>1. Init => Inv
  <2> SUFFICES ASSUME Init PROVE AllThere /\ UsesAlive
    BY DEF AliveInv
  <2>1. CoresInv /\ ControllerInv /\ GetterInv /\ DVFSInv /\ FreedInv
    BY DEF Init, CoresInv, ControllerInv, GetterInv, DVFSInv, FreedInv, Dead
  <2>2. ThreadInv
    BY DEF Init, ThreadInv, Running
  <2> QED
    BY <2>1, <2>2 DEF AllThere, UsesAlive, Init
<1>2. TypeOK /\ SectionInv /\ WorkInv /\ Inv /\ [Next]_vars => Inv'
  <2> SUFFICES ASSUME TypeOK, SectionInv, WorkInv, Inv, [Next]_vars PROVE Inv'
    OBVIOUS
  <2>1. CASE Next
    BY <2>1, AliveStep, UsesStep DEF AliveInv
  <2>2. CASE UNCHANGED vars
    <3>1. fate' = fate /\ UsesAlive'
      BY <2>2 DEF vars, dvfsVars, UsesAlive
    <3>2. AllThere => AllThere'
      BY <2>2, CalmKeeps DEF vars
    <3> QED
      BY <3>1, <3>2 DEF AliveInv
  <2> QED
    BY <2>1, <2>2
<1>3. Init => SectionInv /\ WorkInv
  BY DEF Init, SectionInv, DrawnFits, WorkInv, Running
<1> QED
  BY <1>1, <1>2, <1>3, TypeCorrect, SectionStep, WorkStep, PTL DEF Spec
=============================================================================
