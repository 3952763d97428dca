------------------------------ MODULE IPCData ------------------------------
(***************************************************************************)
(* How the CPU core data reach the pipe clients of the Windows service.      *)
(* Three kinds of thread hand them over:                                     *)
(*   - the DVFS thread collects them and tells so by a broadcast,            *)
(*   - the IPC data thread (GetCurrentCPUcoreDataInLoopThreadFunc) waits to   *)
(*     be told that a client wants data, then for that broadcast, makes an   *)
(*     XML tree and publishes it as a byte array and its size,               *)
(*   - a pipe thread per client wakes the IPC data thread and copies what is  *)
(*     published just then; if no DVFS thread runs it makes and publishes    *)
(*     the tree itself.                                                      *)
(* A fourth, the one that runs Stop, ends the IPC data thread and joins it.  *)
(*                                                                         *)
(* Locks: critical section m_criticalsection_typeCPUcoreData (coreCS),       *)
(* critical section m_wxcriticalsectionIPCdata (ipcCS) and the mutex of the  *)
(* condition m_wxconditionbasedi_conditionAlterCPUcoreDataDOMtree.  The class *)
(* of the conditions is not part of the repository.  As its callers rely on: *)
(* Wait() releases the mutex and takes it again before it returns, Signal()   *)
(* and Broadcast() wake only who waits and do not take it, LockedBroadcast()  *)
(* does, Lock() by the owner changes nothing, and the end of the owner frees *)
(* it.  The mutex has one lasting owner, so its state is that thread's place. *)
(* No two threads wait on one condition.                                    *)
(***************************************************************************)
CONSTANTS
  Clients,        \* threads that serve pipe clients
  IPCdataThread,
  DVFSthread,
  Trees,          \* XML documents of the core data, as byte arrays
  NULL

Publishers == Clients \union {IPCdataThread}

ASSUME ThreadsAssumption ==
  /\ IPCdataThread \notin Clients
  /\ DVFSthread \notin Publishers
  /\ NULL \notin Publishers \union {DVFSthread}
  /\ NULL \notin Trees

VARIABLES
  at,           \* per publisher: its next statement
  dvfs,         \* the same for the DVFS thread
  stop,         \* the same for the thread that runs Stop
  m_vbRun,      \* the DVFS thread shall go on
  m_vbAlterCPUcoreDataForIPC, \* the IPC data thread shall go on
  coreCS,       \* owner of the critical sections
  ipcCS,
  tree,         \* per publisher: the tree it made
  m_arbyData,   \* the published array, as the tree it holds
  m_dwByteSize, \* its size, as the tree whose size it is; NULL is 0
  r_dwByteSize, \* per client: the size it read
  received,     \* per client: the copy it sends
  shown         \* history: the tree published when ipcCS was last left

flags == <<m_vbRun, m_vbAlterCPUcoreDataForIPC>>
locks == <<coreCS, ipcCS>>
published == <<m_arbyData, m_dwByteSize, shown>>
copies == <<r_dwByteSize, received>>
vars == <<at, dvfs, stop, flags, locks, tree, published, copies>>

-----------------------------------------------------------------------------
(* Places.  A place names the statement that comes next.                   *)

\* SerializeXMLtoMemBuffer: "enter" the section, then set m_dwByteSize, then
\* release the old array, then assign the new one and leave.
InPublish == {"size", "release", "assign"}
\* GetIPCdataThreadSafe: "get" enters the section, then look at array and
\* size, then copy and leave.
InGet == {"look", "copy"}

\* "begin" locks the mutex, "wait" waits; "waiting" and "woken" have released
\* it; "loop" is the loop condition, "data wait" waits for the DVFS thread with
\* the mutex locked, "again" is the test before the next wait.
DataPlaces == {"begin", "wait", "waiting", "woken", "loop", "data wait", "create",
               "enter", "again", "returned"} \union InPublish
ClientPlaces == {"idle", "ask", "signal", "core", "create", "enter", "get", "send"}
                  \union InPublish \union InGet
\* "none": no DVFS object yet; "away": an object but no thread; "begin": the
\* thread exists but has not begun with Entry; "bye" and "end" are what follows
\* the loop.
DVFSPlaces == {"none", "away", "begin", "check", "collect", "collecting",
               "temperatures", "reading", "signal", "sleep", "bye", "end"}
StopPlaces == {"no", "flag", "broadcast", "join", "done"}

\* m_vbDVFSthreadStopped of the DVFS object
IsStopped == dvfs \in {"away", "begin"}

\* The pipe thread collects the data itself and has coreCS.
Collects(c) == coreCS = c

\* Nobody owns the mutex of ...AlterCPUcoreDataDOMtree.
MutexFree == at[IPCdataThread] \in {"begin", "waiting", "woken", "returned"}

PlaceTypes ==
  /\ at \in [Publishers -> ClientPlaces \union DataPlaces]
  /\ at[IPCdataThread] \in DataPlaces
  /\ \A c \in Clients : at[c] \in ClientPlaces
  /\ dvfs \in DVFSPlaces
  /\ stop \in StopPlaces

LockTypes ==
  /\ m_vbRun \in BOOLEAN
  /\ m_vbAlterCPUcoreDataForIPC \in BOOLEAN
  /\ coreCS \in Clients \union {DVFSthread, NULL}
  /\ ipcCS \in Publishers \union {DVFSthread, NULL}

DataTypes ==
  /\ tree \in [Publishers -> Trees \union {NULL}]
  /\ m_arbyData \in Trees \union {NULL}
  /\ m_dwByteSize \in Trees \union {NULL}
  /\ shown \in Trees \union {NULL}
  /\ r_dwByteSize \in [Clients -> Trees \union {NULL}]
  /\ received \in [Clients -> [data : Trees \union {NULL}, size : Trees \union {NULL}]]

TypeOK == PlaceTypes /\ LockTypes /\ DataTypes

Nothing == [data |-> NULL, size |-> NULL]

Init ==
  /\ at = [p \in Publishers |-> IF p = IPCdataThread THEN "begin" ELSE "idle"]
  /\ dvfs = "none"
  /\ stop = "no"
  /\ m_vbRun = FALSE
  /\ m_vbAlterCPUcoreDataForIPC = TRUE
  /\ coreCS = NULL
  /\ ipcCS = NULL
  /\ tree = [p \in Publishers |-> NULL]
  /\ m_arbyData = NULL
  /\ m_dwByteSize = NULL
  /\ shown = NULL
  /\ r_dwByteSize = [c \in Clients |-> NULL]
  /\ received = [c \in Clients |-> Nothing]

Goes(p, from, to) ==
  /\ at[p] = from
  /\ at' = [at EXCEPT ![p] = to]

-----------------------------------------------------------------------------
(* Making a tree and publishing it: GetCurrentCPUcoreAttributeValues of the *)
(* IPC data thread and of a pipe thread that collects.                      *)

\* Mutant: a pipe thread goes on like the IPC data thread.
ReturnToLoop(p) == "again"

\* Where GetCurrentCPUcoreAttributeValues returns to.
Return(p) == IF p = IPCdataThread THEN "again" ELSE "get"

\* An exception of the XML library is caught: nothing is published.
CreateTree(p) ==
  /\ \/ \E t \in Trees : Goes(p, "create", "enter") /\ tree' = [tree EXCEPT ![p] = t]
     \/ Goes(p, "create", Return(p)) /\ UNCHANGED tree
  /\ UNCHANGED <<dvfs, stop, flags, locks, published, copies>>

EnterPublish(p) ==
  /\ Goes(p, "enter", "size")
  /\ ipcCS = NULL
  /\ ipcCS' = p
  /\ UNCHANGED <<dvfs, stop, flags, coreCS, tree, published, copies>>

\* Mutant: the size is left to the caller.
SizeLeftToCaller(p) ==
  /\ Goes(p, "size", "release")
  /\ UNCHANGED <<dvfs, stop, flags, locks, tree, published, copies>>

SetByteSize(p) ==
  /\ Goes(p, "size", "release")
  /\ m_dwByteSize' = tree[p]
  /\ UNCHANGED <<dvfs, stop, flags, locks, tree, m_arbyData, shown, copies>>

PossiblyReleaseArrayMemory(p) ==
  /\ Goes(p, "release", "assign")
  /\ m_arbyData' = NULL
  /\ UNCHANGED <<dvfs, stop, flags, locks, tree, m_dwByteSize, shown, copies>>

\* The array is assigned and the section left; the local pointer to it ends.
AssignData(p) ==
  /\ Goes(p, "assign", Return(p))
  /\ m_arbyData' = tree[p]
  /\ shown' = tree[p]
  /\ tree' = [tree EXCEPT ![p] = NULL]
  /\ ipcCS' = NULL
  /\ UNCHANGED <<dvfs, stop, flags, coreCS, m_dwByteSize, copies>>

PublishTree(p) ==
  \/ CreateTree(p)
  \/ EnterPublish(p)
  \/ SetByteSize(p)
  \/ PossiblyReleaseArrayMemory(p)
  \/ AssignData(p)

-----------------------------------------------------------------------------
(* The IPC data thread: GetCurrentCPUcoreDataInLoopThreadFunc.             *)

DataGoes(from, to) ==
  /\ Goes(IPCdataThread, from, to)
  /\ UNCHANGED <<dvfs, stop, flags, locks, tree, published, copies>>

\* Before the first Wait the loop condition is not looked at.
LockAlter == DataGoes("begin", "wait")
WaitAlter == DataGoes("wait", "waiting")
WokenAlter == DataGoes("woken", "loop")

\* The loop condition.  Making the tree begins with a wait for the DVFS thread;
\* the library may fail before it.
LoopCondition ==
  IF m_vbAlterCPUcoreDataForIPC
    THEN DataGoes("loop", "data wait") \/ DataGoes("loop", "again")
    ELSE DataGoes("loop", "returned")

\* "Finished" is broadcast to nobody; the mutex is still owned.  The end of the
\* thread frees it.
TestAgain ==
  IF m_vbAlterCPUcoreDataForIPC
    THEN DataGoes("again", "wait")
    ELSE DataGoes("again", "returned")

IPCdataThreadStep ==
  \/ LockAlter
  \/ WaitAlter
  \/ WokenAlter
  \/ LoopCondition
  \/ TestAgain
  \/ PublishTree(IPCdataThread)

\* What a wake-up of the IPC data thread does to the places of the publishers.
WokenFrom(place, to) ==
  IF at[IPCdataThread] = place THEN [at EXCEPT ![IPCdataThread] = to] ELSE at

-----------------------------------------------------------------------------
(* A pipe thread: get_current_CPU_data.                                     *)

Ask(c) ==
  /\ Goes(c, "idle", "ask")
  /\ UNCHANGED <<dvfs, stop, flags, locks, tree, published, copies>>

WhoCollects(c) ==
  /\ Goes(c, "ask", IF IsStopped THEN "core" ELSE "signal")
  /\ UNCHANGED <<dvfs, stop, flags, locks, tree, published, copies>>

EnterCollect(c) ==
  /\ Goes(c, "core", "create")
  /\ coreCS = NULL
  /\ coreCS' = c
  /\ UNCHANGED <<dvfs, stop, flags, ipcCS, tree, published, copies>>

\* Mutant: the mutex is locked for Signal(), what the comment in the code
\* warns of.
LockedWakeUp(c) ==
  /\ at[c] = "signal"
  /\ MutexFree
  /\ at' = [WokenFrom("waiting", "woken") EXCEPT ![c] = "get"]
  /\ UNCHANGED <<dvfs, stop, flags, locks, tree, published, copies>>

\* Lost if the IPC data thread does not wait just then.
WakeUpCreateIPCdataThread(c) ==
  /\ at[c] = "signal"
  /\ at' = [WokenFrom("waiting", "woken") EXCEPT ![c] = "get"]
  /\ UNCHANGED <<dvfs, stop, flags, locks, tree, published, copies>>

EnterGet(c) ==
  /\ Goes(c, "get", "look")
  /\ ipcCS = NULL
  /\ ipcCS' = c
  /\ UNCHANGED <<dvfs, stop, flags, coreCS, tree, published, copies>>

LookAtData(c) ==
  /\ Goes(c, "look", "copy")
  /\ r_dwByteSize' = [r_dwByteSize EXCEPT ![c] =
                        IF m_arbyData = NULL THEN NULL ELSE m_dwByteSize]
  /\ UNCHANGED <<dvfs, stop, flags, locks, tree, published, received>>

\* Mutant: the section of the core data is not left.
CopyDataKeepsCore(c) ==
  /\ Goes(c, "copy", "send")
  /\ received' = [received EXCEPT ![c] =
                    IF r_dwByteSize[c] = NULL
                      THEN Nothing
                      ELSE [data |-> m_arbyData, size |-> r_dwByteSize[c]]]
  /\ r_dwByteSize' = [r_dwByteSize EXCEPT ![c] = NULL]
  /\ ipcCS' = NULL
  /\ UNCHANGED <<dvfs, stop, flags, coreCS, tree, published>>

\* Copies that many bytes and leaves the section or sections.
CopyData(c) ==
  /\ Goes(c, "copy", "send")
  /\ received' = [received EXCEPT ![c] =
                    IF r_dwByteSize[c] = NULL
                      THEN Nothing
                      ELSE [data |-> m_arbyData, size |-> r_dwByteSize[c]]]
  /\ r_dwByteSize' = [r_dwByteSize EXCEPT ![c] = NULL]
  /\ ipcCS' = NULL
  /\ coreCS' = IF Collects(c) THEN NULL ELSE coreCS
  /\ UNCHANGED <<dvfs, stop, flags, tree, published>>

\* The answer is written to the pipe and the copy deleted.  A pipe thread that
\* has ended since, and the one of the next client, are the same c.
Send(c) ==
  /\ Goes(c, "send", "idle")
  /\ received' = [received EXCEPT ![c] = Nothing]
  /\ UNCHANGED <<dvfs, stop, flags, locks, tree, published, r_dwByteSize>>

GetCurrentCPUcoreData(c) ==
  \/ WhoCollects(c)
  \/ EnterCollect(c)
  \/ PublishTree(c)
  \/ WakeUpCreateIPCdataThread(c)
  \/ EnterGet(c)
  \/ LookAtData(c)
  \/ CopyData(c)

-----------------------------------------------------------------------------
(* The DVFS thread, as far as it meets the others: DVFSThread has its flags  *)
(* and overlapping threads, ThermalControl its decisions.                   *)

DVFSGoes(from, to) == dvfs = from /\ dvfs' = to

\* A client or the SCM starts the thread, having created the object if needed.
OrderStart ==
  /\ DVFSGoes("none", "begin") \/ DVFSGoes("away", "begin")
  /\ UNCHANGED <<at, stop, flags, locks, tree, published, copies>>

OrderStop ==
  /\ dvfs # "none"
  /\ m_vbRun' = FALSE
  /\ UNCHANGED <<at, dvfs, stop, m_vbAlterCPUcoreDataForIPC, locks, tree, published, copies>>

EntryBegins ==
  /\ DVFSGoes("begin", "check")
  /\ m_vbRun' = TRUE
  /\ UNCHANGED <<at, stop, m_vbAlterCPUcoreDataForIPC, locks, tree, published, copies>>

\* The loop condition; nothing is collected unless the settings are confirmed.
CheckRun ==
  /\ IF m_vbRun
       THEN DVFSGoes("check", "collect") \/ DVFSGoes("check", "signal")
       ELSE DVFSGoes("check", "bye")
  /\ UNCHANGED <<at, stop, flags, locks, tree, published, copies>>

\* GetUsageAndVoltageAndFreqForAllCoresThreadSafe
CollectEnters ==
  /\ DVFSGoes("collect", "collecting")
  /\ coreCS = NULL
  /\ coreCS' = DVFSthread
  /\ UNCHANGED <<at, stop, flags, ipcCS, tree, published, copies>>

\* It may fail: then there is no look at the temperatures.
CollectLeaves ==
  /\ DVFSGoes("collecting", "temperatures") \/ DVFSGoes("collecting", "signal")
  /\ coreCS' = NULL
  /\ UNCHANGED <<at, stop, flags, ipcCS, tree, published, copies>>

\* GetCPUcoreTooHot
TemperaturesEnter ==
  /\ DVFSGoes("temperatures", "reading")
  /\ ipcCS = NULL
  /\ ipcCS' = DVFSthread
  /\ UNCHANGED <<at, stop, flags, coreCS, tree, published, copies>>

TemperaturesLeave ==
  /\ DVFSGoes("reading", "signal")
  /\ ipcCS' = NULL
  /\ UNCHANGED <<at, stop, flags, coreCS, tree, published, copies>>

\* In the loop, and once more after it.
SignalCPUdataCanBeSafelyRead ==
  /\ DVFSGoes("signal", "sleep") \/ DVFSGoes("bye", "end")
  /\ at' = WokenFrom("data wait", "create")
  /\ UNCHANGED <<stop, flags, locks, tree, published, copies>>

SleepEnds ==
  /\ DVFSGoes("sleep", "check")
  /\ UNCHANGED <<at, stop, flags, locks, tree, published, copies>>

\* m_vbDVFSthreadStopped = true
EntryEnds ==
  /\ DVFSGoes("end", "away")
  /\ UNCHANGED <<at, stop, flags, locks, tree, published, copies>>

DVFSStep ==
  \/ EntryBegins
  \/ CheckRun
  \/ CollectEnters
  \/ CollectLeaves
  \/ TemperaturesEnter
  \/ TemperaturesLeave
  \/ SignalCPUdataCanBeSafelyRead
  \/ SleepEnds
  \/ EntryEnds

-----------------------------------------------------------------------------
(* Stop: ends the DVFS thread, then the IPC data thread.                   *)

StopGoes(from, to) == stop = from /\ stop' = to

\* Without an object Stop crashes: DVFSService has that.
StopBegins ==
  /\ StopGoes("no", "flag")
  /\ dvfs # "none"
  /\ m_vbRun' = FALSE
  /\ UNCHANGED <<at, dvfs, m_vbAlterCPUcoreDataForIPC, locks, tree, published, copies>>

\* EndAlterCurrentCPUcoreIPCdata
EndAlter ==
  /\ StopGoes("flag", "broadcast")
  /\ m_vbAlterCPUcoreDataForIPC' = FALSE
  /\ UNCHANGED <<at, dvfs, m_vbRun, locks, tree, published, copies>>

\* Mutant: a broadcast that does not lock the mutex.
UnlockedBroadcast ==
  /\ StopGoes("broadcast", "join")
  /\ at' = WokenFrom("waiting", "woken")
  /\ UNCHANGED <<dvfs, flags, locks, tree, published, copies>>

LockedBroadcast ==
  /\ StopGoes("broadcast", "join")
  /\ MutexFree
  /\ at' = WokenFrom("waiting", "woken")
  /\ UNCHANGED <<dvfs, flags, locks, tree, published, copies>>

WaitForTermination ==
  /\ StopGoes("join", "done")
  /\ at[IPCdataThread] = "returned"
  /\ UNCHANGED <<at, dvfs, flags, locks, tree, published, copies>>

StopStep == EndAlter \/ LockedBroadcast \/ WaitForTermination

-----------------------------------------------------------------------------
Next ==
  \/ IPCdataThreadStep
  \/ \E c \in Clients : Ask(c) \/ GetCurrentCPUcoreData(c) \/ Send(c)
  \/ OrderStart \/ OrderStop \/ DVFSStep
  \/ StopBegins \/ StopStep

\* Every thread is scheduled, and who wants to enter a critical section that is
\* left again and again enters it some time.  Questions, orders and the writing
\* to a pipe depend on others.
Fairness ==
  /\ SF_vars(IPCdataThreadStep)
  /\ \A c \in Clients : SF_vars(GetCurrentCPUcoreData(c))
  /\ SF_vars(DVFSStep)
  /\ WF_vars(StopStep)

Spec == Init /\ [][Next]_vars
FairSpec == Spec /\ Fairness

-----------------------------------------------------------------------------
(* Properties.                                                             *)

\* Who is between Enter() and Leave() of a critical section owns it, and no one
\* else does: the two sections exclude each other's threads and are always left.
SectionsOwned ==
  /\ \A p \in Publishers : ipcCS = p <=> at[p] \in InPublish \union InGet
  /\ ipcCS = DVFSthread <=> dvfs = "reading"
  /\ coreCS = DVFSthread <=> dvfs = "collecting"
  /\ \A c \in Clients :
       /\ at[c] \in InPublish \union {"create", "enter"} => coreCS = c
       /\ coreCS = c => at[c] \notin {"idle", "ask", "core", "signal", "send"}

\* The abstract state: the tree of an answer if its data and size belong together.
Request(c) ==
  CASE at[c] = "idle" -> "none"
    [] at[c] = "send" -> "answered"
    [] OTHER -> "asked"
Received(c) == IF received[c].data = received[c].size THEN received[c].data ELSE received[c]

Board == INSTANCE CoreDataBoard
  WITH board <- shown,
       request <- [c \in Clients |-> Request(c)],
       answer <- [c \in Clients |-> Received(c)]

\* A client gets a whole tree: the one last published when its question was
\* answered, never one half replaced nor an array with the size of another.
ImplementsBoard == Board!BoardSpec

\* Every question is answered, whatever becomes of the DVFS thread and the IPC
\* data thread, and although many threads compete for two critical sections.
EveryRequestAnswered == \A c \in Clients : at[c] = "ask" ~> at[c] = "send"

\* The DVFS thread will broadcast at least once more.
WillBroadcast == dvfs \notin {"none", "away", "end"}

\* Once Stop has cleared the flag it joins the IPC data thread: wherever in its
\* loop that thread is, it sees the flag or gets the broadcast.  It must be past
\* its first Lock, and if it waits for core data there must be a DVFS thread
\* that still has to broadcast.
StopJoins ==
  (/\ stop = "broadcast"
   /\ at[IPCdataThread] # "begin"
   /\ at[IPCdataThread] = "data wait" => WillBroadcast)
  ~> stop = "done"

\* What EndAlterCurrentCPUcoreIPCdata says of its broadcast: the mutex is locked
\* "so that the thread that called Wait() on the condition receives the wakeup".
\* So the IPC data thread ends whenever Stop broadcasts.
BroadcastIsReceived == stop = "broadcast" ~> at[IPCdataThread] = "returned"

=============================================================================
