--------------------------- MODULE IPCDataProofs ---------------------------
(***************************************************************************)
(* The hand-off of core data implements CoreDataBoard for any number of      *)
(* clients and trees: what a client copies is the tree last published.  The  *)
(* argument: only the owner of ipcCS writes or reads the published array and *)
(* size (SectionsOwned), and whoever owns it to read finds in them the tree   *)
(* that was there when it was last left (PublishedInv).                      *)
(***************************************************************************)
EXTENDS IPCData, TLAPS

\* The array and the size are those of the tree last published, unless the owner
\* of ipcCS is just replacing them.
PublishedWhole ==
  \/ m_arbyData = shown /\ (shown # NULL => m_dwByteSize = shown)
  \/ ipcCS \in Publishers /\ at[ipcCS] \in {"release", "assign"}

\* A thread that publishes has a tree, and has set the size when it goes on to the
\* array.
PublisherHasTree(p) ==
  /\ at[p] \in {"enter"} \union InPublish => tree[p] \in Trees
  /\ at[p] \in {"release", "assign"} => m_dwByteSize = tree[p]

\* A client about to copy has read the size of the tree last published.
ClientReadsShown(c) == at[c] = "copy" => r_dwByteSize[c] = shown

PublishedInv ==
  /\ PublishedWhole
  /\ \A p \in Publishers : PublisherHasTree(p)
  /\ \A c \in Clients : ClientReadsShown(c)

IPCInv == TypeOK /\ SectionsOwned /\ PublishedInv

LEMMA IPCInit == Init => IPCInv
<1> SUFFICES ASSUME Init PROVE IPCInv
  OBVIOUS
<1>1. TypeOK
  BY ThreadsAssumption DEF Init, TypeOK, PlaceTypes, LockTypes, DataTypes, Publishers, Nothing,
     ClientPlaces, DataPlaces, DVFSPlaces, StopPlaces
<1>2. SectionsOwned
  BY ThreadsAssumption DEF Init, SectionsOwned, Publishers, InPublish, InGet
<1>3. PublishedInv
  BY ThreadsAssumption DEF Init, PublishedInv, PublishedWhole, PublisherHasTree,
     ClientReadsShown, Publishers, InPublish, Nothing
<1> QED
  BY <1>1, <1>2, <1>3 DEF IPCInv

LEMMA InvPublishTree ==
  ASSUME IPCInv, NEW p \in Publishers, PublishTree(p)
  PROVE  IPCInv'
<1> USE ThreadsAssumption DEF IPCInv, TypeOK, Publishers, PublishTree, Goes, Return, CreateTree, EnterPublish,
        SetByteSize, PossiblyReleaseArrayMemory, AssignData
<1>1. PlaceTypes'
  BY DEF PlaceTypes, ClientPlaces, DataPlaces, InPublish, InGet
<1>2. LockTypes' /\ DataTypes'
  BY DEF LockTypes, DataTypes, flags, locks, published, copies
<1>3. SectionsOwned'
  BY DEF PlaceTypes, LockTypes, SectionsOwned, locks, InPublish, InGet
<1>4. PublishedInv'
  BY DEF PlaceTypes, LockTypes, DataTypes, SectionsOwned, PublishedInv, PublishedWhole,
     PublisherHasTree, ClientReadsShown, locks, published, copies, InPublish, InGet
<1> QED
  BY <1>1, <1>2, <1>3, <1>4

\* What a pipe thread does besides publishing.
ClientStep(c) ==
  \/ Ask(c)
  \/ WhoCollects(c)
  \/ EnterCollect(c)
  \/ WakeUpCreateIPCdataThread(c)
  \/ EnterGet(c)
  \/ LookAtData(c)
  \/ CopyData(c)
  \/ Send(c)

LEMMA InvClientStep ==
  ASSUME IPCInv, NEW c \in Clients, ClientStep(c)
  PROVE  IPCInv'
<1> USE ThreadsAssumption DEF IPCInv, TypeOK, Publishers, ClientStep, Goes, Ask, WhoCollects,
        EnterCollect, WakeUpCreateIPCdataThread, EnterGet, LookAtData, CopyData, Send,
        IsStopped, WokenFrom, Collects, Nothing
<1>1. PlaceTypes'
  BY DEF PlaceTypes, ClientPlaces, DataPlaces, InPublish, InGet
<1>2. LockTypes' /\ DataTypes'
  BY DEF LockTypes, DataTypes, flags, locks, published, copies
<1>3. SectionsOwned'
  BY DEF PlaceTypes, LockTypes, SectionsOwned, locks, InPublish, InGet
<1>4. PublishedInv'
  BY DEF PlaceTypes, LockTypes, DataTypes, SectionsOwned, PublishedInv, PublishedWhole,
     PublisherHasTree, ClientReadsShown, locks, published, copies, InPublish, InGet
<1> QED
  BY <1>1, <1>2, <1>3, <1>4

\* The critical sections of the DVFS thread.
DVFSSection == CollectEnters \/ CollectLeaves \/ TemperaturesEnter \/ TemperaturesLeave

LEMMA InvDVFSSection ==
  ASSUME IPCInv, DVFSSection
  PROVE  IPCInv'
<1> USE ThreadsAssumption DEF IPCInv, TypeOK, Publishers, DVFSSection, DVFSGoes, CollectEnters,
        CollectLeaves, TemperaturesEnter, TemperaturesLeave
<1>1. PlaceTypes'
  BY DEF PlaceTypes, DVFSPlaces
<1>2. LockTypes' /\ DataTypes'
  BY DEF LockTypes, DataTypes, flags, locks, published, copies
<1>3. SectionsOwned'
  BY DEF PlaceTypes, LockTypes, SectionsOwned, locks, InPublish, InGet
<1>4. PublishedInv'
  BY DEF PlaceTypes, LockTypes, DataTypes, SectionsOwned, PublishedInv, PublishedWhole,
     PublisherHasTree, ClientReadsShown, locks, published, copies, InPublish, InGet
<1> QED
  BY <1>1, <1>2, <1>3, <1>4

\* A step that leaves locks, trees and copies alone, moves the IPC data thread at
\* most between places outside of publishing, and the DVFS thread neither into a
\* critical section nor out of one.
LEMMA InvOther ==
  ASSUME IPCInv,
         UNCHANGED <<locks, tree, published, copies>>,
         dvfs' \in DVFSPlaces, stop' \in StopPlaces,
         m_vbRun' \in BOOLEAN, m_vbAlterCPUcoreDataForIPC' \in BOOLEAN,
         dvfs' = dvfs \/ {dvfs, dvfs'} \intersect {"collecting", "reading"} = {},
         \/ at' = at
         \/ \E place \in DataPlaces \ ({"enter"} \union InPublish) :
              /\ at[IPCdataThread] \notin {"enter"} \union InPublish
              /\ at' = [at EXCEPT ![IPCdataThread] = place]
  PROVE  IPCInv'
<1> USE ThreadsAssumption DEF IPCInv, TypeOK, Publishers
<1>1. PlaceTypes'
  BY DEF PlaceTypes
<1>2. LockTypes' /\ DataTypes'
  BY DEF LockTypes, DataTypes, locks, published, copies
<1>3. SectionsOwned'
  BY DEF PlaceTypes, LockTypes, SectionsOwned, locks, DataPlaces, InPublish, InGet
<1>4. PublishedInv'
  BY DEF PlaceTypes, PublishedInv, PublishedWhole, PublisherHasTree, ClientReadsShown,
     locks, published, copies, InPublish
<1> QED
  BY <1>1, <1>2, <1>3, <1>4

LEMMA IPCStep == IPCInv /\ [Next]_vars => IPCInv'
<1> SUFFICES ASSUME IPCInv, [Next]_vars PROVE IPCInv'
  OBVIOUS
<1> USE DEF IPCInv, TypeOK, PlaceTypes, LockTypes
<1>1. CASE IPCdataThreadStep
  <2>1. CASE LockAlter \/ WaitAlter \/ WokenAlter \/ LoopCondition \/ TestAgain
    BY <2>1, InvOther DEF LockAlter, WaitAlter, WokenAlter, LoopCondition, TestAgain,
       DataGoes, Goes, flags, DataPlaces, InPublish
  <2>2. CASE PublishTree(IPCdataThread)
    BY <2>2, InvPublishTree DEF Publishers
  <2> QED
    BY <1>1, <2>1, <2>2 DEF IPCdataThreadStep
<1>2. ASSUME NEW c \in Clients, Ask(c) \/ GetCurrentCPUcoreData(c) \/ Send(c)
      PROVE  IPCInv'
  BY <1>2, InvPublishTree, InvClientStep DEF GetCurrentCPUcoreData, ClientStep, Publishers
<1>3. CASE OrderStart \/ OrderStop
  BY <1>3, InvOther DEF OrderStart, OrderStop, DVFSGoes, flags, DVFSPlaces
<1>4. CASE DVFSStep
  <2>1. CASE EntryBegins \/ CheckRun \/ SleepEnds \/ EntryEnds
    BY <2>1, InvOther DEF EntryBegins, CheckRun, SleepEnds, EntryEnds, DVFSGoes, flags,
       DVFSPlaces
  <2>2. CASE SignalCPUdataCanBeSafelyRead
    BY <2>2, InvOther DEF SignalCPUdataCanBeSafelyRead, DVFSGoes, WokenFrom, flags,
       DVFSPlaces, DataPlaces, InPublish
  <2> QED
    BY <1>4, <2>1, <2>2, InvDVFSSection DEF DVFSStep, DVFSSection
<1>5. CASE StopBegins \/ EndAlter \/ WaitForTermination
  BY <1>5, InvOther DEF StopBegins, EndAlter, WaitForTermination, StopGoes, flags, StopPlaces
<1>6. CASE LockedBroadcast
  BY <1>6, InvOther DEF LockedBroadcast, StopGoes, WokenFrom, flags, StopPlaces, DataPlaces,
     InPublish
<1>7. CASE UNCHANGED vars
  BY <1>7, InvOther DEF vars, flags
<1> QED
  BY <1>1, <1>2, <1>3, <1>4, <1>5, <1>6, <1>7 DEF Next, StopStep

LEMMA IPCAlways == Spec => []IPCInv
BY IPCInit, IPCStep, PTL DEF Spec

\* Type correctness, for any number of clients and trees.
THEOREM IPCTypes == Spec => []TypeOK
BY IPCAlways, PTL DEF IPCInv

\* Both critical sections exclude each other's threads and are always left, for
\* any number of clients.
THEOREM IPCSections == Spec => []SectionsOwned
BY IPCAlways, PTL DEF IPCInv

-----------------------------------------------------------------------------
(* The refinement.                                                         *)

LEMMA BoardStarts == Init => Board!BoardInit
BY ThreadsAssumption DEF Init, Board!BoardInit, Request, Received, Nothing, Publishers

\* A step that changes neither what is shown, nor an answer, nor the place of a
\* client in its conversation is a stutter of the board.
LEMMA BoardStutters ==
  ASSUME UNCHANGED <<shown, received>>,
         \A c \in Clients : Request(c)' = Request(c)
  PROVE  UNCHANGED Board!boardVars
BY DEF Board!boardVars, Received

\* A step of the publisher p is Publish when it assigns the array.
LEMMA BoardPublishes ==
  ASSUME IPCInv, NEW p \in Publishers, PublishTree(p)
  PROVE  [Board!BoardNext]_(Board!boardVars)
<1> USE DEF IPCInv, TypeOK, PlaceTypes, DataTypes, Publishers
<1>1. \A c \in Clients : Request(c)' = Request(c)
  BY ThreadsAssumption DEF PublishTree, CreateTree, EnterPublish, SetByteSize,
     PossiblyReleaseArrayMemory, AssignData, Goes, Return, Request
<1>2. UNCHANGED received
  BY DEF PublishTree, CreateTree, EnterPublish, SetByteSize,
     PossiblyReleaseArrayMemory, AssignData, copies
<1>3. CASE AssignData(p)
  <2>1. shown' \in Trees
    BY <1>3 DEF AssignData, Goes, PublishedInv, PublisherHasTree, InPublish
  <2> QED
    BY <1>1, <1>2, <2>1 DEF Board!BoardNext, Board!Publish, Received
<1>4. CASE ~ AssignData(p)
  <2>1. UNCHANGED shown
    BY <1>4 DEF PublishTree, CreateTree, EnterPublish, SetByteSize,
       PossiblyReleaseArrayMemory, published
  <2> QED
    BY <1>1, <1>2, <2>1, BoardStutters
<1> QED
  BY <1>3, <1>4

\* A client asks, is answered when it copies, and has sent its answer.
LEMMA BoardClient ==
  ASSUME IPCInv, NEW c \in Clients, ClientStep(c)
  PROVE  [Board!BoardNext]_(Board!boardVars)
<1> USE ThreadsAssumption DEF IPCInv, TypeOK, PlaceTypes, DataTypes, Publishers
<1>1. CASE Ask(c)
  BY <1>1 DEF Ask, Goes, published, copies, Request, Received, Board!BoardNext, Board!BoardAsk,
     Board!Turn
<1>2. CASE WhoCollects(c) \/ EnterCollect(c) \/ EnterGet(c) \/ LookAtData(c)
  <2>1. \A d \in Clients : Request(d)' = Request(d)
    BY <1>2 DEF WhoCollects, EnterCollect, EnterGet, LookAtData, Goes, Request
  <2> QED
    BY <1>2, <2>1, BoardStutters DEF WhoCollects, EnterCollect, EnterGet, LookAtData,
       published, copies
<1>3. CASE WakeUpCreateIPCdataThread(c)
  <2>1. \A d \in Clients : Request(d)' = Request(d)
    BY <1>3 DEF WakeUpCreateIPCdataThread, WokenFrom, Request
  <2> QED
    BY <1>3, <2>1, BoardStutters DEF WakeUpCreateIPCdataThread, published, copies
<1>4. CASE CopyData(c)
  <2>1. Received(c)' = shown
    <3>1. ipcCS = c /\ at[c] = "copy"
      BY <1>4 DEF CopyData, Goes, SectionsOwned, InGet
    <3>2. r_dwByteSize[c] = shown /\ (shown # NULL => m_arbyData = shown)
      BY <3>1 DEF PublishedInv, PublishedWhole, ClientReadsShown
    <3> QED
      BY <1>4, <3>2 DEF CopyData, Received, Nothing
  <2>2. \A d \in Clients \ {c} : Received(d)' = Received(d)
    BY <1>4 DEF CopyData, Received
  <2>3. \A d \in Clients : Request(d)' = IF d = c THEN "answered" ELSE Request(d)
    BY <1>4 DEF CopyData, Goes, Request
  <2>4. Request(c) = "asked" /\ UNCHANGED shown
    BY <1>4 DEF CopyData, Goes, Request, published
  <2> QED
    BY <2>1, <2>2, <2>3, <2>4 DEF Board!BoardNext, Board!BoardAnswer, Board!Turn
<1>5. CASE Send(c)
  BY <1>5 DEF Send, Goes, published, Nothing, Request, Received, Board!BoardNext,
     Board!BoardSent, Board!Turn
<1> QED
  BY <1>1, <1>2, <1>3, <1>4, <1>5 DEF ClientStep

LEMMA BoardStep == IPCInv /\ [Next]_vars => [Board!BoardNext]_(Board!boardVars)
<1> SUFFICES ASSUME IPCInv, [Next]_vars PROVE [Board!BoardNext]_(Board!boardVars)
  OBVIOUS
<1> USE DEF IPCInv, TypeOK, PlaceTypes, Publishers
<1>1. ASSUME UNCHANGED <<shown, received>>,
             \/ at' = at
             \/ \E place : at' = [at EXCEPT ![IPCdataThread] = place]
      PROVE  UNCHANGED Board!boardVars
  <2>1. \A c \in Clients : Request(c)' = Request(c)
    BY <1>1, ThreadsAssumption DEF Request
  <2> QED
    BY <1>1, <2>1, BoardStutters
<1>2. CASE IPCdataThreadStep
  <2>1. CASE PublishTree(IPCdataThread)
    BY <2>1, BoardPublishes
  <2> QED
    BY <1>1, <1>2, <2>1 DEF IPCdataThreadStep, LockAlter, WaitAlter, WokenAlter, LoopCondition,
       TestAgain, DataGoes, Goes, published, copies
<1>3. ASSUME NEW c \in Clients, Ask(c) \/ GetCurrentCPUcoreData(c) \/ Send(c)
      PROVE  [Board!BoardNext]_(Board!boardVars)
  BY <1>3, BoardPublishes, BoardClient DEF GetCurrentCPUcoreData, ClientStep
<1>4. CASE OrderStart \/ OrderStop \/ DVFSStep
  BY <1>1, <1>4 DEF OrderStart, OrderStop, DVFSStep, EntryBegins, CheckRun, CollectEnters,
     CollectLeaves, TemperaturesEnter, TemperaturesLeave, SignalCPUdataCanBeSafelyRead,
     SleepEnds, EntryEnds, WokenFrom, published, copies
<1>5. CASE StopBegins \/ StopStep
  BY <1>1, <1>5 DEF StopBegins, StopStep, EndAlter, LockedBroadcast, WaitForTermination,
     WokenFrom, published, copies
<1>6. CASE UNCHANGED vars
  BY <1>1, <1>6 DEF vars, published, copies
<1> QED
  BY <1>2, <1>3, <1>4, <1>5, <1>6 DEF Next

\* However the threads interleave, what every one of any number of clients gets is
\* a whole tree, the one last published when its question was answered.
THEOREM IPCImplementsBoard == Spec => ImplementsBoard
BY BoardStarts, BoardStep, IPCAlways, PTL DEF Spec, ImplementsBoard, Board!BoardSpec

=============================================================================
