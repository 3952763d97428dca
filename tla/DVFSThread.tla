------------------------------ MODULE DVFSThread ------------------------------
(***************************************************************************)
(* The Dynamic Voltage and Frequency Scaling (DVFS) thread and the object   *)
(* it runs on (Controller/DynFreqScalingThreadBase.{hpp,cpp}), under any    *)
(* controlling program: one that may construct an object, start a thread on *)
(* the current object and clear its run flag at any moment.                 *)
(*                                                                         *)
(* The object keeps two volatile flags and no lock: m_vbRun is written by   *)
(* the controlling threads and by the DVFS thread itself, m_vbDVFSthread-   *)
(* Stopped only by the DVFS thread.  Nothing joins a DVFS thread:           *)
(* WaitForTermination of the class returns at once.  The daemon and the     *)
(* service are controlling programs; each of their modules EXTENDS this one *)
(* and is shown to implement its specification.                             *)
(***************************************************************************)
CONSTANTS
  Objects,   \* identities for DynFreqScalingThreadBase objects
  Threads,   \* identities for operating system threads that run ThreadFunction
  NULL       \* the NULL pointer

ASSUME NullAssumption == NULL \notin Objects

VARIABLES
  mp_dynfreqscalingthreadbase,  \* pointer to the current object, or NULL
  m_vbRun,                      \* per object: should its loop go on?
  m_vbDVFSthreadStopped,        \* per object: what IsStopped() answers
  pc,                           \* per thread: where it is in ThreadFunction
  pv,                           \* per thread: the object handed to ThreadFunction
  constructed,                  \* the objects that have been constructed
  entered,                      \* history: objects some thread has started on
  up                            \* the process exists

threadVars == <<mp_dynfreqscalingthreadbase, m_vbRun, m_vbDVFSthreadStopped,
                pc, pv, constructed, entered, up>>

(***************************************************************************)
(* Program counter of a DVFS thread.                                        *)
(*   "none"    there is no such thread (not created yet, or returned)       *)
(*   "started" created, Start() not executed yet                            *)
(*   "entry"   m_vbRun set by Start(), in Entry() before its first statement *)
(*   "check"   at the head of while( m_vbRun )                              *)
(*   "body"    reads the CPU core data and changes the operating point      *)
(*   "sleep"   in OperatingSystem::Sleep at the end of the body             *)
(*   "leave"   saw m_vbRun FALSE, has not yet set m_vbDVFSthreadStopped     *)
(***************************************************************************)
PCs == {"none", "started", "entry", "check", "body", "sleep", "leave"}

\* The thread's last look at m_vbRun, if it had one, said TRUE.
Going == {"entry", "check", "body", "sleep"}

\* The thread is past the statement m_vbDVFSthreadStopped = false and before
\* the statement m_vbDVFSthreadStopped = true.
Inside == {"check", "body", "sleep", "leave"}

On(o, places) == {t \in Threads : pv[t] = o /\ pc[t] \in places}

ThreadTypeOK ==
  /\ mp_dynfreqscalingthreadbase \in constructed \union {NULL}
  /\ m_vbRun \in [Objects -> BOOLEAN]
  /\ m_vbDVFSthreadStopped \in [Objects -> BOOLEAN]
  /\ pc \in [Threads -> PCs]
  /\ pv \in [Threads -> constructed \union {NULL}]
  /\ \A t \in Threads : pv[t] = NULL <=> pc[t] = "none"
  /\ constructed \subseteq Objects
  /\ entered \subseteq constructed
  /\ up \in BOOLEAN

ThreadInit ==
  /\ mp_dynfreqscalingthreadbase = NULL
  /\ m_vbRun = [o \in Objects |-> FALSE]
  /\ m_vbDVFSthreadStopped = [o \in Objects |-> FALSE]
  /\ pc = [t \in Threads |-> "none"]
  /\ pv = [t \in Threads |-> NULL]
  /\ constructed = {}
  /\ entered = {}
  /\ up = TRUE

-----------------------------------------------------------------------------
(***************************************************************************)
(* What a controlling thread does to the object.                            *)
(***************************************************************************)

\* new DynFreqScalingThreadBase(...): both flags start out TRUE, so a fresh
\* object looks as if it should run and as if it were stopped.
CreateDVFSthreadObject(o) ==
  /\ up
  /\ o \in Objects \ constructed
  /\ constructed' = constructed \union {o}
  /\ mp_dynfreqscalingthreadbase' = o
  /\ m_vbRun' = [m_vbRun EXCEPT ![o] = TRUE]
  /\ m_vbDVFSthreadStopped' = [m_vbDVFSthreadStopped EXCEPT ![o] = TRUE]
  /\ UNCHANGED <<pc, pv, entered, up>>

\* m_x86iandc_thread_typeDVFSthread.start(ThreadFunction, object): a new
\* thread, whatever became of the one started before.
StartThread(t) ==
  /\ up
  /\ mp_dynfreqscalingthreadbase # NULL
  /\ pc[t] = "none"
  /\ pc' = [pc EXCEPT ![t] = "started"]
  /\ pv' = [pv EXCEPT ![t] = mp_dynfreqscalingthreadbase]
  /\ UNCHANGED <<mp_dynfreqscalingthreadbase, m_vbRun, m_vbDVFSthreadStopped,
                 constructed, entered, up>>

\* Stop(), and EndDVFS() of the controlling class: one assignment, no wait.
ClearRun ==
  /\ up
  /\ mp_dynfreqscalingthreadbase # NULL
  /\ m_vbRun' = [m_vbRun EXCEPT ![mp_dynfreqscalingthreadbase] = FALSE]
  /\ UNCHANGED <<mp_dynfreqscalingthreadbase, m_vbDVFSthreadStopped, pc, pv,
                 constructed, entered, up>>

\* The process is gone, by returning from main or by a crash; its threads
\* stop wherever they were.
ProcessEnds ==
  /\ up
  /\ up' = FALSE
  /\ UNCHANGED <<mp_dynfreqscalingthreadbase, m_vbRun, m_vbDVFSthreadStopped,
                 pc, pv, constructed, entered>>

-----------------------------------------------------------------------------
(***************************************************************************)
(* What a DVFS thread does.                                                 *)
(***************************************************************************)
Transition(t, from, to) ==
  /\ up
  /\ pc[t] = from
  /\ pc' = [pc EXCEPT ![t] = to]

\* ThreadFunction calls Start(): the run flag is set by the new thread, and
\* not by whoever asked for it.
Start(t) ==
  /\ Transition(t, "started", "entry")
  /\ m_vbRun' = [m_vbRun EXCEPT ![pv[t]] = TRUE]
  /\ entered' = entered \union {pv[t]}
  /\ UNCHANGED <<mp_dynfreqscalingthreadbase, m_vbDVFSthreadStopped, pv,
                 constructed, up>>

\* First statement of Entry(); the set-up up to the loop touches only the
\* DVFS thread's own working data.
EntryBegins(t) ==
  /\ Transition(t, "entry", "check")
  /\ m_vbDVFSthreadStopped' = [m_vbDVFSthreadStopped EXCEPT ![pv[t]] = FALSE]
  /\ UNCHANGED <<mp_dynfreqscalingthreadbase, m_vbRun, pv, constructed,
                 entered, up>>

\* Mutant: the order to stop is not looked at.
CheckRunIgnoresFlag(t) ==
  /\ Transition(t, "check", "body")
  /\ UNCHANGED <<mp_dynfreqscalingthreadbase, m_vbRun, m_vbDVFSthreadStopped,
                 pv, constructed, entered, up>>

\* while( m_vbRun )
CheckRun(t) ==
  /\ \/ Transition(t, "check", "body") /\ m_vbRun[pv[t]]
     \/ Transition(t, "check", "leave") /\ ~ m_vbRun[pv[t]]
  /\ UNCHANGED <<mp_dynfreqscalingthreadbase, m_vbRun, m_vbDVFSthreadStopped,
                 pv, constructed, entered, up>>

\* Mutant: a failure to read the CPU core data leaves the loop.
LoopBodyBreaks(t) ==
  /\ Transition(t, "body", "sleep") \/ Transition(t, "body", "leave")
  /\ UNCHANGED <<mp_dynfreqscalingthreadbase, m_vbRun, m_vbDVFSthreadStopped,
                 pv, constructed, entered, up>>

LoopBody(t) ==
  /\ Transition(t, "body", "sleep")
  /\ UNCHANGED <<mp_dynfreqscalingthreadbase, m_vbRun, m_vbDVFSthreadStopped,
                 pv, constructed, entered, up>>

SleepEnds(t) ==
  /\ Transition(t, "sleep", "check")
  /\ UNCHANGED <<mp_dynfreqscalingthreadbase, m_vbRun, m_vbDVFSthreadStopped,
                 pv, constructed, entered, up>>

\* Mutant: the thread returns without telling that it has stopped.
EntryEndsSilently(t) ==
  /\ Transition(t, "leave", "none")
  /\ pv' = [pv EXCEPT ![t] = NULL]
  /\ UNCHANGED <<mp_dynfreqscalingthreadbase, m_vbRun, m_vbDVFSthreadStopped,
                 constructed, entered, up>>

\* m_vbDVFSthreadStopped = true; return.  The thread identity is free again.
EntryEnds(t) ==
  /\ Transition(t, "leave", "none")
  /\ m_vbDVFSthreadStopped' = [m_vbDVFSthreadStopped EXCEPT ![pv[t]] = TRUE]
  /\ pv' = [pv EXCEPT ![t] = NULL]
  /\ UNCHANGED <<mp_dynfreqscalingthreadbase, m_vbRun, constructed, entered, up>>

ThreadStep(t) ==
  Start(t) \/ EntryBegins(t) \/ CheckRun(t) \/ LoopBody(t) \/ SleepEnds(t)
    \/ EntryEnds(t)

-----------------------------------------------------------------------------
ThreadNext ==
  \/ \E o \in Objects : CreateDVFSthreadObject(o)
  \/ ClearRun
  \/ ProcessEnds
  \/ \E t \in Threads : StartThread(t) \/ ThreadStep(t)

\* A DVFS thread is scheduled by the operating system and its sleep is finite;
\* whatever controls it need not do anything.
ThreadFairness == \A t \in Threads : WF_threadVars(ThreadStep(t))

ThreadSpec == ThreadInit /\ [][ThreadNext]_threadVars
FairThreadSpec == ThreadSpec /\ ThreadFairness

-----------------------------------------------------------------------------
(***************************************************************************)
(* Properties.                                                              *)
(***************************************************************************)

\* Who asks for CPU core data relies on IsStopped(): if it answers FALSE the
\* caller leaves the collecting to the DVFS thread (GetCurrentCPUcoreData_-
\* Inline, Pause).  The answer FALSE is never left behind: a thread is inside
\* Entry() on that object, however starts, stops and dying threads overlap.
NotStoppedHasCollector ==
  \A o \in constructed : ~ m_vbDVFSthreadStopped[o] => On(o, Inside) # {}

\* StartDynVoltnFreqScaling starts nothing while m_vbRun is set ("already
\* running").  Once a thread has been started on an object the flag never
\* claims more than is true: a thread goes on working on the object.  Were
\* it otherwise, no later request could bring the scaling back.
RunFlagHasThread ==
  \A o \in entered : m_vbRun[o] => On(o, Going) # {}

\* An order to stop that stays in force empties the object: every DVFS
\* thread on it, however many there are, leaves its loop and reports it.
StopDrains ==
  \A o \in Objects :
    (<>[](up /\ o \in entered /\ ~ m_vbRun[o]))
      => <>[](On(o, PCs \ {"none"}) = {} /\ m_vbDVFSthreadStopped[o])

=============================================================================
