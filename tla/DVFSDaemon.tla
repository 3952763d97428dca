------------------------------ MODULE DVFSDaemon ------------------------------
(***************************************************************************)
(* The Linux daemon (Linux/daemon): main() installs its signal handler,     *)
(* initialises, creates and starts the DVFS thread and then waits on a      *)
(* condition; everything else is done by the handler, which runs between    *)
(* any two steps of main.                                                   *)
(*   SIGCONT  starts a DVFS thread                                          *)
(*   SIGUSR1  orders it to stop                                             *)
(*   SIGTERM  orders it to stop, then signals the condition main waits on   *)
(* The handler is installed before the DVFS object exists.  It reaches the  *)
(* object through a pointer that is then NULL: StartDVFSviaThreadType       *)
(* asserts on it, EndDVFS dereferences it.  It stays installed while main's *)
(* local variable, the daemon object, is destroyed, together with the CPU   *)
(* controller and the usage getter that DVFS threads nobody joins still     *)
(* use; neither gp_cpucontrolbase nor their pointers are reset.             *)
(***************************************************************************)
EXTENDS DVFSThread

VARIABLES
  main,        \* where main() is
  terminating, \* the SIGTERM handler is between EndDVFS() and Signal()
  ending,      \* history: a SIGTERM was handled, or Start() failed
  fate         \* how the process ended

daemonVars == <<main, terminating, ending, fate>>
vars == <<threadVars, daemonVars>>

(***************************************************************************)
(* Program counter of main().                                               *)
(*   "init"     handler installed, in Initialize                            *)
(*   "create"   about to create the DVFS object                             *)
(*   "start"    about to start the DVFS thread                              *)
(*   "lock"     the thread was started, about to LockAndWait                *)
(*   "waiting"  waits for the condition                                     *)
(*   "return"   about to leave main's block                                 *)
(*   "destroyed" the destructor of the daemon object has begun, the process *)
(*              is not yet gone                                             *)
(***************************************************************************)
MainPCs == {"init", "create", "start", "lock", "waiting", "return", "destroyed"}
Fates == {"alive", "exited", "assertion failed", "NULL dereferenced",
          "thread after destruction", "handler after destruction"}

TypeOK ==
  /\ ThreadTypeOK
  /\ main \in MainPCs
  /\ terminating \in BOOLEAN /\ ending \in BOOLEAN
  /\ fate \in Fates
  /\ up <=> fate = "alive"

Init ==
  /\ ThreadInit
  /\ main = "init"
  /\ terminating = FALSE /\ ending = FALSE
  /\ fate = "alive"

MainGoes(from, to) ==
  /\ up
  /\ main = from
  /\ main' = to

End(how) == ProcessEnds /\ fate' = how

-----------------------------------------------------------------------------
(* main()                                                                  *)

\* Initialize(): no hardware access, or no way of scaling: Start() fails.
Initialize ==
  /\ MainGoes("init", "create") \/ MainGoes("init", "return")
  /\ ending' = (ending \/ main' = "return")
  /\ UNCHANGED <<threadVars, terminating, fate>>

\* HandleStartDynVoltAndFreqScalingThread, first half.
CreateObject ==
  /\ MainGoes("create", "start")
  /\ \E o \in Objects : CreateDVFSthreadObject(o)
  /\ UNCHANGED <<terminating, ending, fate>>

\* Second half: the return code of the thread's start is that of Start().
StartDVFS ==
  /\ \/ /\ MainGoes("start", "lock")
        /\ \E t \in Threads : StartThread(t)
     \/ /\ MainGoes("start", "return")
        /\ UNCHANGED threadVars
  /\ ending' = (ending \/ main' = "return")
  /\ UNCHANGED <<terminating, fate>>

\* Mutant: the wait is not for the condition.
LockAndWaitReturns ==
  /\ MainGoes("lock", "waiting") \/ MainGoes("lock", "return")
  /\ UNCHANGED <<threadVars, terminating, ending, fate>>

LockAndWait ==
  /\ MainGoes("lock", "waiting")
  /\ UNCHANGED <<threadVars, terminating, ending, fate>>

\* cpucontroldaemon goes out of scope.  ~CPUcontrolBase calls FreeRessources,
\* which deletes the CPU controller, the usage getter and the access object;
\* then the object's members go, and in exit() the static model.  No DVFS
\* thread is waited for.  From the first deletion on, whoever comes across
\* what is gone is in UseDestroyed; one step stands for all the deletions.
Destroy ==
  /\ MainGoes("return", "destroyed")
  /\ UNCHANGED <<threadVars, terminating, ending, fate>>

Exit ==
  /\ main = "destroyed"
  /\ End("exited")
  /\ UNCHANGED <<main, terminating, ending>>

Main == Initialize \/ CreateObject \/ StartDVFS \/ LockAndWait \/ Destroy \/ Exit

-----------------------------------------------------------------------------
(* child_handler()                                                         *)

\* Starting fails when the system has no thread left.
SigCont ==
  /\ up
  /\ IF mp_dynfreqscalingthreadbase = NULL
       THEN End("assertion failed")
       ELSE /\ \/ \E t \in Threads : StartThread(t)
               \/ UNCHANGED threadVars
            /\ UNCHANGED fate
  /\ UNCHANGED <<main, terminating, ending>>

\* Mutant: the object is dropped with the order to stop.
EndDVFSDropsObject ==
  IF mp_dynfreqscalingthreadbase = NULL
    THEN End("NULL dereferenced")
    ELSE /\ up
         /\ m_vbRun' = [m_vbRun EXCEPT ![mp_dynfreqscalingthreadbase] = FALSE]
         /\ mp_dynfreqscalingthreadbase' = NULL
         /\ UNCHANGED <<m_vbDVFSthreadStopped, pc, pv, constructed, entered, up, fate>>

\* Mutant: the order to stop also claims that the thread has stopped.
EndDVFSClaimsStopped ==
  IF mp_dynfreqscalingthreadbase = NULL
    THEN End("NULL dereferenced")
    ELSE /\ up
         /\ m_vbRun' = [m_vbRun EXCEPT ![mp_dynfreqscalingthreadbase] = FALSE]
         /\ m_vbDVFSthreadStopped' =
              [m_vbDVFSthreadStopped EXCEPT ![mp_dynfreqscalingthreadbase] = TRUE]
         /\ UNCHANGED <<mp_dynfreqscalingthreadbase, pc, pv, constructed, entered, up, fate>>

\* EndDVFS() does not test the pointer.
EndDVFS ==
  IF mp_dynfreqscalingthreadbase = NULL
    THEN End("NULL dereferenced")
    ELSE ClearRun /\ UNCHANGED fate

SigUsr1 ==
  /\ EndDVFS
  /\ UNCHANGED <<main, terminating, ending>>

SigTermEndDVFS ==
  /\ ~ terminating
  /\ EndDVFS
  /\ terminating' = up'
  /\ ending' = TRUE
  /\ UNCHANGED <<main>>

\* Mutant: main is not woken up.
SigTermNoSignal ==
  /\ up
  /\ terminating
  /\ terminating' = FALSE
  /\ UNCHANGED <<threadVars, main, ending, fate>>

\* Signal(): nobody remembers it if main is not waiting.
SigTermSignal ==
  /\ up
  /\ terminating
  /\ terminating' = FALSE
  /\ main' = IF main = "waiting" THEN "return" ELSE main
  /\ UNCHANGED <<threadVars, ending, fate>>

Signals == SigCont \/ SigUsr1 \/ SigTermEndDVFS \/ SigTermSignal

-----------------------------------------------------------------------------
DVFSThreadStep ==
  /\ \E t \in Threads : ThreadStep(t)
  /\ UNCHANGED daemonVars

(***************************************************************************)
(* The use of what Destroy has destroyed: by a DVFS thread that is not in   *)
(* its sleep (usage getter, CPU controller, model, log: "Program crash when *)
(* accessing them", says FreeRessources), or by a handler (daemon object,   *)
(* condition).  What comes of it is undefined.  The process may end here,   *)
(* or go on as if nothing were destroyed: that is what the thread's and the *)
(* handler's own actions do, which remain possible.                         *)
(***************************************************************************)
UseDestroyed ==
  /\ main = "destroyed"
  /\ \/ /\ \E t \in Threads : pc[t] \notin {"none", "sleep"}
        /\ End("thread after destruction")
     \/ End("handler after destruction")
  /\ UNCHANGED <<main, terminating, ending>>

Next == Main \/ Signals \/ DVFSThreadStep \/ UseDestroyed

\* The scheduler runs main and the DVFS threads, and a handler that has begun
\* finishes.  That any signal is ever sent is not assumed.
Fairness ==
  /\ WF_vars(Main)
  /\ WF_vars(SigTermSignal)
  /\ \A t \in Threads : WF_vars(ThreadStep(t) /\ UNCHANGED daemonVars)

Spec == Init /\ [][Next]_vars
FairSpec == Spec /\ Fairness

-----------------------------------------------------------------------------
(* Properties.                                                             *)

\* A SIGTERM that arrives while main waits ends the process, whatever SIGCONT
\* and SIGUSR1 do in between.
TermEndsDaemon == (terminating /\ main = "waiting") ~> ~ up

\* Once main has created the DVFS object the daemon does not crash before it has
\* been told to end: until a SIGTERM is handled or Start() has failed, no SIGCONT or
\* SIGUSR1, in whatever order and however early, makes it do so, and nothing is
\* destroyed that is in use.  After that it can crash, but only where a thread that
\* nobody joined, or a handler, uses what the end of main has destroyed.
NoLateCrash ==
  [][constructed # {} /\ up /\ ~ up' =>
       \/ fate' = "exited"
       \/ ending /\ fate' \in {"thread after destruction", "handler after destruction"}]_vars

=============================================================================
