--------------------------- MODULE ManagedObject ----------------------------
(***************************************************************************)
(* One ipc_managed_object of the threaded build: doStart and doStop called *)
(* by several threads, and the worker threads they create.                 *)
(*                                                                         *)
(* Any thread may call doStart (addObject, addTask, startAll, execute and  *)
(* the manager's sweep all do).  One thread, the Owner, also calls doStop  *)
(* (deleteObject, stopAll, the destructor): joining one std::thread from   *)
(* two threads is undefined.  The subclass's workerThread_setup and        *)
(* workerThread_iterate are external: an iteration may clear the protected *)
(* thread_run (a worker that ends itself) or throw.                        *)
(***************************************************************************)
EXTENDS Naturals, FiniteSets

CONSTANTS
  Callers,    (* threads that call doStart                                 *)
  Owner,      (* the one of them that calls doStop too                     *)
  NoThread,   (* the owner of an unlocked mutex                            *)
  MaxStarts,  (* bound on the worker threads created in a behaviour        *)
  Overlap,    (* may a doStart be in progress while doStop is?             *)
  SelfEnding  (* may an iteration clear thread_run?                        *)

ASSUME CallersAssumption ==
  /\ Owner \in Callers
  /\ NoThread \notin Callers
  /\ MaxStarts \in Nat
  /\ Overlap \in BOOLEAN
  /\ SelfEnding \in BOOLEAN

VARIABLES
  thread_run,            (* the unsynchronised flag                        *)
  mtx_threadOperations,  (* the mutex: its owner or NoThread               *)
  threadTask,            (* the thread the handle denotes, 0 for nullptr   *)
  joinable,              (* the threads not yet joined                     *)
  worker,                (* where each worker thread is                    *)
  pc,                    (* where each calling thread is                   *)
  joining                (* the thread the Owner's join() waits for        *)

vars == <<thread_run, mtx_threadOperations, threadTask, joinable, worker, pc,
          joining>>

Workers == 1..MaxStarts

(* "test" is the loop's isRunning(), "iterate" an iteration.               *)
WorkerStates == {"unborn", "test", "iterate", "exited"}

StartStates == {"startLock", "startTest", "startSet", "startSpawn",
                "startUnlock"}
StopStates == {"stopClear", "stopTest", "stopJoin", "stopWait"}
CallerStates == {"idle"} \cup StartStates \cup StopStates

Live == {w \in Workers : worker[w] \in {"test", "iterate"}}
Unborn == {w \in Workers : worker[w] = "unborn"}

Starters == {c \in Callers : pc[c] \in StartStates}
Starting == Starters # {}
Stopping == pc[Owner] \in StopStates

Init ==
  /\ thread_run = FALSE
  /\ mtx_threadOperations = NoThread
  /\ threadTask = 0
  /\ joinable = {}
  /\ worker = [w \in Workers |-> "unborn"]
  /\ pc = [c \in Callers |-> "idle"]
  /\ joining = 0

Goto(c, from, to) ==
  /\ pc[c] = from
  /\ pc' = [pc EXCEPT ![c] = to]
-----------------------------------------------------------------------------
(* doStart, one statement per step; it holds mtx_threadOperations.         *)
NoMutex == TRUE                                                 \* mutant
MutexFree == mtx_threadOperations = NoThread

CallStart(c) ==
  /\ Goto(c, "idle", "startLock")
  /\ Overlap \/ ~Stopping
  /\ Cardinality(Starters) < Cardinality(Unborn)  \* the bound MaxStarts
  /\ UNCHANGED <<thread_run, mtx_threadOperations, threadTask, joinable,
                 worker, joining>>

StartLock(c) ==
  /\ MutexFree
  /\ Goto(c, "startLock", "startTest")
  /\ mtx_threadOperations' = c
  /\ UNCHANGED <<thread_run, threadTask, joinable, worker, joining>>

(* "if (this->isRunning()) { unlock; return 0; }"                          *)
StartTestReturns(c) ==                                          \* mutant
  /\ \/ thread_run /\ Goto(c, "startTest", "idle")
     \/ ~thread_run /\ Goto(c, "startTest", "startSet")
  /\ UNCHANGED <<thread_run, mtx_threadOperations, threadTask, joinable,
                 worker, joining>>
StartTest(c) ==
  /\ \/ thread_run /\ Goto(c, "startTest", "startUnlock")
     \/ ~thread_run /\ Goto(c, "startTest", "startSet")
  /\ UNCHANGED <<thread_run, mtx_threadOperations, threadTask, joinable,
                 worker, joining>>

StartSet(c) ==
  /\ Goto(c, "startSet", "startSpawn")
  /\ thread_run' = TRUE
  /\ UNCHANGED <<mtx_threadOperations, threadTask, joinable, worker, joining>>

(* The new std::thread replaces the handle; the old one is leaked.         *)
StartSpawn(c) ==
  /\ Goto(c, "startSpawn", "startUnlock")
  /\ \E w \in Unborn :
       /\ w - 1 \notin Unborn
       /\ worker' = [worker EXCEPT ![w] = "test"]
       /\ threadTask' = w
       /\ joinable' = joinable \cup {w}
  /\ UNCHANGED <<thread_run, mtx_threadOperations, joining>>

StartUnlock(c) ==
  /\ Goto(c, "startUnlock", "idle")
  /\ mtx_threadOperations' = NoThread
  /\ UNCHANGED <<thread_run, threadTask, joinable, worker, joining>>
-----------------------------------------------------------------------------
(* doStop takes no lock.                                                   *)

(* Only an object that was started once has a handle to look at.           *)
CallStop ==
  /\ Goto(Owner, "idle", "stopClear")
  /\ threadTask # 0
  /\ Overlap \/ ~Starting
  /\ UNCHANGED <<thread_run, mtx_threadOperations, threadTask, joinable,
                 worker, joining>>

StopKeep ==                                                     \* mutant
  /\ Goto(Owner, "stopClear", "stopTest")
  /\ UNCHANGED <<thread_run, mtx_threadOperations, threadTask, joinable,
                 worker, joining>>
StopClear ==
  /\ Goto(Owner, "stopClear", "stopTest")
  /\ thread_run' = FALSE
  /\ UNCHANGED <<mtx_threadOperations, threadTask, joinable, worker, joining>>

StopTestReversed ==                                             \* mutant
  /\ \/ threadTask \notin joinable /\ Goto(Owner, "stopTest", "stopJoin")
     \/ threadTask \in joinable /\ Goto(Owner, "stopTest", "idle")
  /\ UNCHANGED <<thread_run, mtx_threadOperations, threadTask, joinable,
                 worker, joining>>
StopTestOmitted ==                                              \* mutant
  /\ Goto(Owner, "stopTest", "stopJoin")
  /\ UNCHANGED <<thread_run, mtx_threadOperations, threadTask, joinable,
                 worker, joining>>
StopTest ==
  /\ \/ threadTask \in joinable /\ Goto(Owner, "stopTest", "stopJoin")
     \/ threadTask \notin joinable /\ Goto(Owner, "stopTest", "idle")
  /\ UNCHANGED <<thread_run, mtx_threadOperations, threadTask, joinable,
                 worker, joining>>

(* The handle is read again for join(): it may be another thread's by now. *)
StopJoin ==
  /\ Goto(Owner, "stopJoin", "stopWait")
  /\ joining' = threadTask
  /\ UNCHANGED <<thread_run, mtx_threadOperations, threadTask, joinable,
                 worker>>

Joined(w) == TRUE                                               \* mutant
Ended(w) == worker[w] = "exited"

StopReturn ==
  /\ Goto(Owner, "stopWait", "idle")
  /\ Ended(joining)
  /\ joinable' = joinable \ {joining}
  /\ joining' = 0
  /\ UNCHANGED <<thread_run, mtx_threadOperations, threadTask, worker>>
-----------------------------------------------------------------------------
(* ipc_managed_object_callWorker: while (isRunning()) iterate(), in a try. *)

Move(w, from, to) ==
  /\ worker[w] = from
  /\ worker' = [worker EXCEPT ![w] = to]
  /\ UNCHANGED <<mtx_threadOperations, threadTask, joinable, pc, joining>>

WorkerTest(w) ==
  /\ \/ thread_run /\ Move(w, "test", "iterate")
     \/ ~thread_run /\ Move(w, "test", "exited")
  /\ UNCHANGED thread_run

WorkerIterate(w) == Move(w, "iterate", "test") /\ UNCHANGED thread_run

(* The catch-all prints and leaves: thread_run keeps its value.            *)
WorkerThrow(w) == Move(w, "iterate", "exited") /\ UNCHANGED thread_run

(* An iteration of a subclass that ends its own worker.                    *)
WorkerClear(w) ==
  /\ SelfEnding
  /\ Move(w, "iterate", "test")
  /\ thread_run' = FALSE
-----------------------------------------------------------------------------
DoStart(c) ==
  \/ CallStart(c)
  \/ StartLock(c)
  \/ StartTest(c)
  \/ StartSet(c)
  \/ StartSpawn(c)
  \/ StartUnlock(c)

DoStop == CallStop \/ StopClear \/ StopTest \/ StopJoin \/ StopReturn

CallWorker(w) ==
  \/ WorkerTest(w)
  \/ WorkerIterate(w)
  \/ WorkerThrow(w)
  \/ WorkerClear(w)

Next ==
  \/ \E c \in Callers : DoStart(c)
  \/ DoStop
  \/ \E w \in Workers : CallWorker(w)

Spec == Init /\ [][Next]_vars

(* The scheduler runs every thread that can run.  A mutex is released      *)
(* again and again, hence strong fairness for taking it.  Nothing makes a  *)
(* thread call doStart or doStop, and an iteration may take its time but   *)
(* not forever.                                                            *)
Fairness ==
  /\ \A c \in Callers :
       /\ SF_vars(StartLock(c))
       /\ WF_vars(StartTest(c) \/ StartSet(c) \/ StartSpawn(c)
                  \/ StartUnlock(c))
  /\ WF_vars(StopClear \/ StopTest \/ StopJoin \/ StopReturn)
  /\ \A w \in Workers : WF_vars(WorkerTest(w) \/ WorkerIterate(w))

FairSpec == Spec /\ Fairness
-----------------------------------------------------------------------------
(* Types; and doStop calls join() of a thread that can still be joined, as *)
(* std::thread asks, however often it is called and whoever calls doStart  *)
(* between its joinable() and its join().                                  *)
TypeOK ==
  /\ thread_run \in BOOLEAN
  /\ mtx_threadOperations \in Callers \cup {NoThread}
  /\ threadTask \in Workers \cup {0}
  /\ joinable \subseteq Workers
  /\ worker \in [Workers -> WorkerStates]
  /\ pc \in [Callers -> CallerStates]
  /\ joining \in joinable \cup {0}

(* However many threads start the object, it has at most one worker, and   *)
(* the handle denotes it: none is left behind that nobody could join.  Two *)
(* doStart calls that find the object idle are told apart by the mutex.    *)
OneWorker == \A w \in Live : w = threadTask

(* Whenever the Owner is past doStop and nobody has started the object     *)
(* since, no worker of it lives.                                           *)
StoppedIsQuiet == ~thread_run /\ ~Stopping /\ ~Starting => Live = {}

(* doStop returns: the worker notes the cleared flag, whatever the other   *)
(* threads are doing at the time.                                          *)
StopReturns == pc[Owner] = "stopClear" ~> pc[Owner] = "idle"

(* An object left stopped comes to rest: every worker ends, those whose    *)
(* handle was overwritten by a racing doStart included.                    *)
LeftStoppedEnds == <>[](~thread_run) => <>[](Live = {})

(* Every doStart returns, though a doStart holds the mutex throughout.     *)
StartReturns == \A c \in Callers : pc[c] = "startLock" ~> pc[c] = "idle"

(* What no interleaving of doStart and doStop breaks: starts get through   *)
(* the mutex, and a flag that stays cleared ends every worker.             *)
StartsStillWork == StartReturns /\ LeftStoppedEnds
-----------------------------------------------------------------------------
(* The object implements Lifecycle.  A request counts from the moment the  *)
(* flag is set; the worker starts when its thread does.                    *)
Life == INSTANCE Lifecycle WITH
  wanted <- thread_run,
  working <- IF \E c \in Callers : pc[c] = "startSpawn" THEN "starting"
             ELSE IF Live # {} THEN "working" ELSE "none"

ImplementsLifecycle == Life!LifeSpec
=============================================================================
