----------------------------- MODULE IpcManager -----------------------------
(***************************************************************************)
(* The ipc_manager of the threaded build: its worker, its kicker, the      *)
(* Clients that register objects and tasks, and Main, the thread that      *)
(* starts and stops the manager and deletes objects.                       *)
(*                                                                         *)
(* doStart of an item is one step here: it runs under the item's           *)
(* mtx_threadOperations, and ManagedObject shows what that gives.  What an *)
(* item's own worker does is external: a task's iteration may set          *)
(* completed or end its worker by clearing thread_run, any may throw.      *)
(*                                                                         *)
(* stopAll, startAll and deleteObject walk `objects' without the lock: a   *)
(* concurrent addObject is a data race on the list.  The model keeps to    *)
(* callers that do not race there.  addTask may come at any time.          *)
(***************************************************************************)
EXTENDS Naturals, FiniteSets, SequencesExt, Lists

CONSTANTS
  Clients,    (* threads that call addObject and addTask                   *)
  Objects,    (* the ipc_managed_objects                                   *)
  Tasks,      (* the ipc_tasks                                             *)
  Main,       (* the thread that calls doStart, stopAll, deleteObject, ... *)
  Worker,     (* the manager's worker thread                               *)
  None,       (* no thread, no item                                        *)
  IdModulus,  (* 2^32 in the code: nxtId is a uint32_t                     *)
  MaxOld,     (* bound on the workers of a task left behind by restarts    *)
  Prompt      (* does a thread about to wait() get there within a second?  *)

Items == Objects \cup Tasks
Owners == Clients \cup {Main, Worker}

ASSUME ManagerAssumption ==
  /\ Objects \cap Tasks = {}
  /\ None \notin Items \cup Owners
  /\ Main \notin Clients /\ Worker \notin Clients /\ Main # Worker
  /\ IdModulus \in Nat \ {0} /\ MaxOld \in Nat /\ Prompt \in BOOLEAN
  /\ IsFiniteSet(Items)

VARIABLES
  nxtId, ipc_id,     (* the id counter; each item's id                     *)
  managed,           (* items whose manager is assigned                    *)
  objects, taskList, (* the manager's two lists                            *)
  mtx_processEvent,  (* the owner of the mutex                             *)
  thread_run,        (* the manager's own flag                             *)
  wpc, base,         (* the manager's worker; its reverse_iterator's base  *)
  kpc,               (* the kicker                                         *)
  pc, arg, tmp,      (* the clients: where, the item to add, the id read   *)
  mpc, op, todo,     (* Main: where, the call it is in, the items to visit *)
  joined,            (* Main has joined the manager's worker               *)
  run,               (* items: thread_run                                  *)
  cur,               (* items whose handle's thread is alive               *)
  old,               (* items: live workers whose handle was overwritten   *)
  completed          (* tasks: completed                                   *)

idVars == <<nxtId, ipc_id, managed>>
listVars == <<objects, taskList>>
clientVars == <<pc, arg, tmp>>
workerVars == <<wpc, base>>
mainVars == <<mpc, op, todo, joined>>
itemVars == <<run, cur, old, completed>>
vars == <<idVars, listVars, mtx_processEvent, thread_run, workerVars, kpc,
          clientVars, mainVars, itemVars>>

(* A client in one of these steps of addObject or addTask holds the mutex. *)
AddSteps == {"fetch", "store", "start", "notify"}
ClientSteps == {"idle", "lock", "lockNull"} \cup AddSteps
WorkerSteps == {"unborn", "test", "wait", "waiting", "reacquire", "sweep",
                "exited"}
MainSteps == {"idle", "crashed", "setup", "spawn", "startItem", "stopItem",
              "joinItem", "kick", "kickAgain", "join"}
Ops == {"none", "startAll", "stopAll", "delete", "stop"}

Init ==
  /\ nxtId = 0 /\ ipc_id = [i \in Items |-> 0] /\ managed = {}
  /\ objects = <<>> /\ taskList = <<>>
  /\ mtx_processEvent = None
  /\ thread_run = FALSE
  /\ wpc = "unborn" /\ base = 1
  /\ kpc = "unborn"
  /\ pc = [c \in Clients |-> "idle"]
  /\ arg = [c \in Clients |-> None]
  /\ tmp = [c \in Clients |-> 0]
  /\ mpc = "idle" /\ op = "none" /\ todo = <<>> /\ joined = FALSE
  /\ run = [i \in Items |-> FALSE]
  /\ cur = {} /\ old = [i \in Items |-> 0]
  /\ completed = {}

Working(i) == i \in cur \/ old[i] > 0
Walking == mpc \in {"startItem", "stopItem", "joinItem"}
Adding == \E c \in Clients : pc[c] # "idle" /\ arg[c] \in Objects
-----------------------------------------------------------------------------
(* std::mutex mtx_processEvent: lock() waits until it is free.             *)
NoMutex == TRUE                                                 \* mutant
MutexFree == mtx_processEvent = None

KeepMutex == UNCHANGED mtx_processEvent                         \* mutant
ReleaseMutex == mtx_processEvent' = None

(* ++nxtId, a uint32_t                                                     *)
NextId(n) == (n + 1) % IdModulus

(* The item's doStart: nothing if it runs, else the flag, a new thread and *)
(* a handle that forgets the old one.                                      *)
StartItemNoFlag(i) ==                                           \* mutant
  /\ cur' = cur \cup {i}
  /\ UNCHANGED <<run, old>>
StartItem(i) ==
  IF run[i] THEN UNCHANGED <<run, cur, old>>
  ELSE /\ run' = [run EXCEPT ![i] = TRUE]
       /\ cur' = cur \cup {i}
       /\ old' = IF i \in cur THEN [old EXCEPT ![i] = @ + 1] ELSE old

(* notifier.notify_all(): only the manager's worker ever waits.            *)
NotifyNobody == UNCHANGED wpc                                   \* mutant
NotifyAll == wpc' = IF wpc = "waiting" THEN "reacquire" ELSE wpc

(* An iteration of a task sets completed, or clears the task's thread_run. *)
TaskCompletes(t) ==
  /\ Working(t) /\ t \notin completed
  /\ completed' = completed \cup {t}
  /\ UNCHANGED <<idVars, listVars, mtx_processEvent, thread_run, workerVars,
                 kpc, clientVars, mainVars, run, cur, old>>

TaskEnds(t) ==
  /\ Working(t) /\ run[t]
  /\ old[t] < MaxOld                                   \* the bound MaxOld
  /\ run' = [run EXCEPT ![t] = FALSE]
  /\ UNCHANGED <<idVars, listVars, mtx_processEvent, thread_run, workerVars,
                 kpc, clientVars, mainVars, cur, old, completed>>

(* One of the item's threads is gone.                                      *)
ThreadGone(i) ==
  /\ \/ i \in cur /\ cur' = cur \ {i} /\ UNCHANGED old
     \/ old[i] > 0 /\ old' = [old EXCEPT ![i] = @ - 1] /\ UNCHANGED cur
  /\ UNCHANGED <<idVars, listVars, mtx_processEvent, thread_run, workerVars,
                 kpc, clientVars, mainVars, run, completed>>

WorkerExits(i) == ~run[i] /\ ThreadGone(i)

(* The catch-all of callWorker: the thread is gone and thread_run stays.   *)
WorkerThrows(i) == run[i] /\ ThreadGone(i)
-----------------------------------------------------------------------------
(* addObject and addTask, by a client.  Each item is added once.           *)

CallAdd(c, i) ==
  /\ pc[c] = "idle"
  /\ i \notin managed /\ \A d \in Clients : arg[d] # i
  /\ i \in Objects => ~Walking
  /\ pc' = [pc EXCEPT ![c] = "lock"]
  /\ arg' = [arg EXCEPT ![c] = i]
  /\ UNCHANGED <<idVars, listVars, mtx_processEvent, thread_run, workerVars,
                 kpc, tmp, mainVars, itemVars>>

CallAddNull(c) ==
  /\ pc[c] = "idle"
  /\ pc' = [pc EXCEPT ![c] = "lockNull"]
  /\ UNCHANGED <<idVars, listVars, mtx_processEvent, thread_run, workerVars,
                 kpc, arg, tmp, mainVars, itemVars>>

AddLock(c) ==
  /\ pc[c] = "lock"
  /\ MutexFree
  /\ mtx_processEvent' = c
  /\ pc' = [pc EXCEPT ![c] = "fetch"]
  /\ UNCHANGED <<idVars, listVars, thread_run, workerVars, kpc, arg, tmp,
                 mainVars, itemVars>>

(* A null item: the lock is taken and given back.                          *)
AddNull(c) ==
  /\ pc[c] = "lockNull"
  /\ MutexFree
  /\ pc' = [pc EXCEPT ![c] = "idle"]
  /\ UNCHANGED <<idVars, listVars, mtx_processEvent, thread_run, workerVars,
                 kpc, arg, tmp, mainVars, itemVars>>

(* getUniqueIpcId(): a read and a write of nxtId.                          *)
AddFetch(c) ==
  /\ pc[c] = "fetch"
  /\ tmp' = [tmp EXCEPT ![c] = nxtId]
  /\ pc' = [pc EXCEPT ![c] = "store"]
  /\ UNCHANGED <<idVars, listVars, mtx_processEvent, thread_run, workerVars,
                 kpc, arg, mainVars, itemVars>>

AddStore(c) ==
  /\ pc[c] = "store"
  /\ nxtId' = NextId(tmp[c])
  /\ ipc_id' = [ipc_id EXCEPT ![arg[c]] = nxtId']
  /\ managed' = managed \cup {arg[c]}
  /\ \/ /\ arg[c] \in Objects
        /\ objects' = Append(objects, arg[c]) /\ UNCHANGED taskList
     \/ /\ arg[c] \in Tasks
        /\ taskList' = Append(taskList, arg[c]) /\ UNCHANGED objects
  /\ pc' = [pc EXCEPT ![c] = "start"]
  /\ UNCHANGED <<mtx_processEvent, thread_run, workerVars, kpc, arg, tmp,
                 mainVars, itemVars>>

AddStart(c) ==
  /\ pc[c] = "start"
  /\ StartItem(arg[c])
  /\ pc' = [pc EXCEPT ![c] = "notify"]
  /\ UNCHANGED <<idVars, listVars, mtx_processEvent, thread_run, workerVars,
                 kpc, arg, tmp, mainVars, completed>>

(* notify_all, and the unique_lock is released on return.                  *)
AddReturn(c) ==
  /\ pc[c] = "notify"
  /\ NotifyAll
  /\ ReleaseMutex
  /\ pc' = [pc EXCEPT ![c] = "idle"]
  /\ arg' = [arg EXCEPT ![c] = None]
  /\ tmp' = [tmp EXCEPT ![c] = 0]
  /\ UNCHANGED <<idVars, listVars, thread_run, base, kpc, mainVars, itemVars>>

(* ipc_task::execute                                                       *)
Execute(c, t) ==
  /\ pc[c] = "idle" /\ t \in managed
  /\ StartItem(t)
  /\ UNCHANGED <<idVars, listVars, mtx_processEvent, thread_run, workerVars,
                 kpc, clientVars, mainVars, completed>>

Client(c) ==
  \/ \E i \in Items : CallAdd(c, i)
  \/ CallAddNull(c)
  \/ AddLock(c)
  \/ AddNull(c)
  \/ AddFetch(c)
  \/ AddStore(c)
  \/ AddStart(c)
  \/ AddReturn(c)
  \/ \E t \in Tasks : Execute(c, t)
-----------------------------------------------------------------------------
(* The manager's worker: callWorker around workerThread_iterate.           *)

(* When the loop ends nobody unlocks: `lock' lives on the heap.            *)
ExitUnlocking ==                                                \* mutant
  /\ wpc = "test"
  /\ wpc' = IF thread_run THEN "wait" ELSE "exited"
  /\ mtx_processEvent' = IF thread_run THEN Worker ELSE None
  /\ UNCHANGED <<idVars, listVars, thread_run, base, kpc, clientVars, mainVars,
                 itemVars>>
WTest ==
  /\ wpc = "test"
  /\ wpc' = IF thread_run THEN "wait" ELSE "exited"
  /\ UNCHANGED <<idVars, listVars, mtx_processEvent, thread_run, base, kpc,
                 clientVars, mainVars, itemVars>>

WWait ==
  /\ wpc = "wait"
  /\ wpc' = "waiting"
  /\ ReleaseMutex
  /\ UNCHANGED <<idVars, listVars, thread_run, base, kpc, clientVars,
                 mainVars, itemVars>>

(* wait() has no predicate and may wake without a notification.            *)
WWakeSpurious ==
  /\ wpc = "waiting"
  /\ wpc' = "reacquire"
  /\ UNCHANGED <<idVars, listVars, mtx_processEvent, thread_run, base, kpc,
                 clientVars, mainVars, itemVars>>

WReacquire ==
  /\ wpc = "reacquire"
  /\ MutexFree
  /\ mtx_processEvent' = Worker
  /\ wpc' = "sweep"
  /\ base' = Len(taskList) + 1
  /\ UNCHANGED <<idVars, listVars, thread_run, kpc, clientVars, mainVars,
                 itemVars>>

(* The sweep visits *i, the element before `base', and takes it out of the *)
(* list (by value, every occurrence) when it has completed.                *)
Visited == taskList[base - 1]

HasNotCompleted(t) == t \notin completed                        \* mutant
HasCompleted(t) == t \in completed

WithoutVisited == Without(taskList, Visited)

(* After the removal base stays on the successor, so ++i passes over the   *)
(* predecessor; past the head it wraps around to the tail of the list.     *)
NoWrap(lst) == base - 2                                         \* mutant
StaysPut(lst) == base                                           \* mutant
BaseAfterReap(lst) == IF base = 2 THEN Len(lst) + 1 ELSE base - 2

SweepReap ==
  /\ wpc = "sweep" /\ base > 1
  /\ HasCompleted(Visited)
  /\ taskList' = WithoutVisited
  /\ base' = BaseAfterReap(taskList')
  /\ UNCHANGED <<idVars, objects, mtx_processEvent, thread_run, wpc, kpc,
                 clientVars, mainVars, itemVars>>

SweepStart ==
  /\ wpc = "sweep" /\ base > 1
  /\ ~HasCompleted(Visited)
  /\ StartItem(Visited)
  /\ base' = base - 1
  /\ UNCHANGED <<idVars, listVars, mtx_processEvent, thread_run, wpc, kpc,
                 clientVars, mainVars, completed>>

SweepEnd ==
  /\ wpc = "sweep" /\ base = 1
  /\ wpc' = "test"
  /\ UNCHANGED <<idVars, listVars, mtx_processEvent, thread_run, base, kpc,
                 clientVars, mainVars, itemVars>>

MgrWorker ==
  \/ WTest
  \/ WWait
  \/ WWakeSpurious
  \/ WReacquire
  \/ SweepReap
  \/ SweepStart
  \/ SweepEnd

(* periodiclyKickWorkerThread: once a second, as long as thread_run.       *)
Kick ==
  /\ kpc = "loop"
  /\ \/ thread_run /\ NotifyAll /\ UNCHANGED kpc
     \/ ~thread_run /\ kpc' = "exited" /\ UNCHANGED wpc
  /\ UNCHANGED <<idVars, listVars, mtx_processEvent, thread_run, base,
                 clientVars, mainVars, itemVars>>
-----------------------------------------------------------------------------
(* Main: doStart, startAll, stopAll, deleteObject and doStop of an object. *)

MainGoto(from, to) == mpc = from /\ mpc' = to

(* The manager's doStart: nothing when it runs, else workerThread_setup    *)
(* locks mtx_processEvent for the worker and starts the kicker.            *)
StartManager ==
  IF thread_run THEN mpc' = "idle" /\ UNCHANGED thread_run
  ELSE mpc' = "setup" /\ thread_run' = TRUE

CallDoStart ==
  /\ mpc = "idle" /\ ~thread_run
  /\ StartManager
  /\ UNCHANGED <<idVars, listVars, mtx_processEvent, workerVars, kpc,
                 clientVars, op, todo, joined, itemVars>>

SetupLock ==
  /\ MainGoto("setup", "spawn")
  /\ MutexFree
  /\ mtx_processEvent' = Worker
  /\ kpc' = "loop"
  /\ UNCHANGED <<idVars, listVars, thread_run, workerVars, clientVars, op,
                 todo, joined, itemVars>>

SetupSpawn ==
  /\ MainGoto("spawn", "idle")
  /\ wpc' = "test"
  /\ joined' = FALSE
  /\ UNCHANGED <<idVars, listVars, mtx_processEvent, thread_run, base, kpc,
                 clientVars, op, todo, itemVars>>

(* A call that walks `objects': the items it visits, in list order.        *)
Walk(call, at, items) ==
  /\ MainGoto("idle", at)
  /\ ~Adding
  /\ op' = call
  /\ todo' = items
  /\ UNCHANGED <<idVars, listVars, mtx_processEvent, thread_run, workerVars,
                 kpc, clientVars, joined, itemVars>>

CallStartAll == Walk("startAll", "startItem", objects)

CallStopAll == Walk("stopAll", "stopItem", objects)

CallDelete(id) ==
  /\ id > 0
  /\ Walk("delete", "stopItem",
          Those(objects, {o \in Objects : ipc_id[o] = id}))

CallStop(o) ==
  /\ o \in ToSet(objects)
  /\ Walk("stop", "stopItem", <<o>>)

StartNext ==
  /\ MainGoto("startItem", "startItem")
  /\ todo # <<>>
  /\ StartItem(Head(todo))
  /\ todo' = Tail(todo)
  /\ UNCHANGED <<idVars, listVars, mtx_processEvent, thread_run, workerVars,
                 kpc, clientVars, op, joined, completed>>

StartAllEnd ==
  /\ mpc = "startItem" /\ todo = <<>>
  /\ StartManager
  /\ op' = "none"
  /\ UNCHANGED <<idVars, listVars, mtx_processEvent, workerVars, kpc,
                 clientVars, todo, joined, itemVars>>

(* joinable() and join() on the item's current handle.                     *)
ThreadEnded(i) == i \notin cur

(* doStop of the next item: clear its flag, then join its thread.          *)
StopNext ==
  /\ MainGoto("stopItem", "joinItem")
  /\ todo # <<>>
  /\ run' = [run EXCEPT ![Head(todo)] = FALSE]
  /\ UNCHANGED <<idVars, listVars, mtx_processEvent, thread_run, workerVars,
                 kpc, clientVars, op, todo, joined, cur, old, completed>>

JoinNext ==
  /\ MainGoto("joinItem", "stopItem")
  /\ ThreadEnded(Head(todo))
  /\ objects' = IF op = "delete" THEN Without(objects, Head(todo)) ELSE objects
  /\ todo' = Tail(todo)
  /\ UNCHANGED <<idVars, taskList, mtx_processEvent, thread_run, workerVars,
                 kpc, clientVars, op, joined, itemVars>>

StopEnd ==
  /\ mpc = "stopItem" /\ todo = <<>>
  /\ \/ /\ op = "stopAll"
        /\ thread_run' = FALSE /\ mpc' = "kick"
     \/ /\ op # "stopAll"
        /\ UNCHANGED thread_run /\ mpc' = "idle"
  /\ op' = "none"
  /\ UNCHANGED <<idVars, listVars, mtx_processEvent, workerVars, kpc,
                 clientVars, todo, joined, itemVars>>

(* reschedule(1); notifier.notify_all(); twice.                            *)
StopKick ==
  /\ \/ MainGoto("kick", "kickAgain")
     \/ MainGoto("kickAgain", "join")
  /\ Prompt => wpc # "wait"
  /\ NotifyAll
  /\ UNCHANGED <<idVars, listVars, mtx_processEvent, thread_run, base, kpc,
                 clientVars, op, todo, joined, itemVars>>

(* The manager's own doStop; its handle is null if it never started.       *)
StopJoin ==
  /\ \/ MainGoto("join", "crashed") /\ wpc = "unborn" /\ UNCHANGED joined
     \/ MainGoto("join", "idle") /\ wpc = "exited" /\ joined' = TRUE
  /\ UNCHANGED <<idVars, listVars, mtx_processEvent, thread_run, workerVars,
                 kpc, clientVars, op, todo, itemVars>>

MainCalls ==
  \/ CallDoStart
  \/ CallStartAll
  \/ CallStopAll
  \/ \E i \in managed : CallDelete(ipc_id[i])
  \/ \E o \in Objects : CallStop(o)

MainReturns ==
  \/ SetupLock
  \/ SetupSpawn
  \/ StartNext
  \/ StartAllEnd
  \/ StopNext
  \/ JoinNext
  \/ StopEnd
  \/ StopKick
  \/ StopJoin
-----------------------------------------------------------------------------
Next ==
  \/ \E c \in Clients : Client(c)
  \/ MgrWorker
  \/ Kick
  \/ MainCalls
  \/ MainReturns
  \/ \E t \in Tasks : TaskCompletes(t) \/ TaskEnds(t)
  \/ \E i \in Items : WorkerExits(i) \/ WorkerThrows(i)

Spec == Init /\ [][Next]_vars

(* The scheduler runs what can run; an iteration of a worker whose flag is *)
(* cleared ends.  A mutex that is released again and again is got in the   *)
(* end: its holders keep it for one call or one sweep, and the worker then *)
(* waits for up to a second.  Nothing is assumed of when calls are made,   *)
(* nor of tasks completing, ending or throwing.                            *)
Fairness ==
  /\ \A c \in Clients :
       /\ SF_vars(AddLock(c))
       /\ WF_vars(AddFetch(c) \/ AddStore(c) \/ AddStart(c) \/ AddReturn(c))
  /\ SF_vars(WReacquire)
  /\ WF_vars(WTest \/ WWait \/ SweepReap \/ SweepStart \/ SweepEnd)
  /\ WF_vars(Kick)
  /\ SF_vars(SetupLock)
  /\ WF_vars(SetupSpawn \/ StartNext \/ StartAllEnd \/ StopNext \/ JoinNext
             \/ StopEnd \/ StopKick \/ StopJoin)
  /\ \A i \in Items : WF_vars(WorkerExits(i))

FairSpec == Spec /\ Fairness
-----------------------------------------------------------------------------
TypeOK ==
  /\ nxtId \in 0..IdModulus - 1
  /\ ipc_id \in [Items -> 0..IdModulus - 1]
  /\ managed \subseteq Items
  /\ objects \in Seq(Objects) /\ taskList \in Seq(Tasks)
  /\ mtx_processEvent \in Owners \cup {None}
  /\ thread_run \in BOOLEAN
  /\ wpc \in WorkerSteps /\ base \in Nat \ {0}
  /\ kpc \in {"unborn", "loop", "exited"}
  /\ pc \in [Clients -> ClientSteps]
  /\ arg \in [Clients -> Items \cup {None}]
  /\ tmp \in [Clients -> 0..IdModulus - 1]
  /\ mpc \in MainSteps /\ op \in Ops
  /\ todo \in Seq(Objects) /\ joined \in BOOLEAN
  /\ run \in [Items -> BOOLEAN]
  /\ cur \subseteq Items
  /\ old \in [Items -> Nat]
  /\ completed \subseteq Tasks

(* The ids addObject and addTask give out are told apart as long as there  *)
(* are fewer of them than uint32_t values, whichever threads add; none is  *)
(* the 0 that reports a failure.                                           *)
UniqueIds ==
  Cardinality(managed) < IdModulus =>
    /\ \A i \in managed : ipc_id[i] # 0
    /\ \A i, j \in managed : ipc_id[i] = ipc_id[j] => i = j

(* Whoever changes the lists is alone with them: a client between its lock *)
(* and its return, or the worker from waking to its next wait.             *)
AloneWithLists ==
  /\ \A c, d \in Clients : pc[c] \in AddSteps /\ pc[d] \in AddSteps => c = d
  /\ wpc \in {"sweep", "test", "wait"} =>
       \A c \in Clients : pc[c] \notin AddSteps

(* The sweep's iterator stays inside the list, through removals, the       *)
(* skipped predecessor and the wrap-around at the head.                    *)
IteratorInList == wpc = "sweep" => base \in 1..Len(taskList) + 1

(* An object that left the list is freed: none of its threads is left to   *)
(* run in it and its flag does not say it runs.                            *)
NoUseAfterDelete ==
  \A o \in Objects \cap managed :
    o \notin ToSet(objects) => ~Working(o) /\ ~run[o]

(* Removing an item while others walk the list or run in it leaves nothing *)
(* dangling: neither the iterator of the sweep, which is moved by hand     *)
(* after each erase, nor a thread of the item that is freed.               *)
NothingDangles == IteratorInList /\ NoUseAfterDelete

(* A stopped manager keeps mtx_processEvent, which its worker took with it *)
(* when it left the loop: every later addObject, addTask and doStart waits *)
(* for ever, and the lists never change again by a sweep or an add.        *)
StoppedForGood ==
  wpc = "exited" =>
    /\ mtx_processEvent = Worker
    /\ \A c \in Clients : pc[c] \in {"idle", "lock", "lockNull"}

(* The manager is up: started, and not asked to stop.                      *)
Up == thread_run /\ wpc \notin {"unborn", "exited"}

(* The kicker sees to it that no completed task stays in the list of a     *)
(* manager that is up, though the sweep skips tasks and wakeups get lost.  *)
CompletedIsReaped ==
  \A t \in Tasks :
    t \in completed /\ t \in ToSet(taskList) /\ Up
      ~> t \notin ToSet(taskList) \/ ~Up

(* Nor does a task that ended without completing stay ended.               *)
EndedIsRestarted ==
  \A t \in Tasks :
    t \in ToSet(taskList) /\ ~run[t] /\ Up
      ~> run[t] \/ t \in completed \/ ~Up

(* A sweep ends, though a removal at the head sends it round again.        *)
SweepEnds == wpc = "sweep" ~> wpc # "sweep"

(* The worker gets through its list, and gets to what has completed: the   *)
(* iterator that a removal sends back keeps it neither in one sweep for    *)
(* ever nor away from a task that it skipped the last time.                *)
SweepsReap == CompletedIsReaped /\ SweepEnds

(* addObject and addTask return unless the manager has been stopped.       *)
AddReturns ==
  \A c \in Clients : pc[c] = "lock" ~> pc[c] = "idle" \/ wpc = "exited"

(* stopAll of a manager that is up returns: one of the two notifications   *)
(* or the kicker's last one finds the worker waiting.                      *)
StopAllReturns == op = "stopAll" /\ Up ~> mpc = "idle"

(* Nobody who calls a running manager waits for ever: clients and the      *)
(* worker hand mtx_processEvent to each other, and whoever stops the       *)
(* manager is not left joining a worker that sleeps.                       *)
CallsReturn == AddReturns /\ StopAllReturns

(* The manager implements Registry while ids do not wrap around.           *)
Reg == INSTANCE Registry WITH
  Entries <- Items,
  Ids <- 1..IdModulus - 1,
  registered <- ToSet(objects) \cup ToSet(taskList),
  departed <- managed \ (ToSet(objects) \cup ToSet(taskList)),
  id <- ipc_id,
  mayLeave <- completed \cup {o \in Objects : ~Working(o) /\ ~run[o]}

ImplementsRegistry == Reg!RegistrySpec
=============================================================================
