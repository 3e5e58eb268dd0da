-------------------------- MODULE IpcManagerProofs --------------------------
(***************************************************************************)
(* IpcManager for any clients, objects, tasks and width of the ids.  IInv  *)
(* speaks of the mutex and the ids: whoever changes the lists is alone     *)
(* with them, and ids are unique until they wrap around.  LInv builds on   *)
(* it and speaks of the lists and of the objects' threads: nothing is left *)
(* dangling, stopAll leaves all at rest, and the manager is a Registry.    *)
(***************************************************************************)
EXTENDS IpcManager, ListProofs

(* The types the two arguments use.                                        *)
ClientTypes ==
  /\ nxtId \in Nat
  /\ ipc_id \in [Items -> Nat]
  /\ managed \subseteq Items
  /\ pc \in [Clients -> ClientSteps]
  /\ arg \in [Clients -> Items \cup {None}]
  /\ tmp \in [Clients -> Nat]
  /\ thread_run \in BOOLEAN
  /\ wpc \in WorkerSteps
  /\ mpc \in MainSteps

(* The worker's steps between waking and its next wait, and its end: the   *)
(* mutex is its own, and on the first round it is so from before it exists.*)
WorkerOwns == wpc \in {"test", "wait", "sweep", "exited"} \/ mpc = "spawn"

MutexInv ==
  /\ \A c \in Clients : pc[c] \in AddSteps <=> mtx_processEvent = c
  /\ WorkerOwns <=> mtx_processEvent = Worker
  /\ mpc = "spawn" => wpc = "unborn"
  /\ mpc \in {"setup", "spawn"} => thread_run
  /\ mpc = "setup" => wpc \in {"unborn", "exited"}
  /\ ~thread_run /\ mpc \notin {"kick", "kickAgain", "join"} =>
       wpc \in {"unborn", "exited"}

(* A client that is adding an item has it to itself until the id is given. *)
ArgInv ==
  \A c \in Clients :
    /\ pc[c] \in {"lock", "fetch", "store"} =>
         /\ arg[c] \in Items \ managed
         /\ \A d \in Clients : d # c => arg[d] # arg[c]
    /\ pc[c] \in {"start", "notify"} => arg[c] \in managed
    /\ pc[c] \in {"idle", "lockNull"} => arg[c] = None

IdInv ==
  /\ \A c \in Clients : pc[c] = "store" => tmp[c] = nxtId
  /\ Cardinality(managed) < IdModulus =>
       /\ nxtId = Cardinality(managed)
       /\ \A i \in managed : ipc_id[i] \in 1..nxtId
       /\ \A i, j \in managed : ipc_id[i] = ipc_id[j] => i = j

IInv == ClientTypes /\ MutexInv /\ ArgInv /\ IdInv
-----------------------------------------------------------------------------
LEMMA SmallMod ==
  ASSUME NEW m \in Nat \ {0}, NEW n \in 0..m - 1
  PROVE  n % m = n
OBVIOUS

LEMMA ModRange ==
  ASSUME NEW m \in Nat \ {0}, NEW n \in Nat
  PROVE  n % m \in 0..m - 1
OBVIOUS

LEMMA ClientStep ==
  ASSUME IInv, NEW c \in Clients, Client(c)
  PROVE  IInv'
<1> USE ManagerAssumption DEF IInv, ClientTypes, ClientSteps, AddSteps
<1>1. ASSUME NEW i \in Items, CallAdd(c, i) PROVE IInv'
  BY <1>1 DEF CallAdd, MutexInv, WorkerOwns, ArgInv, IdInv, idVars,
       workerVars, mainVars
<1>2. CASE CallAddNull(c)
  BY <1>2 DEF CallAddNull, MutexInv, WorkerOwns, ArgInv, IdInv, idVars,
       workerVars, mainVars
<1>3. CASE AddLock(c)
  BY <1>3 DEF AddLock, MutexFree, MutexInv, WorkerOwns, ArgInv, IdInv, idVars,
       workerVars, mainVars, Owners
<1>4. CASE AddNull(c)
  BY <1>4 DEF AddNull, MutexInv, WorkerOwns, ArgInv, IdInv, idVars,
       workerVars, mainVars
<1>5. CASE AddFetch(c)
  BY <1>5 DEF AddFetch, MutexInv, WorkerOwns, ArgInv, IdInv, idVars,
       workerVars, mainVars
<1>6. CASE AddStore(c)
  <2>1. /\ arg[c] \in Items \ managed
        /\ tmp[c] = nxtId
        /\ nxtId' = (nxtId + 1) % IdModulus
        /\ ipc_id' = [ipc_id EXCEPT ![arg[c]] = nxtId']
        /\ managed' = managed \cup {arg[c]}
        /\ pc' = [pc EXCEPT ![c] = "start"]
        /\ UNCHANGED <<arg, tmp, mtx_processEvent, thread_run, wpc, mpc>>
    BY <1>6 DEF AddStore, NextId, ArgInv, IdInv, workerVars, mainVars
  <2>2. nxtId' \in Nat
    BY <2>1
  <2>3. ClientTypes'
    BY <2>1, <2>2
  <2>4. MutexInv'
    BY <2>1, <1>6 DEF AddStore, MutexInv, WorkerOwns
  <2>5. ArgInv'
    BY <2>1 DEF ArgInv
  <2>6. \A d \in Clients : pc'[d] = "store" => tmp'[d] = nxtId'
    BY <1>6, <2>1 DEF AddStore, MutexInv
  <2>7. /\ IsFiniteSet(managed)
        /\ Cardinality(managed) \in Nat
        /\ Cardinality(managed') = Cardinality(managed) + 1
    <3>1. IsFiniteSet(managed)
      BY FS_Subset
    <3>2. QED
      BY <2>1, <3>1, FS_AddElement, FS_CardinalityType
  <2>8. ASSUME Cardinality(managed') < IdModulus
        PROVE  /\ nxtId' = Cardinality(managed')
               /\ \A i \in managed' : ipc_id'[i] \in 1..nxtId'
               /\ \A i, j \in managed' : ipc_id'[i] = ipc_id'[j] => i = j
    <3>1. nxtId = Cardinality(managed)
      BY <2>7, <2>8 DEF IdInv
    <3>2. nxtId' = nxtId + 1
      BY <2>1, <2>7, <2>8, <3>1, SmallMod
    <3>3. /\ \A i \in managed : ipc_id'[i] = ipc_id[i] /\ ipc_id[i] \in 1..nxtId
          /\ ipc_id'[arg[c]] = nxtId + 1
      BY <2>1, <2>7, <2>8, <3>2 DEF IdInv
    <3>4. \A i, j \in managed : ipc_id[i] = ipc_id[j] => i = j
      BY <2>7, <2>8 DEF IdInv
    <3>5. QED
      BY <2>1, <2>7, <3>1, <3>2, <3>3, <3>4
  <2>9. QED
    BY <2>3, <2>4, <2>5, <2>6, <2>8 DEF IdInv
<1>7. CASE AddStart(c)
  BY <1>7 DEF AddStart, MutexInv, WorkerOwns, ArgInv, IdInv, idVars,
       workerVars, mainVars
<1>8. CASE AddReturn(c)
  BY <1>8 DEF AddReturn, NotifyAll, ReleaseMutex, MutexInv, WorkerOwns,
       ArgInv, IdInv, idVars, mainVars, Owners, WorkerSteps
<1>9. ASSUME NEW t \in Tasks, Execute(c, t) PROVE IInv'
  BY <1>9 DEF Execute, MutexInv, WorkerOwns, ArgInv, IdInv, idVars,
       clientVars, workerVars, mainVars
<1>10. QED
  BY <1>1, <1>2, <1>3, <1>4, <1>5, <1>6, <1>7, <1>8, <1>9 DEF Client

(* The worker and the kicker change neither ids nor clients.               *)
LEMMA WorkerStep ==
  ASSUME IInv, MgrWorker \/ Kick
  PROVE  IInv'
<1> USE ManagerAssumption DEF IInv, ClientTypes, WorkerSteps, Owners
<1>1. UNCHANGED <<nxtId, ipc_id, managed, pc, arg, tmp, thread_run, mpc>>
  BY DEF MgrWorker, WTest, WWait, WWakeSpurious, WReacquire, SweepReap,
       SweepStart, SweepEnd, Kick, idVars, clientVars, mainVars
<1>2. ArgInv' /\ IdInv'
  BY <1>1 DEF ArgInv, IdInv
<1>3. wpc' \in WorkerSteps
  BY DEF MgrWorker, WTest, WWait, WWakeSpurious, WReacquire, SweepReap,
       SweepStart, SweepEnd, Kick, NotifyAll
<1>4. MutexInv'
  <2>1. CASE WTest
    BY <1>1, <2>1 DEF WTest, MutexInv, WorkerOwns
  <2>2. CASE WWait
    BY <1>1, <2>2 DEF WWait, ReleaseMutex, MutexInv, WorkerOwns, AddSteps
  <2>3. CASE WWakeSpurious
    BY <1>1, <2>3 DEF WWakeSpurious, MutexInv, WorkerOwns
  <2>4. CASE WReacquire
    BY <1>1, <2>4 DEF WReacquire, MutexFree, MutexInv, WorkerOwns
  <2>5. CASE SweepReap \/ SweepStart
    BY <1>1, <2>5 DEF SweepReap, SweepStart, MutexInv, WorkerOwns
  <2>6. CASE SweepEnd
    BY <1>1, <2>6 DEF SweepEnd, MutexInv, WorkerOwns
  <2>7. CASE Kick
    BY <1>1, <2>7 DEF Kick, NotifyAll, MutexInv, WorkerOwns
  <2>8. QED
    BY <2>1, <2>2, <2>3, <2>4, <2>5, <2>6, <2>7 DEF MgrWorker
<1>5. QED
  BY <1>1, <1>2, <1>3, <1>4

(* Main changes neither ids nor clients; it takes the mutex for a worker   *)
(* that does not exist yet.                                                *)
LEMMA MainStep ==
  ASSUME IInv, MainCalls \/ MainReturns
  PROVE  IInv'
<1> USE ManagerAssumption DEF IInv, ClientTypes, MainSteps, WorkerSteps, Owners
<1>1. UNCHANGED <<nxtId, ipc_id, managed, pc, arg, tmp>>
  BY DEF MainCalls, MainReturns, CallDoStart, CallStartAll, CallStopAll,
       CallDelete, CallStop, Walk, SetupLock, SetupSpawn, StartNext,
       StartAllEnd, StopNext, JoinNext, StopEnd, StopKick, StopJoin, idVars,
       clientVars
<1>2. ArgInv' /\ IdInv'
  BY <1>1 DEF ArgInv, IdInv
<1>3. ClientTypes' /\ MutexInv'
  <2>1. CASE CallDoStart
    BY <1>1, <2>1 DEF CallDoStart, StartManager, workerVars, MutexInv,
         WorkerOwns
  <2>2. CASE CallStartAll \/ CallStopAll \/ (\E i \in managed : CallDelete(ipc_id[i]))
             \/ (\E o \in Objects : CallStop(o))
    <3>1. /\ mpc = "idle" /\ mpc' \in {"startItem", "stopItem"}
          /\ UNCHANGED <<mtx_processEvent, thread_run, wpc>>
      BY <2>2 DEF CallStartAll, CallStopAll, CallDelete, CallStop, Walk,
           MainGoto, workerVars
    <3>2. QED
      BY <1>1, <3>1 DEF MutexInv, WorkerOwns
  <2>3. CASE SetupLock
    BY <1>1, <2>3 DEF SetupLock, MainGoto, MutexFree, workerVars, MutexInv,
         WorkerOwns
  <2>4. CASE SetupSpawn
    BY <1>1, <2>4 DEF SetupSpawn, MainGoto, MutexInv, WorkerOwns
  <2>5. CASE StartNext \/ StopNext \/ JoinNext
    BY <1>1, <2>5 DEF StartNext, StopNext, JoinNext, MainGoto, workerVars,
         MutexInv, WorkerOwns
  <2>6. CASE StartAllEnd
    BY <1>1, <2>6 DEF StartAllEnd, StartManager, workerVars, MutexInv,
         WorkerOwns
  <2>7. CASE StopEnd
    BY <1>1, <2>7 DEF StopEnd, workerVars, MutexInv, WorkerOwns
  <2>8. CASE StopKick
    BY <1>1, <2>8 DEF StopKick, MainGoto, NotifyAll, MutexInv, WorkerOwns
  <2>9. CASE StopJoin
    BY <1>1, <2>9 DEF StopJoin, MainGoto, workerVars, MutexInv, WorkerOwns
  <2>10. QED
    BY <2>1, <2>2, <2>3, <2>4, <2>5, <2>6, <2>7, <2>8, <2>9
      DEF MainCalls, MainReturns
<1>4. QED
  BY <1>2, <1>3

(* The items' own threads touch nothing the invariant speaks of.           *)
LEMMA ItemStep ==
  ASSUME IInv,
         \/ \E t \in Tasks : TaskCompletes(t) \/ TaskEnds(t)
         \/ \E i \in Items : WorkerExits(i) \/ WorkerThrows(i)
         \/ UNCHANGED vars
  PROVE  IInv'
<1>1. UNCHANGED <<nxtId, ipc_id, managed, pc, arg, tmp, mtx_processEvent,
                  thread_run, wpc, mpc>>
  BY DEF TaskCompletes, TaskEnds, WorkerExits, WorkerThrows, ThreadGone, vars,
       idVars, clientVars, workerVars, mainVars
<1>2. QED
  BY <1>1 DEF IInv, ClientTypes, MutexInv, WorkerOwns, ArgInv, IdInv

LEMMA Invariance == Spec => []IInv
<1>1. Init => IInv
  <2> SUFFICES ASSUME Init PROVE IInv
    OBVIOUS
  <2>1. Cardinality(managed) = 0
    BY FS_EmptySet DEF Init
  <2>2. QED
    BY <2>1, ManagerAssumption DEF Init, IInv, ClientTypes, ClientSteps,
         WorkerSteps, MainSteps, MutexInv, WorkerOwns, ArgInv, IdInv, AddSteps,
         Owners
<1>2. IInv /\ [Next]_vars => IInv'
  BY ClientStep, WorkerStep, MainStep, ItemStep DEF Next
<1>3. QED
  BY <1>1, <1>2, PTL DEF Spec

(* Between taking mtx_processEvent and giving it back a client or the      *)
(* worker is alone, however many clients add: in particular the worker     *)
(* that Main locked the mutex for.                                         *)
THEOREM ListsAreExclusive == Spec => []AloneWithLists
<1>1. IInv => AloneWithLists
  BY ManagerAssumption DEF IInv, MutexInv, WorkerOwns, AloneWithLists, Owners
<1>2. QED
  BY <1>1, Invariance, PTL

(* The ids of any number of items added by any clients differ from one     *)
(* another and from 0, until 2^32 of them have been given out.             *)
THEOREM IdsAreUnique == Spec => []UniqueIds
<1>1. IInv => UniqueIds
  BY DEF IInv, IdInv, UniqueIds, ClientTypes
<1>2. QED
  BY <1>1, Invariance, PTL

(* A manager that was stopped never gives its mutex back: no client adds   *)
(* anything to it any more, however many wait to.                          *)
THEOREM ManagerStopsForGood == Spec => []StoppedForGood
<1>1. IInv => StoppedForGood
  BY ManagerAssumption DEF IInv, ClientTypes, ClientSteps, AddSteps, MutexInv,
       WorkerOwns, StoppedForGood, Owners
<1>2. QED
  BY <1>1, Invariance, PTL

-----------------------------------------------------------------------------
(* The lists hold managed items, no task twice, and the sweep's iterator   *)
(* is inside its list.                                                     *)
ListsInv ==
  /\ ToSet(objects) \cup ToSet(taskList) \subseteq managed
  /\ \A i, j \in 1..Len(taskList) : taskList[i] = taskList[j] => i = j
  /\ IteratorInList

(* A call that walks `objects' is alone with the objects: it visits what   *)
(* is in the list, or stops what was, and no client adds one meanwhile.    *)
WalkInv ==
  /\ Walking => ~Adding
  /\ op # "none" <=> Walking
  /\ mpc = "startItem" => op = "startAll" /\ ToSet(todo) \subseteq ToSet(objects)
  /\ mpc = "joinItem" => todo # <<>> /\ ~run[Head(todo)]

(* The item a call is at, between clearing its flag and joining it.        *)
BeingStopped(o) == mpc = "joinItem" /\ o = Head(todo)

Resting(o) == o \notin cur /\ ~run[o]

(* An object has one worker at most, which its handle denotes and its flag *)
(* speaks for; none outside the list; and during stopAll none that the     *)
(* walk has passed.                                                        *)
ObjectsInv ==
  /\ \A o \in Objects :
       /\ old[o] = 0
       /\ o \in cur /\ ~run[o] => BeingStopped(o)
       /\ o \notin ToSet(objects) => Resting(o)
  /\ \A c \in Clients : pc[c] = "start" /\ arg[c] \in Objects => arg[c] \in ToSet(objects)
  /\ op = "stopAll" => \A o \in ToSet(objects) \ ToSet(todo) : Resting(o)

LInv == TypeOK /\ ListsInv /\ WalkInv /\ ObjectsInv
-----------------------------------------------------------------------------
(* doStart of an item changes that item only; its handle forgets a thread  *)
(* only if that thread lives on with the flag cleared.                     *)
LEMMA StartItemFacts ==
  ASSUME TypeOK, NEW i \in Items, StartItem(i)
  PROVE  /\ run' \in [Items -> BOOLEAN] /\ cur' \subseteq Items /\ old' \in [Items -> Nat]
         /\ \A j \in Items \ {i} : /\ run'[j] = run[j] /\ (j \in cur' <=> j \in cur)
                                   /\ old'[j] = old[j]
         /\ run'[i]
         /\ (i \in cur => run[i]) => old'[i] = old[i]
<1>1. run \in [Items -> BOOLEAN] /\ cur \subseteq Items /\ old \in [Items -> Nat]
  BY DEF TypeOK
<1>2. CASE run[i]
  BY <1>1, <1>2 DEF StartItem
<1>3. CASE ~run[i]
  <2>1. run' = [run EXCEPT ![i] = TRUE] /\ cur' = cur \cup {i}
    BY <1>3 DEF StartItem
  <2>2. old' = [old EXCEPT ![i] = @ + 1] \/ (i \notin cur /\ old' = old)
    BY <1>3 DEF StartItem
  <2>3. /\ run' \in [Items -> BOOLEAN] /\ cur' \subseteq Items /\ run'[i]
        /\ \A j \in Items \ {i} : run'[j] = run[j] /\ (j \in cur' <=> j \in cur)
    BY <1>1, <2>1
  <2>4. CASE old' = [old EXCEPT ![i] = @ + 1]
    <3>1. i \in cur
      BY <1>1, <1>3, <2>4 DEF StartItem
    <3>2. old' \in [Items -> Nat] /\ \A j \in Items \ {i} : old'[j] = old[j]
      BY <1>1, <2>4
    <3>3. QED
      BY <1>3, <2>3, <3>1, <3>2
  <2>5. CASE i \notin cur /\ old' = old
    BY <1>1, <2>3, <2>5
  <2>6. QED
    BY <2>2, <2>4, <2>5
<1>4. QED
  BY <1>2, <1>3

LEMMA ThreadGoneFacts ==
  ASSUME TypeOK, NEW i \in Items, ThreadGone(i)
  PROVE  /\ cur' \subseteq cur /\ old' \in [Items -> Nat]
         /\ \A j \in Items : old[j] = 0 => old'[j] = 0
         /\ UNCHANGED <<idVars, listVars, mtx_processEvent, thread_run, workerVars,
                        kpc, clientVars, mainVars, run, completed>>
<1>1. CASE i \in cur /\ cur' = cur \ {i} /\ UNCHANGED old
  BY <1>1 DEF TypeOK, ThreadGone
<1>2. CASE old[i] > 0 /\ old' = [old EXCEPT ![i] = @ - 1] /\ UNCHANGED cur
  BY <1>2 DEF TypeOK, ThreadGone
<1>3. QED
  BY <1>1, <1>2 DEF ThreadGone

LEMMA ClientTypesKept ==
  ASSUME IInv, TypeOK, NEW c \in Clients, Client(c)
  PROVE  TypeOK'
<1> USE ManagerAssumption DEF ClientSteps, Owners
<1>1. ASSUME NEW i \in Items, CallAdd(c, i) PROVE TypeOK'
  BY <1>1 DEF CallAdd, TypeOK, idVars, listVars, workerVars, mainVars, itemVars
<1>2. CASE CallAddNull(c)
  BY <1>2 DEF CallAddNull, TypeOK, idVars, listVars, workerVars, mainVars, itemVars
<1>3. CASE AddLock(c)
  BY <1>3 DEF AddLock, AddSteps, TypeOK, idVars, listVars, workerVars, mainVars, itemVars
<1>4. CASE AddNull(c)
  BY <1>4 DEF AddNull, TypeOK, idVars, listVars, workerVars, mainVars, itemVars
<1>5. CASE AddFetch(c)
  BY <1>5 DEF AddFetch, AddSteps, TypeOK, idVars, listVars, workerVars, mainVars, itemVars
<1>6. CASE AddStore(c)
  <2>1. arg[c] \in Items
    BY <1>6 DEF AddStore, IInv, ArgInv
  <2>2. nxtId' \in 0..IdModulus - 1
    <3>1. tmp[c] + 1 \in Nat /\ IdModulus \in Nat \ {0}
      BY DEF TypeOK
    <3>2. nxtId' = (tmp[c] + 1) % IdModulus
      BY <1>6 DEF AddStore, NextId
    <3>3. QED
      BY <3>1, <3>2, ModRange
  <2>3. objects' \in Seq(Objects) /\ taskList' \in Seq(Tasks)
    <3>1. objects \in Seq(Objects) /\ taskList \in Seq(Tasks)
      BY DEF TypeOK
    <3>2. \/ arg[c] \in Objects /\ objects' = Append(objects, arg[c]) /\ taskList' = taskList
          \/ arg[c] \in Tasks /\ taskList' = Append(taskList, arg[c]) /\ objects' = objects
      BY <1>6 DEF AddStore
    <3>3. CASE arg[c] \in Objects /\ objects' = Append(objects, arg[c]) /\ taskList' = taskList
      BY <3>1, <3>3
    <3>4. CASE arg[c] \in Tasks /\ taskList' = Append(taskList, arg[c]) /\ objects' = objects
      BY <3>1, <3>4
    <3>5. QED
      BY <3>2, <3>3, <3>4
  <2>4. QED
    BY <1>6, <2>1, <2>2, <2>3 DEF AddStore, AddSteps, TypeOK, workerVars, mainVars, itemVars
<1>7. CASE AddStart(c)
  <2>1. arg[c] \in Items
    BY <1>7 DEF AddStart, IInv, ArgInv, ClientTypes
  <2>2. run' \in [Items -> BOOLEAN] /\ cur' \subseteq Items /\ old' \in [Items -> Nat]
    BY <1>7, <2>1, StartItemFacts DEF AddStart
  <2>3. QED
    BY <1>7, <2>2 DEF AddStart, AddSteps, TypeOK, idVars, listVars, workerVars, mainVars
<1>8. CASE AddReturn(c)
  BY <1>8 DEF AddReturn, NotifyAll, ReleaseMutex, WorkerSteps, TypeOK, idVars, listVars,
       mainVars, itemVars
<1>9. ASSUME NEW t \in Tasks, Execute(c, t) PROVE TypeOK'
  <2>1. run' \in [Items -> BOOLEAN] /\ cur' \subseteq Items /\ old' \in [Items -> Nat]
    BY <1>9, StartItemFacts DEF Execute, Items
  <2>2. QED
    BY <1>9, <2>1 DEF Execute, TypeOK, idVars, listVars, clientVars, workerVars, mainVars
<1>10. QED
  BY <1>1, <1>2, <1>3, <1>4, <1>5, <1>6, <1>7, <1>8, <1>9 DEF Client

(* In a sweep the item before the base exists.                             *)
LEMMA VisitedIsTask ==
  ASSUME TypeOK, ListsInv, wpc = "sweep", base > 1
  PROVE  base - 1 \in 1..Len(taskList) /\ Visited \in Tasks
BY DEF TypeOK, ListsInv, IteratorInList, Visited

LEMMA WorkerTypesKept ==
  ASSUME TypeOK, ListsInv, MgrWorker \/ Kick
  PROVE  TypeOK'
<1> USE ManagerAssumption DEF WorkerSteps, Owners
<1>1. CASE WTest \/ WWakeSpurious \/ SweepEnd
  BY <1>1 DEF WTest, WWakeSpurious, SweepEnd, TypeOK, idVars, listVars, clientVars, mainVars,
       itemVars
<1>2. CASE WWait
  BY <1>2 DEF WWait, ReleaseMutex, TypeOK, idVars, listVars, clientVars, mainVars, itemVars
<1>3. CASE WReacquire
  BY <1>3 DEF WReacquire, TypeOK, idVars, listVars, clientVars, mainVars, itemVars
<1>4. CASE SweepReap
  <2>1. taskList' \in Seq(Tasks)
    BY <1>4, TakingOut DEF SweepReap, WithoutVisited, TypeOK
  <2>2. base' \in Nat \ {0}
    BY <1>4, <2>1 DEF SweepReap, BaseAfterReap, TypeOK
  <2>3. QED
    BY <1>4, <2>1, <2>2 DEF SweepReap, TypeOK, idVars, clientVars, mainVars, itemVars
<1>5. CASE SweepStart
  <2>1. Visited \in Items
    BY <1>5, VisitedIsTask DEF SweepStart, Items
  <2>2. run' \in [Items -> BOOLEAN] /\ cur' \subseteq Items /\ old' \in [Items -> Nat]
    BY <1>5, <2>1, StartItemFacts DEF SweepStart
  <2>3. QED
    BY <1>5, <2>2 DEF SweepStart, TypeOK, idVars, listVars, clientVars, mainVars
<1>6. CASE Kick
  BY <1>6 DEF Kick, NotifyAll, TypeOK, idVars, listVars, clientVars, mainVars, itemVars
<1>7. QED
  BY <1>1, <1>2, <1>3, <1>4, <1>5, <1>6 DEF MgrWorker

LEMMA MainTypesKept ==
  ASSUME TypeOK, WalkInv, MainCalls \/ MainReturns
  PROVE  TypeOK'
<1> USE ManagerAssumption DEF MainSteps, WorkerSteps, Ops, Owners
<1>1. CASE CallDoStart
  BY <1>1 DEF CallDoStart, StartManager, TypeOK, idVars, listVars, workerVars, clientVars,
       itemVars
<1>2. ASSUME NEW call \in Ops, NEW at \in MainSteps, NEW items \in Seq(Objects),
             Walk(call, at, items)
      PROVE  TypeOK'
  BY <1>2 DEF Walk, MainGoto, TypeOK, idVars, listVars, workerVars, clientVars, itemVars
<1>3. CASE CallStartAll \/ CallStopAll
  BY <1>2, <1>3 DEF CallStartAll, CallStopAll, TypeOK
<1>4. ASSUME NEW id, CallDelete(id) PROVE TypeOK'
  <2>1. Those(objects, {o \in Objects : ipc_id[o] = id}) \in Seq(Objects)
    BY ThoseProperties DEF TypeOK
  <2>2. QED
    BY <1>2, <1>4, <2>1 DEF CallDelete
<1>5. ASSUME NEW o \in Objects, CallStop(o) PROVE TypeOK'
  <2>1. <<o>> \in Seq(Objects)
    OBVIOUS
  <2>2. QED
    BY <1>2, <1>5, <2>1 DEF CallStop
<1>6. CASE SetupLock \/ SetupSpawn
  <2>1. CASE SetupLock
    BY <2>1 DEF SetupLock, MainGoto, TypeOK, idVars, listVars, workerVars, clientVars, itemVars
  <2>2. CASE SetupSpawn
    BY <2>2 DEF SetupSpawn, MainGoto, TypeOK, idVars, listVars, workerVars, clientVars, itemVars
  <2>3. QED
    BY <1>6, <2>1, <2>2
<1>7. CASE StartNext
  <2>1. Head(todo) \in Items /\ Tail(todo) \in Seq(Objects)
    BY <1>7, HeadTailProperties DEF StartNext, TypeOK, Items
  <2>2. run' \in [Items -> BOOLEAN] /\ cur' \subseteq Items /\ old' \in [Items -> Nat]
    BY <1>7, <2>1, StartItemFacts DEF StartNext
  <2>3. QED
    BY <1>7, <2>1, <2>2 DEF StartNext, MainGoto, TypeOK, idVars, listVars, workerVars, clientVars
<1>8. CASE StartAllEnd
  BY <1>8 DEF StartAllEnd, StartManager, TypeOK, idVars, listVars, workerVars, clientVars,
       itemVars
<1>9. CASE StopNext
  <2>1. run' \in [Items -> BOOLEAN] /\ mpc' = "joinItem"
    BY <1>9 DEF StopNext, MainGoto, TypeOK
  <2>2. UNCHANGED <<idVars, listVars, mtx_processEvent, thread_run, workerVars, kpc, clientVars,
                    op, todo, joined, cur, old, completed>>
    BY <1>9 DEF StopNext
  <2>3. QED
    BY <2>1, <2>2 DEF TypeOK, MainSteps, idVars, listVars, workerVars, clientVars
<1>10. CASE JoinNext
  <2>1. todo # <<>>
    BY <1>10 DEF JoinNext, MainGoto, WalkInv
  <2>2. Tail(todo) \in Seq(Objects)
    BY <2>1, HeadTailProperties DEF TypeOK
  <2>3. objects' \in Seq(Objects)
    BY <1>10, TakingOut DEF JoinNext, TypeOK
  <2>4. QED
    BY <1>10, <2>2, <2>3 DEF JoinNext, MainGoto, TypeOK, idVars, workerVars, clientVars, itemVars
<1>11. CASE StopEnd
  BY <1>11 DEF StopEnd, TypeOK, idVars, listVars, workerVars, clientVars, itemVars
<1>12. CASE StopKick
  BY <1>12 DEF StopKick, MainGoto, NotifyAll, TypeOK, idVars, listVars, clientVars, itemVars
<1>13. CASE StopJoin
  BY <1>13 DEF StopJoin, MainGoto, TypeOK, idVars, listVars, workerVars, clientVars, itemVars
<1>14. QED
  BY <1>1, <1>3, <1>4, <1>5, <1>6, <1>7, <1>8, <1>9, <1>10, <1>11, <1>12, <1>13
    DEF MainCalls, MainReturns

LEMMA ItemTypesKept ==
  ASSUME TypeOK,
         \/ \E t \in Tasks : TaskCompletes(t) \/ TaskEnds(t)
         \/ \E i \in Items : WorkerExits(i) \/ WorkerThrows(i)
         \/ UNCHANGED vars
  PROVE  TypeOK'
<1>1. ASSUME NEW t \in Tasks, TaskCompletes(t) \/ TaskEnds(t) PROVE TypeOK'
  BY <1>1 DEF TaskCompletes, TaskEnds, TypeOK, Items, idVars, listVars, workerVars, clientVars,
       mainVars
<1>2. ASSUME NEW i \in Items, WorkerExits(i) \/ WorkerThrows(i) PROVE TypeOK'
  <2>1. ThreadGone(i)
    BY <1>2 DEF WorkerExits, WorkerThrows
  <2>2. QED
    BY <2>1, ThreadGoneFacts DEF TypeOK, idVars, listVars, workerVars, clientVars, mainVars
<1>3. CASE UNCHANGED vars
  BY <1>3 DEF vars, TypeOK, idVars, listVars, workerVars, clientVars, mainVars, itemVars
<1>4. QED
  BY <1>1, <1>2, <1>3
-----------------------------------------------------------------------------
(* An element added at the end of a list is new to it or repeats it.       *)
LEMMA Appended ==
  ASSUME NEW A, NEW q \in Seq(A), NEW x \in A
  PROVE  /\ ToSet(Append(q, x)) = ToSet(q) \cup {x}
         /\ Len(Append(q, x)) = Len(q) + 1
         /\ x \notin ToSet(q) /\ (\A i, j \in 1..Len(q) : q[i] = q[j] => i = j) =>
              \A i, j \in 1..Len(Append(q, x)) :
                Append(q, x)[i] = Append(q, x)[j] => i = j
<1> DEFINE r == Append(q, x)
<1>1. /\ r \in Seq(A) /\ Len(r) = Len(q) + 1
      /\ r[Len(q) + 1] = x /\ \A i \in 1..Len(q) : r[i] = q[i]
  BY AppendProperties
<1> HIDE DEF r
<1>2. Len(q) \in Nat
  OBVIOUS
<1>3. \A y : y \in ToSet(r) <=> y \in ToSet(q) \/ y = x
  BY <1>1, <1>2, InToSet
<1>4. ASSUME x \notin ToSet(q), \A i, j \in 1..Len(q) : q[i] = q[j] => i = j
      PROVE  \A i, j \in 1..Len(r) : r[i] = r[j] => i = j
  <2>1. \A i \in 1..Len(q) : r[i] # x
    BY <1>1, <1>4, InToSet
  <2>2. QED
    BY <1>1, <1>2, <1>4, <2>1
<1>5. QED
  BY <1>1, <1>3, <1>4 DEF r

LEMMA HeadAndTail ==
  ASSUME NEW A, NEW q \in Seq(A), q # <<>>
  PROVE  /\ Head(q) \in A /\ Tail(q) \in Seq(A)
         /\ Head(q) \in ToSet(q)
         /\ ToSet(Tail(q)) \subseteq ToSet(q)
         /\ ToSet(q) \subseteq ToSet(Tail(q)) \cup {Head(q)}
<1>1. /\ Head(q) \in A /\ Tail(q) \in Seq(A) /\ Len(q) \in Nat \ {0}
      /\ Head(q) = q[1] /\ Len(Tail(q)) = Len(q) - 1
      /\ \A i \in 1..Len(Tail(q)) : Tail(q)[i] = q[i + 1]
  BY HeadTailProperties, EmptySeq
<1>2. Head(q) \in ToSet(q)
  BY <1>1, InToSet
<1>3. ASSUME NEW y \in ToSet(Tail(q)) PROVE y \in ToSet(q)
  <2> DEFINE u == Tail(q)
  <2> HIDE DEF u
  <2>0. u \in Seq(A) /\ y \in ToSet(u)
    BY <1>1, <1>3 DEF u
  <2>1. PICK i \in 1..Len(Tail(q)) : Tail(q)[i] = y
    BY <2>0, InToSet, Zenon DEF u
  <2>2. i + 1 \in 1..Len(q) /\ q[i + 1] = y
    BY <1>1, <2>1
  <2>3. QED
    BY <2>2, InToSet
<1>4. ASSUME NEW y \in ToSet(q), y # Head(q) PROVE y \in ToSet(Tail(q))
  <2>1. PICK i \in 1..Len(q) : q[i] = y
    BY InToSet
  <2>2. i - 1 \in 1..Len(Tail(q)) /\ Tail(q)[i - 1] = y
    BY <1>1, <1>4, <2>1
  <2>3. QED
    BY <1>1, <2>2, InToSet
<1>5. QED
  BY <1>1, <1>2, <1>3, <1>4

-----------------------------------------------------------------------------
(* What a list may lose or gain: a client adds to it what was in neither.  *)
LEMMA ClientListsKept ==
  ASSUME IInv, TypeOK, ListsInv, NEW c \in Clients, Client(c)
  PROVE  ListsInv'
<1>1. CASE AddStore(c)
  <2>1. arg[c] \in Items \ managed /\ wpc # "sweep"
    BY <1>1, ManagerAssumption
      DEF AddStore, IInv, ArgInv, MutexInv, WorkerOwns, AddSteps, Owners
  <2>2. managed' = managed \cup {arg[c]} /\ wpc' = wpc
    BY <1>1 DEF AddStore, workerVars
  <2>3. objects \in Seq(Objects) /\ taskList \in Seq(Tasks)
    BY DEF TypeOK
  <2>4. CASE /\ arg[c] \in Objects /\ objects' = Append(objects, arg[c])
             /\ taskList' = taskList
    <3>1. ToSet(objects') = ToSet(objects) \cup {arg[c]}
      BY <2>3, <2>4, Appended
    <3>2. QED
      BY <2>1, <2>2, <2>4, <3>1 DEF ListsInv, IteratorInList
  <2>5. CASE /\ arg[c] \in Tasks /\ taskList' = Append(taskList, arg[c])
             /\ objects' = objects
    <3>1. arg[c] \notin ToSet(taskList)
      BY <2>1 DEF ListsInv
    <3>2. /\ ToSet(taskList') = ToSet(taskList) \cup {arg[c]}
          /\ \A i, j \in 1..Len(taskList') : taskList'[i] = taskList'[j] => i = j
      <4>1. \A i, j \in 1..Len(taskList) : taskList[i] = taskList[j] => i = j
        BY DEF ListsInv
      <4>2. QED
        BY <2>3, <2>5, <3>1, <4>1, Appended
    <3>3. QED
      BY <2>1, <2>2, <2>5, <3>2 DEF ListsInv, IteratorInList
  <2>6. QED
    BY <1>1, <2>4, <2>5 DEF AddStore
<1>2. CASE ~AddStore(c)
  <2>1. UNCHANGED <<objects, taskList, managed, base>> /\ (wpc' = "sweep" => wpc = "sweep")
    BY <1>2 DEF Client, CallAdd, CallAddNull, AddLock, AddNull, AddFetch, AddStart, AddReturn,
         NotifyAll, Execute, listVars, idVars, workerVars
  <2>2. QED
    BY <2>1 DEF ListsInv, IteratorInList
<1>3. QED
  BY <1>1, <1>2

(* The sweep takes out the task it is at, and its base moves with the list.*)
LEMMA WorkerListsKept ==
  ASSUME TypeOK, ListsInv, MgrWorker \/ Kick
  PROVE  ListsInv'
<1>1. CASE SweepReap
  <2>1. /\ taskList \in Seq(Tasks) /\ base - 1 \in 1..Len(taskList)
        /\ Visited = taskList[base - 1]
    BY <1>1, VisitedIsTask DEF SweepReap, TypeOK, Visited
  <2>2. /\ taskList' \in Seq(Tasks)
        /\ ToSet(taskList') \subseteq ToSet(taskList)
        /\ \A i, j \in 1..Len(taskList') : taskList'[i] = taskList'[j] => i = j
    <3>1. \A i, j \in 1..Len(taskList) : taskList[i] = taskList[j] => i = j
      BY DEF ListsInv
    <3>2. /\ WithoutVisited \in Seq(Tasks)
          /\ ToSet(WithoutVisited) = ToSet(taskList) \ {Visited}
          /\ \A i, j \in 1..Len(WithoutVisited) :
               WithoutVisited[i] = WithoutVisited[j] => i = j
      BY <2>1, <3>1, TakingOut DEF WithoutVisited
    <3>3. taskList' = WithoutVisited
      BY <1>1 DEF SweepReap
    <3>4. QED
      BY <3>2, <3>3
  <2>3. Len(taskList') = Len(taskList) - 1
    <3>1. \A i, j \in 1..Len(taskList) : taskList[i] = taskList[j] => i = j
      BY DEF ListsInv
    <3>2. QED
      BY <1>1, <2>1, <3>1, TakingOutOne DEF SweepReap, WithoutVisited
  <2>4. base' \in 1..Len(taskList') + 1
    <3>1. base' = IF base = 2 THEN Len(taskList') + 1 ELSE base - 2
      BY <1>1 DEF SweepReap, BaseAfterReap
    <3>2. base \in Nat /\ Len(taskList) \in Nat
      BY <2>1 DEF TypeOK
    <3>3. QED
      BY <2>1, <2>3, <3>1, <3>2
  <2>5. UNCHANGED <<objects, managed>>
    BY <1>1 DEF SweepReap, idVars
  <2>6. QED
    BY <2>2, <2>4, <2>5 DEF ListsInv, IteratorInList
<1>2. CASE WReacquire
  <2>1. Len(taskList) \in Nat
    BY DEF TypeOK
  <2>2. base' = Len(taskList) + 1 /\ UNCHANGED <<objects, taskList, managed>>
    BY <1>2 DEF WReacquire, listVars, idVars
  <2>3. QED
    BY <2>1, <2>2 DEF ListsInv, IteratorInList
<1>3. CASE SweepStart
  <2>1. base - 1 \in 1..Len(taskList) /\ Len(taskList) \in Nat
    BY <1>3, VisitedIsTask DEF SweepStart, TypeOK
  <2>2. base' = base - 1 /\ UNCHANGED <<objects, taskList, managed>>
    BY <1>3 DEF SweepStart, listVars, idVars
  <2>3. QED
    BY <2>1, <2>2 DEF ListsInv, IteratorInList
<1>4. CASE WTest \/ WWait \/ WWakeSpurious \/ SweepEnd \/ Kick
  <2>1. UNCHANGED <<objects, taskList, managed, base>> /\ (wpc' = "sweep" => wpc = "sweep")
    BY <1>4 DEF WTest, WWait, WWakeSpurious, SweepEnd, Kick, NotifyAll, listVars, idVars
  <2>2. QED
    BY <2>1 DEF ListsInv, IteratorInList
<1>5. QED
  BY <1>1, <1>2, <1>3, <1>4 DEF MgrWorker

LEMMA MainListsKept ==
  ASSUME TypeOK, ListsInv, MainCalls \/ MainReturns
  PROVE  ListsInv'
<1>1. UNCHANGED <<taskList, managed, base>> /\ (wpc' = "sweep" => wpc = "sweep")
  BY DEF MainCalls, MainReturns, CallDoStart, CallStartAll, CallStopAll, CallDelete, CallStop,
       Walk, SetupLock, SetupSpawn, StartNext, StartAllEnd, StopNext, JoinNext, StopEnd,
       StopKick, NotifyAll, StopJoin, listVars, idVars, workerVars
<1>2. ToSet(objects') \subseteq ToSet(objects)
  <2>1. CASE JoinNext
    <3>1. ToSet(Without(objects, Head(todo))) \subseteq ToSet(objects)
      BY TakingOut DEF TypeOK
    <3>2. QED
      BY <2>1, <3>1 DEF JoinNext
  <2>2. CASE ~JoinNext
    BY <2>2 DEF MainCalls, MainReturns, CallDoStart, CallStartAll, CallStopAll, CallDelete,
         CallStop, Walk, SetupLock, SetupSpawn, StartNext, StartAllEnd, StopNext, StopEnd,
         StopKick, StopJoin, listVars
  <2>3. QED
    BY <2>1, <2>2
<1>3. QED
  BY <1>1, <1>2 DEF ListsInv, IteratorInList
-----------------------------------------------------------------------------
(* A step that neither walks nor changes the list of objects may end the   *)
(* threads of objects, and do what it likes with tasks.                    *)
ObjectsLeftAlone ==
  \A o \in Objects : run'[o] = run[o] /\ (o \in cur' => o \in cur) /\ old'[o] = 0

LEMMA ObjectsFrame ==
  ASSUME TypeOK, WalkInv, ObjectsInv, ObjectsLeftAlone, Adding' => Adding,
         UNCHANGED <<objects, mpc, op, todo>>,
         \A c \in Clients : pc'[c] = "start" => pc[c] = "start" /\ arg'[c] = arg[c]
  PROVE  WalkInv' /\ ObjectsInv'
<1>1. mpc = "joinItem" => Head(todo) \in Objects
  BY HeadAndTail DEF TypeOK, WalkInv
<1>2. WalkInv'
  BY <1>1 DEF WalkInv, Walking, ObjectsLeftAlone
<1>3. ObjectsInv'
  <2>1. \A o \in Objects : /\ old'[o] = 0
                           /\ o \in cur' /\ ~run'[o] => BeingStopped(o)'
                           /\ Resting(o) => Resting(o)'
    BY DEF ObjectsInv, ObjectsLeftAlone, BeingStopped, Resting
  <2>2. ToSet(objects') \subseteq Objects
    BY InToSet DEF TypeOK
  <2>3. op' = "stopAll" => \A o \in ToSet(objects') \ ToSet(todo') : Resting(o)'
    BY <2>1, <2>2 DEF ObjectsInv
  <2>4. \A o \in Objects : o \notin ToSet(objects') => Resting(o)'
    BY <2>1 DEF ObjectsInv
  <2>5. \A c \in Clients : pc'[c] = "start" /\ arg'[c] \in Objects => arg'[c] \in ToSet(objects')
    BY DEF ObjectsInv
  <2>6. QED
    BY <2>1, <2>3, <2>4, <2>5 DEF ObjectsInv
<1>4. QED
  BY <1>2, <1>3

(* A step of Main outside the walks changes nothing of the objects.        *)
LEMMA OutsideWalks ==
  ASSUME WalkInv, ObjectsInv, mpc # "joinItem", ~Walking', op' = "none",
         UNCHANGED <<objects, run, cur, old, pc, arg>>
  PROVE  WalkInv' /\ ObjectsInv'
<1>1. WalkInv'
  BY DEF WalkInv, Walking
<1>2. ObjectsInv'
  BY DEF ObjectsInv, BeingStopped, Resting
<1>3. QED
  BY <1>1, <1>2

(* doStart of an object in the list, while none is being stopped.          *)
LEMMA ObjectStarted ==
  ASSUME TypeOK, ObjectsInv, NEW o \in Objects, StartItem(o), o \in ToSet(objects),
         mpc # "joinItem", mpc' # "joinItem", op # "stopAll", op' # "stopAll",
         UNCHANGED objects,
         \A c \in Clients : pc'[c] = "start" => pc[c] = "start" /\ arg'[c] = arg[c]
  PROVE  ObjectsInv'
<1>1. o \in Items
  BY DEF Items
<1>2. o \in cur => run[o]
  BY DEF ObjectsInv, BeingStopped
<1>3. /\ \A p \in Objects \ {o} : /\ run'[p] = run[p] /\ (p \in cur' <=> p \in cur)
                                  /\ old'[p] = old[p]
      /\ run'[o] /\ old'[o] = old[o]
  BY <1>1, <1>2, StartItemFacts DEF Items
<1>4. QED
  BY <1>3 DEF ObjectsInv, BeingStopped, Resting

LEMMA ClientObjectsKept ==
  ASSUME IInv, TypeOK, ListsInv, WalkInv, ObjectsInv, NEW c \in Clients, Client(c)
  PROVE  WalkInv' /\ ObjectsInv'
<1> USE DEF ClientSteps, AddSteps
<1>1. ASSUME NEW i \in Items, CallAdd(c, i) PROVE WalkInv' /\ ObjectsInv'
  <2>1. /\ pc' = [pc EXCEPT ![c] = "lock"] /\ arg' = [arg EXCEPT ![c] = i]
        /\ UNCHANGED <<objects, mpc, op, todo, run, cur, old>>
        /\ i \in Objects => ~Walking
    BY <1>1 DEF CallAdd, listVars, mainVars, itemVars
  <2>2. Walking => (Adding' => Adding)
    BY <2>1 DEF Adding, TypeOK
  <2>3. \A d \in Clients : pc'[d] = "start" => pc[d] = "start" /\ arg'[d] = arg[d]
    BY <2>1 DEF TypeOK
  <2>4. WalkInv'
    BY <2>1, <2>2 DEF WalkInv, Walking
  <2>5. ObjectsInv'
    BY <2>1, <2>3 DEF ObjectsInv, BeingStopped, Resting
  <2>6. QED
    BY <2>4, <2>5
<1>2. CASE CallAddNull(c) \/ AddLock(c) \/ AddNull(c) \/ AddFetch(c) \/ AddReturn(c)
  <2>1. /\ UNCHANGED <<objects, mpc, op, todo, run, cur, old>>
        /\ \E s \in {"lockNull", "fetch", "idle", "store"} : pc' = [pc EXCEPT ![c] = s]
        /\ arg' = arg \/ arg' = [arg EXCEPT ![c] = None]
    BY <1>2 DEF CallAddNull, AddLock, AddNull, AddFetch, AddReturn, listVars, mainVars, itemVars
  <2>2. pc[c] = "idle" => arg[c] = None
    BY DEF IInv, ArgInv
  <2>3. None \notin Objects
    BY ManagerAssumption DEF Items
  <2>4. Adding' => Adding
    BY <2>1, <2>2, <2>3 DEF Adding, TypeOK
  <2>5. \A d \in Clients : pc'[d] = "start" => pc[d] = "start" /\ arg'[d] = arg[d]
    BY <2>1 DEF TypeOK
  <2>6. QED
    BY <2>1, <2>4, <2>5, ObjectsFrame DEF ObjectsInv, ObjectsLeftAlone
<1>3. CASE AddStore(c)
  <2>1. /\ pc[c] = "store" /\ pc' = [pc EXCEPT ![c] = "start"]
        /\ UNCHANGED <<arg, mpc, op, todo, run, cur, old>>
        /\ \/ arg[c] \in Objects /\ objects' = Append(objects, arg[c])
           \/ arg[c] \in Tasks /\ objects' = objects
    BY <1>3 DEF AddStore, mainVars, itemVars
  <2>2. arg[c] \in Objects => ~Walking /\ op = "none"
    BY <2>1 DEF Adding, WalkInv
  <2>3. Adding' => Adding
    BY <2>1 DEF Adding, TypeOK
  <2>4. WalkInv'
    BY <2>1, <2>2, <2>3 DEF WalkInv, Walking
  <2>5. ToSet(objects') = ToSet(objects) \cup ({arg[c]} \cap Objects)
    <3>1. CASE arg[c] \in Objects /\ objects' = Append(objects, arg[c])
      BY <3>1, Appended DEF TypeOK
    <3>2. CASE arg[c] \in Tasks /\ objects' = objects
      BY <3>2, ManagerAssumption
    <3>3. QED
      BY <2>1, <3>1, <3>2
  <2>6. ObjectsInv'
    <3>1. \A o \in Objects : /\ old[o] = 0
                             /\ o \in cur /\ ~run[o] => BeingStopped(o)'
                             /\ o \notin ToSet(objects') => Resting(o)
      BY <2>1, <2>5 DEF ObjectsInv, BeingStopped
    <3>2. \A d \in Clients : pc'[d] = "start" /\ arg'[d] \in Objects => arg'[d] \in ToSet(objects')
      BY <2>1, <2>5 DEF ObjectsInv, TypeOK
    <3>3. op = "stopAll" => \A o \in ToSet(objects') \ ToSet(todo) : Resting(o)
      BY <2>2, <2>5 DEF ObjectsInv
    <3>4. QED
      BY <2>1, <3>1, <3>2, <3>3 DEF ObjectsInv, Resting
  <2>7. QED
    BY <2>4, <2>6
<1>4. CASE AddStart(c)
  <2>1. /\ pc[c] = "start" /\ pc' = [pc EXCEPT ![c] = "notify"]
        /\ UNCHANGED <<arg, objects, mpc, op, todo>>
        /\ StartItem(arg[c])
    BY <1>4 DEF AddStart, listVars, mainVars
  <2>2. arg[c] \in Items
    BY <2>1 DEF IInv, ArgInv, ClientTypes
  <2>3. Adding' => Adding
    BY <2>1 DEF Adding, TypeOK
  <2>4. \A d \in Clients : pc'[d] = "start" => pc[d] = "start" /\ arg'[d] = arg[d]
    BY <2>1 DEF TypeOK
  <2>5. CASE arg[c] \in Objects
    <3>1. ~Walking /\ op = "none" /\ arg[c] \in ToSet(objects)
      BY <2>1, <2>5 DEF Adding, WalkInv, ObjectsInv
    <3>2. ObjectsInv'
      BY <2>1, <2>4, <2>5, <3>1, ObjectStarted DEF Walking
    <3>3. WalkInv'
      BY <2>1, <3>1 DEF WalkInv, Walking
    <3>4. QED
      BY <3>2, <3>3
  <2>6. CASE arg[c] \notin Objects
    <3>1. \A o \in Objects : run'[o] = run[o] /\ (o \in cur' => o \in cur) /\ old'[o] = 0
      BY <2>1, <2>2, <2>6, StartItemFacts DEF ObjectsInv, Items
    <3>2. QED
      BY <2>1, <2>3, <2>4, <3>1, ObjectsFrame DEF ObjectsLeftAlone
  <2>7. QED
    BY <2>5, <2>6
<1>5. ASSUME NEW t \in Tasks, Execute(c, t) PROVE WalkInv' /\ ObjectsInv'
  <2>1. /\ UNCHANGED <<pc, arg, objects, mpc, op, todo>> /\ StartItem(t)
    BY <1>5 DEF Execute, listVars, mainVars, clientVars
  <2>2. \A o \in Objects : run'[o] = run[o] /\ (o \in cur' => o \in cur) /\ old'[o] = 0
    BY <2>1, StartItemFacts, ManagerAssumption DEF ObjectsInv, Items
  <2>3. QED
    BY <2>1, <2>2, ObjectsFrame DEF Adding, ObjectsLeftAlone
<1>6. QED
  BY <1>1, <1>2, <1>3, <1>4, <1>5 DEF Client

(* The manager's worker and the kicker touch tasks only.                   *)
LEMMA WorkerObjectsKept ==
  ASSUME TypeOK, ListsInv, WalkInv, ObjectsInv, MgrWorker \/ Kick
  PROVE  WalkInv' /\ ObjectsInv'
<1>1. UNCHANGED <<objects, mpc, op, todo, pc, arg>>
  BY DEF MgrWorker, WTest, WWait, WWakeSpurious, WReacquire, SweepReap, SweepStart, SweepEnd,
       Kick, listVars, mainVars, clientVars
<1>2. ObjectsLeftAlone
  <2>1. CASE SweepStart
    <3>1. Visited \in Tasks /\ StartItem(Visited)
      BY <2>1, VisitedIsTask DEF SweepStart
    <3>2. QED
      BY <3>1, StartItemFacts, ManagerAssumption DEF ObjectsLeftAlone, ObjectsInv, Items
  <2>2. CASE ~SweepStart
    <3>1. UNCHANGED <<run, cur, old>>
      BY <2>2 DEF MgrWorker, WTest, WWait, WWakeSpurious, WReacquire, SweepReap, SweepEnd, Kick,
           itemVars
    <3>2. QED
      BY <3>1 DEF ObjectsLeftAlone, ObjectsInv
  <2>3. QED
    BY <2>1, <2>2
<1>3. QED
  BY <1>1, <1>2, ObjectsFrame DEF Adding

(* Objects do not end by themselves, but may throw.                        *)
LEMMA ItemObjectsKept ==
  ASSUME TypeOK, WalkInv, ObjectsInv,
         \/ \E t \in Tasks : TaskCompletes(t) \/ TaskEnds(t)
         \/ \E i \in Items : WorkerExits(i) \/ WorkerThrows(i)
         \/ UNCHANGED vars
  PROVE  WalkInv' /\ ObjectsInv'
<1>1. UNCHANGED <<objects, mpc, op, todo, pc, arg>>
  BY DEF TaskCompletes, TaskEnds, WorkerExits, WorkerThrows, ThreadGone, vars, listVars,
       mainVars, clientVars
<1>2. ObjectsLeftAlone
  <2>1. ASSUME NEW t \in Tasks, TaskCompletes(t) PROVE ObjectsLeftAlone
    BY <2>1 DEF TaskCompletes, ObjectsLeftAlone, ObjectsInv
  <2>2. ASSUME NEW t \in Tasks, TaskEnds(t) PROVE ObjectsLeftAlone
    <3>1. /\ \A o \in Objects : o \in Items /\ o # t /\ t \in Items
          /\ run \in [Items -> BOOLEAN]
      BY ManagerAssumption DEF Items, TypeOK
    <3>2. run' = [run EXCEPT ![t] = FALSE] /\ cur' = cur /\ old' = old
      BY <2>2 DEF TaskEnds
    <3>3. QED
      BY <3>1, <3>2 DEF ObjectsLeftAlone, ObjectsInv
  <2>3. ASSUME NEW i \in Items, ThreadGone(i) PROVE ObjectsLeftAlone
    BY <2>3, ThreadGoneFacts DEF ObjectsLeftAlone, ObjectsInv, Items
  <2>4. CASE UNCHANGED vars
    BY <2>4 DEF vars, itemVars, ObjectsLeftAlone, ObjectsInv
  <2>5. QED
    BY <2>1, <2>2, <2>3, <2>4 DEF WorkerExits, WorkerThrows
<1>3. QED
  BY <1>1, <1>2, ObjectsFrame DEF Adding
(* The walks: stopAll leaves each object it passes at rest, deleteObject   *)
(* takes out of the list only what it has joined.                          *)
LEMMA MainObjectsKept ==
  ASSUME TypeOK, ListsInv, WalkInv, ObjectsInv, MainCalls \/ MainReturns
  PROVE  WalkInv' /\ ObjectsInv'
<1> USE DEF MainSteps
<1>1. UNCHANGED <<pc, arg>> /\ Adding' = Adding
  BY DEF MainCalls, MainReturns, CallDoStart, CallStartAll, CallStopAll, CallDelete, CallStop,
       Walk, SetupLock, SetupSpawn, StartNext, StartAllEnd, StopNext, JoinNext, StopEnd,
       StopKick, StopJoin, clientVars, Adding
<1>2. CASE CallDoStart \/ SetupLock \/ SetupSpawn \/ StartAllEnd \/ StopEnd \/ StopKick \/ StopJoin
  <2>1. mpc # "joinItem" /\ ~Walking' /\ UNCHANGED <<objects, run, cur, old>>
    BY <1>2 DEF CallDoStart, StartManager, SetupLock, SetupSpawn, StartAllEnd, StopEnd, StopKick,
         StopJoin, MainGoto, Walking, listVars, itemVars
  <2>2. op' = "none"
    BY <1>2 DEF CallDoStart, SetupLock, SetupSpawn, StartAllEnd, StopEnd, StopKick, StopJoin,
         MainGoto, WalkInv, Walking
  <2>3. QED
    BY <1>1, <2>1, <2>2, OutsideWalks
<1>3. ASSUME NEW call \in Ops \ {"none"}, NEW at \in {"startItem", "stopItem"}, NEW items,
             Walk(call, at, items),
             call = "stopAll" => items = objects,
             at = "startItem" => call = "startAll" /\ items = objects
      PROVE  WalkInv' /\ ObjectsInv'
  <2>1. /\ mpc = "idle" /\ mpc' = at /\ ~Adding /\ op' = call /\ todo' = items
        /\ UNCHANGED <<objects, run, cur, old>>
    BY <1>3 DEF Walk, MainGoto, listVars, itemVars
  <2>2. WalkInv'
    BY <1>1, <1>3, <2>1 DEF WalkInv, Walking
  <2>3. ObjectsInv'
    BY <1>1, <1>3, <2>1 DEF ObjectsInv, BeingStopped, Resting
  <2>4. QED
    BY <2>2, <2>3
<1>4. CASE MainCalls /\ ~CallDoStart
  BY <1>3, <1>4 DEF MainCalls, CallStartAll, CallStopAll, CallDelete, CallStop, Ops
<1>5. CASE StartNext
  <2>1. /\ mpc = "startItem" /\ mpc' = "startItem" /\ todo # <<>> /\ StartItem(Head(todo))
        /\ todo' = Tail(todo) /\ UNCHANGED <<objects, op>>
    BY <1>5 DEF StartNext, MainGoto, listVars
  <2>2. /\ Head(todo) \in Objects /\ Head(todo) \in ToSet(todo)
        /\ ToSet(todo') \subseteq ToSet(todo)
    BY <2>1, HeadAndTail DEF TypeOK
  <2>3. op = "startAll" /\ Head(todo) \in ToSet(objects)
    BY <2>1, <2>2 DEF WalkInv
  <2>4. WalkInv'
    BY <1>1, <2>1, <2>2, <2>3 DEF WalkInv, Walking
  <2>5. ObjectsInv'
    BY <1>1, <2>1, <2>2, <2>3, ObjectStarted
  <2>6. QED
    BY <2>4, <2>5
<1>6. CASE StopNext
  <2>1. /\ mpc = "stopItem" /\ mpc' = "joinItem" /\ todo # <<>>
        /\ run' = [run EXCEPT ![Head(todo)] = FALSE]
        /\ UNCHANGED <<objects, op, todo, cur, old>>
    BY <1>6 DEF StopNext, MainGoto, listVars
  <2>2. Head(todo) \in Items
    BY <2>1, HeadAndTail DEF TypeOK, Items
  <2>3. ~run'[Head(todo)] /\ \A i \in Items \ {Head(todo)} : run'[i] = run[i]
    BY <2>1, <2>2 DEF TypeOK
  <2>4. WalkInv'
    BY <1>1, <2>1, <2>3 DEF WalkInv, Walking
  <2>5. \A o \in Objects : Resting(o) => Resting(o)'
    BY <2>1, <2>3 DEF Resting, Items
  <2>6. \A o \in Objects : o \in cur' /\ ~run'[o] => BeingStopped(o)'
    BY <2>1, <2>3 DEF ObjectsInv, BeingStopped, Items
  <2>7. ToSet(objects) \subseteq Objects
    BY InToSet DEF TypeOK
  <2>8. ObjectsInv'
    BY <1>1, <2>1, <2>5, <2>6, <2>7 DEF ObjectsInv
  <2>9. QED
    BY <2>4, <2>8
<1>7. CASE JoinNext
  <2> DEFINE h == Head(todo)
  <2>1. /\ mpc = "joinItem" /\ mpc' = "stopItem" /\ h \notin cur
        /\ objects' = IF op = "delete" THEN Without(objects, h) ELSE objects
        /\ todo' = Tail(todo) /\ UNCHANGED <<op, run, cur, old>>
    BY <1>7 DEF JoinNext, MainGoto, ThreadEnded, itemVars
  <2>2. todo # <<>> /\ ~run[h]
    BY <2>1 DEF WalkInv
  <2>3. /\ ToSet(todo) \subseteq ToSet(todo') \cup {h}
        /\ h \in Objects
    BY <2>1, <2>2, HeadAndTail DEF TypeOK
  <2>4. /\ ToSet(objects') \subseteq ToSet(objects)
        /\ ToSet(objects) \subseteq ToSet(objects') \cup {h}
    BY <2>1, TakingOut DEF TypeOK
  <2>5. Resting(h)
    BY <2>1, <2>2 DEF Resting
  <2>6. WalkInv'
    BY <1>1, <2>1 DEF WalkInv, Walking
  <2>7. \A o \in Objects : /\ old[o] = 0
                           /\ ~(o \in cur /\ ~run[o])
                           /\ o \notin ToSet(objects') => Resting(o)
    BY <2>1, <2>4, <2>5 DEF ObjectsInv, BeingStopped
  <2>8. op = "stopAll" => \A o \in ToSet(objects') \ ToSet(todo') : Resting(o)
    BY <2>3, <2>4, <2>5 DEF ObjectsInv
  <2>9. \A c \in Clients : pc[c] = "start" /\ arg[c] \in Objects => FALSE
    BY <2>1 DEF WalkInv, Walking, Adding
  <2>10. ObjectsInv'
    BY <1>1, <2>1, <2>7, <2>8, <2>9 DEF ObjectsInv, Resting
  <2>11. QED
    BY <2>6, <2>10
<1>8. QED
  BY <1>2, <1>4, <1>5, <1>6, <1>7 DEF MainReturns, MainCalls

LEMMA ListsInvariance == Spec => [](IInv /\ LInv)
<1>1. Init => LInv
  <2> SUFFICES ASSUME Init PROVE LInv
    OBVIOUS
  <2> USE DEF Init
  <2>1. TypeOK
    <3>1. 0 \in 0..IdModulus - 1
      BY ManagerAssumption
    <3>2. /\ nxtId \in 0..IdModulus - 1
          /\ ipc_id \in [Items -> 0..IdModulus - 1]
          /\ tmp \in [Clients -> 0..IdModulus - 1]
      BY <3>1
    <3>3. /\ pc \in [Clients -> ClientSteps]
          /\ arg \in [Clients -> Items \cup {None}]
          /\ run \in [Items -> BOOLEAN] /\ old \in [Items -> Nat]
      BY DEF ClientSteps
    <3>4. objects \in Seq(Objects) /\ taskList \in Seq(Tasks) /\ todo \in Seq(Objects)
      OBVIOUS
    <3>5. /\ managed \subseteq Items /\ mtx_processEvent \in Owners \cup {None}
          /\ cur \subseteq Items /\ completed \subseteq Tasks
      OBVIOUS
    <3>6. wpc \in WorkerSteps /\ mpc \in MainSteps /\ op \in Ops
      BY DEF WorkerSteps, MainSteps, Ops
    <3>7. thread_run \in BOOLEAN /\ joined \in BOOLEAN
      OBVIOUS
    <3>8. base \in Nat \ {0} /\ kpc \in {"unborn", "loop", "exited"}
      OBVIOUS
    <3>9. QED
      BY <3>2, <3>3, <3>4, <3>5, <3>6, <3>7, <3>8 DEF TypeOK
  <2>2. ToSet(<<>>) = {}
    BY DEF ToSet
  <2>3. ListsInv
    BY <2>2 DEF ListsInv, IteratorInList
  <2>4. WalkInv /\ ObjectsInv
    BY <2>2 DEF WalkInv, Walking, Adding, ObjectsInv, BeingStopped, Resting, Items
  <2>5. QED
    BY <2>1, <2>3, <2>4 DEF LInv
<1>2. ASSUME IInv, LInv, [Next]_vars PROVE LInv'
  <2> USE DEF LInv
  <2>1. ASSUME NEW c \in Clients, Client(c) PROVE LInv'
    BY <1>2, <2>1, ClientTypesKept, ClientListsKept, ClientObjectsKept
  <2>2. CASE MgrWorker \/ Kick
    BY <1>2, <2>2, WorkerTypesKept, WorkerListsKept, WorkerObjectsKept
  <2>3. CASE MainCalls \/ MainReturns
    BY <1>2, <2>3, MainTypesKept, MainListsKept, MainObjectsKept
  <2>4. CASE \/ \E t \in Tasks : TaskCompletes(t) \/ TaskEnds(t)
             \/ \E i \in Items : WorkerExits(i) \/ WorkerThrows(i)
             \/ UNCHANGED vars
    <3>1. UNCHANGED <<objects, taskList, managed, wpc, base>>
      BY <2>4 DEF TaskCompletes, TaskEnds, WorkerExits, WorkerThrows, ThreadGone, vars, listVars,
           idVars, workerVars
    <3>2. ListsInv'
      BY <1>2, <3>1 DEF ListsInv, IteratorInList
    <3>3. QED
      BY <1>2, <2>4, <3>2, ItemTypesKept, ItemObjectsKept
  <2>5. QED
    BY <1>2, <2>1, <2>2, <2>3, <2>4 DEF Next
<1>3. QED
  BY <1>1, <1>2, Invariance, PTL DEF Spec

(* Every variable of the manager stays within its type: the walks and the  *)
(* sweep read their lists inside their bounds only.                        *)
THEOREM ManagerTypeCorrect == Spec => []TypeOK
<1>1. LInv => TypeOK
  BY DEF LInv
<1>2. QED
  BY <1>1, ListsInvariance, PTL

(* Neither the sweep's iterator, moved by hand after each erase, nor a     *)
(* thread of an object that deleteObject took out of the list and its      *)
(* caller frees is left dangling, for lists of any length.                 *)
THEOREM NothingIsLeftDangling == Spec => []NothingDangles
<1>1. LInv => NothingDangles
  <2> SUFFICES ASSUME LInv PROVE NothingDangles
    OBVIOUS
  <2>1. IteratorInList
    BY DEF LInv, ListsInv
  <2>2. ASSUME NEW o \in Objects, o \notin ToSet(objects) PROVE ~Working(o) /\ ~run[o]
    BY <2>2 DEF LInv, ObjectsInv, Resting, Working
  <2>3. QED
    BY <2>1, <2>2 DEF NothingDangles, NoUseAfterDelete
<1>2. QED
  BY <1>1, ListsInvariance, PTL
-----------------------------------------------------------------------------
(* Only addObject, addTask, the sweep and deleteObject change what is      *)
(* registered, and what an id was given to.                                *)
LEMMA RegistrySteps ==
  ASSUME [Next]_vars, ~SweepReap, ~JoinNext, \A c \in Clients : ~AddStore(c)
  PROVE  UNCHANGED <<ipc_id, managed, objects, taskList>>
BY DEF Next, Client, CallAdd, CallAddNull, AddLock, AddNull, AddFetch, AddStart, AddReturn,
  Execute, MgrWorker, WTest, WWait, WWakeSpurious, WReacquire, SweepStart, SweepEnd, Kick,
  MainCalls, CallDoStart, CallStartAll, CallStopAll, CallDelete, CallStop, Walk, MainReturns,
  SetupLock, SetupSpawn, StartNext, StartAllEnd, StopNext, StopEnd, StopKick, StopJoin,
  TaskCompletes, TaskEnds, WorkerExits, WorkerThrows, ThreadGone, vars, idVars, listVars

Registered == ToSet(objects) \cup ToSet(taskList)
MayLeave == completed \cup {o \in Objects : ~Working(o) /\ ~run[o]}

(* The manager, its locks, walks and sweeps included, is a registry: an    *)
(* item gets a fresh id when it is added, and leaves when it has completed *)
(* or is at rest - as long as there are fewer items than uint32_t values.  *)
THEOREM ManagerIsRegistry ==
  ASSUME Cardinality(Items) < IdModulus
  PROVE  Spec => ImplementsRegistry
<1> USE DEF Registered, MayLeave
<1>1. Init => Reg!RegistryInit
  <2> SUFFICES ASSUME Init PROVE Reg!RegistryInit
    OBVIOUS
  <2>1. ToSet(<<>>) = {}
    BY DEF ToSet
  <2>2. MayLeave \subseteq Items
    BY DEF Init, Items
  <2>3. ipc_id \in [Items -> 1..IdModulus - 1 \cup {0}]
    BY DEF Init
  <2>4. QED
    BY <2>1, <2>2, <2>3 DEF Init, Reg!RegistryInit
<1>2. ASSUME IInv, LInv, IInv', LInv', [Next]_vars
      PROVE  [Reg!RegistryNext]_(Reg!registryVars)
  <2> USE DEF LInv
  <2>1. /\ Registered \subseteq managed /\ managed \subseteq Items
        /\ objects \in Seq(Objects) /\ taskList \in Seq(Tasks)
        /\ ToSet(objects) \subseteq Objects /\ ToSet(taskList) \subseteq Tasks
    <3>1. /\ managed \subseteq Items /\ objects \in Seq(Objects) /\ taskList \in Seq(Tasks)
      BY <1>2 DEF TypeOK
    <3>2. Registered \subseteq managed
      BY <1>2 DEF ListsInv
    <3>3. ToSet(objects) \subseteq Objects /\ ToSet(taskList) \subseteq Tasks
      BY <3>1, InToSet
    <3>4. QED
      BY <3>1, <3>2, <3>3
  <2>2. ASSUME NEW c \in Clients, AddStore(c) PROVE Reg!Register(arg[c])
    <3> DEFINE e == arg[c]
    <3>1. e \in Items \ managed
      BY <1>2, <2>2 DEF AddStore, IInv, ArgInv
    <3>2. managed' = managed \cup {e} /\ ipc_id' = [ipc_id EXCEPT ![e] = nxtId']
      BY <2>2 DEF AddStore
    <3>3. Registered' = Registered \cup {e}
      <4>1. CASE e \in Objects /\ objects' = Append(objects, e) /\ taskList' = taskList
        BY <2>1, <4>1, Appended
      <4>2. CASE e \in Tasks /\ taskList' = Append(taskList, e) /\ objects' = objects
        BY <2>1, <4>2, Appended
      <4>3. QED
        BY <2>2, <4>1, <4>2 DEF AddStore
    <3>4. Cardinality(managed') < IdModulus
      <4>1. managed' \subseteq Items
        BY <2>1, <3>1, <3>2
      <4>2. IsFiniteSet(managed') /\ Cardinality(managed') <= Cardinality(Items)
        BY <4>1, ManagerAssumption, FS_Subset
      <4>3. Cardinality(managed') \in Nat /\ Cardinality(Items) \in Nat
        BY <4>2, ManagerAssumption, FS_CardinalityType
      <4>4. QED
        BY <4>2, <4>3, ManagerAssumption
    <3>5. /\ \A i \in managed' : ipc_id'[i] \in 1..nxtId'
          /\ \A i, j \in managed' : ipc_id'[i] = ipc_id'[j] => i = j
          /\ nxtId' < IdModulus /\ nxtId' \in Nat
      BY <1>2, <3>4 DEF IInv, IdInv, ClientTypes
    <3>6. \A f \in managed : ipc_id'[f] = ipc_id[f]
      BY <1>2, <2>1, <3>1, <3>2 DEF TypeOK
    <3>7. ipc_id'[e] \in (1..IdModulus - 1) \ {ipc_id[f] : f \in managed}
      BY <3>1, <3>2, <3>5, <3>6, ManagerAssumption
    <3>8. Registered \cup (managed \ Registered) = managed
      BY <2>1
    <3>9. managed' \ Registered' = managed \ Registered
      BY <3>1, <3>2, <3>3
    <3>10. QED
      BY <3>1, <3>3, <3>6, <3>7, <3>8, <3>9 DEF Reg!Register, Reg!Known
  <2>3. ASSUME NEW e \in Registered, e \in MayLeave,
               Registered' = Registered \ {e}, UNCHANGED <<managed, ipc_id>>
        PROVE  Reg!Leave(e)
    BY <2>1, <2>3 DEF Reg!Leave
  <2>4. CASE SweepReap
    <3>1. Visited \in Tasks /\ Visited = taskList[base - 1] /\ base - 1 \in 1..Len(taskList)
      BY <1>2, <2>4, VisitedIsTask DEF SweepReap, Visited
    <3>2. Visited \in ToSet(taskList) /\ Visited \notin ToSet(objects)
      BY <2>1, <3>1, InToSet, ManagerAssumption
    <3>3. ToSet(Without(taskList, Visited)) = ToSet(taskList) \ {Visited}
      BY <2>1, TakingOut
    <3>4. taskList' = Without(taskList, Visited) /\ UNCHANGED <<objects, managed, ipc_id>>
      BY <2>4 DEF SweepReap, WithoutVisited, idVars
    <3>5. Visited \in completed
      BY <2>4 DEF SweepReap, HasCompleted
    <3>6. Reg!Leave(Visited)
      BY <2>3, <3>2, <3>3, <3>4, <3>5
    <3>7. QED
      BY <2>1, <3>1, <3>6 DEF Reg!RegistryNext, Items
  <2>5. CASE JoinNext
    <3> DEFINE h == Head(todo)
    <3>1. /\ mpc = "joinItem" /\ h \notin cur /\ UNCHANGED <<taskList, managed, ipc_id>>
          /\ objects' = IF op = "delete" THEN Without(objects, h) ELSE objects
      BY <2>5 DEF JoinNext, MainGoto, ThreadEnded, idVars
    <3>2. h \in Objects /\ ~run[h]
      BY <1>2, <3>1, HeadAndTail DEF WalkInv, TypeOK
    <3>3. h \in MayLeave
      BY <1>2, <3>1, <3>2 DEF ObjectsInv, Working
    <3>4. ToSet(Without(objects, h)) = ToSet(objects) \ {h}
      BY <2>1, TakingOut
    <3>5. h \notin ToSet(taskList)
      BY <2>1, <3>2, ManagerAssumption
    <3>6. CASE op = "delete" /\ h \in ToSet(objects)
      <4>1. Registered' = Registered \ {h}
        BY <3>1, <3>4, <3>5, <3>6
      <4>2. Reg!Leave(h)
        BY <2>3, <3>1, <3>3, <3>6, <4>1
      <4>3. QED
        BY <3>2, <4>2 DEF Reg!RegistryNext, Items
    <3>7. CASE ~(op = "delete" /\ h \in ToSet(objects))
      <4>1. ToSet(objects') = ToSet(objects)
        BY <3>1, <3>4, <3>7
      <4>2. QED
        BY <3>1, <4>1 DEF Reg!RegistryNext, Reg!Change
    <3>8. QED
      BY <3>6, <3>7
  <2>6. CASE ~SweepReap /\ ~JoinNext /\ \A c \in Clients : ~AddStore(c)
    BY <1>2, <2>6, RegistrySteps DEF Reg!RegistryNext, Reg!Change
  <2>7. \A c \in Clients : AddStore(c) => Reg!RegistryNext
    BY <1>2, <2>2 DEF Reg!RegistryNext, AddStore, IInv, ArgInv
  <2>8. QED
    BY <2>4, <2>5, <2>6, <2>7
<1>3. QED
  BY <1>1, <1>2, ListsInvariance, PTL DEF Spec, ImplementsRegistry, Reg!RegistrySpec
=============================================================================
