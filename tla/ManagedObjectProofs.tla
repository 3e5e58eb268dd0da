------------------------ MODULE ManagedObjectProofs -------------------------
(***************************************************************************)
(* ManagedObject for any set of callers and any number of worker threads:  *)
(* types always, and, when no doStart overlaps doStop and no iteration     *)
(* ends its own worker, at most one worker, quiet after doStop, and the    *)
(* refinement of Lifecycle.                                                *)
(***************************************************************************)
EXTENDS ManagedObject, TLAPS

(* The callers inside doStart's critical section.                          *)
Inside == {"startTest", "startSet", "startSpawn", "startUnlock"}

(* What mtx_threadOperations guarantees, whatever doStop does.             *)
MutexInv == \A c \in Callers : pc[c] \in Inside <=> mtx_threadOperations = c

(* What doStop's joinable() guarantees until join(), whoever starts the    *)
(* object in between.                                                      *)
JoinInv == pc[Owner] = "stopJoin" => threadTask \in joinable

(* The flag, the handle and the worker, seen from each place of doStart    *)
(* and doStop.                                                             *)
Apart == ~(Starting /\ Stopping)

SettingInv ==
  \A c \in Callers :
    /\ pc[c] = "startSet" => ~thread_run /\ Live = {}
    /\ pc[c] = "startSpawn" => thread_run /\ Live = {}

StoppingInv ==
  /\ pc[Owner] \in {"stopTest", "stopJoin", "stopWait"} => ~thread_run
  /\ pc[Owner] = "stopWait" => joining = threadTask
  /\ ~thread_run /\ pc[Owner] \notin StopStates => Live = {}

HandleInv == Live \subseteq joinable \cap {threadTask}

IInv == MutexInv /\ Apart /\ SettingInv /\ StoppingInv /\ HandleInv

(* Every variable keeps its type, with or without overlapping calls: the   *)
(* handle is a thread that doStart created or none, and doStop joins only  *)
(* threads that can be joined.                                             *)
THEOREM TypeCorrect == Spec => []TypeOK
<1> USE CallersAssumption DEF TypeOK, Workers, WorkerStates, CallerStates,
      StartStates, StopStates, JoinInv
<1>1. Init => TypeOK /\ JoinInv
  BY DEF Init
<1>2. TypeOK /\ JoinInv /\ [Next]_vars => TypeOK' /\ JoinInv'
  <2> SUFFICES ASSUME TypeOK, JoinInv, [Next]_vars
               PROVE  TypeOK' /\ JoinInv'
    OBVIOUS
  <2>1. ASSUME NEW c \in Callers, DoStart(c)
        PROVE  TypeOK' /\ JoinInv'
    <3>1. CASE CallStart(c)
      BY <3>1 DEF CallStart, Goto
    <3>2. CASE StartLock(c)
      BY <3>2 DEF StartLock, Goto
    <3>3. CASE StartTest(c)
      BY <3>3 DEF StartTest, Goto
    <3>4. CASE StartSet(c)
      BY <3>4 DEF StartSet, Goto
    <3>5. CASE StartSpawn(c)
      BY <3>5 DEF StartSpawn, Goto, Unborn
    <3>6. CASE StartUnlock(c)
      BY <3>6 DEF StartUnlock, Goto
    <3>7. QED
      BY <2>1, <3>1, <3>2, <3>3, <3>4, <3>5, <3>6 DEF DoStart
  <2>2. CASE DoStop
    BY <2>2 DEF DoStop, CallStop, StopClear, StopTest, StopJoin, StopReturn,
         Goto
  <2>3. ASSUME NEW w \in Workers, CallWorker(w)
        PROVE  TypeOK' /\ JoinInv'
    BY <2>3 DEF CallWorker, WorkerTest, WorkerIterate, WorkerThrow,
         WorkerClear, Move
  <2>4. CASE UNCHANGED vars
    BY <2>4 DEF vars
  <2>5. QED
    BY <2>1, <2>2, <2>3, <2>4 DEF Next
<1>3. QED
  BY <1>1, <1>2, PTL DEF Spec
-----------------------------------------------------------------------------
(* Steps of doStart keep the invariant: the mutex makes the caller the     *)
(* only one inside, and nobody is in doStop meanwhile.                     *)
LEMMA StartStep ==
  ASSUME ~Overlap, TypeOK, IInv, NEW c \in Callers, DoStart(c)
  PROVE  IInv'
<1> USE CallersAssumption DEF TypeOK, Workers, WorkerStates, CallerStates,
      StartStates, StopStates, IInv, MutexInv, Apart, SettingInv, StoppingInv,
      HandleInv, Starting, Starters, Stopping, Live, Inside, Goto
<1>1. CASE CallStart(c)
  BY <1>1 DEF CallStart
<1>2. CASE StartLock(c)
  BY <1>2 DEF StartLock, MutexFree
<1>3. CASE StartTest(c)
  BY <1>3 DEF StartTest
<1>4. CASE StartSet(c)
  BY <1>4 DEF StartSet
<1>5. CASE StartSpawn(c)
  <2>1. PICK w \in Unborn :
          /\ worker' = [worker EXCEPT ![w] = "test"]
          /\ threadTask' = w
          /\ joinable' = joinable \cup {w}
    BY <1>5 DEF StartSpawn
  <2>2. w \in Workers
    BY DEF Unborn
  <2>3. Live = {} /\ thread_run /\ Live' = {w}
    BY <1>5, <2>1, <2>2 DEF StartSpawn
  <2>4. MutexInv' /\ Apart'
    BY <1>5 DEF StartSpawn
  <2>5. HandleInv'
    BY <2>1, <2>3
  <2>6. SettingInv' /\ StoppingInv'
    BY <1>5, <2>3 DEF StartSpawn
  <2>7. QED
    BY <2>4, <2>5, <2>6
<1>6. CASE StartUnlock(c)
  BY <1>6 DEF StartUnlock
<1>7. QED
  BY <1>1, <1>2, <1>3, <1>4, <1>5, <1>6 DEF DoStart

(* Steps of doStop keep it: join() waits for the only worker there is.     *)
LEMMA StopStep ==
  ASSUME ~Overlap, TypeOK, IInv, DoStop
  PROVE  IInv'
<1> USE CallersAssumption DEF TypeOK, Workers, WorkerStates, CallerStates,
      StartStates, StopStates, IInv, MutexInv, Apart, SettingInv, StoppingInv,
      HandleInv, Starting, Starters, Stopping, Live, Inside, Goto
<1>1. CASE CallStop
  BY <1>1 DEF CallStop
<1>2. CASE StopClear
  BY <1>2 DEF StopClear
<1>3. CASE StopTest
  BY <1>3 DEF StopTest
<1>4. CASE StopJoin
  BY <1>4 DEF StopJoin
<1>5. CASE StopReturn
  BY <1>5 DEF StopReturn, Ended
<1>6. QED
  BY <1>1, <1>2, <1>3, <1>4, <1>5 DEF DoStop

(* Steps of a worker keep it: a worker can only go.                        *)
LEMMA WorkerStep ==
  ASSUME ~SelfEnding, TypeOK, IInv, NEW w \in Workers, CallWorker(w)
  PROVE  IInv'
<1>1. /\ Live' \subseteq Live
      /\ UNCHANGED <<thread_run, mtx_threadOperations, threadTask, joinable,
                     pc, joining>>
  BY DEF CallWorker, WorkerTest, WorkerIterate, WorkerThrow, WorkerClear, Move,
       Live, TypeOK, Workers
<1>2. QED
  BY <1>1 DEF IInv, MutexInv, Apart, SettingInv, StoppingInv, HandleInv,
       Starting, Starters, Stopping

(* The disciplined use of an object keeps the invariant.                   *)
LEMMA Invariance ==
  ASSUME ~Overlap, ~SelfEnding
  PROVE  Spec => []IInv
<1>1. Init => IInv
  BY CallersAssumption DEF Init, IInv, MutexInv, Apart, SettingInv,
       StoppingInv, HandleInv, Starting, Starters, Stopping, Live, Inside,
       StartStates, StopStates, Workers
<1>2. TypeOK /\ IInv /\ [Next]_vars => IInv'
  <2> SUFFICES ASSUME TypeOK, IInv, [Next]_vars PROVE IInv'
    OBVIOUS
  <2>1. CASE \E c \in Callers : DoStart(c)
    BY <2>1, StartStep
  <2>2. CASE DoStop
    BY <2>2, StopStep
  <2>3. CASE \E w \in Workers : CallWorker(w)
    BY <2>3, WorkerStep
  <2>4. CASE UNCHANGED vars
    BY <2>4 DEF vars, IInv, MutexInv, Apart, SettingInv, StoppingInv,
         HandleInv, Starting, Starters, Stopping, Live
  <2>5. QED
    BY <2>1, <2>2, <2>3, <2>4 DEF Next
<1>3. QED
  BY <1>1, <1>2, TypeCorrect, PTL DEF Spec

(* However many threads call doStart, the object has at most one worker    *)
(* and its handle denotes it.                                              *)
THEOREM AtMostOneWorker ==
  ASSUME ~Overlap, ~SelfEnding
  PROVE  Spec => []OneWorker
<1>1. IInv => OneWorker
  BY DEF IInv, HandleInv, OneWorker
<1>2. QED
  BY <1>1, Invariance, PTL

(* Once doStop has returned, and until somebody starts the object again,   *)
(* no worker is alive.                                                     *)
THEOREM QuietAfterStop ==
  ASSUME ~Overlap, ~SelfEnding
  PROVE  Spec => []StoppedIsQuiet
<1>1. IInv => StoppedIsQuiet
  BY DEF IInv, StoppingInv, StoppedIsQuiet, Stopping
<1>2. QED
  BY <1>1, Invariance, PTL
-----------------------------------------------------------------------------
(* An object so used implements Lifecycle.                                 *)
THEOREM Refinement ==
  ASSUME ~Overlap, ~SelfEnding
  PROVE  Spec => ImplementsLifecycle
<1> DEFINE Spawning == \E c \in Callers : pc[c] = "startSpawn"
           working == IF Spawning THEN "starting"
                      ELSE IF Live # {} THEN "working" ELSE "none"
<1>1. Init => Life!LifeInit
  BY DEF Init, Life!LifeInit, Live
<1>2. TypeOK /\ IInv /\ [Next]_vars => [Life!LifeNext]_Life!lifeVars
  <2> SUFFICES ASSUME TypeOK, IInv, [Next]_vars
               PROVE  Life!LifeNext \/ UNCHANGED <<thread_run, working>>
    BY DEF Life!lifeVars
  <2> USE DEF TypeOK, IInv, SettingInv
  <2>1. ASSUME NEW c \in Callers, DoStart(c)
        PROVE  Life!LifeNext \/ UNCHANGED <<thread_run, working>>
    <3>1. CASE StartSet(c)
      <4>1. ~Spawning
        BY <3>1 DEF StartSet, Goto, MutexInv, Inside
      <4>2. Spawning' /\ Live = {} /\ ~thread_run /\ thread_run'
        BY <3>1 DEF StartSet, Goto
      <4>3. QED
        BY <4>1, <4>2 DEF Life!LifeNext, Life!Request
    <3>2. CASE StartSpawn(c)
      <4>1. Spawning /\ thread_run /\ thread_run'
        BY <3>2 DEF StartSpawn, Goto
      <4>2. ~Spawning'
        BY <3>2 DEF StartSpawn, Goto, MutexInv, Inside
      <4>3. Live' # {}
        BY <3>2 DEF StartSpawn, Unborn, Live, Workers
      <4>4. QED
        BY <4>1, <4>2, <4>3 DEF Life!LifeNext, Life!Begin
    <3>3. CASE CallStart(c) \/ StartLock(c) \/ StartTest(c) \/ StartUnlock(c)
      <4>1. UNCHANGED <<thread_run, worker>> /\ Spawning' = Spawning
        BY <3>3 DEF CallStart, StartLock, StartTest, StartUnlock, Goto
      <4>2. QED
        BY <4>1 DEF Live
    <3>4. QED
      BY <2>1, <3>1, <3>2, <3>3 DEF DoStart
  <2>2. CASE DoStop
    <3>1. Live' = Live /\ Spawning' = Spawning
      BY <2>2 DEF DoStop, CallStop, StopClear, StopTest, StopJoin, StopReturn,
           Goto, Live
    <3>2. CASE StopClear
      <4>1. ~Spawning /\ thread_run' = FALSE
        BY <3>2 DEF StopClear, Goto, Apart, Starting, Starters, Stopping,
             StartStates, StopStates
      <4>2. QED
        BY <3>1, <4>1 DEF Life!LifeNext, Life!Withdraw
    <3>3. CASE ~StopClear
      <4>1. UNCHANGED thread_run
        BY <2>2, <3>3 DEF DoStop, CallStop, StopTest, StopJoin, StopReturn
      <4>2. QED
        BY <3>1, <4>1
    <3>4. QED
      BY <3>2, <3>3
  <2>3. ASSUME NEW w \in Workers, CallWorker(w)
        PROVE  Life!LifeNext \/ UNCHANGED <<thread_run, working>>
    <3>1. /\ Live' \subseteq Live
          /\ UNCHANGED <<thread_run, pc>>
      BY <2>3 DEF CallWorker, WorkerTest, WorkerIterate, WorkerThrow,
           WorkerClear, Move, Live, Workers
    <3>2. Spawning' = Spawning
      BY <3>1
    <3>3. Spawning => Live = {} /\ Live' = {}
      BY <3>1
    <3>4. QED
      BY <3>1, <3>2, <3>3 DEF Life!LifeNext, Life!End
  <2>4. CASE UNCHANGED vars
    BY <2>4 DEF vars, Live
  <2>5. QED
    BY <2>1, <2>2, <2>3, <2>4 DEF Next
<1>3. QED
  BY <1>1, <1>2, TypeCorrect, Invariance, PTL
    DEF Spec, ImplementsLifecycle, Life!LifeSpec
=============================================================================
