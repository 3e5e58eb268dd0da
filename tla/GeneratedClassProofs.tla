------------------------ MODULE GeneratedClassProofs -------------------------
(***************************************************************************)
(* For any servers, instances, ids, numbers of nodes and of starts:        *)
(* ThreadsInv shows that a started server is served; MapInv which nodes an *)
(* unmapping leaves behind, and whom the calls of the method of a living   *)
(* instance reach.                                                         *)
(***************************************************************************)
EXTENDS GeneratedClass, ListProofs

Lives == {"unborn", "alive", "ending", "unmapping", "dead"}
WorkerStates == {"test", "look", "clear", "ended"}
ServerStates == {"test", "serve", "ended"}

ThreadsTypeOK ==
  /\ life \in [Instances -> Lives]
  /\ thread_run \in [Servers -> BOOLEAN]
  /\ runUAServer \in [Servers -> BOOLEAN]
  /\ pc \in [Servers -> {"idle", "join"}]
  /\ worker \in [Servers -> Seq(WorkerStates)]
  /\ serverThreads \in [Servers -> Seq(ServerStates)]
  /\ \A s \in Servers : Len(worker[s]) = Len(serverThreads[s])

\* a running server: its latest worker has not seen a stop, and its latest
\* thread serves
Runs(s) ==
  thread_run[s] =>
    /\ life[s] = "alive" /\ pc[s] = "idle" /\ runUAServer[s]
    /\ Len(worker[s]) > 0
    /\ worker[s][Len(worker[s])] \in {"test", "look"}
    /\ serverThreads[s][Len(worker[s])] # "ended"

\* only the latest worker may live, and it does not outlive the join
Joined(s) ==
  /\ \A t \in 1 .. Len(worker[s]) : t # Len(worker[s]) => worker[s][t] = "ended"
  /\ ~thread_run[s] /\ pc[s] = "idle" /\ Len(worker[s]) > 0 =>
       worker[s][Len(worker[s])] = "ended"

ThreadsInv == ThreadsTypeOK /\ \A s \in Servers : Runs(s) /\ Joined(s)

-----------------------------------------------------------------------------
\* a sequence that changes in one place
LEMMA ChangedSeq ==
  ASSUME NEW S, NEW q \in Seq(S), NEW i \in 1 .. Len(q), NEW x \in S
  PROVE  LET r == [q EXCEPT ![i] = x]
         IN /\ r \in Seq(S) /\ Len(r) = Len(q) /\ r[i] = x
            /\ \A j \in 1 .. Len(q) : j # i => r[j] = q[j]
  BY ExceptSeq

\* steps that touch no thread and take no living server out of its life
LEMMA OtherSteps ==
  ASSUME ThreadsInv, UNCHANGED threadVars, life' \in [Instances -> Lives],
         \A s \in Servers : life[s] = "alive" => life'[s] = "alive"
  PROVE  ThreadsInv'
  BY DEF ThreadsInv, ThreadsTypeOK, Runs, Joined, threadVars

\* construction and destruction do not touch the threads
LEMMA MapSteps ==
  ASSUME ThreadsInv, NEW c \in Instances,
         \/ Construct(c) \/ DestroyPlain(c) \/ UnmapNode(c) \/ UnmapCrashes(c) \/ EndUnmap(c)
  PROVE  ThreadsInv'
<1>1. life \in [Instances -> Lives]
  BY DEF ThreadsInv, ThreadsTypeOK
<1>2. CASE Construct(c)
  BY <1>1, <1>2, OtherSteps DEF Construct, Lives, Instances
<1>3. CASE DestroyPlain(c)
  BY <1>1, <1>3, OtherSteps, InstancesAssumption DEF DestroyPlain, Lives, Instances
<1>4. CASE UnmapNode(c)
  BY <1>1, <1>4, OtherSteps DEF UnmapNode
<1>5. CASE UnmapCrashes(c)
  BY <1>1, <1>5, OtherSteps DEF UnmapCrashes, Crash, mapVars
<1>6. CASE EndUnmap(c)
  BY <1>1, <1>6, OtherSteps DEF EndUnmap, Lives, Instances
<1> QED
  BY <1>2, <1>3, <1>4, <1>5, <1>6

LEMMA DoStartStep ==
  ASSUME ThreadsInv, NEW s \in Servers, DoStart(s)
  PROVE  ThreadsInv'
<1> USE DEF WorkerStates, ServerStates
<1>1. ThreadsTypeOK /\ Joined(s) /\ pc[s] = "idle" /\ ~thread_run[s] /\ life[s] = "alive"
  BY DEF ThreadsInv, DoStart
<1>2. /\ worker[s] \in Seq(WorkerStates) /\ serverThreads[s] \in Seq(ServerStates)
      /\ Len(worker[s]) = Len(serverThreads[s])
  BY <1>1 DEF ThreadsTypeOK
<1>3. /\ worker' = [worker EXCEPT ![s] = Append(worker[s], "test")]
      /\ serverThreads' = [serverThreads EXCEPT ![s] = Append(serverThreads[s], "test")]
      /\ life' = life /\ pc' = pc
      /\ thread_run' = [thread_run EXCEPT ![s] = TRUE]
      /\ runUAServer' = [runUAServer EXCEPT ![s] = TRUE]
  BY DEF DoStart, mapVars
<1>4. ThreadsTypeOK'
  BY <1>1, <1>2, <1>3 DEF ThreadsTypeOK
<1>5. ASSUME NEW r \in Servers PROVE (Runs(r) /\ Joined(r))'
  <2>1. CASE r = s
    <3>1. /\ worker'[s] = Append(worker[s], "test")
          /\ serverThreads'[s] = Append(serverThreads[s], "test")
          /\ thread_run'[s] /\ runUAServer'[s] /\ life'[s] = "alive" /\ pc'[s] = "idle"
      BY <1>1, <1>3 DEF ThreadsTypeOK
    <3>2. \A t \in 1 .. Len(worker[s]) : worker[s][t] = "ended"
      BY <1>1, <1>2 DEF Joined
    <3> QED
      BY <1>2, <2>1, <3>1, <3>2 DEF Runs, Joined
  <2>2. CASE r # s
    BY <1>1, <1>3, <2>2 DEF ThreadsInv, ThreadsTypeOK, Runs, Joined
  <2> QED
    BY <2>1, <2>2
<1> QED
  BY <1>4, <1>5 DEF ThreadsInv

\* stops, the join and the destructor
LEMMA StopSteps ==
  ASSUME ThreadsInv, NEW s \in Servers,
         StopClear(s) \/ StopJoin(s) \/ DestroyServer(s) \/ DeleteServer(s)
  PROVE  ThreadsInv'
<1>1. ThreadsTypeOK /\ s \in Instances
  BY DEF ThreadsInv, Instances
<1>2. worker' = worker /\ serverThreads' = serverThreads /\ runUAServer' = runUAServer
  BY DEF StopClear, StopJoin, DestroyServer, DeleteServer, threadVars
<1>3. CASE StopClear(s)
  <2>1. /\ life' = life /\ life[s] = "alive" /\ pc[s] = "idle"
        /\ thread_run' = [thread_run EXCEPT ![s] = FALSE]
        /\ pc' = [pc EXCEPT ![s] = "join"]
    BY <1>3 DEF StopClear, mapVars
  <2>2. ThreadsTypeOK'
    BY <1>1, <1>2, <2>1 DEF ThreadsTypeOK
  <2>3. ASSUME NEW r \in Servers PROVE (Runs(r) /\ Joined(r))'
    BY <1>1, <1>2, <2>1 DEF ThreadsInv, ThreadsTypeOK, Runs, Joined
  <2> QED
    BY <2>2, <2>3 DEF ThreadsInv
<1>4. CASE StopJoin(s)
  BY <1>1, <1>2, <1>4 DEF StopJoin, WorkerEnded, ThreadsInv, ThreadsTypeOK, Runs, Joined, mapVars
<1>5. CASE DestroyServer(s)
  <2>1. /\ life' = [life EXCEPT ![s] = "ending"]
        /\ thread_run' = [thread_run EXCEPT ![s] = FALSE]
        /\ pc' = [pc EXCEPT ![s] = IF thread_run[s] THEN "join" ELSE "idle"]
        /\ pc[s] = "idle"
    BY <1>5 DEF DestroyServer
  <2>2. ThreadsTypeOK'
    BY <1>1, <1>2, <2>1 DEF ThreadsTypeOK, Lives
  <2>3. ASSUME NEW r \in Servers PROVE (Runs(r) /\ Joined(r))'
    BY <1>1, <1>2, <2>1 DEF ThreadsInv, ThreadsTypeOK, Runs, Joined, Instances
  <2> QED
    BY <2>2, <2>3 DEF ThreadsInv
<1>6. CASE DeleteServer(s)
  <2>1. ~thread_run[s] /\ life' = [life EXCEPT ![s] = "unmapping"] /\ UNCHANGED threadVars
    BY <1>6 DEF DeleteServer, ThreadsInv, Runs
  <2> QED
    BY <1>1, <2>1 DEF ThreadsInv, ThreadsTypeOK, Runs, Joined, threadVars, Lives, Instances
<1> QED
  BY <1>3, <1>4, <1>5, <1>6

LEMMA WorkerSteps ==
  ASSUME ThreadsInv, NEW s \in Servers, NEW t \in DOMAIN serverThreads[s], Worker(s, t)
  PROVE  ThreadsInv'
<1> DEFINE n == Len(worker[s])
<1>1. /\ ThreadsTypeOK /\ Runs(s) /\ Joined(s)
      /\ worker[s] \in Seq(WorkerStates) /\ n \in Nat /\ t \in 1 .. n
  BY DEF ThreadsInv, ThreadsTypeOK
<1>2. /\ life' = life /\ thread_run' = thread_run /\ pc' = pc /\ serverThreads' = serverThreads
  BY DEF Worker, WorkerTest, WorkerLook, WorkerClear, mapVars
<1>3. PICK from \in WorkerStates, to \in WorkerStates :
        /\ Move(s, t, from, to) /\ from # "ended"
        /\ thread_run[s] /\ from \in {"test", "look"} => to \in {"test", "look"}
        /\ runUAServer' \in [Servers -> BOOLEAN]
        /\ \A r \in Servers : runUAServer'[r] = runUAServer[r] \/ (r = s /\ from = "clear")
  <2>1. CASE WorkerTest(s, t)
    BY <1>1, <2>1 DEF WorkerTest, WorkerStates, ThreadsTypeOK
  <2>2. CASE WorkerLook(s, t)
    BY <1>1, <2>2 DEF WorkerLook, WorkerStates, ThreadsTypeOK
  <2>3. CASE WorkerClear(s, t)
    BY <1>1, <2>3 DEF WorkerClear, WorkerStates, ThreadsTypeOK
  <2> QED
    BY <2>1, <2>2, <2>3 DEF Worker
<1>4. worker[s][t] = from /\ worker' = [worker EXCEPT ![s] = [worker[s] EXCEPT ![t] = to]]
  BY <1>3 DEF Move
<1>5. t = n /\ (from = "clear" => ~thread_run[s])
  BY <1>1, <1>3, <1>4 DEF Joined, Runs
<1>6. /\ worker'[s] \in Seq(WorkerStates) /\ Len(worker'[s]) = n /\ worker'[s][n] = to
      /\ \A j \in 1 .. n : j # n => worker'[s][j] = worker[s][j]
  <2>1. worker'[s] = [worker[s] EXCEPT ![t] = to]
    BY <1>1, <1>4 DEF ThreadsTypeOK
  <2> QED
    BY <1>1, <1>5, <2>1, ChangedSeq
<1>7. \A r \in Servers : r # s => worker'[r] = worker[r]
  BY <1>1, <1>4 DEF ThreadsTypeOK
<1>8. ThreadsTypeOK'
  BY <1>1, <1>2, <1>3, <1>4, <1>6, <1>7 DEF ThreadsTypeOK
<1>9. ASSUME NEW r \in Servers PROVE (Runs(r) /\ Joined(r))'
  <2>1. CASE r = s
    BY <1>1, <1>2, <1>3, <1>4, <1>5, <1>6, <2>1 DEF Runs, Joined
  <2>2. CASE r # s
    BY <1>2, <1>3, <1>7, <2>2 DEF ThreadsInv, Runs, Joined
  <2> QED
    BY <2>1, <2>2
<1> QED
  BY <1>8, <1>9 DEF ThreadsInv

LEMMA ServerSteps ==
  ASSUME ThreadsInv, NEW s \in Servers, NEW t \in DOMAIN serverThreads[s], ServerThread(s, t)
  PROVE  ThreadsInv'
<1>1. /\ ThreadsTypeOK /\ Runs(s) /\ Joined(s)
      /\ serverThreads[s] \in Seq(ServerStates) /\ t \in 1 .. Len(serverThreads[s])
      /\ Len(worker[s]) = Len(serverThreads[s])
  BY DEF ThreadsInv, ThreadsTypeOK
<1>2. CASE ServeCrashes(s, t)
  BY <1>1, <1>2, OtherSteps DEF ServeCrashes, Crash, mapVars, ThreadsTypeOK
<1>3. CASE ServerTest(s, t) \/ Serve(s, t)
  <2>1. UNCHANGED <<life, thread_run, runUAServer, worker, pc>>
    BY <1>3 DEF ServerTest, Serve, mapVars
  <2>2. PICK to \in ServerStates :
          /\ serverThreads' = [serverThreads EXCEPT ![s] = [serverThreads[s] EXCEPT ![t] = to]]
          /\ thread_run[s] => to # "ended"
    <3>1. CASE ServerTest(s, t)
      <4>1. PICK on \in BOOLEAN :
              /\ life[s] # "dead" => on = runUAServer[s]
              /\ serverThreads' =
                   [serverThreads EXCEPT ![s][t] = IF on THEN "serve" ELSE "ended"]
        BY <3>1 DEF ServerTest
      <4>2. thread_run[s] => on
        BY <1>1, <4>1 DEF Runs
      <4>3. CASE on
        BY <4>1, <4>3 DEF ServerStates
      <4>4. CASE ~on
        BY <4>1, <4>2, <4>4 DEF ServerStates
      <4> QED
        BY <4>3, <4>4
    <3>2. CASE Serve(s, t)
      BY <3>2 DEF Serve, ServerStates
    <3> QED
      BY <1>3, <3>1, <3>2
  <2>3. /\ serverThreads'[s] \in Seq(ServerStates)
        /\ Len(serverThreads'[s]) = Len(serverThreads[s]) /\ serverThreads'[s][t] = to
        /\ \A j \in 1 .. Len(serverThreads[s]) : j # t => serverThreads'[s][j] = serverThreads[s][j]
    <3>1. serverThreads'[s] = [serverThreads[s] EXCEPT ![t] = to]
      BY <1>1, <2>2 DEF ThreadsTypeOK
    <3> QED
      BY <1>1, <3>1, ChangedSeq
  <2>4. \A r \in Servers : r # s => serverThreads'[r] = serverThreads[r]
    BY <1>1, <2>2 DEF ThreadsTypeOK
  <2>5. ThreadsTypeOK'
    BY <1>1, <2>1, <2>2, <2>3, <2>4 DEF ThreadsTypeOK
  <2>6. ASSUME NEW r \in Servers PROVE (Runs(r) /\ Joined(r))'
    <3>1. CASE r = s
      BY <1>1, <2>1, <2>2, <2>3, <3>1 DEF Runs, Joined
    <3>2. CASE r # s
      BY <2>1, <2>4, <3>2 DEF ThreadsInv, Runs, Joined
    <3> QED
      BY <3>1, <3>2
  <2> QED
    BY <2>5, <2>6 DEF ThreadsInv
<1> QED
  BY <1>2, <1>3 DEF ServerThread

LEMMA ThreadsInvariant == Spec => []ThreadsInv
<1>1. Init => ThreadsInv
  BY DEF Init, ThreadsInv, ThreadsTypeOK, Runs, Joined, Lives, WorkerStates, ServerStates
<1>2. ThreadsInv /\ [Next]_vars => ThreadsInv'
  <2> SUFFICES ASSUME ThreadsInv, [Next]_vars PROVE ThreadsInv'
    OBVIOUS
  <2>1. CASE UNCHANGED vars
    BY <2>1, OtherSteps DEF vars, mapVars, ThreadsInv, ThreadsTypeOK
  <2>2. CASE Next
    BY <2>2, MapSteps, DoStartStep, StopSteps, WorkerSteps, ServerSteps DEF Next
  <2> QED
    BY <2>1, <2>2
<1> QED
  BY <1>1, <1>2, PTL DEF Spec

(* A server of a generated class that was started and not stopped runs: its *)
(* flag is set and a thread of it is in UA_Server_run, whatever earlier     *)
(* stops and starts the worker saw late.                                    *)
THEOREM StartedServersServe == Spec => []ServedWhileRunning
<1>1. ThreadsInv => ServedWhileRunning
  <2> SUFFICES ASSUME ThreadsInv, NEW s \in Servers, thread_run[s]
               PROVE  runUAServer[s] /\ Serving(s) # {}
    BY DEF ServedWhileRunning
  <2>1. /\ runUAServer[s] /\ Len(worker[s]) > 0
        /\ serverThreads[s][Len(worker[s])] # "ended"
    BY DEF ThreadsInv, Runs
  <2>2. Len(worker[s]) \in DOMAIN serverThreads[s]
    BY <2>1 DEF ThreadsInv, ThreadsTypeOK
  <2> QED
    BY <2>1, <2>2 DEF Serving
<1> QED
  BY <1>1, ThreadsInvariant, PTL

-----------------------------------------------------------------------------
(* The sweep of the unmapping, for a list of any length.  The nodes left   *)
(* are multiples of some power of two d: after the first round that came   *)
(* to the front and found an odd number of nodes d is 2, then 4, and so on.*)
(* The iterator stands at j * d in them; below it the round has taken out  *)
(* nothing yet, from there on it has passed over every second node.        *)

Kept(j, m) == 1 .. j - 1 \cup {x \in j .. m : (x - j) % 2 = 0}
Multiples(K, d) == {x * d : x \in K}

Swept(n, list, b, d, m, j) ==
  /\ d \in Nat \ {0} /\ PowerOfTwo(d) /\ m \in Nat /\ (m + 1) * d = n + 1
  /\ j \in 1 .. m + 1 /\ (m + 1 - j) % 2 = 0
  /\ list = Multiples(Kept(j, m), d)
  /\ b = IF j = m + 1 THEN 0 ELSE j * d

LEMMA Scaling ==
  ASSUME NEW d \in Nat \ {0}, NEW x \in Nat, NEW y \in Nat
  PROVE  x * d \in Nat /\ (x < y <=> x * d < y * d) /\ (x = y <=> x * d = y * d)
OBVIOUS

LEMMA Halves ==
  ASSUME NEW n \in Nat
  PROVE  \E h \in Nat : n = 2 * h + (n % 2)
<1> DEFINE h == n \div 2
<1>1. h \in Nat /\ n = 2 * h + (n % 2)
  OBVIOUS
<1> QED
  BY <1>1

LEMMA PowerDoubles ==
  ASSUME NEW d \in Nat \ {0}, PowerOfTwo(d)
  PROVE  PowerOfTwo(2 * d)
<1> SUFFICES ASSUME NEW o \in 1 .. 2 * d, NEW q \in 1 .. 2 * d, 2 * d = o * q, o % 2 = 1
             PROVE  o = 1
  BY DEF PowerOfTwo
<1>1. PICK t \in Nat : o = 2 * t + 1
  BY Halves
<1>2. PICK s \in Nat : q = 2 * s \/ q = 2 * s + 1
  <2>1. q \in Nat /\ q % 2 \in {0, 1}
    OBVIOUS
  <2> QED
    BY <2>1, Halves
<1>3. CASE q = 2 * s
  <2>1. d = o * s
    BY <1>1, <1>3
  <2>2. s \in 1 .. d /\ o \in 1 .. d
    BY <1>1, <1>3, <2>1
  <2> QED
    BY <2>1, <2>2 DEF PowerOfTwo
<1>4. CASE q = 2 * s + 1
  <2>1. o * q = 2 * (2 * t * s + t + s) + 1
    BY <1>1, <1>4
  <2>2. 2 * t * s + t + s \in Nat
    OBVIOUS
  <2> QED
    BY <2>1, <2>2
<1> QED
  BY <1>2, <1>3, <1>4

LEMMA BeforeIs ==
  ASSUME NEW list \in SUBSET Nat, NEW b \in Nat, NEW p \in list, b = 0 \/ p < b,
         \A q \in list : b = 0 \/ q < b => q <= p
  PROVE  Before(list, b) = p
<1> DEFINE lower == {q \in list : b = 0 \/ q < b}
<1>1. p \in lower /\ lower \subseteq Nat /\ \A q \in lower : q <= p
  OBVIOUS
<1>2. Before(list, b) = CHOOSE r \in lower : \A q \in lower : q <= r
  BY <1>1 DEF Before
<1> HIDE DEF lower
<1> DEFINE r == CHOOSE r \in lower : \A q \in lower : q <= r
<1>3. r \in lower /\ \A q \in lower : q <= r
  BY <1>1
<1>4. r \in Nat /\ r <= p /\ p <= r
  BY <1>1, <1>3
<1> QED
  BY <1>2, <1>4

LEMMA BeforeNone ==
  ASSUME NEW list, NEW b, \A q \in list : ~(b = 0 \/ q < b)
  PROVE  Before(list, b) = 0
<1>1. {q \in list : b = 0 \/ q < b} = {}
  OBVIOUS
<1> QED
  BY <1>1 DEF Before

LEMMA BeginIs ==
  ASSUME NEW list \in SUBSET Nat, NEW p \in list, \A q \in list : p <= q
  PROVE  BeginOf(list) = p
<1> DEFINE r == CHOOSE r \in list : \A q \in list : r <= q
<1>1. r \in list /\ \A q \in list : r <= q
  OBVIOUS
<1>2. r \in Nat /\ r <= p /\ p <= r
  BY <1>1
<1> QED
  BY <1>2 DEF BeginOf

\* the sweep ends when it comes to the front with an even number of nodes
LEMMA SweepEndsAt ==
  ASSUME NEW n \in Nat, NEW list, NEW b, NEW d, NEW m, NEW j, Swept(n, list, b, d, m, j)
  PROVE  b = BeginOf(list) <=> j = 1
<1>1. /\ d \in Nat \ {0} /\ m \in Nat /\ j \in 1 .. m + 1
      /\ list = Multiples(Kept(j, m), d) /\ b = IF j = m + 1 THEN 0 ELSE j * d
  BY DEF Swept
<1>2. Kept(j, m) \subseteq 1 .. m
  BY <1>1 DEF Kept
<1>3. CASE m = 0
  <2>1. list = {}
    BY <1>1, <1>2, <1>3 DEF Multiples
  <2> QED
    BY <1>1, <1>3, <2>1 DEF BeginOf
<1>4. CASE m # 0
  <2>1. 1 \in Kept(j, m)
    BY <1>1, <1>4 DEF Kept
  <2>2. /\ 1 * d = d /\ d \in list /\ list \subseteq Nat
        /\ \A q \in list : d <= q
    <3>1. ASSUME NEW x \in Kept(j, m) PROVE x * d \in Nat /\ d <= x * d
      <4>1. x \in Nat /\ (x = 1 \/ 1 < x)
        BY <1>1, <1>2
      <4>2. x * d \in Nat /\ (1 < x <=> 1 * d < x * d) /\ 1 * d = d
        BY <1>1, <4>1, Scaling
      <4> QED
        BY <1>1, <4>1, <4>2
    <3>2. 1 * d = d
      BY <1>1
    <3> QED
      BY <1>1, <2>1, <3>1, <3>2 DEF Multiples
  <2>3. BeginOf(list) = d
    BY <2>2, BeginIs
  <2>4. j \in Nat /\ (j = 1 <=> j * d = d)
    <3>1. j \in Nat /\ (j = 1 <=> j * d = 1 * d)
      BY <1>1, Scaling
    <3> QED
      BY <2>2, <3>1
  <2> QED
    BY <1>1, <1>4, <2>3, <2>4
<1> QED
  BY <1>3, <1>4

\* one removal leads to such a state again, in the same round or the next
LEMMA SweepGoesOn ==
  ASSUME NEW n \in Nat, NEW list, NEW b, NEW d, NEW m, NEW j, Swept(n, list, b, d, m, j),
         j # 1
  PROVE  LET p == Before(list, b)
         IN /\ p \in list
            /\ \E dd, mm, jj : Swept(n, list \ {p}, NextBase(list, p, b), dd, mm, jj)
<1>1. /\ d \in Nat \ {0} /\ m \in Nat /\ j \in 2 .. m + 1 /\ j - 1 \in Nat /\ j \in Nat
      /\ list = Multiples(Kept(j, m), d) /\ b = IF j = m + 1 THEN 0 ELSE j * d
      /\ PowerOfTwo(d) /\ (m + 1) * d = n + 1 /\ (m + 1 - j) % 2 = 0
  BY DEF Swept
<1>2. Kept(j, m) \subseteq 1 .. m /\ j - 1 \in Kept(j, m)
  BY <1>1 DEF Kept
<1>3. \A x, y \in 1 .. m + 1 : /\ x * d \in Nat \ {0} /\ (x < y <=> x * d < y * d)
                               /\ (x = y <=> x * d = y * d)
  BY <1>1, Scaling
<1>4. \A x \in Kept(j, m) : (b = 0 \/ x * d < b) <=> x <= j - 1
  <2>1. ASSUME NEW x \in Kept(j, m) PROVE (b = 0 \/ x * d < b) <=> x <= j - 1
    <3>1. x \in 1 .. m /\ j \in 1 .. m + 1
      BY <1>1, <1>2
    <3>2. CASE j = m + 1
      BY <1>1, <3>1, <3>2
    <3>3. CASE j # m + 1
      <4>1. b = j * d /\ j * d # 0 /\ (x < j <=> x * d < j * d)
        BY <1>1, <1>3, <3>1, <3>3
      <4> QED
        BY <1>1, <3>1, <4>1
    <3> QED
      BY <3>2, <3>3
  <2> QED
    BY <2>1
<1> DEFINE p == (j - 1) * d
<1>5. p \in list /\ list \in SUBSET Nat /\ b \in Nat
  BY <1>1, <1>2, <1>3 DEF Multiples
<1>6. \A x \in Kept(j, m) : x <= j - 1 <=> x * d <= p
  <2>1. ASSUME NEW x \in Kept(j, m) PROVE x <= j - 1 <=> x * d <= p
    <3>1. x \in 1 .. m + 1 /\ j - 1 \in 1 .. m + 1
      BY <1>1, <1>2
    <3>2. (j - 1 < x <=> p < x * d) /\ x * d \in Nat /\ p \in Nat
      BY <1>3, <3>1
    <3> QED
      BY <3>1, <3>2
  <2> QED
    BY <2>1
<1>7. Before(list, b) = p
  <2>1. b = 0 \/ p < b
    BY <1>1, <1>2, <1>4
  <2>2. \A q \in list : b = 0 \/ q < b => q <= p
    BY <1>1, <1>4, <1>6 DEF Multiples
  <2> HIDE DEF p
  <2> QED
    BY <1>5, <2>1, <2>2, BeforeIs
<1>8. list \ {p} = Multiples(Kept(j, m) \ {j - 1}, d)
  <2>1. \A x \in Kept(j, m) : x * d = p <=> x = j - 1
    <3>1. \A x \in Kept(j, m) : x \in 1 .. m + 1 /\ j - 1 \in 1 .. m + 1
      BY <1>1, <1>2
    <3> QED
      BY <1>3, <3>1
  <2> HIDE DEF p
  <2> QED
    BY <1>1, <2>1 DEF Multiples
<1>9. CASE j > 2
  <2> DEFINE r == (j - 2) * d
  <2>1. Kept(j, m) \ {j - 1} = Kept(j - 2, m)
    BY <1>1, <1>9 DEF Kept
  <2>2. j - 2 \in Kept(j, m) \ {j - 1} /\ j - 2 # m + 1 /\ j - 2 \in 1 .. m + 1
        /\ (m + 1 - (j - 2)) % 2 = 0
    BY <1>1, <1>9 DEF Kept
  <2>3. r \in list \ {p} /\ (b = 0 \/ r < b)
    <3>1. j - 2 <= j - 1
      BY <1>1
    <3> HIDE DEF p
    <3> QED
      BY <1>1, <1>4, <1>8, <2>2, <3>1 DEF Multiples
  <2>4. \A q \in list \ {p} : b = 0 \/ q < b => q <= r
    <3>1. ASSUME NEW x \in Kept(j, m) \ {j - 1}, b = 0 \/ x * d < b PROVE x * d <= r
      <4>1. x \in 1 .. m + 1 /\ x <= j - 2
        BY <1>1, <1>2, <1>4, <3>1
      <4>2. (j - 2 < x <=> r < x * d) /\ r \in Nat /\ x * d \in Nat
        BY <1>3, <2>2, <4>1
      <4> QED
        BY <1>1, <4>1, <4>2
    <3> HIDE DEF p, r
    <3> QED
      BY <1>8, <3>1 DEF Multiples
  <2>5. NextBase(list, p, b) = r
    <3>1. list \ {p} \in SUBSET Nat
      BY <1>5
    <3> HIDE DEF p, r
    <3> QED
      BY <1>5, <2>3, <2>4, <3>1, BeforeIs DEF NextBase
  <2>6. Swept(n, list \ {p}, r, d, m, j - 2)
    BY <1>1, <1>8, <2>1, <2>2 DEF Swept
  <2> QED
    BY <1>5, <1>7, <2>5, <2>6
<1>10. CASE j = 2
  <2>1. PICK h \in Nat : m = 2 * h + 1
    <3>1. m - 1 \in Nat /\ (m - 1) % 2 = 0
      BY <1>1, <1>10
    <3>2. PICK h \in Nat : m - 1 = 2 * h + ((m - 1) % 2)
      BY <3>1, Halves
    <3> QED
      BY <1>1, <3>1, <3>2
  <2>2. NextBase(list, p, b) = 0
    <3>1. \A q \in list \ {p} : ~(b = 0 \/ q < b)
      <4>1. \A x \in Kept(j, m) \ {j - 1} : ~(x <= j - 1)
        BY <1>1, <1>2, <1>10
      <4> HIDE DEF p
      <4> QED
        BY <1>4, <1>8, <4>1 DEF Multiples
    <3> QED
      BY <3>1, BeforeNone DEF NextBase
  <2>3. Kept(j, m) \ {j - 1} = {2 * y : y \in 1 .. h}
    BY <1>1, <1>10, <2>1 DEF Kept
  <2>4. Multiples({2 * y : y \in 1 .. h}, d) = Multiples(1 .. h, 2 * d)
    <3>1. \A y \in 1 .. h : (2 * y) * d = y * (2 * d)
      BY <1>1
    <3> QED
      BY <3>1 DEF Multiples
  <2>5. Kept(h + 1, h) = 1 .. h
    BY DEF Kept
  <2>6. (h + 1) * (2 * d) = n + 1
    <3>1. (m + 1) * d = (2 * (h + 1)) * d
      BY <2>1
    <3> QED
      BY <1>1, <3>1
  <2>7. Swept(n, list \ {p}, 0, 2 * d, h, h + 1)
    <3>1. 2 * d \in Nat \ {0} /\ PowerOfTwo(2 * d) /\ h + 1 \in 1 .. h + 1
          /\ (h + 1 - (h + 1)) % 2 = 0
      BY <1>1, PowerDoubles
    <3>2. list \ {p} = Multiples(Kept(h + 1, h), 2 * d)
      BY <1>8, <2>3, <2>4, <2>5
    <3> QED
      BY <2>6, <3>1, <3>2 DEF Swept
  <2> QED
    BY <1>5, <1>7, <2>2, <2>7
<1> QED
  BY <1>1, <1>9, <1>10

\* what is left and where the iterator stands are among the nodes
LEMMA SweptBounds ==
  ASSUME NEW n \in Nat, NEW list, NEW b, NEW d, NEW m, NEW j, Swept(n, list, b, d, m, j)
  PROVE  list \subseteq 1 .. n /\ b \in 0 .. n
<1>1. /\ d \in Nat \ {0} /\ m \in Nat /\ j \in 1 .. m + 1 /\ (m + 1) * d = n + 1
      /\ list = Multiples(Kept(j, m), d) /\ b = IF j = m + 1 THEN 0 ELSE j * d
  BY DEF Swept
<1>2. ASSUME NEW x \in 1 .. m PROVE x * d \in 1 .. n
  <2>1. x * d \in Nat /\ (x < m + 1 <=> x * d < (m + 1) * d) /\ (0 < x <=> 0 * d < x * d)
    BY <1>1, Scaling
  <2> QED
    BY <1>1, <2>1
<1>3. Kept(j, m) \subseteq 1 .. m
  BY <1>1 DEF Kept
<1> QED
  BY <1>1, <1>2, <1>3 DEF Multiples

\* it begins with all nodes in the list
LEMMA SweepBegins ==
  ASSUME NEW n \in Nat \ {0}
  PROVE  \E d, m, j : Swept(n, 1 .. n, 0, d, m, j)
<1>1. Kept(n + 1, n) = 1 .. n
  BY DEF Kept
<1>2. Multiples(1 .. n, 1) = 1 .. n
  <2>1. \A x \in 1 .. n : x * 1 = x
    OBVIOUS
  <2> QED
    BY <2>1 DEF Multiples
<1>3. PowerOfTwo(1)
  BY DEF PowerOfTwo
<1>4. Swept(n, 1 .. n, 0, 1, n, n + 1)
  BY <1>1, <1>2, <1>3 DEF Swept
<1> QED
  BY <1>4

-----------------------------------------------------------------------------
MapTypes ==
  /\ setup \in Setups
  /\ life \in [Instances -> Lives]
  /\ size \in [Instances -> Nat]
  /\ objectId \in [Instances -> ObjectIds \cup {0}]
  /\ ownedNodes \in [Instances -> SUBSET Nat]
  /\ nodes \in [Instances -> SUBSET Nat]
  /\ base \in [Instances -> Nat]
  /\ deleted \subseteq Servers

\* the list of an instance is complete until its unmapping begins, and the
\* server has what is in it, unless the server is gone
NodesInv(c) ==
  /\ life[c] = "unborn" <=> size[c] = 0
  /\ life[c] \in {"unborn", "alive", "ending"} => ownedNodes[c] = 1 .. size[c] /\ base[c] = 0
  /\ life[c] \in {"unmapping", "dead"} =>
       \E d, m, j : /\ Swept(size[c], ownedNodes[c], base[c], d, m, j)
                    /\ life[c] = "dead" => j = 1
  /\ nodes[c] = IF HostOf(c) \in deleted THEN {} ELSE ownedNodes[c]
  /\ c \in Plain => life[c] # "ending"
  /\ c \in deleted => life[c] \in {"unmapping", "dead"}

\* the table has the instances that were constructed, each with its id, and
\* the living ones of one server have different ids
Entry == [instance : Plain, object : ObjectIds]
EntriesInv ==
  /\ table \in Seq(Entry)
  /\ \A i \in 1 .. Len(table) : LET e == table[i]
                                IN life[e.instance] # "unborn" /\ e.object = objectId[e.instance]
  /\ \A c \in Plain : life[c] # "unborn" =>
       objectId[c] \in ObjectIds /\ \E i \in 1 .. Len(table) : table[i].instance = c
  /\ \A c, d \in Plain :
       c # d /\ Host[c] = Host[d] /\ life[c] = "alive" /\ life[d] = "alive" =>
         objectId[c] # objectId[d]

MapInv == MapTypes /\ (\A c \in Instances : NodesInv(c)) /\ EntriesInv

LEMMA HostsAreServers ==
  ASSUME NEW c \in Instances
  PROVE  /\ HostOf(c) \in Servers /\ (c \in Servers <=> HostOf(c) = c)
         /\ c \in Servers <=> c \notin Plain
BY InstancesAssumption DEF HostOf, Instances

LEMMA NothingMapped ==
  ASSUME MapInv, UNCHANGED mapVars
  PROVE  MapInv'
BY DEF MapInv, MapTypes, NodesInv, EntriesInv, mapVars

\* an instance gets an id that no living one of its server has
LEMMA ConstructStep ==
  ASSUME MapInv, NEW c \in Instances, Construct(c)
  PROVE  MapInv'
<1>1. /\ MapTypes /\ EntriesInv /\ (\A x \in Instances : NodesInv(x))
      /\ life[c] = "unborn" /\ life' = [life EXCEPT ![c] = "alive"]
      /\ UNCHANGED <<setup, base, deleted>>
      /\ c \in Plain => life[Host[c]] = "alive"
  BY DEF MapInv, Construct
<1>2. PICK n \in setup.sizes[c], id \in FreeIds(c) :
        /\ size' = [size EXCEPT ![c] = n]
        /\ objectId' = [objectId EXCEPT ![c] = id]
        /\ ownedNodes' = [ownedNodes EXCEPT ![c] = 1 .. n]
        /\ nodes' = [nodes EXCEPT ![c] = 1 .. n]
        /\ table' = IF c \in Plain THEN Register(c, id) ELSE table
  BY DEF Construct
<1>3. n \in Nat \ {0} /\ id \in ObjectIds \cup {0} /\ (c \in Plain => id \in ObjectIds)
  BY <1>1, <1>2, InstancesAssumption DEF MapTypes, FreeIds, Instances
<1>4. MapTypes'
  BY <1>1, <1>2, <1>3 DEF MapTypes, Lives
<1>5. HostOf(c) \notin deleted
  <2>1. CASE c \in Plain
    <3>1. Host[c] \in Instances /\ HostOf(c) = Host[c]
      BY <2>1, InstancesAssumption DEF Instances, HostOf
    <3> QED
      BY <1>1, <2>1, <3>1 DEF NodesInv
  <2>2. CASE c \notin Plain
    BY <1>1, <2>2, HostsAreServers DEF NodesInv, Instances
  <2> QED
    BY <2>1, <2>2
<1>6. ASSUME NEW x \in Instances PROVE NodesInv(x)'
  <2>1. CASE x = c
    <3>1. /\ life'[c] = "alive" /\ size'[c] = n /\ ownedNodes'[c] = 1 .. n /\ nodes'[c] = 1 .. n
          /\ base'[c] = 0 /\ deleted' = deleted
      BY <1>1, <1>2, <1>3 DEF MapTypes, NodesInv
    <3>2. c \notin deleted
      BY <1>1 DEF NodesInv
    <3> QED
      BY <1>3, <1>5, <2>1, <3>1, <3>2 DEF NodesInv, HostOf
  <2>2. CASE x # c
    <3>1. /\ life'[x] = life[x] /\ size'[x] = size[x] /\ ownedNodes'[x] = ownedNodes[x]
          /\ nodes'[x] = nodes[x] /\ base'[x] = base[x] /\ deleted' = deleted
      BY <1>1, <1>2, <2>2 DEF MapTypes
    <3> QED
      BY <1>1, <3>1 DEF NodesInv, HostOf
  <2> QED
    BY <2>1, <2>2
<1>7. \A x \in Plain : x \in Instances
  BY DEF Instances
<1>8. \A x \in Instances \ {c} : life'[x] = life[x] /\ objectId'[x] = objectId[x]
  BY <1>1, <1>2 DEF MapTypes
<1>9. life'[c] = "alive" /\ objectId'[c] = id
  BY <1>1, <1>2 DEF MapTypes
<1>0. \A i \in 1 .. Len(table) : table[i].instance \in Plain
  <2>1. \A i \in 1 .. Len(table) : table[i] \in Entry
    BY <1>1 DEF EntriesInv
  <2>2. \A e \in Entry : e.instance \in Plain
    BY DEF Entry
  <2> QED
    BY <2>1, <2>2
<1>10. CASE c \in Plain
  <2> DEFINE e == [instance |-> c, object |-> id]
  <2>1. e \in Entry /\ e.instance = c /\ e.object = id
    BY <1>3, <1>10 DEF Entry
  <2>2. table' = Append(table, e) /\ table \in Seq(Entry)
    BY <1>1, <1>2, <1>10 DEF Register, EntriesInv
  <2>3. /\ table' \in Seq(Entry) /\ Len(table') = Len(table) + 1 /\ Len(table) \in Nat
        /\ table'[Len(table) + 1] = e /\ \A i \in 1 .. Len(table) : table'[i] = table[i]
    BY <2>1, <2>2
  <2> HIDE DEF e
  <2>4. ASSUME NEW i \in 1 .. Len(table')
        PROVE  LET x == table'[i].instance
               IN life'[x] # "unborn" /\ table'[i].object = objectId'[x]
    <3>1. CASE i \in 1 .. Len(table)
      <4>1. table[i].instance \in Instances \ {c}
        BY <1>1, <1>7, <1>0, <3>1 DEF EntriesInv
      <4> QED
        BY <1>1, <1>8, <2>3, <3>1, <4>1 DEF EntriesInv
    <3>2. CASE i = Len(table) + 1
      BY <1>9, <2>1, <2>3, <3>2
    <3> QED
      BY <2>3, <3>1, <3>2
  <2>5. ASSUME NEW x \in Plain, life'[x] # "unborn"
        PROVE  objectId'[x] \in ObjectIds /\ \E i \in 1 .. Len(table') : table'[i].instance = x
    <3>1. CASE x = c
      BY <1>3, <1>9, <1>10, <2>1, <2>3, <3>1
    <3>2. CASE x # c
      BY <1>1, <1>7, <1>8, <2>3, <2>5, <3>2 DEF EntriesInv
    <3> QED
      BY <3>1, <3>2
  <2>6. ASSUME NEW x \in Plain \ {c}, Host[x] = Host[c], life[x] = "alive"
        PROVE  objectId[x] # id
    <3>1. HostOf(x) = HostOf(c)
      BY <1>10, <2>6, InstancesAssumption DEF HostOf
    <3>2. nodes[x] = 1 .. size[x] /\ size[x] \in Nat \ {0}
      BY <1>1, <1>5, <1>7, <2>6, <3>1 DEF NodesInv, MapTypes
    <3>3. HasObject(x)
      BY <3>2 DEF HasObject
    <3> QED
      BY <1>2, <1>10, <2>6, <3>3, InstancesAssumption DEF FreeIds
  <2>7. ASSUME NEW x \in Plain, NEW y \in Plain, x # y, Host[x] = Host[y],
               life'[x] = "alive", life'[y] = "alive"
        PROVE  objectId'[x] # objectId'[y]
    BY <1>1, <1>7, <1>8, <1>9, <1>10, <2>6, <2>7 DEF EntriesInv
  <2>8. EntriesInv'
    BY <2>3, <2>4, <2>5, <2>7 DEF EntriesInv
  <2> QED
    BY <1>4, <1>6, <2>8 DEF MapInv
<1>11. CASE c \notin Plain
  <2>1. table' = table /\ \A x \in Plain : x \in Instances \ {c}
    BY <1>2, <1>7, <1>11
  <2>3. EntriesInv'
    BY <1>1, <1>8, <1>0, <2>1 DEF EntriesInv
  <2> QED
    BY <1>4, <1>6, <2>3 DEF MapInv
<1> QED
  BY <1>10, <1>11

\* of the steps after construction, what they need of the table
LEMMA LivesEnd ==
  ASSUME MapInv, UNCHANGED <<table, objectId>>,
         \A c \in Instances : /\ life[c] # "unborn" <=> life'[c] # "unborn"
                              /\ life'[c] = "alive" => life[c] = "alive"
  PROVE  EntriesInv'
<1>1. \A c \in Plain : c \in Instances
  BY DEF Instances
<1>2. \A i \in 1 .. Len(table) : table[i].instance \in Plain
  <2>1. \A i \in 1 .. Len(table) : table[i] \in Entry
    BY DEF MapInv, EntriesInv
  <2>2. \A e \in Entry : e.instance \in Plain
    BY DEF Entry
  <2> QED
    BY <2>1, <2>2
<1> QED
  BY <1>1, <1>2 DEF MapInv, EntriesInv

\* UnmapNode, EndUnmap and the steps between
LEMMA UnmapSteps ==
  ASSUME MapInv, NEW c \in Instances,
         DestroyPlain(c) \/ UnmapNode(c) \/ UnmapCrashes(c) \/ EndUnmap(c)
  PROVE  MapInv'
<1>1. MapTypes /\ \A x \in Instances : NodesInv(x)
  BY DEF MapInv
<1>2. CASE DestroyPlain(c)
  <2>1. /\ c \in Plain /\ life[c] = "alive" /\ life' = [life EXCEPT ![c] = "unmapping"]
        /\ UNCHANGED <<setup, size, objectId, ownedNodes, base, nodes, table, deleted>>
    BY <1>2 DEF DestroyPlain
  <2>2. life' \in [Instances -> Lives] /\ life'[c] = "unmapping"
        /\ \A x \in Instances \ {c} : life'[x] = life[x]
    BY <1>1, <2>1 DEF MapTypes, Lives
  <2>3. EntriesInv'
    BY <2>1, <2>2, LivesEnd
  <2>4. MapTypes'
    BY <1>1, <2>1, <2>2 DEF MapTypes
  <2>5. ASSUME NEW x \in Instances PROVE NodesInv(x)'
    <3>1. CASE x = c
      <4>1. \E d, m, j : Swept(size[c], ownedNodes[c], base[c], d, m, j)
        <5>1. /\ size[c] \in Nat \ {0} /\ ownedNodes[c] = 1 .. size[c] /\ base[c] = 0
          BY <1>1, <2>1 DEF NodesInv, MapTypes
        <5> QED
          BY <5>1, SweepBegins
      <4>2. /\ nodes[c] = IF HostOf(c) \in deleted THEN {} ELSE ownedNodes[c]
            /\ size[c] # 0
        BY <1>1, <2>1 DEF NodesInv
      <4> QED
        BY <2>1, <2>2, <3>1, <4>1, <4>2 DEF NodesInv, HostOf
    <3>2. CASE x # c
      BY <1>1, <2>1, <2>2, <3>2 DEF NodesInv, HostOf
    <3> QED
      BY <3>1, <3>2
  <2> QED
    BY <2>3, <2>4, <2>5 DEF MapInv
<1>3. CASE UnmapNode(c)
  <2> DEFINE p == Before(ownedNodes[c], base[c])
  <2>1. /\ life[c] = "unmapping" /\ base[c] # BeginOf(ownedNodes[c])
        /\ nodes' = IF HostOf(c) \in deleted THEN nodes ELSE [nodes EXCEPT ![c] = @ \ {p}]
        /\ ownedNodes' = [ownedNodes EXCEPT ![c] = @ \ {p}]
        /\ base' = [base EXCEPT ![c] = NextBase(ownedNodes[c], p, @)]
        /\ UNCHANGED <<setup, life, size, objectId, table, deleted>>
    BY <1>3 DEF UnmapNode
  <2>2. PICK d, m, j : Swept(size[c], ownedNodes[c], base[c], d, m, j)
    BY <1>1, <2>1 DEF NodesInv
  <2>3. size[c] \in Nat
    BY <1>1 DEF MapTypes
  <2>4. j # 1
    BY <2>1, <2>2, <2>3, SweepEndsAt
  <2>5. PICK dd, mm, jj :
          Swept(size[c], ownedNodes[c] \ {p}, NextBase(ownedNodes[c], p, base[c]), dd, mm, jj)
    BY <2>2, <2>3, <2>4, SweepGoesOn
  <2>6. ownedNodes[c] \ {p} \in SUBSET Nat /\ NextBase(ownedNodes[c], p, base[c]) \in Nat
    BY <1>1, <2>3, <2>5, SweptBounds DEF MapTypes
  <2> HIDE DEF p
  <2>7. /\ ownedNodes'[c] = ownedNodes[c] \ {p}
        /\ base'[c] = NextBase(ownedNodes[c], p, base[c])
        /\ nodes'[c] = IF HostOf(c) \in deleted THEN nodes[c] ELSE nodes[c] \ {p}
        /\ \A x \in Instances \ {c} : /\ ownedNodes'[x] = ownedNodes[x] /\ base'[x] = base[x]
                                      /\ nodes'[x] = nodes[x]
    BY <1>1, <2>1 DEF MapTypes
  <2>8. ownedNodes' \in [Instances -> SUBSET Nat] /\ base' \in [Instances -> Nat]
    BY <1>1, <2>1, <2>6 DEF MapTypes
  <2>9. nodes' \in [Instances -> SUBSET Nat]
    BY <1>1, <2>1 DEF MapTypes
  <2>10. MapTypes'
    BY <1>1, <2>1, <2>8, <2>9 DEF MapTypes
  <2>11. EntriesInv'
    BY <2>1, LivesEnd
  <2>12. ASSUME NEW x \in Instances PROVE NodesInv(x)'
    <3>1. CASE x = c
      <4>1. nodes'[c] = IF HostOf(c) \in deleted THEN {} ELSE ownedNodes'[c]
        BY <1>1, <2>7 DEF NodesInv
      <4>2. /\ size[c] # 0 /\ (c \in Plain => life[c] # "ending")
        BY <1>1, <2>1 DEF NodesInv
      <4>3. Swept(size'[c], ownedNodes'[c], base'[c], dd, mm, jj)
        BY <2>1, <2>5, <2>7
      <4>4. life'[c] = "unmapping" /\ size'[c] # 0 /\ HostOf(c)' = HostOf(c) /\ deleted' = deleted
        BY <2>1, <4>2 DEF HostOf
      <4>5. \E d1, m1, j1 : /\ Swept(size'[c], ownedNodes'[c], base'[c], d1, m1, j1)
                            /\ life'[c] = "dead" => j1 = 1
        BY <4>3, <4>4
      <4> QED
        BY <3>1, <4>1, <4>4, <4>5 DEF NodesInv
    <3>2. CASE x # c
      BY <1>1, <2>1, <2>7, <3>2 DEF NodesInv, HostOf
    <3> QED
      BY <3>1, <3>2
  <2> QED
    BY <2>10, <2>11, <2>12 DEF MapInv
<1>4. CASE UnmapCrashes(c)
  BY <1>4, NothingMapped DEF UnmapCrashes, Crash
<1>5. CASE EndUnmap(c)
  <2>1. /\ life[c] = "unmapping" /\ base[c] = BeginOf(ownedNodes[c])
        /\ life' = [life EXCEPT ![c] = "dead"]
        /\ UNCHANGED <<setup, size, objectId, ownedNodes, base, nodes, table, deleted>>
    BY <1>5 DEF EndUnmap
  <2>2. life' \in [Instances -> Lives] /\ life'[c] = "dead"
        /\ \A x \in Instances \ {c} : life'[x] = life[x]
    BY <1>1, <2>1 DEF MapTypes, Lives
  <2>3. EntriesInv'
    BY <2>1, <2>2, LivesEnd
  <2>4. MapTypes'
    BY <1>1, <2>1, <2>2 DEF MapTypes
  <2>5. PICK d, m, j : Swept(size[c], ownedNodes[c], base[c], d, m, j)
    BY <1>1, <2>1 DEF NodesInv
  <2>6. j = 1
    BY <1>1, <2>1, <2>5, SweepEndsAt DEF MapTypes
  <2>7. ASSUME NEW x \in Instances PROVE NodesInv(x)'
    <3>1. CASE x = c
      <4>1. /\ nodes[c] = IF HostOf(c) \in deleted THEN {} ELSE ownedNodes[c]
            /\ size[c] # 0
        BY <1>1, <2>1 DEF NodesInv
      <4> QED
        BY <2>1, <2>2, <2>5, <2>6, <3>1, <4>1 DEF NodesInv, HostOf
    <3>2. CASE x # c
      BY <1>1, <2>1, <2>2, <3>2 DEF NodesInv, HostOf
    <3> QED
      BY <3>1, <3>2
  <2> QED
    BY <2>3, <2>4, <2>7 DEF MapInv
<1> QED
  BY <1>2, <1>3, <1>4, <1>5

\* the destructor of the hosting class: deleting the server takes all nodes
LEMMA ServerEnds ==
  ASSUME MapInv, NEW s \in Servers, DestroyServer(s) \/ DeleteServer(s)
  PROVE  MapInv'
<1>1. MapTypes /\ (\A x \in Instances : NodesInv(x)) /\ s \in Instances /\ s \notin Plain
  BY InstancesAssumption DEF MapInv, Instances
<1>2. CASE DestroyServer(s)
  <2>1. /\ life[s] = "alive" /\ life' = [life EXCEPT ![s] = "ending"]
        /\ UNCHANGED <<setup, size, objectId, ownedNodes, base, nodes, table, deleted>>
    BY <1>2 DEF DestroyServer
  <2>2. life' \in [Instances -> Lives] /\ life'[s] = "ending"
        /\ \A x \in Instances \ {s} : life'[x] = life[x]
    BY <1>1, <2>1 DEF MapTypes, Lives
  <2>3. MapTypes' /\ EntriesInv'
    BY <1>1, <2>1, <2>2, LivesEnd DEF MapTypes
  <2>4. ASSUME NEW x \in Instances PROVE NodesInv(x)'
    BY <1>1, <2>1, <2>2 DEF NodesInv, HostOf
  <2> QED
    BY <2>3, <2>4 DEF MapInv
<1>3. CASE DeleteServer(s)
  <2>1. /\ life[s] = "ending" /\ life' = [life EXCEPT ![s] = "unmapping"]
        /\ deleted' = deleted \cup {s}
        /\ nodes' = [c \in Instances |-> IF HostOf(c) = s THEN {} ELSE nodes[c]]
        /\ UNCHANGED <<setup, size, objectId, ownedNodes, base, table>>
    BY <1>3 DEF DeleteServer
  <2>2. life' \in [Instances -> Lives] /\ life'[s] = "unmapping"
        /\ \A x \in Instances \ {s} : life'[x] = life[x]
    BY <1>1, <2>1 DEF MapTypes, Lives
  <2>3. EntriesInv'
    BY <2>1, <2>2, LivesEnd
  <2>4. nodes' \in [Instances -> SUBSET Nat] /\ deleted' \subseteq Servers
    BY <1>1, <2>1 DEF MapTypes
  <2>5. MapTypes'
    BY <1>1, <2>1, <2>2, <2>4 DEF MapTypes
  <2>6. ASSUME NEW x \in Instances PROVE NodesInv(x)'
    <3>1. nodes'[x] = IF HostOf(x)' \in deleted' THEN {} ELSE ownedNodes'[x]
      BY <1>1, <2>1 DEF NodesInv, HostOf
    <3>2. CASE x = s
      <4>1. \E d, m, j : Swept(size[s], ownedNodes[s], base[s], d, m, j)
        <5>1. /\ size[s] \in Nat \ {0} /\ ownedNodes[s] = 1 .. size[s] /\ base[s] = 0
          BY <1>1, <2>1 DEF NodesInv, MapTypes
        <5> QED
          BY <5>1, SweepBegins
      <4>2. size[s] # 0
        BY <1>1, <2>1 DEF NodesInv
      <4> QED
        BY <1>1, <2>1, <2>2, <3>1, <3>2, <4>1, <4>2 DEF NodesInv
    <3>3. CASE x # s
      BY <1>1, <2>1, <2>2, <3>1, <3>3 DEF NodesInv
    <3> QED
      BY <3>2, <3>3
  <2> QED
    BY <2>3, <2>5, <2>6 DEF MapInv
<1> QED
  BY <1>2, <1>3

LEMMA MapInvariant == Spec => []MapInv
<1>1. Init => MapInv
  <2> SUFFICES ASSUME Init PROVE MapInv
    OBVIOUS
  <2>1. MapTypes
    BY DEF Init, MapTypes, Lives
  <2>2. \A c \in Instances : NodesInv(c)
    BY DEF Init, NodesInv
  <2>3. EntriesInv
    BY DEF Init, EntriesInv, Instances
  <2> QED
    BY <2>1, <2>2, <2>3 DEF MapInv
<1>2. MapInv /\ [Next]_vars => MapInv'
  <2> SUFFICES ASSUME MapInv, [Next]_vars PROVE MapInv'
    OBVIOUS
  <2>1. CASE UNCHANGED vars
    BY <2>1, NothingMapped DEF vars
  <2>2. CASE \E c \in Instances : \/ Construct(c) \/ DestroyPlain(c) \/ UnmapNode(c)
                                  \/ UnmapCrashes(c) \/ EndUnmap(c)
    BY <2>2, ConstructStep, UnmapSteps
  <2>3. ASSUME NEW s \in Servers,
               \/ DoStart(s) \/ StopClear(s) \/ StopJoin(s) \/ DestroyServer(s) \/ DeleteServer(s)
               \/ \E t \in DOMAIN serverThreads[s] : Worker(s, t) \/ ServerThread(s, t)
        PROVE  MapInv'
    <3>1. CASE DestroyServer(s) \/ DeleteServer(s)
      BY <3>1, ServerEnds
    <3>2. CASE ~(DestroyServer(s) \/ DeleteServer(s))
      BY <2>3, <3>2, NothingMapped
        DEF DoStart, StopClear, StopJoin, Worker, WorkerTest, WorkerLook, WorkerClear,
            ServerThread, ServerTest, Serve, ServeCrashes, Crash
    <3> QED
      BY <3>1, <3>2
  <2> QED
    BY <2>1, <2>2, <2>3 DEF Next
<1> QED
  BY <1>1, <1>2, PTL DEF Spec

(* Every variable stays within its type: in particular what the unmapping   *)
(* takes out of the list it has, and its iterator stands in the list.       *)
THEOREM ClassTypeCorrect == Spec => []TypeOK
<1>1. MapInv /\ ThreadsInv => TypeOK
  <2> SUFFICES ASSUME MapInv, ThreadsInv PROVE TypeOK
    OBVIOUS
  <2>1. ASSUME NEW c \in Instances
        PROVE  /\ ownedNodes[c] \subseteq 1 .. size[c] /\ nodes[c] \subseteq 1 .. size[c]
               /\ base[c] \in {0} \cup 1 .. size[c]
    <3>1. size[c] \in Nat /\ NodesInv(c) /\ life[c] \in Lives
      BY DEF MapInv, MapTypes
    <3>2. ownedNodes[c] \subseteq 1 .. size[c] /\ base[c] \in 0 .. size[c]
      <4>1. CASE life[c] \in {"unmapping", "dead"}
        BY <3>1, <4>1, SweptBounds DEF NodesInv
      <4>2. CASE life[c] \notin {"unmapping", "dead"}
        BY <3>1, <4>2 DEF NodesInv, Lives
      <4> QED
        BY <4>1, <4>2
    <3> QED
      BY <3>1, <3>2 DEF NodesInv
  <2>2. ASSUME NEW s \in Servers, NEW t \in DOMAIN worker[s]
        PROVE  worker[s][t] \in WorkerStates /\ serverThreads[s][t] \in ServerStates
    BY <2>2 DEF ThreadsInv, ThreadsTypeOK
  <2>3. ASSUME NEW s \in Servers
        PROVE  /\ thread_run[s] \in BOOLEAN /\ runUAServer[s] \in BOOLEAN
               /\ pc[s] \in {"idle", "join"} /\ Len(worker[s]) = Len(serverThreads[s])
    BY DEF ThreadsInv, ThreadsTypeOK
  <2>4. \A c \in Instances : life[c] \in Lives
    BY DEF MapInv, MapTypes
  <2> QED
    BY <2>1, <2>2, <2>3, <2>4 DEF TypeOK, Lives, WorkerStates, ServerStates
<1> QED
  BY <1>1, MapInvariant, ThreadsInvariant, PTL

(* ua_unmapSelfFromNamespace of an object with any number n of nodes leaves *)
(* the odd multiples of the power of two in n + 1 on the server: all the    *)
(* odd-numbered ones if n is even, and nothing only if n + 1 is such a      *)
(* power.                                                                   *)
THEOREM UnmappingLeavesOddMultiples == Spec => []LeftoversExactly
<1>1. MapInv => LeftoversExactly
  <2> SUFFICES ASSUME MapInv, NEW c \in Instances, life[c] = "dead", HostOf(c) \notin deleted
               PROVE  \E d, o \in 1 .. size[c] + 1 :
                        /\ size[c] + 1 = o * d /\ o % 2 = 1 /\ PowerOfTwo(d)
                        /\ nodes[c] = {x * d : x \in {y \in 1 .. o - 1 : y % 2 = 1}}
    BY DEF LeftoversExactly
  <2>1. NodesInv(c) /\ size[c] \in Nat
    BY DEF MapInv, MapTypes
  <2>2. PICK d, m : Swept(size[c], ownedNodes[c], base[c], d, m, 1)
    BY <2>1 DEF NodesInv
  <2>3. /\ d \in Nat \ {0} /\ m \in Nat /\ (m + 1) * d = size[c] + 1 /\ m % 2 = 0
        /\ PowerOfTwo(d) /\ ownedNodes[c] = Multiples(Kept(1, m), d)
    BY <2>2 DEF Swept
  <2>4. d \in 1 .. size[c] + 1 /\ m + 1 \in 1 .. size[c] + 1
    <3>1. (m + 1) * d = m * d + d /\ m * d \in Nat /\ (m + 1) * d = (m + 1) * (d - 1) + (m + 1)
          /\ (m + 1) * (d - 1) \in Nat
      BY <2>3
    <3> QED
      BY <2>1, <2>3, <3>1
  <2>5. Kept(1, m) = {y \in 1 .. (m + 1) - 1 : y % 2 = 1}
    BY <2>3 DEF Kept
  <2>6. nodes[c] = {x * d : x \in {y \in 1 .. (m + 1) - 1 : y % 2 = 1}}
    BY <2>1, <2>3, <2>5 DEF NodesInv, Multiples
  <2>7. (m + 1) % 2 = 1
    BY <2>3
  <2> QED
    BY <2>3, <2>4, <2>6, <2>7
<1> QED
  BY <1>1, MapInvariant, PTL

(* Calls of the method of a living instance reach an instance, and never    *)
(* another living one of the same server.                                  *)
THEOREM CallsNotMixedUp == Spec => []NoMixUpOnServer
<1>1. MapInv => NoMixUpOnServer
  <2> SUFFICES ASSUME MapInv, NEW c \in Plain, life[c] = "alive"
               PROVE  LET d == Reached(objectId[c])
                      IN d \in Plain /\ (Host[d] = Host[c] /\ life[d] = "alive" => d = c)
    BY DEF NoMixUpOnServer
  <2> DEFINE id == objectId[c]
  <2>1. EntriesInv
    BY DEF MapInv
  <2>2. table \in Seq(Entry) /\ \E i \in 1 .. Len(table) : table[i].instance = c /\ table[i].object = id
    BY <2>1 DEF EntriesInv
  <2>3. DOMAIN table = 1 .. Len(table) /\ Entries(id) # {} /\ Entries(id) \in SUBSET Nat
    BY <2>2 DEF Entries
  <2> HIDE DEF id
  <2>4. \E i \in Entries(id) : \A j \in Entries(id) : i <= j
    BY <2>3, LeastExists
  <2>5. PICK i \in Entries(id) : Reached(id) = table[i].instance
    BY <2>3, <2>4 DEF Reached
  <2> DEFINE d == table[i].instance
  <2>6. i \in 1 .. Len(table) /\ table[i].object = id /\ table[i] \in Entry
    BY <2>2, <2>3 DEF Entries
  <2>7. d \in Plain /\ objectId[d] = objectId[c]
    BY <2>1, <2>6 DEF Entry, EntriesInv, id
  <2> HIDE DEF d
  <2>8. d # c => ~(Host[d] = Host[c] /\ life[d] = "alive")
    BY <2>1, <2>7 DEF EntriesInv
  <2> QED
    BY <2>5, <2>7, <2>8 DEF d, id
<1> QED
  BY <1>1, MapInvariant, PTL
=============================================================================
