--------------------------- MODULE GeneratedClass ----------------------------
(***************************************************************************)
(* Generated classes at run time, in the threaded build: instances that    *)
(* map themselves onto a server and unmap themselves again                 *)
(* (ua_mapped_class, ua_proxies), and the hosting class that also runs the *)
(* server in a thread of its own (the worker the generator writes, on top  *)
(* of ipc_managed_object).                                                 *)
(*                                                                         *)
(* Each instance has one thread that constructs, starts, stops and         *)
(* destroys it.  An instance that is not a server is of a class with one   *)
(* method and hence one static lookup table.  The nodes of an instance are *)
(* numbered as ownedNodes lists them.  The server is open62541, external:  *)
(* it reports children before their parent, so the last node is the object *)
(* itself, and gives it an id that no object of the same server has.       *)
(***************************************************************************)
EXTENDS Integers, Sequences, FiniteSets

CONSTANTS
  Servers,     \* the instances of the hosting class, each with its server
  Plain,       \* the other instances
  Host,        \* the server each of these is constructed with
  ObjectIds,   \* the ids a server gives to their objects
  Setups       \* the programs to check: for each instance how many nodes it may
               \* have (none: there is no such instance), for each server the
               \* bound on its starts

Instances == Servers \cup Plain
HostOf(c) == IF c \in Servers THEN c ELSE Host[c]

ASSUME InstancesAssumption ==
  /\ Servers \cap Plain = {} /\ Host \in [Plain -> Servers]
  /\ \A x \in Setups :
       /\ x.starts \in [Servers -> Nat]
       /\ DOMAIN x.sizes = Instances /\ \A c \in Instances : x.sizes[c] \subseteq Nat \ {0}

VARIABLES
  setup,          \* the program
  life,           \* where each instance is between construction and its end
  size,           \* how many nodes it had
  objectId,       \* the id of its object
  ownedNodes,     \* the nodes in its list
  base,           \* the base of the iterator of the unmapping, 0 for end()
  nodes,          \* its nodes that the server has
  table,          \* the lookup table of the method, in order of registration
  deleted,        \* the servers deleted
  thread_run, runUAServer,
  worker,         \* per start of a server, its worker thread
  serverThreads,  \* and its thread in UA_Server_run
  pc,             \* where a start or stop is
  crashed         \* the process is gone

mapVars == <<setup, life, size, objectId, ownedNodes, base, nodes, table, deleted>>
threadVars == <<thread_run, runUAServer, worker, serverThreads, pc>>
vars == <<mapVars, threadVars, crashed>>

Init ==
  /\ setup \in Setups
  /\ life = [c \in Instances |-> "unborn"]
  /\ size = [c \in Instances |-> 0] /\ objectId = [c \in Instances |-> 0]
  /\ ownedNodes = [c \in Instances |-> {}] /\ base = [c \in Instances |-> 0]
  /\ nodes = [c \in Instances |-> {}]
  /\ table = <<>> /\ deleted = {}
  /\ thread_run = [s \in Servers |-> FALSE] /\ runUAServer = [s \in Servers |-> FALSE]
  /\ worker = [s \in Servers |-> <<>>] /\ serverThreads = [s \in Servers |-> <<>>]
  /\ pc = [s \in Servers |-> "idle"]
  /\ crashed = FALSE

Crash == crashed' = TRUE /\ UNCHANGED <<mapVars, threadVars>>

-----------------------------------------------------------------------------
(* Construction: mapSelfToNamespace with the instantiation callback,       *)
(* ua_mapFunctions and ua_mapDataSources.                                  *)

\* the server still has the object of d
HasObject(d) == size[d] \in nodes[d]

\* the object of a hosting class keeps its id to itself, here 0
FreeIds(c) ==
  IF c \in Servers THEN {0}
  ELSE ObjectIds \ {objectId[d] : d \in {x \in Plain : Host[x] = Host[c] /\ HasObject(x)}}

\* ua_mapFunctions: the entry of an instance for its object
RegisterEarly(c, id) == Append(table, [instance |-> c, object |-> objectId[c]])   \* mutant
Register(c, id) == Append(table, [instance |-> c, object |-> id])

Construct(c) ==
  /\ life[c] = "unborn"
  /\ c \in Plain => life[Host[c]] = "alive"
  /\ \E n \in setup.sizes[c], id \in FreeIds(c) :
       /\ size' = [size EXCEPT ![c] = n]
       /\ objectId' = [objectId EXCEPT ![c] = id]
       /\ ownedNodes' = [ownedNodes EXCEPT ![c] = 1 .. n]
       /\ nodes' = [nodes EXCEPT ![c] = 1 .. n]
       /\ table' = IF c \in Plain THEN Register(c, id) ELSE table
  /\ life' = [life EXCEPT ![c] = "alive"]
  /\ UNCHANGED <<setup, base, deleted, threadVars, crashed>>

\* UA_CALLPROXY: the instance a call of the method of an object is passed to;
\* a call of an object that is not in the table has no effect
Nobody == "nobody"
Entries(id) == {i \in DOMAIN table : table[i].object = id}
Reached(id) ==
  IF Entries(id) = {} THEN Nobody
  ELSE table[CHOOSE i \in Entries(id) : \A j \in Entries(id) : i <= j].instance

-----------------------------------------------------------------------------
(* Destruction of the base class: ua_unmapSelfFromNamespace.  A            *)
(* reverse_iterator whose base is b denotes the element before b; removal  *)
(* leaves the base alone, and the next one is the base's predecessor in    *)
(* what is left of the list.  The list of libstdc++ is circular: before    *)
(* its first element comes end(), before end() its last.                   *)

Before(list, b) ==
  LET lower == {p \in list : b = 0 \/ p < b}
  IN IF lower = {} THEN 0 ELSE CHOOSE p \in lower : \A q \in lower : q <= p

BeginOf(list) ==
  IF list = {} THEN 0 ELSE CHOOSE p \in list : \A q \in list : p <= q

\* the iterator that ++i leads to once node p is gone
OnePass(list, p, b) ==                                           \* mutant
  LET q == Before(list \ {p}, b) IN IF q = 0 THEN BeginOf(list \ {p}) ELSE q
BeforeBase(list, p, b) == b - 1                                  \* mutant
NextBase(list, p, b) == Before(list \ {p}, b)

DestroyPlain(c) ==
  /\ c \in Plain /\ life[c] = "alive"
  /\ life' = [life EXCEPT ![c] = "unmapping"]
  /\ UNCHANGED <<setup, size, objectId, ownedNodes, base, nodes, table, deleted,
                 threadVars, crashed>>

\* UA_Server_deleteNode of a deleted server may crash
UnmapNode(c) ==
  /\ life[c] = "unmapping" /\ base[c] # BeginOf(ownedNodes[c])
  /\ LET p == Before(ownedNodes[c], base[c])
     IN /\ nodes' = IF HostOf(c) \in deleted THEN nodes ELSE [nodes EXCEPT ![c] = @ \ {p}]
        /\ ownedNodes' = [ownedNodes EXCEPT ![c] = @ \ {p}]
        /\ base' = [base EXCEPT ![c] = NextBase(ownedNodes[c], p, @)]
  /\ UNCHANGED <<setup, life, size, objectId, table, deleted, threadVars, crashed>>

UnmapCrashes(c) ==
  /\ life[c] = "unmapping" /\ base[c] # BeginOf(ownedNodes[c])
  /\ HostOf(c) \in deleted
  /\ Crash

EndUnmap(c) ==
  /\ life[c] = "unmapping" /\ base[c] = BeginOf(ownedNodes[c])
  /\ life' = [life EXCEPT ![c] = "dead"]
  /\ UNCHANGED <<setup, size, objectId, ownedNodes, base, nodes, table, deleted,
                 threadVars, crashed>>

-----------------------------------------------------------------------------
(* The hosting class.                                                      *)

\* doStart with workerThread_setup; the worker before it has been joined
DoStart(s) ==
  /\ life[s] = "alive" /\ pc[s] = "idle" /\ ~thread_run[s]
  /\ Len(serverThreads[s]) < setup.starts[s]
  /\ thread_run' = [thread_run EXCEPT ![s] = TRUE]
  /\ runUAServer' = [runUAServer EXCEPT ![s] = TRUE]
  /\ serverThreads' = [serverThreads EXCEPT ![s] = Append(@, "test")]
  /\ worker' = [worker EXCEPT ![s] = Append(@, "test")]
  /\ UNCHANGED <<mapVars, pc, crashed>>

\* doStop; the destructor calls it of a running object only
StopClear(s) ==
  /\ life[s] = "alive" /\ pc[s] = "idle" /\ serverThreads[s] # <<>>
  /\ thread_run' = [thread_run EXCEPT ![s] = FALSE]
  /\ pc' = [pc EXCEPT ![s] = "join"]
  /\ UNCHANGED <<mapVars, runUAServer, worker, serverThreads, crashed>>

NoJoin(s) == TRUE                                                \* mutant
WorkerEnded(s) == worker[s][Len(worker[s])] = "ended"

StopJoin(s) ==
  /\ pc[s] = "join" /\ WorkerEnded(s)
  /\ pc' = [pc EXCEPT ![s] = "idle"]
  /\ UNCHANGED <<mapVars, thread_run, runUAServer, worker, serverThreads, crashed>>

DestroyServer(s) ==
  /\ life[s] = "alive" /\ pc[s] = "idle"
  /\ life' = [life EXCEPT ![s] = "ending"]
  /\ thread_run' = [thread_run EXCEPT ![s] = FALSE]
  /\ pc' = [pc EXCEPT ![s] = IF thread_run[s] THEN "join" ELSE "idle"]
  /\ UNCHANGED <<setup, size, objectId, ownedNodes, base, nodes, table, deleted,
                 runUAServer, worker, serverThreads, crashed>>

\* UA_Server_delete; the destructor of the base class comes next
DeleteServer(s) ==
  /\ life[s] = "ending" /\ pc[s] = "idle"
  /\ deleted' = deleted \cup {s}
  /\ nodes' = [c \in Instances |-> IF HostOf(c) = s THEN {} ELSE nodes[c]]
  /\ life' = [life EXCEPT ![s] = "unmapping"]
  /\ UNCHANGED <<setup, size, objectId, ownedNodes, base, table, threadVars, crashed>>

\* the worker's loop, and workerThread_iterate in it
Move(s, t, from, to) ==
  worker[s][t] = from /\ worker' = [worker EXCEPT ![s][t] = to]

WorkerTest(s, t) ==
  /\ Move(s, t, "test", IF thread_run[s] THEN "look" ELSE "ended")
  /\ UNCHANGED <<mapVars, thread_run, runUAServer, serverThreads, pc, crashed>>

WorkerLook(s, t) ==
  /\ Move(s, t, "look", IF thread_run[s] THEN "test" ELSE "clear")
  /\ UNCHANGED <<mapVars, thread_run, runUAServer, serverThreads, pc, crashed>>

WorkerCompare(s, t) ==                                           \* mutant
  /\ Move(s, t, "clear", "test")
  /\ UNCHANGED <<mapVars, thread_run, runUAServer, serverThreads, pc, crashed>>
WorkerClear(s, t) ==
  /\ Move(s, t, "clear", "test")
  /\ runUAServer' = [runUAServer EXCEPT ![s] = FALSE]
  /\ UNCHANGED <<mapVars, thread_run, serverThreads, pc, crashed>>

\* UA_Server_run: the flag it is given is a member of the instance, and after
\* the end of that anything may be read there
ServerTest(s, t) ==
  /\ serverThreads[s][t] = "test"
  /\ \E on \in BOOLEAN :
       /\ life[s] # "dead" => on = runUAServer[s]
       /\ serverThreads' = [serverThreads EXCEPT ![s][t] = IF on THEN "serve" ELSE "ended"]
  /\ UNCHANGED <<mapVars, thread_run, runUAServer, worker, pc, crashed>>

Serve(s, t) ==
  /\ serverThreads[s][t] = "serve"
  /\ serverThreads' = [serverThreads EXCEPT ![s][t] = "test"]
  /\ UNCHANGED <<mapVars, thread_run, runUAServer, worker, pc, crashed>>

ServeCrashes(s, t) == serverThreads[s][t] = "serve" /\ s \in deleted /\ Crash

-----------------------------------------------------------------------------
Worker(s, t) == WorkerTest(s, t) \/ WorkerLook(s, t) \/ WorkerClear(s, t)
ServerThread(s, t) == ServerTest(s, t) \/ Serve(s, t) \/ ServeCrashes(s, t)

Next ==
  /\ ~crashed
  /\ \/ \E c \in Instances :
          Construct(c) \/ DestroyPlain(c) \/ UnmapNode(c) \/ UnmapCrashes(c) \/ EndUnmap(c)
     \/ \E s \in Servers :
          \/ DoStart(s) \/ StopClear(s) \/ StopJoin(s) \/ DestroyServer(s) \/ DeleteServer(s)
          \/ \E t \in DOMAIN serverThreads[s] : Worker(s, t) \/ ServerThread(s, t)

\* threads that can run do run; nobody has to start, stop or destroy anything
Fairness ==
  \A s \in Servers : \A t \in UNION {1 .. x.starts[s] : x \in Setups} :
    /\ WF_vars(~crashed /\ t \in DOMAIN worker[s] /\ Worker(s, t))
    /\ WF_vars(~crashed /\ t \in DOMAIN serverThreads[s] /\ ServerThread(s, t))

Spec == Init /\ [][Next]_vars /\ Fairness

-----------------------------------------------------------------------------
TypeOK ==
  /\ \A c \in Instances :
       /\ life[c] \in {"unborn", "alive", "ending", "unmapping", "dead"}
       /\ ownedNodes[c] \subseteq 1 .. size[c] /\ nodes[c] \subseteq 1 .. size[c]
       /\ base[c] \in {0} \cup 1 .. size[c]
  /\ \A s \in Servers :
       /\ thread_run[s] \in BOOLEAN /\ runUAServer[s] \in BOOLEAN
       /\ pc[s] \in {"idle", "join"} /\ Len(worker[s]) = Len(serverThreads[s])
       /\ \A t \in DOMAIN worker[s] :
            /\ worker[s][t] \in {"test", "look", "clear", "ended"}
            /\ serverThreads[s][t] \in {"test", "serve", "ended"}

\* no odd number but 1 divides a power of two
PowerOfTwo(d) == \A o, q \in 1 .. d : d = o * q /\ o % 2 = 1 => o = 1

(* What ~ua_mapped_class reports when ua_unmapSelfFromNamespace is through, *)
(* "unmapped": a destroyed instance has no node on its server any more.    *)
(* It is not so: removal under the reverse iterator passes over nodes.     *)
UnmappedLeavesNothing ==
  \A c \in Instances : life[c] = "dead" /\ HostOf(c) \notin deleted => nodes[c] = {}

(* How far that fails: the passes over every second node, which begin again *)
(* at the end of the list after an odd number, leave of n nodes no others  *)
(* than the odd multiples of the power of two in n + 1, and hence none if  *)
(* n + 1 is such a power.  The data sources of those left behind have the  *)
(* destroyed instance as their handle.                                     *)
LeftoversExactly ==
  \A c \in Instances : life[c] = "dead" /\ HostOf(c) \notin deleted =>
    \E d, o \in 1 .. size[c] + 1 :
      /\ size[c] + 1 = o * d /\ o % 2 = 1 /\ PowerOfTwo(d)
      /\ nodes[c] = {x * d : x \in {y \in 1 .. o - 1 : y % 2 = 1}}

(* The lookup table stores the server of an entry because there "might     *)
(* [be] multiple servers with the same object/methodId" (ua_proxies.h): a  *)
(* call of the method of a living instance is passed to an instance of the *)
(* server it came to.  It is not so: UA_CALLPROXY compares object ids only.*)
CallsStayOnServer ==
  \A c \in Plain : life[c] = "alive" =>
    LET d == Reached(objectId[c]) IN d \in Plain => Host[d] = Host[c]

(* What remains true: the call is passed to some instance, and on its own  *)
(* server it never reaches another living one, though ids are given again  *)
(* to new objects, entries are never removed, and the objects of destroyed *)
(* instances may be left behind.                                           *)
NoMixUpOnServer ==
  \A c \in Plain : life[c] = "alive" =>
    LET d == Reached(objectId[c])
    IN d \in Plain /\ (Host[d] = Host[c] /\ life[d] = "alive" => d = c)

Serving(s) == {t \in DOMAIN serverThreads[s] : serverThreads[s][t] # "ended"}

(* A started server is served: the worker's late look at the flag an       *)
(* earlier stop cleared does not end the thread a restart made.            *)
ServedWhileRunning ==
  \A s \in Servers : thread_run[s] => runUAServer[s] /\ Serving(s) # {}

(* A stop that the worker sees inside an iteration ends all threads of the *)
(* server, those an earlier stop missed included, unless the object is     *)
(* started again or destroyed first.  (A stop that comes between two       *)
(* iterations, and most do, ends none.)                                    *)
SeenStopEndsServer ==
  \A s \in Servers :
    (\E t \in DOMAIN worker[s] : worker[s][t] = "clear") ~>
      (Serving(s) = {} \/ thread_run[s] \/ life[s] # "alive" \/ crashed)
=============================================================================
