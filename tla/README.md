# TLA+ models of UAUtilityClasses

This directory specifies the utility classes for open62541 servers and clients:
the thread and task manager, the UDP beacon, the mapping and proxy classes and
the class generator. It holds TLA+ modules translated from the source, TLC
configurations that check them on small instances, and TLAPS proofs of what can
be proved for every instance. Paths are relative to the repository's root.

## 1. Inventory

| Part | State | Operations | What is hard | What makes it correct |
|---|---|---|---|---|
| `ipc_managed_object` (`src/ipc_managed_object.cpp`) | `thread_run`, `threadTask`, `mtx_threadOperations` | `doStart`, `doStop`, the worker's loop | the flag is read and written by several threads without a lock; `doStop` does not take the mutex `doStart` takes; a worker may end itself or throw | one worker at most, and it is the one the handle denotes; a stop leaves nothing running; calls return |
| `ipc_manager`, `ipc_task` (`src/ipc_manager.cpp`, `src/ipc_task.cpp`) | `objects`, `taskList`, `nxtId`, `mtx_processEvent`, `lock`, its own worker, the kicker | `addObject`, `addTask`, `deleteObject`, `startAll`, `stopAll`, the sweep, `iterate` (single-threaded) | a condition wait without predicate, notifications that get lost, a removal under a reverse iterator, unlocked walks, a lock taken by one thread for another | unique ids, exclusive lists, nothing freed that runs, every completed task reaped, every ended task restarted, stop returns |
| `udp_beacon` (`src/udp_beacon.cpp`) | `knownPeers`, per peer `lastSeen` and `state`, two sockets, four callbacks | broadcast, receive and register, `checkHosts` | a receiver thread that shares the list without a lock, an uninitialised time, a stale `errno`, sockets that restarts leave open | a peer is listed once, the application's picture follows the beacon's, silent peers are found down |
| `ua_mapped_class` (`src/ua_mapped_class.cpp`) | the server, the list `ownedNodes` | construction, `ua_unmapSelfFromNamespace` | removal while iterating in reverse; the server may be deleted first | what exactly an instance leaves behind |
| `ua_proxies` (`src/ua_proxies.cpp`, `include/ua_proxies_callback.h`) | one static table per method, shared by all servers | mapping of methods and data sources, dispatch of a call | dispatch by object id alone, entries that are never removed | a call reaches the instance it names, and when it cannot |
| `ua_remoteinstance_map` (`src/ua_remoteinstance_map.cpp`) | the mapped copy of a remote namespace | recursive browse, search | cyclic references, a depth limit | terminates, respects the limit |
| Generator: XML preprocessor (`XMLPreprocessor.py`) | per document its nodes, references and URIs | analyse, assign indices, link, guess, write | in-place substitution of indices, indices that clash, guesses | nodes of different models stay apart, references keep their meaning, namespace 0 is left alone |
| Generator: namespace (`ua_namespace.py`, `ua_node_types.py`) | the nodes, their ids, references and inverse references, pointers to be linked, aliases | parse, blacklist, link, invert, sanitize, encoding rules, values | nodes defined twice, dangling and symbolic references, four passes over a graph that each changes, recursion over cyclic types | one node per id, both ends of a link agree, encodable means traceable, values complete exactly if well-formed |
| Generator: pipeline and printers (`generate_cppClasses.py`, `cppClass_generator.py`, `cppfile_generator.py`, `headerfile_generator.py`, `toolBox_generator.py`) | the lists of the command line, the files in the output directory | the order of the steps, members of types, writing files | recursion over cyclic types, names that coincide, files that were edited | exactly the members of the model, edited files untouched, no failure without a cause |
| Generated server class (text in `cppfile_generator.py`) | `runUAServer`, `serverThread`, the worker | start, iterate, stop, destroy | a flag shared by worker and server thread, stops that no iteration sees, restarts | a started server is served, a seen stop ends it |
| Logging, build scripts, information models | - | - | output | not modelled, section 7 |

The parts meet as follows. Every worker of the program is an
`ipc_managed_object`; the `ipc_manager` is one itself and keeps the others.
`addObject` and `addTask` start what they register; the manager's worker reaps
completed tasks and restarts ended ones whenever the kicker or a registration
notifies it. The beacon and the generated servers are managed objects with
workers of their own (and, for the beacon, a second thread nobody joins). With
`DISABLE_THREADING` there are no threads: the main loop calls
`ipc_manager::iterate`, which calls each object's `workerThread_iterate`. The
generated classes use `ua_mapped_class` and `ua_proxies` to bind methods
and variables, and may host the server; clients use `ua_remoteinstance_map`. The generator runs at build
time and shares only files with the rest.

There is no test suite: the comments, the README, the messages and the template
`src/ua_template.cpp` are what the code says of itself.

## 2. Plan

| Order | Module(s) | Of | State |
|---|---|---|---|
| 1 | `Lifecycle`, `ManagedObject`, `ManagedObjectProofs` | one managed object, threaded | done, proved |
| 2 | `Registry`, `IpcManager`, `MCIpcManager`, `IpcManagerProofs` | the manager, its worker, kicker, clients, tasks | done, safety proved |
| 3 | `UdpBeacon`, `UdpBeaconProofs` | the beacon, both builds | done, safety proved |
| 4 | `XMLPreprocessor`, `MCXMLPreprocessor`, `XMLPreprocessorProofs` | the generator's first stage | done, safety proved |
| 5 | `Namespace`, `NamespaceProofs` | parse, blacklist, link, invert, sanitize | done, proved |
| 6 | `DataTypes`, `Values` | encoding rules and values | done, rules proved in `ClassFilesProofs` |
| 7 | `ClassFiles`, `ClassGenerator`, `MCClassGenerator`, `ClassFilesProofs` | members and files; the program, which composes 5 to 7 | done, proved |
| 8 | `GeneratedClass`, `MCGeneratedClass`, `GeneratedClassProofs` | generated classes at run time: instances, method calls, the server's threads | done, safety proved |
| - | `Lists`, `ListProofs` | filtering a list; used by 2, 4, 5 and 7, the facts about lists also by 3 and 8 | done, proved |

`IpcManager` composes with `ManagedObject` through what the latter shows: with
starts and stops of one object apart, `doStart` is atomic to its callers, and so
it is one step of `IpcManager`. `DataTypes` extends `Namespace`, and both `Values` and
`ClassFiles` extend `DataTypes`; `ClassGenerator` joins the actions of all four to the run of the
program. The theorems are about `FilesSpec`, in which the allocation of values is a pass that
leaves graph, encoding rules and files alone and may fail (`PassNode`, `EndPass`, `PassFails`): every
action of `Values` is one of these three as far as the variables of `ClassFiles` go, which the
reader sees from the definitions. `FilesRefineNamespace`, a theorem, says that `FilesSpec`
implements `NamespaceSpec`. `GeneratedClass` takes up where the generator ends: the classes it wrote.

## 3. The modules

**`Lists`** - taking elements out of a list in order: `Those` keeps the ones in a set,
`Without` is `std::list::remove` and `list.remove`. They are recursive functions over sets, not
operators with a condition, so that `ListProofs` can prove what they keep and in which order.

**`ManagedObject`** - one object and the threads that call it, statement by
statement. `StartLock` ... `StartUnlock` are the lines of `doStart`, `StopClear`,
`StopTest`, `StopJoin`, `StopReturn` those of `doStop`, `WorkerTest`,
`WorkerIterate`, `WorkerThrow` the loop of `ipc_managed_object_callWorker` and
its catch-all. `worker` holds all threads ever created, `threadTask` the one the
handle denotes: a second `doStart` overwrites the handle and leaks the first.
`Overlap` says whether a `doStart` may run while `doStop` does, `SelfEnding`
whether an iteration may clear `thread_run`; both FALSE is the discipline under
which the class keeps its promise. Only one thread, the `Owner`, stops, and only
what was started: joining one `std::thread` twice, or through a null pointer, is
undefined.

**`Lifecycle`** - what the class promises: a request, one worker, an end; no new
worker before the old one is gone.

**`IpcManager`** - the manager of the threaded build. `AddLock`, `AddFetch`,
`AddStore`, `AddStart`, `AddReturn` are `addObject` and `addTask`; `WTest` ...
`SweepEnd` the worker, with `base` the base of the `reverse_iterator` (so that
`*i` is the element before it); `Kick` the kicker; `CallDoStart`, `SetupLock`,
`SetupSpawn` the manager's own `doStart`, which takes `mtx_processEvent` in the
calling thread for a worker not yet born; `CallStopAll` ... `StopJoin` are
`stopAll`; `CallDelete` is `deleteObject`. `taskList.remove` takes out every
occurrence, the element under the iterator included; libstdc++ leaves the base
node alone, so the sweep goes on at the predecessor's predecessor and, from the
head, wraps to the end of the list. Items' workers are counted: `cur` where the
handle's thread lives, `old` for threads whose handle was overwritten.

**`Registry`** - what the manager promises of what is registered: once, under a
fresh id, leaving only when it may.

**`UdpBeacon`** - the beacon; `build` picks the threaded or the single-threaded
program in `Init`. `CheckUp`, `CheckDecide`, `CheckSet`, `CheckTell` are one round of
`checkHosts`, split where the other thread can come between; `RxTake` ...
`RxReturn` are `workerThread_iterate_rx` and `registerHost`; `Start` is
`workerThread_setup` with the sockets it opens. `told` is the last callback about
a uri. Reads of `state` next to each other are one step (the compiler may load
the plain variable once). Of times only "recent", "past", "future" is kept. In the single-threaded
build `WorkerTest` and `RxReturn` enclose the turn `ipc_manager::iterate` gives the beacon, and
`Slept` is what the sleep at its end leaves in `errno`; `iterating` tells such a turn from the
one `doStop` makes, after which nothing sleeps.

**`MCIpcManager`** gives TLC the symmetry of clients and of tasks. It is used in a run
without liveness only.

**`XMLPreprocessor`** - `preprocessAll`, one action per document or dependency and pass:
`AddDocument`, `Analyze`, `SeparateBase` and `AssignUniqueNsId` (namespace 0 first, then
indices from 2 on in the order of the documents), `ListDependencies`, `ResolveByUri` and
`StochasticMatch`, `Finalize`. `Renumbered` is the substitution in place. `StochasticMatch` raises
whenever it finds a target, since the message that is to show the percentage multiplies a
document by 100 (`XMLPreprocessor.py:360`). An input is a list of
documents; a node or reference is an index and a name, and a reference also says
which model its author meant. That last field is read by the properties only. They are stated for
documents as their authors ought to write them: one namespace per document, called by its own
name (`Orderly`; a base document does not bear another model's), and one index for each
model referred to, which bears the name that model has (`Resolvable`). `Before` is the order in
which a document's indices are substituted, by first use. `Sound` is what preprocessing gets
through, with `Guessed` for the references whose model would have to be guessed.

**`Namespace`** - the graph of nodes from the raw and the preprocessed documents to
sanitation. `heap` holds every node ever created, `nodes` the list, `pointers` the open
and linked references. `CreateNode` is `createNode` with the parsing of the node's type,
`RemoveNodeById` the blacklist loop, `LinkPointer`, `InvertReference`/`InvertNextNode` and
`UpdateInverseReferences` the three loops of `linkOpenPointers`, `Sanitize` a node's
`sanitize`. `NamespaceSpec` leaves to `Elsewhere` what the later steps of the generator do.

**`DataTypes`** - `buildEncodingRules` and the recursion of `buildEncoding`. `calls` is the stack of
calls that have not returned, each with its place in its loop and what it still takes the definition
for; `dataTypes` holds the attributes the code writes as it goes. `BuildEncodingRule` is one turn of
the outer loop and `Call` the beginning of a call. `SkipReference`, `CallSupertype`, `UseSupertype`
and `EndSupertypes` are the loop over the references, `InconsistentField` to `EndFields` the one
over the fields, one action per branch: a turn that calls is done again when the call has
returned, and then finds the rule. Below them, `Traced` says without an order of building which types can be
traced to builtin types, and `Below` what a type is defined by, at any depth.

**`Values`** - `allocateVariables`: `ParseSingleValue` is `__parseXMLSingleValue` case by case,
`Content` what each builtin parser makes of missing, good or bad text. `HasForm` says
what the comments promise, read off the definitions and not the encodings.

**`ClassFiles`** - the classes and their files. `MembersOfType` is `getMembersOfType` with the path it
came along: the code has no such path and overflows the stack where the model
fails. `Collected` is its loop over a node's references and `WithReference` one turn of it.
`GenerateClass` is one turn of `generateAll`; `Written` and `Generated` are the files, reduced to what
decides their text. `PassNode`, `EndPass` and `PassFails` are what the allocation of values does to
the files: it goes through the list, and may fail. `MembersExactly` compares with what is reachable
in the graph: `MadeOf` is one step of it, `Parts` all of them, and `HasFault` says that there is a
cycle or a variable without data type among them.

**`ClassGenerator`** - the whole program: the actions of `Namespace`, `DataTypes`, `Values` and
`ClassFiles` in the order of `generate_cppClasses.py`. The inputs of `MCClassGenerator` form four
families: links, data types, values and classes.

**`GeneratedClass`** - instances of generated classes on their servers. `Construct` maps an
instance, `UnmapNode` is one turn of `ua_unmapSelfFromNamespace` with the base of the reverse
iterator, `Reached` is `UA_CALLPROXY`: entries record the server, but the lookup does not read
it. `DoStart`, `StopClear`, `StopJoin`, `DestroyServer` and
`DeleteServer` are the life of a server class; `Worker` and `ServerThread` its two threads,
of which every start makes new ones. open62541 is external: it deletes nodes, gives
fresh ids and polls the flag. A use of a deleted server may crash the process.

## 4. The runs

| Run | Instance | Shows |
|---|---|---|
| `ManagedObject_disciplined` | 3 threads, 4 starts | with starts and stops apart: `OneWorker`, `StoppedIsQuiet`, `StopReturns`, `ImplementsLifecycle` |
| `ManagedObject_overlap` | 2 threads, 3 starts, everything may overlap | `StartsStillWork` (`StartReturns`, `LeftStoppedEnds`) needs no discipline |
| `ManagedObject_stop_race` | 2 threads, overlap | violated: `StopReturns` |
| `IpcManager_lists` | 2 clients, 1 object, 2 tasks | `UniqueIds`, `AloneWithLists`, the iterator and freed memory (`NothingDangles`), `StoppedForGood`, `ImplementsRegistry` |
| `IpcManager_live` | 1 client, 2 tasks, `Main` starts and stops | `SweepsReap` (`CompletedIsReaped`, `SweepEnds`) although removals skip and wrap; `EndedIsRestarted`; `CallsReturn` (`AddReturns`, `StopAllReturns`) |
| `UdpBeacon_two` | 2 uris, 1 start, both builds | `ApplicationKnows`, `CallbackOrder`, `HearsWhileRunning` |
| `UdpBeacon_restart` | 1 uri, 2 starts, both builds | `UniquePeers`, `DeadIsDown`, `Discovered` |
| `XMLPreprocessor` | 1302 lists of up to 4 documents | `IndicesDistinguish`: nodes apart (`DistinctNodes`) and named right (`NamesMatchIndices`); `ReferencesKeepMeaning`: within a model always (`SelfReferencesFollow`), between models exactly when no author's index is in the way (`LinksKeepMeaning`); it fails on named causes only (`FailsExactly`) |
| `ClassGenerator` | 1976 inputs | `UniqueIds` and `ReferencesAgree` (`NeverBoth`, `TargetsKnowSources`, `BothDirections`, `FalseInverseFromLater`) of the graph; `EncodableExactly`; `ValuesHaveForm`; `FilesFollowModel` (`MembersExactly`, `LastNodeIsGenerated`); `CrashHasCause` |
| `GeneratedClass` | 3 programs | `LeftoversExactly`, `NoMixUpOnServer`, `ServedWhileRunning`, `SeenStopEndsServer` |
| `GeneratedClass_unmap` | the same | violated: `UnmappedLeavesNothing` |
| `GeneratedClass_dispatch` | the same | violated: `CallsStayOnServer` |

A property with names in brackets is the conjunction of these parts, each defined and
commented beside it.

`ClassGenerator` checks deadlock: the generator is a sequential program that goes on until
it is done or fails, where the last state stutters. The preprocessor simply ends,
and `FailsExactly` says how. The other runs do not check it: a program in which
nobody calls anything, or in which the bound on starts or packets is reached, does
stop, and so does a process that crashed.

**Bounds.** Four starts let every thread start the object after a stop and once
more. Two clients and three items are the least for two registrations to
compete with a sweep and for a removal to skip a neighbour (the liveness run has one client and two
tasks: a registration, a sweep and a stop compete, and a removal skips the other task); `IdModulus = 4`
leaves the ids just room, `NextId` being the code's addition. `MaxOld` bounds the workers
a task leaves behind: with 0 a task does not end itself, with 1 it may be
restarted while its old worker still runs. Two uris let a registration append
behind the entry the check is at; one inbox place suffices because packets of
one sender are alike and a full buffer is a lost packet. `Rebinds = FALSE`: a port
that was taken at the first setup stays taken.

The generator is deterministic, so a run is as wide as its inputs. Three models
and the base model, in every order, with every pair of indices from 2 to 4 and
each way of giving URIs, include every swap and every chain of substitutions of
length two; mixed documents give every distribution of three nodes over four
namespaces. A link needs two nodes, each defined, defined twice, blacklisted or
missing; a pass of `linkOpenPointers` looks at two nodes at a time. Two data types that
may refer to each other with one or two fields show every kind of cycle and
order; `D`, `E`, `F` are chains of one to three names. The instances of `GeneratedClass` are
three programs of their own, since their parts do not interact: one instance
with 1 to 15 nodes (15 = 2^4 - 1 is the largest that leaves nothing), three
instances whose objects share two ids on two servers, one server started twice
and stopped and destroyed at any moment.

**Fairness.** Threads that can run do run (WF on the steps of each). A mutex that
is released again and again is had in the end (SF on taking it): its holders
keep it for a call or a sweep and the worker then waits for up to a second.
The kicker's sleep ends. Nothing is assumed of when anybody calls, of tasks
completing, ending or throwing, of packets, nor of spurious wakeups: those are
possible and never needed. `StopAllReturns` needs one more thing, `Prompt`: a thread that is
about to call `wait` gets there within the second `stopAll` sleeps; without it both
notifications and the kicker's last one can be lost. Run `IpcManager_live` assumes it for its
three properties. The preprocessor runs on (WF of its next step). Of `GeneratedClass` the
worker and the server threads run on; nobody has to start, stop, call or destroy.

## 5. What is proved

Proofs hold for any sets of threads, objects, tasks, peers and instances, any documents, any
number of starts and any width of the ids. Except for what the end of this section lists, every
safety property of the passing runs is a theorem.

- `ManagedObjectProofs`: `TypeCorrect`, `AtMostOneWorker`, `QuietAfterStop`, `Refinement` (the
  object implements `Lifecycle`), assuming `~Overlap` and `~SelfEnding`. The inductive
  invariant relates the flag, the mutex, the handle and where every worker is:
  `OneWorker` alone is not inductive, because what forbids a second worker is
  that a cleared flag seen by `doStart` under the mutex means the handle's
  worker was joined, or threw.
- `IpcManagerProofs`: `ListsAreExclusive`, `IdsAreUnique`, `ManagerStopsForGood`. `IInv` says who
  owns `mtx_processEvent` in every control state, with the case that makes it hard:
  between `SetupLock` and `SetupSpawn` the owner is a worker that does not exist.
  From exclusion follows that the id a client has read is still `nxtId` when it
  writes it (`IdInv`), that `nxtId` counts the managed items, and so that ids differ until
  the modulus is reached; and that a stopped manager's lock is gone.
  On top of it, `LInv` is about the lists: `ListsInv` (what is listed is managed, once, and the
  iterator's base stands in the list), `WalkInv` (which walk is under way, over what, and that no client adds meanwhile) and
  `ObjectsInv` (an object has no thread but its handle's, and the ones `stopAll` passed are at
  rest). It gives `ManagerTypeCorrect` and `NothingIsLeftDangling`.
  `ManagerIsRegistry` maps every step to one of `Registry` or a stutter; it assumes fewer items
  than `uint32_t` has values, since from then on ids do repeat.
- `UdpBeaconProofs`: `PeersAreUnique`. `UniquePeers` is not inductive: what keeps a second receiver
  from registering a host is where it can take packets from. `FirstSocket` says that only
  the first receiver ever holds socket 1 - later ones begin when `rxsocket` denotes
  another - and `Registers` that hence no other is past `recvfrom`, and that what the first
  one is about to enter is not in the list. `CInv` adds where the worker can be in its loop
  (`WorkerPlace`) and how `told`, the entries' states and the places of the two threads fit
  together (`Views`): a callback differs from the state by the step a thread is in. From it follow `BeaconTypeCorrect`, `ApplicationIsInformed` and, comparing two successive
  views, `CallbacksFollowLife`. `RunningBeaconHears` adds that a
  running beacon of one thread has EAGAIN in `errno` only from a poll that found nothing to the
  sleep that follows it (`ErrnoInv`).
- `XMLPreprocessorProofs`: `PreprocessorTypeCorrect`, `IndicesTellModelsApart` and `MeaningIsKept`,
  for any lists of documents. `XInv` says what each pass has done so far: `NumberInv` gives the
  nodes of every document by its place in the list, renumbered or not, and `RefsInv` its
  references; after renumbering `SelfInv` says that references to the document
  itself and to the base stay right, because `ForeignInv` keeps these indices from ever being
  substituted again. The two directions of `LinksKeepMeaning` need more, for in between a
  document is neither as its author wrote it nor finished. `OrderInv` states that
  dependencies come in the order of `Before`; `LinkInv` that the references
  of a document are either `Exact` - every index that had its turn stands for the model
  meant, every other is as written, and no clash has come up yet - or `Merged`, when an assigned
  index was written over an author's index that was still to be substituted: then two references to
  different models bear one index, which no later substitution undoes (`MergedStays`). In an `Exact`
  document looking up the name of an index finds the model meant (`UriTarget`). The theorem is
  about indices that bear the name of the model they mean, since no other is ever resolved.
- `NamespaceProofs`: `NamespaceTypeCorrect`, `IdsAreUnique`, `NeverBothWays`,
  `SourcesAreKnown`, `CounterpartsExist`, `FalseInverseOnlyFromLater` and their conjunction
  `ReferencesAlwaysAgree`, for any documents, aliases and blacklist (the only assumption is
  that these are sequences). `IInv` states for each pass how far it is: what the pass promises
  of all nodes holds of those visited (`Inverted`, `Informed`, `Sanitized`), nothing is linked
  before its phase (`Unlinked`), and `Known` ties the list to the dictionary that decides
  whether a node is replaced. The hard case is inversion, which adds references to a node the
  outer loop may still visit.
- `ClassFilesProofs`: `FilesTypeCorrect`, `EncodableAlwaysExact`, `FilesAlwaysFollowModel`,
  `CrashesHaveCause` and `FilesRefineNamespace`, for any documents, blacklist, annotations, ignore
  list and existing files (that a definition is a list of fields, each with or without a value, and that
  an existing file is only known by its mark, are the assumptions). For the files the core is `getMembersOfType`, a recursion over a graph that may be cyclic. As a function of
  paths it exists (`RecursionExists`), because a path that repeats no node is no longer than the list of
  nodes; `PathInduction` goes along such paths from the longest to the shortest. `PartsFacts`
  shows that as many rounds as there are nodes find all that is reachable, and
  `MembersOfTypeFacts` that the recursion fails exactly if the type `HasFault`, and otherwise returns the
  members of everything reachable, each name of a variable or object at least once. The invariant
  `FilesInv` adds to the namespace's `IInv` that the graph classes are written from is the one
  sanitation left (`Cleaned`), that no file is touched before (`Unwritten`), and what the files say
  of the nodes passed so far (`WrittenSofar`): the last node of each class name among them
  decides. For the encodings `TypesInv` adds `Building`, about the stack of calls: every type on it
  is `Below` the ones before it (`CallsOK`); a call has used what its loop has passed (`PartsUsed`);
  a type found not encodable is not in `Traced`; and one that is `Completed` could be traced with the
  completed ones, or is on a cycle. The last case is what makes it inductive: the rule of a type
  whose call has not returned says encodable already, and whoever uses it then has closed a
  cycle. When all calls have returned, suppose an encodable type with no cycle in or below it is not in
  `Traced`: one with the fewest types below it would be traceable by its parts, which have fewer
  (`BuiltFacts`). That sanitation cannot fail, which `CrashHasCause` includes, is `NeverBoth`. By
  `FilesRefineNamespace` all theorems of `NamespaceProofs` hold of `FilesSpec` too.
- `GeneratedClassProofs`: `StartedServersServe`, for any servers, instances, ids and starts: `Joined` says that all workers but the latest have ended, so that
  only it can clear the flag, and `Runs` that it has seen no stop while the server is
  started. `MapInv` is about unmapping: `NodesInv` states that after some rounds
  through the list the nodes left are the multiples of a power of two, but for the odd
  multiples the current round has passed over; and about calls: `EntriesInv` says that every instance has an entry with
  its id, and that living ones of one server have different ids. From it follow `ClassTypeCorrect`,
  `UnmappingLeavesOddMultiples` and `CallsNotMixedUp`.
- `ListProofs`: what `Those` and `Without` return, and the facts about heads, tails, appending and
  least elements the others cite.

Where a proof needs induction over a list, a number or a recursive function, it uses that a set of
numbers that holds 0 (or a lower bound) and with each number the next holds them all
(`SetInduction`, `IntervalInduction`), which follows from the cardinality of finite sets: the library's induction
theorems take operators and cannot be used.

Only model-checked: all liveness, with fairness being beyond the prover
(`StopReturns`, `StartsStillWork`, `SweepsReap`, `EndedIsRestarted`, `CallsReturn`, `DeadIsDown`,
`Discovered`, `FailsExactly`, `SeenStopEndsServer`). Of the safety properties
`ValuesHaveForm`: values and encodings are nested lists, and what parses them is a recursive
operator, as is `HasForm`; tlapm does not support these, so `Values` and `ClassGenerator` hold no theorem.
`UniqueIds`, `ReferencesAgree`, `EncodableExactly`, `FilesFollowModel`, `CrashHasCause` and the `TypeOK`
of `ClassFiles`, which run `ClassGenerator` checks of the program, are proved of `FilesSpec`; that the
program is one of its behaviours but for the values (section 2) is neither proved nor checked.

## 6. What the code does otherwise than it says

- `doStop` clears the flag and joins without the lock `doStart` takes; a start
  in between sets the flag again and the stop waits for a worker nobody
  stops (`ManagedObject_stop_race`; `src/ipc_managed_object.cpp:147`).
- A destroyed instance reports "unmapped" (`src/ua_mapped_class.cpp:57`), but unmapping removes
  every second node only, after an odd number again and again, so that none is left only of
  2^k - 1 nodes (`GeneratedClass_unmap`; `LeftoversExactly` says what stays).
- The lookup table stores the server "the node lives in (might have multiple servers with the same
  object/methodId)" (`include/ua_proxies.h:46`), but a call goes by the object's id to the first
  instance ever entered with it, on whatever server (`GeneratedClass_dispatch`;
  `include/ua_proxies_callback.h:52`). Its entries outlive the instances.

Seen in the models without a run of their own: the worker leaves its loop with
`mtx_processEvent` locked, so a stopped manager blocks every later `addObject`, `addTask`
and `doStart` (`StoppedForGood` states it); `stopAll` before the first `doStart`
dereferences a null handle, which a signal in `src/ua_template.cpp:22-29` can cause;
`addObject(nullptr)` returns before the notification its comment promises
(`src/ipc_manager.cpp:111`); `stopAll` leaves tasks running; the manager's `doStart`
does not start registered objects, contrary to `src/ua_template.cpp:29`; a failed bind leaves
the single-threaded receiver's socket blocking, and each restart's bind fails
because the earlier socket is still open; two receivers may list a
host twice when a later setup is the first to get the port (`FirstBinds` excludes it). The
single-threaded receiver tests `errno` whatever `recvfrom` returned (`src/udp_beacon.cpp:166`), and
one empty poll would make it throw away every later packet, were it not for another slip:
`ipc_manager::iterate` computes the new time to sleep into variables of an inner block
(`src/ipc_manager.cpp:189-190`), so that after the beacon's turn it sleeps a negative time, which
`nanosleep` refuses, setting `errno` anew (`HearsWhileRunning`). Who repairs the one has to repair the other.

Of the generator, seen in the models and in the code they translate (paths below
`tools/UA_Mapped_Class_Generator/`):

- Preprocessing substitutes indices one after the other in place
  (`XMLPreprocessor.py:308-333`); `NoClash` states when that is harmless. The stochastic match of an
  index whose name no document bears raises when it has found one: line 360 multiplies a document
  by 100. `ReferenceType` and
  `DataType` attributes and aliases are never renumbered. The test of
  `getReferencedNamespaceUri` (`:176`) admits an index one beyond the list.
- The last document is parsed raw as well, before the preprocessed ones
  (`generate_cppClasses.py:141`); most of its nodes are then replaced, those whose ids the
  preprocessor changed stay.
- A blacklist line that ends in a newline is looked up without it and removed with
  it, that is never (`generate_cppClasses.py:165`).
- References of a document without whitespace between its elements are lost
  (`ua_node_types.py:608-628`).
- The branch of `sanitize` at `ua_node_types.py:545` cannot be reached (`NeverBoth`), and would
  fail.
- Whether a cyclic type is encodable depends on the order of building. A type with
  fields whose `DataType` is an alias is not traced: it is neither resolved nor renumbered.
- With three names for one builtin type the parser expects the first, where the
  comment at `ua_builtin_types.py:199-201` describes two; a structure nested in another must
  carry the outer one's name (`:291`), any builtin tag is accepted for any builtin type
  (`:228`), `<Value/>` raises at `ua_node_types.py:1011`, and so does every `ExpandedNodeId`
  (`ua_builtin_types.py:434`).
- A class that contains itself overflows the stack (`cppClass_generator.py:100`); names are
  compared with the members added directly only, so that a class may get one name
  twice from its components. Of the two files of a class only one may be
  regenerated. Client classes become servers (`generate_cppClasses.py:124-126`), and the
  first `baseNodeId` at any depth is everyone's default (`:128-131`).

Of the classes it writes: a call may reach an instance that is long destroyed, when its id was
given again. A stop that falls between two iterations leaves `runUAServer` set;
`workerThread_cleanup`, which has a comparison where it means an assignment
(`cppfile_generator.py:267`), is not called in the threaded build, so that the server thread is never
joined; and the base class's destructor deletes nodes on a server the derived one
has just deleted.

## 7. Not modelled

`std::list` under a data race: `stopAll`, `startAll` and `deleteObject` walk `objects`
without the lock, and the model keeps additions of objects out of the way.
Signal handlers that interrupt their own thread inside a locked region. Of the
beacon: the packet's layout, `setCallback_*` (all four callbacks are set) and the options
(listening and broadcasting are on). `ipc_manager::iterate`, but for what its sleep does to
`errno` after the beacon's turn: how long the loop sleeps, by the clock, is left out. Two cases are
excluded there, in which the beacon could still go deaf for a while: that it is due at the very
nanosecond of the look at the clock, so that it sleeps no time at all and `errno` stays, and that
another object's turn in the same pass leaves EAGAIN behind just before the beacon's.

`ua_remoteinstance_map`: one recursion driven by callbacks of the open62541 client over a graph
in another process, with a counter raised before and lowered after each descent
and no state between calls; the interesting behaviour is the library's.

Of the generator: `reorderNodesMinDependencies`, `getSubTypesOf` and everything that prints C code
for open62541 (`open62541_MacroHelper.py`, the `print...` methods), which nothing in
`generate_cppClasses.py` calls; the wording of the C++ it prints; values of types with several
supertypes, whose encodings have no documented form; arguments that argparse
rejects. XML itself: an input is what minidom and the readers make of it.

Of the run time: data sources, which dispatch by a handle that is the instance;
conversion templates; the client side of `ua_mapped_class`, a stored pointer; methods of
objects inside an instance, which `ua_callProxy_mapFunctions` never descends to because it browses
for methods only. Mapping takes the address of a loop variable's copy
(`src/ua_proxies.cpp`, around line 100); the model assumes it reads what was there. Generated
classes are abstract until a subclass defines the time stamps, and adding the
object node is assumed to succeed.

Logging, the build scripts and the XML models hold no state of the running program.
