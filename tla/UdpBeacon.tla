------------------------------ MODULE UdpBeacon ------------------------------
(***************************************************************************)
(* The udp_beacon: the worker that ages the known peers and broadcasts,    *)
(* and the receiver that registers the peers it hears, with the callbacks  *)
(* that tell the application.  `build' picks the program: "threaded", with *)
(* the receiver a thread of its own that shares knownPeers with the worker *)
(* without a lock, or "single" (DISABLE_THREADING), where the worker calls *)
(* the receiver and ipc_manager::iterate calls the worker.                 *)
(*                                                                         *)
(* Of a lastSeen the model keeps whether the peer's interval and the grace *)
(* of 1.5 beacon intervals have passed since: it is "recent", "past" or    *)
(* "future".  lastSeen of a new peer is not initialised: it may be any of  *)
(* them, "future" being a time that does not come.                         *)
(* Both options of the config are on, all four callbacks are set.          *)
(***************************************************************************)
EXTENDS Integers, FiniteSets, FiniteSetsExt, SequencesExt

CONSTANTS
  Peers,      (* uris                                                      *)
  Self,       (* the uri under which a host hears its own broadcasts       *)
  MaxStarts,  (* bound on the doStarts in a behaviour                      *)
  MaxInbox,   (* bound on the packets waiting in the socket                *)
  Rebinds     (* may a later setup get the port the first one did not?     *)

ASSUME BeaconAssumption ==
  /\ Self \in Peers
  /\ MaxStarts \in Nat \ {0} /\ MaxInbox \in Nat
  /\ Rebinds \in BOOLEAN

VARIABLES
  build, thread_run,
  rxsocket,   (* the socket of the last setup, 0 for an invalid one        *)
  bound,      (* the socket that owns the port, 0 when none does           *)
  inbox,      (* packets waiting there, each named by its sender's uri     *)
  starts,     (* doStarts so far                                           *)
  knownPeers, (* peerlist_entries: uri, state and lastSeen                 *)
  told,       (* the last callback about each uri                          *)
  errno,      (* the single thread's; the receiver's own never is EAGAIN   *)
  wpc, at, down, (* the worker: where, the entry it checks, is it not up   *)
  iterating,     (* single: ipc_manager::iterate, not doStop, runs it      *)
  rx, fd, got,   (* the receivers: where, their socket, their packet,      *)
  found, wasDown (* its sender's entry, and whether that was down          *)

peerVars == <<knownPeers, told>>
sockVars == <<rxsocket, bound, starts>>
workerVars == <<wpc, at, down, iterating>>
rxVars == <<rx, fd, got, found, wasDown, errno>>
vars == <<build, thread_run, sockVars, inbox, peerVars, workerVars, rxVars>>

Receivers == 1..MaxStarts
None == "none"
Times == {"recent", "past", "future"}
PeerStates == {"NEW", "NOMINAL", "MISSED_UPD", "DOWN", "RECONNECT"}
Callbacks == {"new", "missed", "down", "reconnect"}
WorkerSteps == {"off", "idle", "test", "check", "decide", "setMissed",
                "setDown", "setNominal", "tellMissed", "tellDown", "send",
                "receive"}
RxSteps == {"off", "test", "recv", "find", "read", "set", "tell", "new",
            "push", "return"}

Init ==
  /\ build \in {"threaded", "single"}
  /\ thread_run = FALSE
  /\ rxsocket = 0 /\ bound = 0 /\ starts = 0 /\ inbox = <<>>
  /\ knownPeers = <<>>
  /\ told = [p \in Peers |-> None]
  /\ errno = "other"
  /\ wpc = "off" /\ at = 1 /\ down = FALSE /\ iterating = FALSE
  /\ rx = [t \in Receivers |-> "off"]
  /\ fd = [t \in Receivers |-> 0]
  /\ got = [t \in Receivers |-> Self]
  /\ found = [t \in Receivers |-> 1]
  /\ wasDown = [t \in Receivers |-> FALSE]

Threaded == build = "threaded"
Single == build = "single"
-----------------------------------------------------------------------------
(* doStart: in the threaded build nothing when it runs; in the single one  *)
(* there is no such test.  setup_rx never closes a socket, so only the     *)
(* first bind can succeed - and it, too, fails when the port is taken.     *)
(* A call that fails leaves its errno.                                     *)

OpensSocket ==
  /\ rxsocket' = starts + 1
  /\ bound' \in {bound} \cup
                 IF bound = 0 /\ (starts = 0 \/ Rebinds) THEN {rxsocket'}
                                                         ELSE {}

SocketFails == rxsocket' = 0 /\ UNCHANGED bound

Start ==
  /\ starts < MaxStarts                                \* the bound MaxStarts
  /\ \/ /\ Threaded /\ ~thread_run /\ wpc = "off"
        /\ wpc' = "test"
        /\ rx' = [rx EXCEPT ![starts + 1] = "test"]
     \/ /\ Single /\ wpc \in {"off", "idle"}
        /\ wpc' = "idle"
        /\ UNCHANGED rx
  /\ thread_run' = TRUE
  /\ starts' = starts + 1
  /\ OpensSocket \/ SocketFails
  /\ errno' = IF Single /\ (rxsocket' = 0 \/ rxsocket' # bound')
              THEN "other" ELSE errno
  /\ UNCHANGED <<build, inbox, peerVars, at, down, iterating, fd, got, found,
                 wasDown>>

(* doStop; in the single build it iterates once more.  The rx thread is    *)
(* not joined: workerThread_cleanup is not called in the threaded build.   *)
Stop ==
  /\ thread_run
  /\ \/ Threaded /\ UNCHANGED wpc
     \/ Single /\ wpc = "idle" /\ wpc' = "check"
  /\ thread_run' = FALSE
  /\ UNCHANGED <<build, sockVars, inbox, peerVars, at, down, iterating, rxVars>>
-----------------------------------------------------------------------------
(* The worker: checkHosts, then the broadcast.                             *)

Worker(from, to) == wpc = from /\ wpc' = to

(* callWorker's loop; in the single build the manager's iterate.           *)
WorkerTest ==
  /\ \/ thread_run /\ Worker("test", "check") /\ UNCHANGED iterating
     \/ ~thread_run /\ Worker("test", "off") /\ UNCHANGED iterating
     \/ Worker("idle", "check") /\ iterating' = TRUE
  /\ UNCHANGED <<build, thread_run, sockVars, inbox, peerVars, at, down,
                 rxVars>>

Checked == knownPeers[at]

(* peerlist_entry::up(): not lastSeen + interval + 1.5 intervals < now.    *)
Up(e) == e.lastSeen # "past"

CheckUp ==
  /\ Worker("check", "decide")
  /\ at <= Len(knownPeers)
  /\ down' = ~Up(Checked)
  /\ UNCHANGED <<build, thread_run, sockVars, inbox, peerVars, at, iterating,
                 rxVars>>

(* The second check in a row that finds a peer not up.                     *)
MissedOrNew(e) == e.state \in {"MISSED_UPD", "NEW"}              \* mutant
NeverMissed(e) == FALSE                                         \* mutant
Missed(e) == e.state = "MISSED_UPD"

Stays == UNCHANGED <<at, down>>
GoesBack == at' = at - 1 /\ down' = FALSE                       \* mutant
Advances == at' = at + 1 /\ down' = FALSE

CheckDecide ==
  /\ \/ /\ Worker("decide", "setDown") /\ Stays
        /\ down /\ Missed(Checked)
     \/ /\ Worker("decide", "setMissed") /\ Stays
        /\ down /\ ~Missed(Checked) /\ Checked.state # "DOWN"
     \/ /\ Worker("decide", "setNominal") /\ Stays
        /\ ~down /\ Checked.state \in {"RECONNECT", "NEW"}
     \/ /\ Worker("decide", "check") /\ Advances
        /\ Checked.state \in IF down THEN {"DOWN"}
                                     ELSE {"NOMINAL", "MISSED_UPD", "DOWN"}
  /\ UNCHANGED <<build, thread_run, sockVars, inbox, peerVars, iterating,
                 rxVars>>

CheckSet ==
  /\ \/ /\ Worker("setDown", "tellDown") /\ Stays
        /\ knownPeers' = [knownPeers EXCEPT ![at].state = "DOWN"]
     \/ /\ Worker("setMissed", "tellMissed") /\ Stays
        /\ knownPeers' = [knownPeers EXCEPT ![at].state = "MISSED_UPD"]
     \/ /\ Worker("setNominal", "check") /\ Advances
        /\ knownPeers' = [knownPeers EXCEPT ![at].state = "NOMINAL"]
  /\ UNCHANGED <<build, thread_run, sockVars, inbox, told, iterating, rxVars>>

CheckTell ==
  /\ \/ /\ Worker("tellDown", "check")
        /\ told' = [told EXCEPT ![Checked.uri] = "down"]
     \/ /\ Worker("tellMissed", "check")
        /\ told' = [told EXCEPT ![Checked.uri] = "missed"]
  /\ Advances
  /\ UNCHANGED <<build, thread_run, sockVars, inbox, knownPeers, iterating,
                 rxVars>>

CheckEnd ==
  /\ Worker("check", "send")
  /\ at > Len(knownPeers)
  /\ at' = 1
  /\ UNCHANGED <<build, thread_run, sockVars, inbox, peerVars, down, iterating,
                 rxVars>>

(* A packet arrives, if the port is bound and the socket's buffer has room.*)
Arrives(p) ==
  /\ bound # 0 /\ Len(inbox) < MaxInbox                \* the bound MaxInbox
  /\ inbox' = Append(inbox, p)

(* sendto: the host may hear itself, the packet may be lost, or sendto     *)
(* fails.  errno is the receiver's only where there is one thread.         *)
Send ==
  /\ \/ Threaded /\ Worker("send", "test") /\ UNCHANGED <<rx, fd>>
     \/ /\ Single /\ Worker("send", "receive")
        /\ rx' = [rx EXCEPT ![1] = "recv"]
        /\ fd' = [fd EXCEPT ![1] = rxsocket]
  /\ \/ Arrives(Self) /\ UNCHANGED errno
     \/ UNCHANGED <<inbox, errno>>
     \/ Single /\ errno' = "other" /\ UNCHANGED inbox
  /\ UNCHANGED <<build, thread_run, sockVars, peerVars, at, down, iterating,
                 got, found, wasDown>>
-----------------------------------------------------------------------------
(* The receiver: workerThread_iterate_rx and registerHost.                 *)

Rx(t, from, to) == rx[t] = from /\ rx' = [rx EXCEPT ![t] = to]

(* The rx thread's loop.                                                   *)
RxTest(t) ==
  /\ \/ /\ thread_run /\ Rx(t, "test", "recv")
        /\ fd' = [fd EXCEPT ![t] = rxsocket]
     \/ ~thread_run /\ Rx(t, "test", "off") /\ UNCHANGED fd
  /\ UNCHANGED <<build, thread_run, sockVars, inbox, peerVars, workerVars,
                 got, found, wasDown, errno>>

(* recvfrom and the test of errno, which a successful recvfrom leaves as   *)
(* it was.                                                                 *)
Discards == errno = "EAGAIN"

RxTake(t) ==
  /\ fd[t] # 0 /\ fd[t] = bound
  /\ inbox # <<>>
  /\ Rx(t, "recv", IF Discards THEN "return" ELSE "find")
  /\ got' = [got EXCEPT ![t] = Head(inbox)]
  /\ inbox' = Tail(inbox)
  /\ fd' = [fd EXCEPT ![t] = 0]
  /\ UNCHANGED <<build, thread_run, sockVars, peerVars, workerVars, found,
                 wasDown, errno>>

(* Only a socket whose bind succeeded gets to be non-blocking, and only in *)
(* the single build.  Every other recvfrom without a packet waits.         *)
RxNothing(t) ==
  /\ Single
  /\ fd[t] # 0 /\ fd[t] = bound
  /\ inbox = <<>>
  /\ Rx(t, "recv", "return")
  /\ errno' = "EAGAIN"
  /\ fd' = [fd EXCEPT ![t] = 0]
  /\ UNCHANGED <<build, thread_run, sockVars, inbox, peerVars, workerVars, got,
                 found, wasDown>>

(* An invalid socket: no source address.                                   *)
RxFails(t) ==
  /\ fd[t] = 0
  /\ Rx(t, "recv", "return")
  /\ errno' = IF Single THEN "other" ELSE errno
  /\ UNCHANGED <<build, thread_run, sockVars, inbox, peerVars, workerVars, fd,
                 got, found, wasDown>>

Entries(p) == {i \in DOMAIN knownPeers : knownPeers[i].uri = p}
KnownBeforeLast(p) == \E i \in Entries(p) : i < Len(knownPeers)  \* mutant
Known(p) == Entries(p) # {}

(* The search through knownPeers, and lastSeen of the entry it finds.      *)
RxFind(t) ==
  /\ \/ /\ Known(got[t]) /\ Rx(t, "find", "read")
        /\ found' = [found EXCEPT ![t] = Min(Entries(got[t]))]
        /\ knownPeers' = [knownPeers EXCEPT ![found'[t]].lastSeen = "recent"]
     \/ /\ ~Known(got[t]) /\ Rx(t, "find", "new")
        /\ UNCHANGED <<found, knownPeers>>
  /\ UNCHANGED <<build, thread_run, sockVars, inbox, told, workerVars, fd, got,
                 wasDown, errno>>

RxRead(t) ==
  /\ Rx(t, "read", "set")
  /\ wasDown' = [wasDown EXCEPT ![t] = knownPeers[found[t]].state = "DOWN"]
  /\ UNCHANGED <<build, thread_run, sockVars, inbox, peerVars, workerVars, fd,
                 got, found, errno>>

RxSetNominal(t) ==                                              \* mutant
  /\ Rx(t, "set", "return")
  /\ knownPeers' = [knownPeers EXCEPT ![found[t]].state = "NOMINAL"]
  /\ UNCHANGED <<build, thread_run, sockVars, inbox, told, workerVars, fd, got,
                 found, wasDown, errno>>
RxSet(t) ==
  /\ \/ /\ wasDown[t] /\ Rx(t, "set", "tell")
        /\ knownPeers' = [knownPeers EXCEPT ![found[t]].state = "RECONNECT"]
     \/ /\ ~wasDown[t] /\ Rx(t, "set", "return")
        /\ knownPeers' = [knownPeers EXCEPT ![found[t]].state = "NOMINAL"]
  /\ UNCHANGED <<build, thread_run, sockVars, inbox, told, workerVars, fd, got,
                 found, wasDown, errno>>

(* callback_reconnect, and callback_new of a peer not yet in the list.     *)
RxTell(t) ==
  /\ \/ /\ Rx(t, "tell", "return")
        /\ told' = [told EXCEPT ![got[t]] = "reconnect"]
     \/ /\ Rx(t, "new", "push")
        /\ told' = [told EXCEPT ![got[t]] = "new"]
  /\ UNCHANGED <<build, thread_run, sockVars, inbox, knownPeers, workerVars,
                 fd, got, found, wasDown, errno>>

RxForget(t) ==                                                  \* mutant
  /\ Rx(t, "push", "return")
  /\ UNCHANGED <<build, thread_run, sockVars, inbox, peerVars, workerVars, fd,
                 got, found, wasDown, errno>>
RxPush(t) ==
  /\ Rx(t, "push", "return")
  /\ \E time \in Times :
       knownPeers' = Append(knownPeers,
                       [uri |-> got[t], state |-> "NEW", lastSeen |-> time])
  /\ UNCHANGED <<build, thread_run, sockVars, inbox, told, workerVars, fd, got,
                 found, wasDown, errno>>

(* What errno is after ipc_manager::iterate has run the beacon and slept:  *)
(* the time to sleep is that of the item it ran, which was due, for the    *)
(* new one goes to variables of an inner block.  It is negative, unless    *)
(* the item was due at that very nanosecond, and nanosleep refuses it.     *)
SleptSoundly == errno                                           \* mutant
Slept == "other"

(* The rx thread goes on; in the single build iterate or doStop returns.   *)
RxReturn(t) ==
  /\ \/ /\ Threaded /\ Rx(t, "return", "test")
        /\ UNCHANGED <<wpc, iterating, errno>>
     \/ /\ Single /\ Rx(t, "return", "off")
        /\ wpc' = "idle" /\ iterating' = FALSE
        /\ errno' = IF iterating THEN Slept ELSE errno
  /\ got' = [got EXCEPT ![t] = Self]
  /\ found' = [found EXCEPT ![t] = 1]
  /\ wasDown' = [wasDown EXCEPT ![t] = FALSE]
  /\ UNCHANGED <<build, thread_run, sockVars, inbox, peerVars, at, down, fd>>
-----------------------------------------------------------------------------
(* The other hosts, and the clock.                                         *)
Deliver(p) ==
  /\ Arrives(p)
  /\ UNCHANGED <<build, thread_run, sockVars, peerVars, workerVars, rxVars>>

TimePasses(i) ==
  /\ i \in DOMAIN knownPeers /\ knownPeers[i].lastSeen = "recent"
  /\ knownPeers' = [knownPeers EXCEPT ![i].lastSeen = "past"]
  /\ UNCHANGED <<build, thread_run, sockVars, inbox, told, workerVars, rxVars>>

BeaconWorker ==
  WorkerTest \/ CheckUp \/ CheckDecide \/ CheckSet \/ CheckTell \/ CheckEnd
    \/ Send

Receiver(t) ==
  \/ RxTest(t) \/ RxTake(t) \/ RxNothing(t) \/ RxFails(t) \/ RxFind(t)
  \/ RxRead(t) \/ RxSet(t) \/ RxTell(t) \/ RxPush(t) \/ RxReturn(t)

Next ==
  \/ Start
  \/ Stop
  \/ BeaconWorker
  \/ \E t \in Receivers : Receiver(t)
  \/ \E p \in Peers \ {Self} : Deliver(p)
  \/ \E i \in DOMAIN knownPeers : TimePasses(i)

Spec == Init /\ [][Next]_vars

(* Threads run, and so does the manager's loop; time passes.  Nothing is   *)
(* assumed of starts and stops, nor of packets being sent or arriving.     *)
Fairness ==
  /\ WF_vars(BeaconWorker)
  /\ \A t \in Receivers : WF_vars(Receiver(t))
  /\ \A i \in 1..MaxStarts * Cardinality(Peers) : WF_vars(TimePasses(i))

FairSpec == Spec /\ Fairness
-----------------------------------------------------------------------------
TypeOK ==
  /\ build \in {"threaded", "single"} /\ thread_run \in BOOLEAN
  /\ rxsocket \in 0..MaxStarts /\ bound \in 0..MaxStarts
  /\ starts \in 0..MaxStarts
  /\ inbox \in Seq(Peers) /\ Len(inbox) <= MaxInbox
  /\ knownPeers \in Seq([uri : Peers, state : PeerStates, lastSeen : Times])
  /\ told \in [Peers -> Callbacks \cup {None}]
  /\ errno \in {"EAGAIN", "other"}
  /\ wpc \in WorkerSteps /\ at \in Nat \ {0} /\ down \in BOOLEAN
  /\ iterating \in BOOLEAN
  /\ rx \in [Receivers -> RxSteps]
  /\ fd \in [Receivers -> 0..MaxStarts]
  /\ got \in [Receivers -> Peers]
  /\ found \in [Receivers -> Nat \ {0}]
  /\ wasDown \in [Receivers -> BOOLEAN]

(* The first setup got the port, if any did.                               *)
FirstBinds == Single \/ bound <= 1

(* A peer has one entry, however often it is heard and the beacon is       *)
(* restarted, when the first setup got the port: an rx thread that an      *)
(* earlier start left behind then finds nothing to register.  When a later *)
(* setup is the first to get it, both threads may register a host.         *)
UniquePeers == FirstBinds => \A p \in Peers : Cardinality(Entries(p)) <= 1

(* In the single-threaded build the application's picture is right between *)
(* two iterations: it was last told that a peer is down exactly when the   *)
(* beacon holds it for down, and a peer it was told missed is in no state  *)
(* but missed or nominal.                                                  *)
ApplicationKnows ==
  Single /\ wpc = "idle" =>
    \A e \in ToSet(knownPeers) :
      /\ told[e.uri] = "down" <=> e.state = "DOWN"
      /\ e.state = "MISSED_UPD" => told[e.uri] = "missed"
      /\ told[e.uri] = "missed" => e.state \in {"MISSED_UPD", "NOMINAL"}

(* What the application is told of a peer follows the peer's life.  With   *)
(* two threads a reconnection may overtake the report it answers, or get   *)
(* lost, but nothing precedes `new' and a peer that was not missed is not  *)
(* reported down.                                                          *)
Follows == {<<None, "new">>, <<"new", "missed">>, <<"missed", "down">>,
            <<"down", "reconnect">>, <<"reconnect", "missed">>}
Races == {<<"missed", "reconnect">>, <<"reconnect", "down">>,
          <<"down", "missed">>}

CallbackOrder ==
  [][\A p \in Peers :
       FirstBinds /\ told'[p] # told[p] =>
         \/ <<told[p], told'[p]>> \in Follows
         \/ Threaded /\ <<told[p], told'[p]>> \in Races]_vars

(* A peer that falls silent is held for down in the end, as long as the    *)
(* beacon goes on checking, if its lastSeen was ever set or was not a time *)
(* to come.                                                                *)
Silent(p) ==
  /\ p \notin ToSet(inbox)
  /\ \A t \in Receivers :
       rx[t] \in {"off", "test", "recv", "return"} \/ got[t] # p

Aging(p) == Known(p) /\ \A i \in Entries(p) : knownPeers[i].lastSeen # "future"

DeadIsDown ==
  \A p \in Peers :
    <>[](Silent(p) /\ Aging(p)) /\ []<>(wpc = "send")
      => <>[](\A i \in Entries(p) : knownPeers[i].state = "DOWN")

(* A packet that has reached the socket of a running threaded beacon gets  *)
(* its sender registered, unless the beacon is stopped or was restarted:   *)
(* what a restart opens is never bound.                                    *)
Discovered ==
  \A p \in Peers :
    Threaded /\ p \in ToSet(inbox) ~> Known(p) \/ ~thread_run \/ starts > 1

(* A running single-threaded beacon registers the sender of every packet   *)
(* it takes from the socket, though a poll of the empty socket leaves the  *)
(* EAGAIN that would have the next packet thrown away: the sleep between   *)
(* two polls fails, and what fails sets errno anew.  (The poll of a doStop *)
(* is not followed by a sleep; the beacon is stopped by then.)             *)
HearsWhileRunning ==
  [][Single /\ thread_run /\ Len(inbox') < Len(inbox) => rx'[1] = "find"]_vars
=============================================================================
