--------------------------- MODULE UdpBeaconProofs ---------------------------
(***************************************************************************)
(* For any peers, any number of starts and any size of the socket's        *)
(* buffer, in both builds: the indices into the shared list stay in it; a  *)
(* peer is listed once if the first setup got the port; and then what the  *)
(* application is told of a peer follows the peer's life.  No packet that  *)
(* a running beacon of one thread takes is thrown away.                    *)
(***************************************************************************)
EXTENDS UdpBeacon, ListProofs

Entry == [uri : Peers, state : PeerStates, lastSeen : Times]

\* what the proof needs of the types
ListTypeOK ==
  /\ starts \in 0 .. MaxStarts /\ rxsocket \in 0 .. MaxStarts /\ bound \in 0 .. MaxStarts
  /\ knownPeers \in Seq(Entry)
  /\ inbox \in Seq(Peers)
  /\ rx \in [Receivers -> RxSteps]
  /\ fd \in [Receivers -> 0 .. MaxStarts]
  /\ got \in [Receivers -> Peers]

\* the first socket is the first receiver's alone: later receivers begin when
\* rxsocket denotes another, and in the single-threaded build there is one
FirstSocket ==
  /\ Threaded \/ Single
  /\ rxsocket <= starts /\ bound <= starts
  /\ starts > 1 => Single \/ rxsocket # 1
  /\ \A t \in Receivers :
       /\ Threaded /\ t > starts => rx[t] = "off"
       /\ Single /\ t # 1 => rx[t] = "off"
       /\ Threaded /\ t # 1 => fd[t] # 1

\* a receiver that has a packet
Registering == {"find", "read", "set", "tell", "new", "push"}

\* only the first receiver registers peers, and what it is about to enter is
\* not in the list
Registers ==
  FirstBinds => \A t \in Receivers :
    /\ rx[t] \in Registering => t = 1
    /\ rx[t] \in {"new", "push"} => ~Known(got[t])

\* an index is determined by the uri there
Unique ==
  FirstBinds => \A i, j \in DOMAIN knownPeers : knownPeers[i].uri = knownPeers[j].uri => i = j

BInv == ListTypeOK /\ FirstSocket /\ Registers /\ Unique

-----------------------------------------------------------------------------
\* writing the state or the time of an entry keeps places and uris
WithState(q, i, s) == [q EXCEPT ![i].state = s]
WithTime(q, i, l) == [q EXCEPT ![i].lastSeen = l]

LEMMA StateWritten ==
  ASSUME NEW q \in Seq(Entry), NEW i, NEW s \in PeerStates
  PROVE  /\ WithState(q, i, s) \in Seq(Entry) /\ DOMAIN WithState(q, i, s) = DOMAIN q
         /\ \A j \in DOMAIN q : WithState(q, i, s)[j].uri = q[j].uri
<1> DEFINE r == WithState(q, i, s)
<1> USE DEF WithState
<1>1. CASE i \in DOMAIN q
  <2>1. q[i] \in Entry
    BY <1>1
  <2>2. [q[i] EXCEPT !.state = s] \in Entry /\ [q[i] EXCEPT !.state = s].uri = q[i].uri
    BY <2>1 DEF Entry
  <2>3. r = [q EXCEPT ![i] = [q[i] EXCEPT !.state = s]]
    OBVIOUS
  <2> QED
    BY <1>1, <2>2, <2>3
<1>2. CASE i \notin DOMAIN q
  <2>1. r = q
    BY <1>2
  <2> QED
    BY <2>1
<1> QED
  BY <1>1, <1>2

LEMMA TimeWritten ==
  ASSUME NEW q \in Seq(Entry), NEW i, NEW l \in Times
  PROVE  /\ WithTime(q, i, l) \in Seq(Entry) /\ DOMAIN WithTime(q, i, l) = DOMAIN q
         /\ \A j \in DOMAIN q : WithTime(q, i, l)[j].uri = q[j].uri
<1> DEFINE r == WithTime(q, i, l)
<1> USE DEF WithTime
<1>1. CASE i \in DOMAIN q
  <2>1. q[i] \in Entry
    BY <1>1
  <2>2. [q[i] EXCEPT !.lastSeen = l] \in Entry /\ [q[i] EXCEPT !.lastSeen = l].uri = q[i].uri
    BY <2>1 DEF Entry
  <2>3. r = [q EXCEPT ![i] = [q[i] EXCEPT !.lastSeen = l]]
    OBVIOUS
  <2> QED
    BY <1>1, <2>2, <2>3
<1>2. CASE i \notin DOMAIN q
  <2>1. r = q
    BY <1>2
  <2> QED
    BY <2>1
<1> QED
  BY <1>1, <1>2

\* a list with the same uris at the same places
SameUris ==
  /\ DOMAIN knownPeers' = DOMAIN knownPeers
  /\ \A j \in DOMAIN knownPeers : knownPeers'[j].uri = knownPeers[j].uri

\* a step of the receivers that keeps the uris and lets no receiver but one
\* move, in a way that Registers allows
LEMMA UrisKept ==
  ASSUME BInv, SameUris, ListTypeOK', FirstSocket', FirstBinds' => FirstBinds,
         FirstBinds => \A t \in Receivers :
           \/ rx'[t] \in Registering => rx[t] \in Registering
           \/ t = 1,
         FirstBinds => \A t \in Receivers :
           rx'[t] \in {"new", "push"} => ~Known(got'[t])
  PROVE  BInv'
<1>1. \A p : Known(p)' <=> Known(p)
  BY DEF SameUris, Known, Entries
<1>2. Registers'
  BY <1>1 DEF BInv, Registers, Known, Entries, SameUris
<1>3. Unique'
  BY DEF BInv, Unique, SameUris
<1> QED
  BY <1>2, <1>3 DEF BInv

-----------------------------------------------------------------------------
\* doStart and doStop
LEMMA StartStops ==
  ASSUME BInv, Start \/ Stop
  PROVE  BInv'
<1>1. ListTypeOK /\ FirstSocket
  BY DEF BInv
<1>2. CASE Stop
  <2>1. UNCHANGED <<build, sockVars, inbox, peerVars, rxVars>>
    BY <1>2 DEF Stop
  <2> QED
    BY <1>1, <2>1, UrisKept
       DEF sockVars, peerVars, rxVars, BInv, ListTypeOK, FirstSocket, SameUris, FirstBinds,
           Single, Threaded, Registers, Known, Entries
<1>3. CASE Start
  <2>1. /\ build' = build /\ starts' = starts + 1 /\ starts < MaxStarts
        /\ UNCHANGED <<inbox, knownPeers, fd, got>>
    BY <1>3 DEF Start, peerVars
  <2>2. /\ rxsocket' \in {0, starts + 1}
        /\ bound' = bound \/ (bound = 0 /\ bound' = rxsocket')
    BY <1>3 DEF Start, OpensSocket, SocketFails
  <2>3. rx' = rx \/ (Threaded /\ rx' = [rx EXCEPT ![starts + 1] = "test"])
    BY <1>3 DEF Start
  <2>4. starts + 1 \in Receivers /\ MaxStarts \in Nat
    BY <1>1, <2>1, BeaconAssumption DEF ListTypeOK, Receivers
  <2>5. ListTypeOK'
    BY <1>1, <2>1, <2>2, <2>3, <2>4 DEF ListTypeOK, RxSteps
  <2>6. FirstSocket'
    BY <1>1, <2>1, <2>2, <2>3, <2>4
       DEF ListTypeOK, FirstSocket, Single, Threaded, Receivers
  <2>7. FirstBinds' => FirstBinds
    BY <1>1, <2>1, <2>2 DEF FirstBinds, Single, ListTypeOK
  <2>8. \A t \in Receivers : rx'[t] = rx[t] \/ rx'[t] = "test"
    BY <1>1, <2>3 DEF ListTypeOK
  <2>9. \A t \in Receivers : rx'[t] \in Registering => rx'[t] = rx[t]
    BY <2>8 DEF Registering
  <2>10. FirstBinds => \A t \in Receivers : rx'[t] \in {"new", "push"} => ~Known(got'[t])
    BY <2>1, <2>9 DEF BInv, Registers, Registering
  <2>11. SameUris
    BY <2>1 DEF SameUris
  <2> QED
    BY <2>5, <2>6, <2>7, <2>9, <2>10, <2>11, UrisKept
<1> QED
  BY <1>2, <1>3

\* the worker, in both builds; of the list it writes states only
LEMMA BeaconWorkerSteps ==
  ASSUME BInv, BeaconWorker
  PROVE  BInv'
<1>1. ListTypeOK /\ FirstSocket
  BY DEF BInv
<1>2. UNCHANGED <<build, sockVars, got>>
  BY DEF BeaconWorker, WorkerTest, CheckUp, CheckDecide, CheckSet, CheckTell, CheckEnd, Send,
         rxVars
<1>3. inbox' = inbox \/ inbox' = Append(inbox, Self)
  BY DEF BeaconWorker, WorkerTest, CheckUp, CheckDecide, CheckSet, CheckTell, CheckEnd, Send,
         Arrives
<1>4. /\ rx' = rx \/ rx' = [rx EXCEPT ![1] = "recv"]
      /\ fd' = fd \/ (Single /\ fd' = [fd EXCEPT ![1] = rxsocket])
  BY DEF BeaconWorker, WorkerTest, CheckUp, CheckDecide, CheckSet, CheckTell, CheckEnd, Send,
         rxVars
<1>5. rx' = rx \/ Single
  BY DEF BeaconWorker, WorkerTest, CheckUp, CheckDecide, CheckSet, CheckTell, CheckEnd, Send,
         rxVars
<1>6. \/ knownPeers' = knownPeers
      \/ \E s \in PeerStates : knownPeers' = [knownPeers EXCEPT ![at].state = s]
  BY DEF BeaconWorker, WorkerTest, CheckUp, CheckDecide, CheckSet, CheckTell, CheckEnd, Send,
         peerVars, PeerStates
<1>7. knownPeers' \in Seq(Entry) /\ SameUris
  <2>1. knownPeers \in Seq(Entry)
    BY <1>1 DEF ListTypeOK
  <2>2. ASSUME NEW s \in PeerStates, knownPeers' = [knownPeers EXCEPT ![at].state = s]
        PROVE  knownPeers' \in Seq(Entry) /\ SameUris
    <3> DEFINE q == WithState(knownPeers, at, s)
    <3>1. q \in Seq(Entry) /\ DOMAIN q = DOMAIN knownPeers
          /\ \A j \in DOMAIN knownPeers : q[j].uri = knownPeers[j].uri
      BY <2>1, StateWritten
    <3>2. knownPeers' = q
      BY <2>2 DEF WithState
    <3> QED
      BY <3>1, <3>2 DEF SameUris
  <2> QED
    BY <1>6, <2>1, <2>2 DEF SameUris
<1>8. 1 \in Receivers /\ Self \in Peers
  BY BeaconAssumption DEF Receivers
<1>9. ListTypeOK'
  <2>1. inbox' \in Seq(Peers)
    <3>1. inbox \in Seq(Peers)
      BY <1>1 DEF ListTypeOK
    <3> QED
      BY <1>3, <1>8, <3>1
  <2>2. UNCHANGED <<starts, rxsocket, bound, got>>
    BY <1>2 DEF sockVars
  <2>3. rx' \in [Receivers -> RxSteps] /\ fd' \in [Receivers -> 0 .. MaxStarts]
    BY <1>1, <1>4, <1>8 DEF ListTypeOK, RxSteps
  <2> QED
    BY <1>1, <1>7, <2>1, <2>2, <2>3 DEF ListTypeOK
<1>10. FirstSocket'
  BY <1>1, <1>2, <1>4, <1>5, <1>8 DEF ListTypeOK, FirstSocket, sockVars, Single, Threaded
<1>11. \A t \in Receivers : rx'[t] \in Registering => rx'[t] = rx[t]
  BY <1>1, <1>4 DEF ListTypeOK, Registering
<1>12. FirstBinds => \A t \in Receivers : rx'[t] \in {"new", "push"} => ~Known(got'[t])
  BY <1>2, <1>11 DEF BInv, Registers, Registering
<1>13. FirstBinds' => FirstBinds
  BY <1>2 DEF FirstBinds, Single, sockVars
<1> QED
  BY <1>7, <1>9, <1>10, <1>11, <1>12, <1>13, UrisKept

\* other hosts and the clock
LEMMA EnvironmentSteps ==
  ASSUME BInv, (\E p \in Peers : Deliver(p)) \/ (\E i \in DOMAIN knownPeers : TimePasses(i))
  PROVE  BInv'
<1>1. ListTypeOK /\ FirstSocket
  BY DEF BInv
<1>2. UNCHANGED <<build, sockVars, rx, fd, got>>
  BY DEF Deliver, TimePasses, rxVars
<1>3. inbox' = inbox \/ \E p \in Peers : inbox' = Append(inbox, p)
  BY DEF Deliver, TimePasses, Arrives
<1>4. \/ knownPeers' = knownPeers
      \/ \E i : knownPeers' = [knownPeers EXCEPT ![i].lastSeen = "past"]
  BY DEF Deliver, TimePasses, peerVars
<1>5. knownPeers' \in Seq(Entry) /\ SameUris
  <2>1. CASE knownPeers' = knownPeers
    BY <1>1, <2>1 DEF ListTypeOK, SameUris
  <2>2. ASSUME NEW i, knownPeers' = [knownPeers EXCEPT ![i].lastSeen = "past"]
        PROVE  knownPeers' \in Seq(Entry) /\ SameUris
    <3>1. knownPeers \in Seq(Entry) /\ "past" \in Times
      BY <1>1 DEF ListTypeOK, Times
    <3> DEFINE q == WithTime(knownPeers, i, "past")
    <3>2. q \in Seq(Entry) /\ DOMAIN q = DOMAIN knownPeers
          /\ \A j \in DOMAIN knownPeers : q[j].uri = knownPeers[j].uri
      BY <3>1, TimeWritten
    <3>3. knownPeers' = q
      BY <2>2 DEF WithTime
    <3> QED
      BY <3>2, <3>3 DEF SameUris
  <2> QED
    BY <1>4, <2>1, <2>2
<1>6. ListTypeOK'
  <2>1. inbox \in Seq(Peers)
    BY <1>1 DEF ListTypeOK
  <2>2. inbox' \in Seq(Peers)
    BY <1>3, <2>1
  <2> QED
    BY <1>1, <1>2, <1>5, <2>2 DEF ListTypeOK, sockVars
<1>7. FirstSocket' /\ (FirstBinds' => FirstBinds)
  BY <1>1, <1>2 DEF FirstSocket, sockVars, FirstBinds, Single, Threaded
<1> QED
  BY <1>2, <1>5, <1>6, <1>7, UrisKept DEF BInv, Registers

-----------------------------------------------------------------------------
\* The receivers.  All but RxPush keep the uris.

LEMMA ReceiverFrame ==
  ASSUME BInv, NEW t \in Receivers, Receiver(t)
  PROVE  /\ UNCHANGED <<build, sockVars>>
         /\ \E to \in RxSteps : rx' = [rx EXCEPT ![t] = to]
         /\ fd' = fd \/ (fd' = [fd EXCEPT ![t] = rxsocket] /\ rx[t] = "test")
              \/ fd' = [fd EXCEPT ![t] = 0]
         /\ inbox' \in Seq(Peers)
         /\ got' \in [Receivers -> Peers] /\ \A u \in Receivers : u # t => got'[u] = got[u]
         /\ rx[t] # "off"
<1>1. ListTypeOK /\ Self \in Peers
  BY BeaconAssumption DEF BInv
<1> USE DEF Rx, RxSteps
<1>2. CASE RxTest(t)
  BY <1>1, <1>2 DEF RxTest, ListTypeOK
<1>3. CASE RxTake(t)
  <2>1. inbox \in Seq(Peers) /\ inbox # <<>>
    BY <1>1, <1>3 DEF RxTake, ListTypeOK
  <2>2. Head(inbox) \in Peers /\ Tail(inbox) \in Seq(Peers)
    BY <2>1
  <2> QED
    BY <1>1, <1>3, <2>2 DEF RxTake, ListTypeOK
<1>4. CASE RxNothing(t) \/ RxFails(t)
  BY <1>1, <1>4 DEF RxNothing, RxFails, ListTypeOK
<1>5. CASE RxFind(t) \/ RxRead(t)
  BY <1>1, <1>5 DEF RxFind, RxRead, ListTypeOK
<1>6. CASE RxSet(t) \/ RxTell(t)
  BY <1>1, <1>6 DEF RxSet, RxTell, ListTypeOK
<1>7. CASE RxPush(t) \/ RxReturn(t)
  BY <1>1, <1>7 DEF RxPush, RxReturn, ListTypeOK
<1> QED
  BY <1>2, <1>3, <1>4, <1>5, <1>6, <1>7 DEF Receiver

\* the parts of the invariant that do not speak of the list
LEMMA ReceiverSockets ==
  ASSUME BInv, NEW t \in Receivers, Receiver(t), knownPeers' \in Seq(Entry)
  PROVE  /\ ListTypeOK' /\ FirstSocket' /\ (FirstBinds' => FirstBinds)
         /\ \A u \in Receivers : u # t => rx'[u] = rx[u] /\ got'[u] = got[u]
<1>1. ListTypeOK /\ FirstSocket /\ MaxStarts \in Nat
  BY BeaconAssumption DEF BInv
<1>2. ListTypeOK'
  <2>1. rx' \in [Receivers -> RxSteps]
    BY <1>1, ReceiverFrame DEF ListTypeOK
  <2>2. fd' \in [Receivers -> 0 .. MaxStarts]
    BY <1>1, ReceiverFrame DEF ListTypeOK
  <2>3. UNCHANGED <<starts, rxsocket, bound>> /\ inbox' \in Seq(Peers)
        /\ got' \in [Receivers -> Peers]
    BY ReceiverFrame DEF sockVars
  <2> QED
    BY <1>1, <2>1, <2>2, <2>3 DEF ListTypeOK
<1>3. \A u \in Receivers : Threaded /\ u # 1 => fd'[u] # 1
  <2>1. CASE rx[t] = "test" /\ fd' = [fd EXCEPT ![t] = rxsocket] /\ Threaded /\ t # 1
    <3>1. starts > 1 /\ starts \in Nat
      BY <1>1, <2>1 DEF FirstSocket, ListTypeOK, Receivers
    <3>2. rxsocket # 1
      BY <1>1, <2>1, <3>1 DEF FirstSocket, Single, Threaded
    <3> QED
      BY <1>1, <2>1, <3>2 DEF FirstSocket, ListTypeOK
  <2>2. CASE ~(rx[t] = "test" /\ fd' = [fd EXCEPT ![t] = rxsocket] /\ Threaded /\ t # 1)
    BY <1>1, <2>2, ReceiverFrame DEF FirstSocket, ListTypeOK
  <2> QED
    BY <2>1, <2>2
<1>4. FirstSocket'
  BY <1>1, <1>3, ReceiverFrame DEF FirstSocket, ListTypeOK, sockVars, Single, Threaded
<1>5. FirstBinds' => FirstBinds
  BY ReceiverFrame DEF FirstBinds, sockVars, Single
<1> QED
  BY <1>1, <1>2, <1>4, <1>5, ReceiverFrame DEF ListTypeOK

\* what a receiver does short of registering somebody
LEMMA ReceiverLooks ==
  ASSUME BInv, NEW t \in Receivers, Receiver(t), ~RxPush(t)
  PROVE  BInv'
<1>1. ListTypeOK /\ FirstSocket /\ Registers
  BY DEF BInv
<1>2. knownPeers' \in Seq(Entry) /\ SameUris
  <2>1. \/ knownPeers' = knownPeers
        \/ \E i : knownPeers' = [knownPeers EXCEPT ![i].lastSeen = "recent"]
        \/ \E i : \E s \in PeerStates : knownPeers' = [knownPeers EXCEPT ![i].state = s]
    <3>1. CASE RxFind(t)
      BY <3>1 DEF RxFind
    <3>2. CASE RxSet(t)
      BY <3>2 DEF RxSet, PeerStates
    <3>3. CASE ~RxFind(t) /\ ~RxSet(t)
      BY <3>3 DEF Receiver, RxTest, RxTake, RxNothing, RxFails, RxRead, RxTell, RxReturn, peerVars
    <3> QED
      BY <3>1, <3>2, <3>3
  <2>2. CASE knownPeers' = knownPeers
    BY <1>1, <2>2 DEF ListTypeOK, SameUris
  <2>3. ASSUME NEW i, knownPeers' = [knownPeers EXCEPT ![i].lastSeen = "recent"]
        PROVE  knownPeers' \in Seq(Entry) /\ SameUris
    <3>1. knownPeers \in Seq(Entry) /\ "recent" \in Times
      BY <1>1 DEF ListTypeOK, Times
    <3> DEFINE q == WithTime(knownPeers, i, "recent")
    <3>2. q \in Seq(Entry) /\ DOMAIN q = DOMAIN knownPeers
          /\ \A j \in DOMAIN knownPeers : q[j].uri = knownPeers[j].uri
      BY <3>1, TimeWritten
    <3>3. knownPeers' = q
      BY <2>3 DEF WithTime
    <3> QED
      BY <3>2, <3>3 DEF SameUris
  <2>4. ASSUME NEW i, NEW s \in PeerStates, knownPeers' = [knownPeers EXCEPT ![i].state = s]
        PROVE  knownPeers' \in Seq(Entry) /\ SameUris
    <3>1. knownPeers \in Seq(Entry)
      BY <1>1 DEF ListTypeOK
    <3> DEFINE q == WithState(knownPeers, i, s)
    <3>2. q \in Seq(Entry) /\ DOMAIN q = DOMAIN knownPeers
          /\ \A j \in DOMAIN knownPeers : q[j].uri = knownPeers[j].uri
      BY <3>1, StateWritten
    <3>3. knownPeers' = q
      BY <2>4 DEF WithState
    <3> QED
      BY <3>2, <3>3 DEF SameUris
  <2> QED
    BY <2>1, <2>2, <2>3, <2>4
<1>3. /\ ListTypeOK' /\ FirstSocket' /\ (FirstBinds' => FirstBinds)
      /\ \A u \in Receivers : u # t => rx'[u] = rx[u] /\ got'[u] = got[u]
  BY <1>2, ReceiverSockets
<1>4. FirstBinds /\ rx'[t] \in Registering => rx[t] \in Registering \/ t = 1
  <2>1. CASE RxTake(t)
    <3>1. CASE Single
      BY <1>1, <2>1, <3>1 DEF RxTake, Rx, FirstSocket
    <3>2. CASE Threaded
      <4>1. FirstBinds => bound <= 1
        BY <3>2 DEF FirstBinds, Single, Threaded
      <4>2. fd[t] = bound /\ bound # 0 /\ bound \in Nat
        BY <1>1, <2>1 DEF RxTake, ListTypeOK
      <4> QED
        BY <1>1, <3>2, <4>1, <4>2 DEF FirstSocket
    <3> QED
      BY <1>1, <3>1, <3>2 DEF FirstSocket
  <2>2. CASE ~RxTake(t)
    BY <1>1, <2>2 DEF Receiver, RxTest, RxNothing, RxFails, RxFind, RxRead, RxSet, RxTell,
                      RxReturn, Rx, Registering, ListTypeOK
  <2> QED
    BY <2>1, <2>2
<1>5. FirstBinds /\ rx'[t] \in {"new", "push"} => ~Known(got'[t])
  <2>1. CASE RxFind(t)
    BY <1>1, <2>1 DEF RxFind, Rx, ListTypeOK
  <2>2. CASE RxTell(t)
    BY <1>1, <2>2 DEF RxTell, Rx, ListTypeOK, Registers
  <2>3. CASE ~RxFind(t) /\ ~RxTell(t)
    BY <1>1, <2>3 DEF Receiver, RxTest, RxTake, RxNothing, RxFails, RxRead, RxSet, RxReturn, Rx,
                      ListTypeOK
  <2> QED
    BY <2>1, <2>2, <2>3
<1>6. FirstBinds => \A u \in Receivers :
        /\ rx'[u] \in Registering => rx[u] \in Registering \/ u = 1
        /\ rx'[u] \in {"new", "push"} => ~Known(got'[u])
  BY <1>1, <1>3, <1>4, <1>5 DEF Registers
<1> QED
  BY <1>2, <1>3, <1>6, UrisKept

\* a registration
LEMMA ReceiverRegisters ==
  ASSUME BInv, NEW t \in Receivers, RxPush(t)
  PROVE  BInv'
<1>1. ListTypeOK /\ Registers /\ Unique
  BY DEF BInv
<1>2. PICK e \in Entry : knownPeers' = Append(knownPeers, e) /\ e.uri = got[t]
  <2>1. PICK time \in Times :
          knownPeers' = Append(knownPeers, [uri |-> got[t], state |-> "NEW", lastSeen |-> time])
    BY DEF RxPush
  <2>2. got[t] \in Peers
    BY <1>1 DEF ListTypeOK
  <2> QED
    BY <2>1, <2>2 DEF Entry, PeerStates
<1>3. knownPeers \in Seq(Entry) /\ knownPeers' \in Seq(Entry)
  BY <1>1, <1>2 DEF ListTypeOK
<1>4. /\ ListTypeOK' /\ FirstSocket' /\ (FirstBinds' => FirstBinds)
      /\ \A u \in Receivers : u # t => rx'[u] = rx[u]
  BY <1>3, ReceiverSockets DEF Receiver
<1>5. rx[t] = "push" /\ rx'[t] = "return"
  BY <1>1 DEF RxPush, Rx, ListTypeOK
<1>6. FirstBinds => \A u \in Receivers : rx'[u] \notin Registering
  BY <1>1, <1>4, <1>5 DEF Registers, Registering
<1>7. Registers'
  BY <1>4, <1>6 DEF Registers, Registering
<1>8. Unique'
  <2>1. FirstBinds => \A i \in DOMAIN knownPeers : knownPeers[i].uri # e.uri
    BY <1>1, <1>2, <1>5 DEF Registers, Known, Entries
  <2> QED
    BY <1>1, <1>2, <1>3, <1>4, <2>1 DEF Unique
<1> QED
  BY <1>4, <1>7, <1>8 DEF BInv

-----------------------------------------------------------------------------
LEMMA BInvariant == Spec => []BInv
<1>1. Init => BInv
  <2> SUFFICES ASSUME Init PROVE BInv
    OBVIOUS
  <2>1. ListTypeOK
    BY BeaconAssumption DEF Init, ListTypeOK, RxSteps
  <2>2. FirstSocket
    BY DEF Init, FirstSocket, Single, Threaded
  <2>3. Registers /\ Unique
    BY DEF Init, Registers, Unique, Registering
  <2> QED
    BY <2>1, <2>2, <2>3 DEF BInv
<1>2. BInv /\ [Next]_vars => BInv'
  <2> SUFFICES ASSUME BInv, [Next]_vars PROVE BInv'
    OBVIOUS
  <2>1. CASE UNCHANGED vars
    <3>1. UNCHANGED <<build, starts, rxsocket, bound, knownPeers, inbox, rx, fd, got>>
      BY <2>1 DEF vars, sockVars, peerVars, rxVars
    <3> QED
      BY <3>1 DEF BInv, ListTypeOK, FirstSocket, Registers, Unique, FirstBinds, Single, Threaded,
                  Known, Entries
  <2>2. CASE Next
    BY <2>2, StartStops, BeaconWorkerSteps, EnvironmentSteps, ReceiverLooks, ReceiverRegisters
       DEF Next
  <2> QED
    BY <2>1, <2>2
<1> QED
  BY <1>1, <1>2, PTL DEF Spec

(* A peer has one entry in knownPeers when the first setup got the port,    *)
(* although receivers that earlier starts left behind run beside the latest *)
(* one without a lock: they wait at sockets nothing arrives at.             *)
THEOREM PeersAreUnique == Spec => []UniquePeers
<1>1. BInv => UniquePeers
  <2> SUFFICES ASSUME BInv, FirstBinds, NEW p \in Peers PROVE Cardinality(Entries(p)) <= 1
    BY DEF UniquePeers
  <2>1. \A i, j \in Entries(p) : i = j
    BY DEF BInv, Unique, Entries
  <2>2. CASE Entries(p) = {}
    BY <2>2, FS_EmptySet
  <2>3. CASE Entries(p) # {}
    <3>1. PICK i \in Entries(p) : TRUE
      BY <2>3
    <3>2. Entries(p) = {i}
      BY <2>1, <3>1
    <3>3. Cardinality({i}) = 1
      BY FS_Singleton, Zenon
    <3> QED
      BY <3>2, <3>3
  <2> QED
    BY <2>2, <2>3
<1> QED
  BY <1>1, BInvariant, PTL
-----------------------------------------------------------------------------
\* The callbacks.  What the list and the two threads hold of a peer bounds what
\* the application was last told of it.

\* the entry the worker has begun to check is there
WorkerPlace ==
  wpc \in {"decide", "setMissed", "setDown", "setNominal", "tellMissed", "tellDown"}
    => at \in DOMAIN knownPeers

\* the entry the first receiver has found is there, and is its sender's
ReceiverPlace ==
  rx[1] \in {"read", "set", "tell"} =>
    found[1] \in DOMAIN knownPeers /\ knownPeers[found[1]].uri = got[1]

\* a peer is introduced once, just before it is entered
Introduced ==
  \A p \in Peers :
    /\ rx[1] = "push" /\ got[1] = p => told[p] = "new"
    /\ told[p] = None <=> ~Known(p) /\ ~(rx[1] = "push" /\ got[1] = p)

\* a peer of which only `new' was told was never held for missed or down, but for
\* one whose `missed' is about to be told
NewIsNotDown ==
  /\ \A i \in DOMAIN knownPeers :
       told[knownPeers[i].uri] = "new" =>
         \/ knownPeers[i].state \in {"NEW", "NOMINAL"}
         \/ knownPeers[i].state = "MISSED_UPD" /\ wpc = "tellMissed" /\ at = i
  /\ wpc \in {"setDown", "tellDown"} => told[Checked.uri] # "new"
  /\ rx[1] = "tell" \/ (rx[1] = "set" /\ wasDown[1]) => told[got[1]] # "new"

Agreed ==
  {<<"NEW", "new">>, <<"NOMINAL", "new">>, <<"NOMINAL", "missed">>,
   <<"NOMINAL", "reconnect">>, <<"MISSED_UPD", "missed">>, <<"DOWN", "down">>,
   <<"RECONNECT", "reconnect">>}

\* what the single thread holds of entry i and has told of it
Picture(i) ==
  LET s == knownPeers[i].state
      w == told[knownPeers[i].uri]
  IN  /\ wpc = "tellDown" /\ at = i => s = "DOWN" /\ w = "missed"
      /\ wpc = "tellMissed" /\ at = i =>
           s = "MISSED_UPD" /\ w \in {"new", "missed", "reconnect"}
      /\ rx[1] = "tell" /\ found[1] = i => s = "RECONNECT" /\ w = "down"
      /\ \/ <<s, w>> \in Agreed
         \/ wpc \in {"tellDown", "tellMissed"} /\ at = i
         \/ rx[1] = "tell" /\ found[1] = i
      /\ wpc = "setDown" /\ at = i => s = "MISSED_UPD"
      /\ wpc = "setMissed" /\ at = i => s \in {"NEW", "NOMINAL", "RECONNECT"}
      /\ wpc = "setNominal" /\ at = i => s \in {"NEW", "RECONNECT"}
      /\ rx[1] = "set" /\ found[1] = i => (wasDown[1] <=> s = "DOWN")

\* there the receiver is a call of the worker
OneThread ==
  Single =>
    /\ rx[1] # "off" => wpc = "receive"
    /\ \A i \in DOMAIN knownPeers : Picture(i)

Views == ReceiverPlace /\ Introduced /\ NewIsNotDown /\ OneThread

CInv == BInv /\ TypeOK /\ WorkerPlace /\ (FirstBinds => Views)

-----------------------------------------------------------------------------
\* what TypeOK adds to ListTypeOK
TypeRest ==
  /\ build \in {"threaded", "single"} /\ thread_run \in BOOLEAN
  /\ Len(inbox) <= MaxInbox
  /\ told \in [Peers -> Callbacks \cup {None}]
  /\ errno \in {"EAGAIN", "other"}
  /\ wpc \in WorkerSteps /\ at \in Nat \ {0} /\ down \in BOOLEAN
  /\ iterating \in BOOLEAN
  /\ found \in [Receivers -> Nat \ {0}]
  /\ wasDown \in [Receivers -> BOOLEAN]

LEMMA TypeParts == TypeOK <=> ListTypeOK /\ TypeRest
BY DEF TypeOK, ListTypeOK, TypeRest, Entry

\* the entry a receiver finds is the first of its sender's, at a place of the list
LEMMA FoundPlace ==
  ASSUME ListTypeOK, NEW p, Known(p)
  PROVE  Min(Entries(p)) \in DOMAIN knownPeers /\ knownPeers[Min(Entries(p))].uri = p
<1>1. Len(knownPeers) \in Nat /\ DOMAIN knownPeers = 1 .. Len(knownPeers)
  BY DEF ListTypeOK
<1>2. Entries(p) \in SUBSET Nat /\ Entries(p) # {}
  BY <1>1 DEF Known, Entries
<1>3. Min(Entries(p)) \in Entries(p)
  BY <1>2, LeastExists
<1> QED
  BY <1>3 DEF Entries

LEMMA WorkerTypes ==
  ASSUME TypeOK, ListTypeOK', BeaconWorker
  PROVE  TypeRest'
<1>1. TypeRest /\ inbox \in Seq(Peers) /\ at + 1 \in Nat \ {0} /\ MaxInbox \in Nat
  BY BeaconAssumption DEF TypeOK, TypeRest
<1>2. CASE WorkerTest \/ CheckUp \/ CheckDecide
  BY <1>1, <1>2 DEF WorkerTest, CheckUp, CheckDecide, TypeRest, Worker, WorkerSteps, Stays,
       Advances, peerVars, rxVars, sockVars
<1>3. CASE CheckSet
  BY <1>1, <1>3 DEF CheckSet, TypeRest, Worker, WorkerSteps, Stays, Advances, rxVars
<1>4. CASE CheckTell
  BY <1>1, <1>4 DEF CheckTell, TypeRest, Worker, WorkerSteps, Advances, rxVars, Callbacks
<1>5. CASE CheckEnd
  BY <1>1, <1>5 DEF CheckEnd, TypeRest, Worker, WorkerSteps, peerVars, rxVars
<1>6. CASE Send
  <2>1. Len(inbox') <= MaxInbox
    BY <1>1, <1>6 DEF Send, Arrives, TypeRest
  <2>2. UNCHANGED <<build, thread_run, told, at, down, iterating, found, wasDown>>
        /\ errno' \in {errno, "other"} /\ wpc' \in {"test", "receive"}
    BY <1>6 DEF Send, Worker, peerVars
  <2> QED
    BY <1>1, <2>1, <2>2 DEF TypeRest, WorkerSteps
<1> QED
  BY <1>2, <1>3, <1>4, <1>5, <1>6 DEF BeaconWorker

LEMMA ReceiverTypes ==
  ASSUME TypeOK, NEW t \in Receivers, Receiver(t)
  PROVE  TypeRest'
<1>1. TypeRest /\ ListTypeOK /\ MaxInbox \in Nat
  BY TypeParts, BeaconAssumption
<1>2. CASE RxTest(t) \/ RxNothing(t) \/ RxFails(t)
  BY <1>1, <1>2 DEF RxTest, RxNothing, RxFails, TypeRest, peerVars, workerVars
<1>3. CASE RxTake(t)
  <2>1. inbox \in Seq(Peers) /\ inbox # <<>> /\ inbox' = Tail(inbox)
    BY <1>1, <1>3 DEF RxTake, ListTypeOK
  <2>2. Len(inbox') <= Len(inbox)
    BY <2>1
  <2>3. Len(inbox') <= MaxInbox
    BY <1>1, <2>1, <2>2 DEF TypeRest
  <2> QED
    BY <1>1, <1>3, <2>3 DEF RxTake, TypeRest, peerVars, workerVars
<1>4. CASE RxFind(t)
  <2>1. CASE Known(got[t])
    <3>1. Min(Entries(got[t])) \in DOMAIN knownPeers
      BY <1>1, <2>1, FoundPlace
    <3>2. Min(Entries(got[t])) \in Nat \ {0}
      BY <1>1, <3>1 DEF ListTypeOK
    <3> QED
      BY <1>1, <1>4, <2>1, <3>2 DEF RxFind, TypeRest, workerVars
  <2>2. CASE ~Known(got[t])
    BY <1>1, <1>4, <2>2 DEF RxFind, TypeRest, workerVars
  <2> QED
    BY <2>1, <2>2
<1>5. CASE RxRead(t) \/ RxSet(t) \/ RxPush(t)
  BY <1>1, <1>5 DEF RxRead, RxSet, RxPush, TypeRest, workerVars, peerVars
<1>6. CASE RxTell(t)
  BY <1>1, <1>6 DEF RxTell, TypeRest, workerVars, Callbacks
<1>7. CASE RxReturn(t)
  <2>1. UNCHANGED <<build, thread_run, inbox, told, at, down>>
        /\ found' = [found EXCEPT ![t] = 1] /\ wasDown' = [wasDown EXCEPT ![t] = FALSE]
    BY <1>7 DEF RxReturn, peerVars
  <2>2. /\ wpc' \in {wpc, "idle"} /\ iterating' \in {iterating, FALSE}
        /\ errno' \in {errno, "other"}
    BY <1>7 DEF RxReturn, Slept
  <2>3. found' \in [Receivers -> Nat \ {0}] /\ wasDown' \in [Receivers -> BOOLEAN]
    BY <1>1, <2>1 DEF TypeRest
  <2>4. wpc' \in WorkerSteps /\ iterating' \in BOOLEAN /\ errno' \in {"EAGAIN", "other"}
    BY <1>1, <2>2 DEF TypeRest, WorkerSteps
  <2> QED
    BY <1>1, <2>1, <2>3, <2>4 DEF TypeRest
<1> QED
  BY <1>2, <1>3, <1>4, <1>5, <1>6, <1>7 DEF Receiver

LEMMA TypeStep ==
  ASSUME TypeOK, ListTypeOK', [Next]_vars
  PROVE  TypeOK'
<1>1. SUFFICES TypeRest'
  BY DEF TypeOK, ListTypeOK, TypeRest, Entry
<1>2. TypeRest /\ ListTypeOK /\ MaxInbox \in Nat
  BY TypeParts, BeaconAssumption
<1>3. CASE UNCHANGED vars
  BY <1>2, <1>3 DEF vars, TypeRest, peerVars, workerVars, rxVars
<1>4. CASE Start \/ Stop
  BY <1>2, <1>4 DEF Start, Stop, TypeRest, WorkerSteps, peerVars, rxVars
<1>5. CASE \E p \in Peers \ {Self} : Deliver(p)
  <2>1. Len(inbox') <= MaxInbox
    BY <1>2, <1>5 DEF Deliver, Arrives, ListTypeOK
  <2> QED
    BY <1>2, <1>5, <2>1 DEF Deliver, TypeRest, peerVars, workerVars, rxVars
<1>6. CASE \E i \in DOMAIN knownPeers : TimePasses(i)
  BY <1>2, <1>6 DEF TimePasses, TypeRest, workerVars, rxVars
<1> QED
  BY <1>3, <1>4, <1>5, <1>6, WorkerTypes, ReceiverTypes DEF Next

-----------------------------------------------------------------------------
\* a step that writes no state, and one that writes the state of entry i
StatesKept ==
  SameUris /\ \A j \in DOMAIN knownPeers : knownPeers'[j].state = knownPeers[j].state

StateSet(i, s) ==
  /\ SameUris
  /\ \A j \in DOMAIN knownPeers :
       knownPeers'[j].state = IF j = i THEN s ELSE knownPeers[j].state

LEMMA StateIsSet ==
  ASSUME ListTypeOK, NEW i \in DOMAIN knownPeers, NEW s,
         knownPeers' = [knownPeers EXCEPT ![i].state = s]
  PROVE  StateSet(i, s)
<1>1. knownPeers \in Seq(Entry)
  BY DEF ListTypeOK
<1>2. DOMAIN knownPeers' = DOMAIN knownPeers
  OBVIOUS
<1>3. knownPeers[i] \in Entry
  BY <1>1
<1>4. knownPeers'[i] = [knownPeers[i] EXCEPT !.state = s]
  BY <1>1
<1>5. knownPeers'[i].state = s /\ knownPeers'[i].uri = knownPeers[i].uri
  BY <1>3, <1>4 DEF Entry
<1>6. \A j \in DOMAIN knownPeers : j # i => knownPeers'[j] = knownPeers[j]
  BY <1>1
<1> QED
  BY <1>2, <1>5, <1>6 DEF StateSet, SameUris

LEMMA TimeIsSet ==
  ASSUME ListTypeOK, NEW i \in DOMAIN knownPeers, NEW l,
         knownPeers' = [knownPeers EXCEPT ![i].lastSeen = l]
  PROVE  StatesKept
<1>1. knownPeers \in Seq(Entry)
  BY DEF ListTypeOK
<1>2. DOMAIN knownPeers' = DOMAIN knownPeers
  OBVIOUS
<1>3. knownPeers[i] \in Entry
  BY <1>1
<1>4. knownPeers'[i] = [knownPeers[i] EXCEPT !.lastSeen = l]
  BY <1>1
<1>5. knownPeers'[i].state = knownPeers[i].state /\ knownPeers'[i].uri = knownPeers[i].uri
  BY <1>3, <1>4 DEF Entry
<1>6. \A j \in DOMAIN knownPeers : j # i => knownPeers'[j] = knownPeers[j]
  BY <1>1
<1> QED
  BY <1>2, <1>5, <1>6 DEF StatesKept, SameUris

LEMMA KnownKept ==
  ASSUME SameUris
  PROVE  \A p : Known(p)' <=> Known(p)
BY DEF SameUris, Known, Entries

\* the part of CallbackOrder about one step
ToldInOrder ==
  \A p \in Peers :
    told'[p] # told[p] =>
      \/ <<told[p], told'[p]>> \in Follows
      \/ Threaded /\ <<told[p], told'[p]>> \in Races

-----------------------------------------------------------------------------
\* Every step keeps the views.  Steps that tell nothing and write no state:
\* only the places of the two threads move.
LEMMA QuietStep ==
  ASSUME CInv, FirstBinds, Views,
         told' = told, StatesKept, build' = build,
         wpc' \in {"tellMissed", "tellDown", "setDown", "setMissed", "setNominal"}
           => wpc' = wpc /\ at' = at,
         wpc \in {"tellMissed", "tellDown"} => wpc' = wpc /\ at' = at,
         rx'[1] \in {"read", "set", "tell", "push"}
           => rx'[1] = rx[1] /\ got'[1] = got[1] /\ found'[1] = found[1]
                /\ wasDown'[1] = wasDown[1],
         rx[1] \in {"tell", "push"} => rx'[1] = rx[1],
         Single /\ rx'[1] # "off" => wpc' = "receive"
  PROVE  Views' /\ ToldInOrder
<1>1. SameUris /\ ReceiverPlace /\ Introduced /\ NewIsNotDown /\ OneThread /\ WorkerPlace
  BY DEF StatesKept, Views, CInv
<1>2. ReceiverPlace'
  BY <1>1 DEF ReceiverPlace, SameUris
<1>3. Introduced'
  BY <1>1, KnownKept DEF Introduced
<1>4. NewIsNotDown'
  <2>1. \A i \in DOMAIN knownPeers' :
          /\ i \in DOMAIN knownPeers
          /\ knownPeers'[i].uri = knownPeers[i].uri /\ knownPeers'[i].state = knownPeers[i].state
    BY DEF StatesKept, SameUris
  <2>2. (\A i \in DOMAIN knownPeers :
           told[knownPeers[i].uri] = "new" =>
             \/ knownPeers[i].state \in {"NEW", "NOMINAL"}
             \/ knownPeers[i].state = "MISSED_UPD" /\ wpc = "tellMissed" /\ at = i)'
    BY <1>1, <2>1 DEF NewIsNotDown
  <2>3. (wpc \in {"setDown", "tellDown"} => told[Checked.uri] # "new")'
    BY <1>1, <2>1 DEF NewIsNotDown, WorkerPlace, Checked, SameUris
  <2>4. (rx[1] = "tell" \/ (rx[1] = "set" /\ wasDown[1]) => told[got[1]] # "new")'
    BY <1>1 DEF NewIsNotDown
  <2> QED
    BY <2>2, <2>3, <2>4 DEF NewIsNotDown
<1>5. OneThread'
  <2> SUFFICES ASSUME Single', NEW i \in DOMAIN knownPeers' PROVE Picture(i)'
    BY DEF OneThread, Single
  <2>1. Single /\ i \in DOMAIN knownPeers /\ Picture(i)
    BY <1>1 DEF Single, SameUris, OneThread
  <2>2. knownPeers'[i].uri = knownPeers[i].uri /\ knownPeers'[i].state = knownPeers[i].state
    BY <2>1 DEF StatesKept, SameUris
  <2> QED
    BY <2>1, <2>2 DEF Picture
<1> QED
  BY <1>2, <1>3, <1>4, <1>5 DEF Views, ToldInOrder

\* the types a step uses
LEMMA Types ==
  ASSUME CInv
  PROVE  /\ ListTypeOK /\ TypeRest /\ WorkerPlace /\ FirstSocket /\ Registers /\ Unique
         /\ 1 \in Receivers /\ Self \in Peers
         /\ rx \in [Receivers -> RxSteps] /\ told \in [Peers -> Callbacks \cup {None}]
         /\ found \in [Receivers -> Nat \ {0}] /\ wasDown \in [Receivers -> BOOLEAN]
         /\ got \in [Receivers -> Peers]
BY TypeParts, BeaconAssumption DEF CInv, BInv, ListTypeOK, TypeRest, Receivers

LEMMA QuietSteps ==
  ASSUME CInv, FirstBinds, Views,
         \/ UNCHANGED vars \/ Start \/ Stop \/ WorkerTest \/ CheckUp \/ CheckEnd \/ Send
         \/ \E p \in Peers : Deliver(p)
         \/ \E i \in DOMAIN knownPeers : TimePasses(i)
  PROVE  Views' /\ ToldInOrder
<1> USE Types
<1>1. OneThread /\ (Single => (rx[1] # "off" => wpc = "receive"))
  BY DEF Views, OneThread
<1>2. told' = told /\ build' = build /\ got' = got /\ found' = found /\ wasDown' = wasDown
  BY DEF vars, Start, Stop, WorkerTest, CheckUp, CheckEnd, Send, Deliver, TimePasses,
         peerVars, rxVars
<1>3. StatesKept
  <2>1. CASE knownPeers' = knownPeers
    BY <2>1 DEF StatesKept, SameUris
  <2>2. CASE \E i \in DOMAIN knownPeers : TimePasses(i)
    BY <2>2, TimeIsSet DEF TimePasses
  <2> QED
    BY <2>1, <2>2 DEF vars, Start, Stop, WorkerTest, CheckUp, CheckEnd, Send, Deliver, peerVars
<1>4. /\ wpc' \in {"tellMissed", "tellDown", "setDown", "setMissed", "setNominal"}
           => wpc' = wpc /\ at' = at
      /\ wpc \in {"tellMissed", "tellDown"} => wpc' = wpc /\ at' = at
  BY DEF vars, Start, Stop, WorkerTest, CheckUp, CheckEnd, Send, Deliver, TimePasses, Worker,
         workerVars
<1>5. \/ rx'[1] = rx[1]
      \/ rx'[1] \in {"test", "recv"} /\ rx[1] \notin {"tell", "push"}
  <2>1. CASE Start
    <3>1. CASE rx' = rx
      BY <3>1
    <3>2. CASE rx' = [rx EXCEPT ![starts + 1] = "test"] /\ Threaded
      <4>1. starts \in Nat
        BY DEF ListTypeOK
      <4>2. CASE starts = 0
        <5>1. rx[1] = "off"
          BY <3>2, <4>2 DEF FirstSocket
        <5>2. rx'[1] = "test"
          BY <3>2, <4>2
        <5> QED
          BY <5>1, <5>2
      <4>3. CASE starts # 0
        <5>1. starts + 1 # 1
          BY <4>1, <4>3
        <5> QED
          BY <3>2, <5>1
      <4> QED
        BY <4>2, <4>3
    <3> QED
      BY <2>1, <3>1, <3>2 DEF Start
  <2>2. CASE Send
    <3>1. CASE rx' = [rx EXCEPT ![1] = "recv"] /\ Single
      BY <1>1, <2>2, <3>1 DEF Send, Worker
    <3> QED
      BY <2>2, <3>1 DEF Send
  <2>3. CASE ~Start /\ ~Send
    BY <2>3 DEF vars, Stop, WorkerTest, CheckUp, CheckEnd, Deliver, TimePasses, rxVars
  <2> QED
    BY <2>1, <2>2, <2>3
<1>6. Single /\ rx'[1] # "off" => wpc' = "receive"
  <2>1. CASE Send
    BY <1>1, <2>1 DEF Send, Worker, Threaded, Single
  <2>2. CASE Start
    BY <1>1, <2>2 DEF Start, Threaded, Single
  <2>3. CASE ~Start /\ ~Send
    BY <1>1, <2>3 DEF vars, Stop, WorkerTest, CheckUp, CheckEnd, Deliver, TimePasses, rxVars,
                 Worker, workerVars, Threaded, Single
  <2> QED
    BY <2>1, <2>2, <2>3
<1> QED
  BY <1>2, <1>3, <1>4, <1>5, <1>6, QuietStep

\* another receiver than the first has nothing to register
LEMMA OtherReceivers ==
  ASSUME CInv, FirstBinds, Views, NEW t \in Receivers, t # 1, Receiver(t), BInv'
  PROVE  Views' /\ ToldInOrder
<1> USE Types
<1>1. rx[t] \notin Registering /\ rx[t] # "off"
  BY ReceiverFrame DEF CInv, Registers
<1>2. ~Single
  BY <1>1 DEF FirstSocket
<1>3. RxTest(t) \/ RxTake(t) \/ RxNothing(t) \/ RxFails(t) \/ RxReturn(t)
  BY <1>1 DEF Receiver, RxFind, RxRead, RxSet, RxTell, RxPush, Rx, Registering
<1>4. /\ UNCHANGED <<build, knownPeers, told, wpc, at>>
      /\ rx'[1] = rx[1] /\ got'[1] = got[1] /\ found'[1] = found[1] /\ wasDown'[1] = wasDown[1]
  BY <1>2, <1>3 DEF RxTest, RxTake, RxNothing, RxFails, RxReturn, Rx, peerVars, workerVars
<1>5. StatesKept
  BY <1>4 DEF StatesKept, SameUris
<1> QED
  BY <1>2, <1>4, <1>5, QuietStep

\* the first receiver while it writes no entry and tells nothing
LEMMA QuietReceiver ==
  ASSUME CInv, FirstBinds, Views,
         \/ RxTest(1) \/ RxTake(1) \/ RxNothing(1) \/ RxFails(1) \/ RxReturn(1)
         \/ RxFind(1) /\ ~Known(got[1])
  PROVE  Views' /\ ToldInOrder
<1> USE Types
<1>1. UNCHANGED <<build, knownPeers, told, at>>
  BY DEF RxTest, RxTake, RxNothing, RxFails, RxReturn, RxFind, peerVars, workerVars
<1>2. /\ rx'[1] \notin {"read", "set", "tell", "push"}
      /\ rx[1] \notin {"off", "tell", "push"}
  BY DEF RxTest, RxTake, RxNothing, RxFails, RxReturn, RxFind, Rx
<1>3. \/ wpc' = wpc
      \/ Single /\ wpc' = "idle" /\ rx'[1] = "off"
  BY DEF RxTest, RxTake, RxNothing, RxFails, RxReturn, RxFind, Rx, workerVars
<1>4. Single => wpc = "receive"
  BY <1>2 DEF Views, OneThread
<1>5. StatesKept
  BY <1>1 DEF StatesKept, SameUris
<1> QED
  BY <1>1, <1>2, <1>3, <1>4, <1>5, QuietStep

-----------------------------------------------------------------------------
\* The worker decides, writes and tells.
LEMMA DecideStep ==
  ASSUME CInv, FirstBinds, Views, CheckDecide
  PROVE  Views' /\ ToldInOrder
<1> USE Types
<1>1. ReceiverPlace /\ Introduced /\ NewIsNotDown /\ OneThread
  BY DEF Views
<1>2. UNCHANGED <<build, knownPeers, told, rx, got, found, wasDown>> /\ wpc = "decide"
  BY DEF CheckDecide, peerVars, rxVars, Worker
<1>3. at \in DOMAIN knownPeers
  BY <1>2 DEF WorkerPlace
<1>4. \/ wpc' = "setDown" /\ at' = at /\ Checked.state = "MISSED_UPD"
      \/ wpc' = "setMissed" /\ at' = at /\ Checked.state \notin {"MISSED_UPD", "DOWN"}
      \/ wpc' = "setNominal" /\ at' = at /\ Checked.state \in {"NEW", "RECONNECT"}
      \/ wpc' = "check"
  BY DEF CheckDecide, Worker, Stays, Advances, Missed
<1>5. wpc' \notin {"tellMissed", "tellDown"}
  BY <1>4
<1>6. ReceiverPlace' /\ Introduced'
  BY <1>1, <1>2 DEF ReceiverPlace, Introduced, Known, Entries
<1>7. NewIsNotDown'
  <2>1. wpc' = "setDown" => told[knownPeers[at].uri] # "new"
    BY <1>1, <1>2, <1>3, <1>4 DEF NewIsNotDown, Checked
  <2> QED
    BY <1>1, <1>2, <1>4, <1>5, <2>1 DEF NewIsNotDown, Checked
<1>8. OneThread'
  <2>0. Single => rx[1] = "off"
    BY <1>1, <1>2 DEF OneThread
  <2> SUFFICES ASSUME Single', NEW i \in DOMAIN knownPeers' PROVE Picture(i)'
    BY <1>2, <2>0 DEF OneThread, Single
  <2>1. Single /\ i \in DOMAIN knownPeers /\ Picture(i) /\ rx[1] = "off"
    BY <1>1, <1>2 DEF Single, OneThread
  <2>2. knownPeers[i].state \in PeerStates
    <3>1. knownPeers[i] \in Entry
      BY <2>1 DEF ListTypeOK
    <3> QED
      BY <3>1 DEF Entry
  <2> QED
    BY <1>2, <1>4, <1>5, <2>1, <2>2 DEF Picture, Checked, PeerStates
<1> QED
  BY <1>2, <1>6, <1>7, <1>8 DEF Views, ToldInOrder

LEMMA SetStep ==
  ASSUME CInv, FirstBinds, Views, CheckSet
  PROVE  Views' /\ ToldInOrder
<1> USE Types
<1>1. ReceiverPlace /\ Introduced /\ NewIsNotDown /\ OneThread
  BY DEF Views
<1>2. /\ UNCHANGED <<build, told, rx, got, found, wasDown>>
      /\ wpc \in {"setDown", "setMissed", "setNominal"}
  BY DEF CheckSet, rxVars, Worker
<1>3. at \in DOMAIN knownPeers
  BY <1>2 DEF WorkerPlace
<1>4. /\ wpc = "setDown" => wpc' = "tellDown" /\ at' = at /\ StateSet(at, "DOWN")
      /\ wpc = "setMissed" => wpc' = "tellMissed" /\ at' = at /\ StateSet(at, "MISSED_UPD")
      /\ wpc = "setNominal" => wpc' = "check" /\ StateSet(at, "NOMINAL")
  BY <1>3, StateIsSet DEF CheckSet, Worker, Stays, Advances
<1>5. SameUris
  BY <1>2, <1>4 DEF StateSet
<1>6. ReceiverPlace' /\ Introduced'
  BY <1>1, <1>2, <1>5, KnownKept DEF ReceiverPlace, Introduced, SameUris
<1>7. NewIsNotDown'
  <2>1. CASE wpc = "setDown"
    BY <1>1, <1>2, <1>3, <1>4, <2>1 DEF NewIsNotDown, Checked, StateSet, SameUris
  <2>2. CASE wpc = "setMissed"
    BY <1>1, <1>2, <1>3, <1>4, <2>2 DEF NewIsNotDown, Checked, StateSet, SameUris
  <2>3. CASE wpc = "setNominal"
    BY <1>1, <1>2, <1>3, <1>4, <2>3 DEF NewIsNotDown, Checked, StateSet, SameUris
  <2> QED
    BY <1>2, <2>1, <2>2, <2>3
<1>8. OneThread'
  <2>0. Single => rx[1] = "off"
    BY <1>1, <1>2 DEF OneThread
  <2> SUFFICES ASSUME Single', NEW i \in DOMAIN knownPeers' PROVE Picture(i)'
    BY <1>2, <2>0 DEF OneThread, Single
  <2>1. Single /\ i \in DOMAIN knownPeers /\ Picture(i) /\ rx[1] = "off"
    BY <1>1, <1>2, <1>5 DEF Single, OneThread, SameUris
  <2>2. rx'[1] = "off" /\ knownPeers'[i].uri = knownPeers[i].uri
    BY <1>2, <1>5, <2>1 DEF SameUris
  <2>3. CASE wpc = "setDown"
    BY <1>2, <1>4, <2>1, <2>2, <2>3 DEF Picture, StateSet, Agreed
  <2>4. CASE wpc = "setMissed"
    BY <1>2, <1>4, <2>1, <2>2, <2>4 DEF Picture, StateSet, Agreed
  <2>5. CASE wpc = "setNominal"
    <3>1. knownPeers'[i].state = IF i = at THEN "NOMINAL" ELSE knownPeers[i].state
      BY <1>4, <2>1, <2>5 DEF StateSet
    <3> QED
      BY <1>2, <1>4, <2>1, <2>2, <2>5, <3>1 DEF Picture, Agreed
  <2> QED
    BY <1>2, <2>3, <2>4, <2>5
<1> QED
  BY <1>2, <1>6, <1>7, <1>8 DEF Views, ToldInOrder

LEMMA TellStep ==
  ASSUME CInv, FirstBinds, Views, CheckTell
  PROVE  Views' /\ ToldInOrder
<1> USE Types
<1> DEFINE u == knownPeers[at].uri
<1> DEFINE word == IF wpc = "tellDown" THEN "down" ELSE "missed"
<1>1. ReceiverPlace /\ Introduced /\ NewIsNotDown /\ OneThread
  BY DEF Views
<1>2. /\ UNCHANGED <<build, knownPeers, rx, got, found, wasDown>>
      /\ wpc \in {"tellDown", "tellMissed"} /\ wpc' = "check"
  BY DEF CheckTell, rxVars, Worker
<1>3. at \in DOMAIN knownPeers
  BY <1>2 DEF WorkerPlace
<1>4. u \in Peers
  <2>1. knownPeers[at] \in Entry
    BY <1>3 DEF ListTypeOK
  <2> QED
    BY <2>1 DEF Entry
<1>5. told' = [told EXCEPT ![u] = word]
  BY DEF CheckTell, Checked, Worker
<1>6. Known(u) /\ told[u] # None /\ ~(rx[1] = "push" /\ got[1] = u)
  <2>1. Known(u)
    BY <1>3 DEF Known, Entries
  <2>2. ~(rx[1] = "push" /\ got[1] = u)
    BY <2>1 DEF Registers
  <2> QED
    BY <1>1, <1>4, <2>1, <2>2 DEF Introduced
<1>7. told'[u] = word /\ \A p \in Peers : p # u => told'[p] = told[p]
  BY <1>4, <1>5
<1>8. word \in {"down", "missed"} /\ (wpc = "tellDown" => word = "down")
        /\ (wpc = "tellMissed" => word = "missed")
  OBVIOUS
<1> HIDE DEF word, u
<1>9. ReceiverPlace'
  BY <1>1, <1>2 DEF ReceiverPlace
<1>10. Introduced'
  <2>1. \A p \in Peers : Known(p)' <=> Known(p)
    BY <1>2 DEF Known, Entries
  <2> QED
    BY <1>1, <1>2, <1>6, <1>7, <1>8, <2>1 DEF Introduced, None
<1>11. \A i \in DOMAIN knownPeers : knownPeers[i].uri \in Peers
  <2>1. \A i \in DOMAIN knownPeers : knownPeers[i] \in Entry
    BY DEF ListTypeOK
  <2> QED
    BY <2>1 DEF Entry
<1>12. NewIsNotDown'
  <2>1. \A i \in DOMAIN knownPeers :
          told'[knownPeers[i].uri] = "new" => knownPeers[i].state \in {"NEW", "NOMINAL"}
    BY <1>1, <1>7, <1>8, <1>11 DEF NewIsNotDown, u
  <2>2. \A p \in Peers : told'[p] = "new" => told[p] = "new"
    BY <1>7, <1>8
  <2> QED
    BY <1>1, <1>2, <2>1, <2>2 DEF NewIsNotDown
<1>13. OneThread'
  <2>0. Single => rx[1] = "off"
    BY <1>1, <1>2 DEF OneThread
  <2> SUFFICES ASSUME Single', NEW i \in DOMAIN knownPeers' PROVE Picture(i)'
    BY <1>2, <2>0 DEF OneThread, Single
  <2>1. Single /\ i \in DOMAIN knownPeers /\ Picture(i) /\ rx[1] = "off"
    BY <1>1, <1>2 DEF Single, OneThread
  <2>2. CASE i = at
    BY <1>2, <1>7, <1>8, <2>1, <2>2 DEF Picture, Agreed, u
  <2>3. CASE i # at
    <3>1. knownPeers[i].uri # u
      BY <1>3, <2>1, <2>3 DEF Unique, u
    <3>2. told'[knownPeers[i].uri] = told[knownPeers[i].uri]
      BY <1>7, <1>11, <2>1, <3>1
    <3> QED
      BY <1>2, <2>1, <2>3, <3>2 DEF Picture
  <2> QED
    BY <2>2, <2>3
<1>14. ToldInOrder
  <2>1. CASE Single
    <3>1. Picture(at)
      BY <1>1, <1>3, <2>1 DEF OneThread
    <3>2. wpc = "tellDown" => told[u] = "missed"
      BY <3>1 DEF Picture, u
    <3>3. wpc = "tellMissed" => told[u] \in {"new", "missed", "reconnect"}
      BY <3>1 DEF Picture, u
    <3> QED
      BY <1>2, <1>7, <1>8, <3>2, <3>3 DEF ToldInOrder, Follows
  <2>2. CASE Threaded
    <3>1. wpc = "tellDown" => told[u] # "new"
      BY <1>1 DEF NewIsNotDown, Checked, u
    <3>2. told[u] \in {"new", "missed", "down", "reconnect"}
      BY <1>4, <1>6 DEF Callbacks
    <3> QED
      BY <1>2, <1>7, <1>8, <2>2, <3>1, <3>2 DEF ToldInOrder, Follows, Races
  <2> QED
    BY <2>1, <2>2 DEF FirstSocket
<1> QED
  BY <1>9, <1>10, <1>12, <1>13, <1>14 DEF Views

-----------------------------------------------------------------------------
\* The first receiver finds, reads, writes, tells and enters.
LEMMA FindStep ==
  ASSUME CInv, FirstBinds, Views, RxFind(1), Known(got[1])
  PROVE  Views' /\ ToldInOrder
<1> USE Types
<1>1. ReceiverPlace /\ Introduced /\ NewIsNotDown /\ OneThread
  BY DEF Views
<1>2. /\ UNCHANGED <<build, told, wpc, at, got, wasDown>>
      /\ rx[1] = "find" /\ rx'[1] = "read"
      /\ found'[1] = Min(Entries(got[1]))
  BY DEF RxFind, Rx, workerVars
<1>3. /\ Min(Entries(got[1])) \in DOMAIN knownPeers
      /\ knownPeers[Min(Entries(got[1]))].uri = got[1]
  BY FoundPlace
<1>4. StatesKept
  <2>1. knownPeers' = [knownPeers EXCEPT ![Min(Entries(got[1]))].lastSeen = "recent"]
    BY <1>2 DEF RxFind
  <2> QED
    BY <1>3, <2>1, TimeIsSet
<1>5. ReceiverPlace'
  BY <1>2, <1>3, <1>4 DEF ReceiverPlace, StatesKept, SameUris
<1>6. Introduced'
  BY <1>1, <1>2, <1>4, KnownKept DEF Introduced, StatesKept
<1>7. NewIsNotDown'
  BY <1>1, <1>2, <1>4 DEF NewIsNotDown, StatesKept, SameUris, WorkerPlace, Checked
<1>8. OneThread'
  <2> SUFFICES ASSUME Single'
               PROVE  (rx[1] # "off" => wpc = "receive")'
                        /\ \A i \in DOMAIN knownPeers' : Picture(i)'
    BY DEF OneThread, Single
  <2>1. Single /\ wpc = "receive" /\ \A i \in DOMAIN knownPeers : Picture(i)
    BY <1>1, <1>2 DEF Single, OneThread
  <2>2. ASSUME NEW i \in DOMAIN knownPeers' PROVE Picture(i)'
    <3>1. /\ i \in DOMAIN knownPeers /\ Picture(i)
          /\ knownPeers'[i].uri = knownPeers[i].uri /\ knownPeers'[i].state = knownPeers[i].state
      BY <1>4, <2>1, <2>2 DEF StatesKept, SameUris
    <3> QED
      BY <1>2, <2>1, <3>1 DEF Picture
  <2> QED
    BY <1>2, <2>1, <2>2
<1> QED
  BY <1>2, <1>5, <1>6, <1>7, <1>8 DEF Views, ToldInOrder

LEMMA ReadStep ==
  ASSUME CInv, FirstBinds, Views, RxRead(1)
  PROVE  Views' /\ ToldInOrder
<1> USE Types
<1>1. ReceiverPlace /\ Introduced /\ NewIsNotDown /\ OneThread
  BY DEF Views
<1>2. /\ UNCHANGED <<build, knownPeers, told, wpc, at, got, found>>
      /\ rx[1] = "read" /\ rx'[1] = "set"
      /\ wasDown'[1] = (knownPeers[found[1]].state = "DOWN")
  BY DEF RxRead, Rx, peerVars, workerVars
<1>3. found[1] \in DOMAIN knownPeers /\ knownPeers[found[1]].uri = got[1]
  BY <1>1, <1>2 DEF ReceiverPlace
<1>4. ReceiverPlace' /\ Introduced'
  BY <1>1, <1>2, <1>3 DEF ReceiverPlace, Introduced, Known, Entries
<1>5. NewIsNotDown'
  <2>1. knownPeers[found[1]].state = "DOWN" => told[got[1]] # "new"
    BY <1>1, <1>3 DEF NewIsNotDown
  <2> QED
    BY <1>1, <1>2, <2>1 DEF NewIsNotDown, Checked
<1>6. OneThread'
  <2> SUFFICES ASSUME Single'
               PROVE  (rx[1] # "off" => wpc = "receive")'
                        /\ \A i \in DOMAIN knownPeers' : Picture(i)'
    BY DEF OneThread, Single
  <2>1. Single /\ wpc = "receive" /\ \A i \in DOMAIN knownPeers : Picture(i)
    BY <1>1, <1>2 DEF Single, OneThread
  <2> QED
    BY <1>2, <2>1 DEF Picture
<1> QED
  BY <1>2, <1>4, <1>5, <1>6 DEF Views, ToldInOrder

LEMMA RxSetStep ==
  ASSUME CInv, FirstBinds, Views, RxSet(1)
  PROVE  Views' /\ ToldInOrder
<1> USE Types
<1>1. ReceiverPlace /\ Introduced /\ NewIsNotDown /\ OneThread
  BY DEF Views
<1>2. /\ UNCHANGED <<build, told, wpc, at, got, found, wasDown>>
      /\ rx[1] = "set"
  BY DEF RxSet, Rx, workerVars
<1>3. found[1] \in DOMAIN knownPeers /\ knownPeers[found[1]].uri = got[1]
  BY <1>1, <1>2 DEF ReceiverPlace
<1>4. /\ wasDown[1] => rx'[1] = "tell" /\ StateSet(found[1], "RECONNECT")
      /\ ~wasDown[1] => rx'[1] = "return" /\ StateSet(found[1], "NOMINAL")
  BY <1>3, StateIsSet DEF RxSet, Rx
<1>5. SameUris
  BY <1>4 DEF StateSet
<1>6. ReceiverPlace' /\ Introduced'
  BY <1>1, <1>2, <1>3, <1>4, <1>5, KnownKept DEF ReceiverPlace, Introduced, SameUris
<1>7. NewIsNotDown'
  <2>1. wasDown[1] => told[got[1]] # "new"
    BY <1>1, <1>2 DEF NewIsNotDown
  <2>2. \A i \in DOMAIN knownPeers :
          told[knownPeers[i].uri] = "new" =>
            \/ knownPeers'[i].state \in {"NEW", "NOMINAL"}
            \/ knownPeers'[i].state = "MISSED_UPD" /\ wpc = "tellMissed" /\ at = i
    BY <1>1, <1>3, <1>4, <2>1 DEF NewIsNotDown, StateSet
  <2>3. \A i \in DOMAIN knownPeers' :
          i \in DOMAIN knownPeers /\ knownPeers'[i].uri = knownPeers[i].uri
    BY <1>5 DEF SameUris
  <2>4. wpc \in {"setDown", "tellDown"} => told[knownPeers'[at].uri] # "new"
    BY <1>1, <1>5 DEF NewIsNotDown, Checked, WorkerPlace, SameUris
  <2>5. rx'[1] = "tell" \/ (rx'[1] = "set" /\ wasDown'[1]) => told[got[1]] # "new"
    BY <1>4, <2>1
  <2> QED
    BY <1>2, <2>2, <2>3, <2>4, <2>5 DEF NewIsNotDown, Checked
<1>8. OneThread'
  <2> SUFFICES ASSUME Single'
               PROVE  (rx[1] # "off" => wpc = "receive")'
                        /\ \A i \in DOMAIN knownPeers' : Picture(i)'
    BY DEF OneThread, Single
  <2>1. Single /\ wpc = "receive" /\ \A i \in DOMAIN knownPeers : Picture(i)
    BY <1>1, <1>2 DEF Single, OneThread
  <2>2. ASSUME NEW i \in DOMAIN knownPeers' PROVE Picture(i)'
    <3>1. i \in DOMAIN knownPeers /\ Picture(i) /\ knownPeers'[i].uri = knownPeers[i].uri
      BY <1>5, <2>1, <2>2 DEF SameUris
    <3>2. CASE wasDown[1]
      BY <1>2, <1>4, <2>1, <3>1, <3>2 DEF Picture, StateSet, Agreed
    <3>3. CASE ~wasDown[1]
      BY <1>2, <1>4, <2>1, <3>1, <3>3 DEF Picture, StateSet, Agreed
    <3> QED
      BY <3>2, <3>3
  <2> QED
    BY <1>2, <2>1, <2>2
<1> QED
  BY <1>2, <1>6, <1>7, <1>8 DEF Views, ToldInOrder

LEMMA RxTellStep ==
  ASSUME CInv, FirstBinds, Views, RxTell(1)
  PROVE  Views' /\ ToldInOrder
<1> USE Types
<1> DEFINE p == got[1]
<1> DEFINE word == IF rx[1] = "tell" THEN "reconnect" ELSE "new"
<1>1. ReceiverPlace /\ Introduced /\ NewIsNotDown /\ OneThread
  BY DEF Views
<1>2. /\ UNCHANGED <<build, knownPeers, wpc, at, got, found, wasDown>>
      /\ \/ rx[1] = "tell" /\ rx'[1] = "return"
         \/ rx[1] = "new" /\ rx'[1] = "push"
  BY DEF RxTell, Rx, workerVars
<1>3. p \in Peers
  OBVIOUS
<1>4. told' = [told EXCEPT ![p] = word]
  BY DEF RxTell, Rx
<1>5. told'[p] = word /\ \A q \in Peers : q # p => told'[q] = told[q]
  BY <1>3, <1>4
<1>6. rx[1] = "tell" =>
        word = "reconnect" /\ found[1] \in DOMAIN knownPeers /\ knownPeers[found[1]].uri = p
          /\ Known(p) /\ told[p] \notin {None, "new"}
  <2> SUFFICES ASSUME rx[1] = "tell"
               PROVE  word = "reconnect" /\ found[1] \in DOMAIN knownPeers
                        /\ knownPeers[found[1]].uri = p /\ Known(p)
                        /\ told[p] \notin {None, "new"}
    OBVIOUS
  <2>1. found[1] \in DOMAIN knownPeers /\ knownPeers[found[1]].uri = p
    BY <1>1 DEF ReceiverPlace
  <2>2. Known(p)
    BY <2>1 DEF Known, Entries
  <2>3. told[p] # "new" /\ told[p] # None
    BY <1>1, <1>3, <2>2 DEF NewIsNotDown, Introduced
  <2> QED
    BY <2>1, <2>2, <2>3
<1>7. rx[1] = "new" => word = "new" /\ ~Known(p) /\ told[p] = None
  BY <1>1, <1>3 DEF Registers, Introduced
<1> HIDE DEF word, p
<1>8. ReceiverPlace'
  BY <1>2 DEF ReceiverPlace
<1>9. \A q : Known(q)' <=> Known(q)
  BY <1>2 DEF Known, Entries
<1>10. Introduced'
  <2> SUFFICES ASSUME NEW q \in Peers
               PROVE  /\ (rx[1] = "push" /\ got[1] = q => told[q] = "new")'
                      /\ (told[q] = None)' <=>
                           (~Known(q) /\ ~(rx[1] = "push" /\ got[1] = q))'
    BY DEF Introduced
  <2>1. got'[1] = p
    BY <1>2 DEF p
  <2>2. told[q] = None <=> ~Known(q) /\ ~(rx[1] = "push" /\ got[1] = q)
    BY <1>1 DEF Introduced
  <2>3. CASE rx[1] = "tell"
    BY <1>2, <1>5, <1>6, <1>9, <2>1, <2>2, <2>3 DEF None
  <2>4. CASE rx[1] = "new"
    BY <1>2, <1>5, <1>7, <1>9, <2>1, <2>2, <2>4 DEF None
  <2> QED
    BY <1>2, <2>3, <2>4
<1>11. \A i \in DOMAIN knownPeers : knownPeers[i].uri \in Peers /\ Known(knownPeers[i].uri)
  <2>1. \A i \in DOMAIN knownPeers : knownPeers[i] \in Entry
    BY DEF ListTypeOK
  <2> QED
    BY <2>1 DEF Entry, Known, Entries
<1>12. \A i \in DOMAIN knownPeers :
         \/ told'[knownPeers[i].uri] = told[knownPeers[i].uri]
         \/ /\ rx[1] = "tell" /\ knownPeers[i].uri = p /\ i = found[1]
            /\ told'[knownPeers[i].uri] = "reconnect"
  BY <1>2, <1>5, <1>6, <1>7, <1>11 DEF Unique
<1>13. NewIsNotDown'
  <2>1. \A i \in DOMAIN knownPeers :
          told'[knownPeers[i].uri] = "new" => told[knownPeers[i].uri] = "new"
    BY <1>12
  <2>2. rx'[1] \notin {"tell", "set"}
    BY <1>2
  <2>3. wpc \in {"setDown", "tellDown"} => at \in DOMAIN knownPeers
    BY DEF WorkerPlace
  <2> QED
    BY <1>1, <1>2, <2>1, <2>2, <2>3 DEF NewIsNotDown, Checked
<1>14. OneThread'
  <2> SUFFICES ASSUME Single'
               PROVE  (rx[1] # "off" => wpc = "receive")'
                        /\ \A i \in DOMAIN knownPeers' : Picture(i)'
    BY DEF OneThread, Single
  <2>1. Single /\ wpc = "receive" /\ \A i \in DOMAIN knownPeers : Picture(i)
    BY <1>1, <1>2 DEF Single, OneThread
  <2>2. ASSUME NEW i \in DOMAIN knownPeers' PROVE Picture(i)'
    <3>1. i \in DOMAIN knownPeers /\ Picture(i)
      BY <1>2, <2>1, <2>2
    <3>2. CASE rx[1] = "tell" /\ i = found[1]
      <4>1. told'[knownPeers[i].uri] = "reconnect"
        BY <1>5, <1>6, <3>2
      <4> QED
        BY <1>2, <2>1, <3>1, <3>2, <4>1 DEF Picture, Agreed
    <3>3. CASE ~(rx[1] = "tell" /\ i = found[1])
      <4>1. told'[knownPeers[i].uri] = told[knownPeers[i].uri]
        BY <1>12, <3>1, <3>3
      <4> QED
        BY <1>2, <2>1, <3>1, <3>3, <4>1 DEF Picture
    <3> QED
      BY <3>2, <3>3
  <2> QED
    BY <1>2, <2>1, <2>2
<1>15. ToldInOrder
  <2>1. CASE rx[1] = "new"
    BY <1>5, <1>7, <2>1 DEF ToldInOrder, Follows
  <2>2. CASE rx[1] = "tell" /\ Single
    <3>1. Picture(found[1])
      BY <1>1, <1>6, <2>2 DEF OneThread
    <3>2. told[p] = "down"
      BY <1>6, <2>2, <3>1 DEF Picture
    <3> QED
      BY <1>5, <1>6, <2>2, <3>2 DEF ToldInOrder, Follows
  <2>3. CASE rx[1] = "tell" /\ Threaded
    <3>1. told[p] \in {"missed", "down", "reconnect"}
      BY <1>3, <1>6, <2>3 DEF Callbacks
    <3> QED
      BY <1>5, <1>6, <2>3, <3>1 DEF ToldInOrder, Follows, Races
  <2> QED
    BY <1>2, <2>1, <2>2, <2>3 DEF FirstSocket
<1> QED
  BY <1>8, <1>10, <1>13, <1>14, <1>15 DEF Views

LEMMA PushStep ==
  ASSUME CInv, FirstBinds, Views, RxPush(1)
  PROVE  Views' /\ ToldInOrder
<1> USE Types
<1>1. ReceiverPlace /\ Introduced /\ NewIsNotDown /\ OneThread
  BY DEF Views
<1>2. /\ UNCHANGED <<build, told, wpc, at, got, found, wasDown>>
      /\ rx[1] = "push" /\ rx'[1] = "return"
  BY DEF RxPush, Rx, workerVars
<1>3. PICK e \in Entry : knownPeers' = Append(knownPeers, e) /\ e.uri = got[1] /\ e.state = "NEW"
  <2>1. PICK time \in Times :
          knownPeers' = Append(knownPeers, [uri |-> got[1], state |-> "NEW", lastSeen |-> time])
    BY DEF RxPush
  <2> QED
    BY <2>1 DEF Entry, PeerStates
<1> DEFINE n == Len(knownPeers) + 1
<1>4. /\ DOMAIN knownPeers' = DOMAIN knownPeers \cup {n} /\ n \notin DOMAIN knownPeers
      /\ knownPeers'[n] = e
      /\ \A i \in DOMAIN knownPeers : knownPeers'[i] = knownPeers[i]
  <2>1. knownPeers \in Seq(Entry)
    BY DEF ListTypeOK
  <2> QED
    BY <1>3, <2>1
<1> HIDE DEF n
<1>5. told[got[1]] = "new"
  BY <1>1, <1>2 DEF Introduced
<1>6. ReceiverPlace'
  BY <1>2 DEF ReceiverPlace
<1>7. \A p : Known(p)' <=> Known(p) \/ p = got[1]
  BY <1>3, <1>4 DEF Known, Entries
<1>8. Introduced'
  BY <1>1, <1>2, <1>5, <1>7 DEF Introduced, None
<1>9. NewIsNotDown'
  <2>1. \A i \in DOMAIN knownPeers' :
          told[knownPeers'[i].uri] = "new" =>
            \/ knownPeers'[i].state \in {"NEW", "NOMINAL"}
            \/ knownPeers'[i].state = "MISSED_UPD" /\ wpc = "tellMissed" /\ at = i
    BY <1>1, <1>3, <1>4 DEF NewIsNotDown
  <2>2. wpc \in {"setDown", "tellDown"} => told[knownPeers'[at].uri] # "new"
    BY <1>1, <1>4 DEF NewIsNotDown, Checked, WorkerPlace
  <2> QED
    BY <1>2, <2>1, <2>2 DEF NewIsNotDown, Checked
<1>10. OneThread'
  <2> SUFFICES ASSUME Single'
               PROVE  (rx[1] # "off" => wpc = "receive")'
                        /\ \A i \in DOMAIN knownPeers' : Picture(i)'
    BY DEF OneThread, Single
  <2>1. Single /\ wpc = "receive" /\ \A i \in DOMAIN knownPeers : Picture(i)
    BY <1>1, <1>2 DEF Single, OneThread
  <2>2. ASSUME NEW i \in DOMAIN knownPeers' PROVE Picture(i)'
    <3>1. CASE i = n
      BY <1>2, <1>3, <1>4, <1>5, <2>1, <3>1 DEF Picture, Agreed
    <3>2. CASE i # n
      BY <1>2, <1>4, <2>1, <2>2, <3>2 DEF Picture
    <3> QED
      BY <3>1, <3>2
  <2> QED
    BY <1>2, <2>1, <2>2
<1> QED
  BY <1>2, <1>6, <1>8, <1>9, <1>10 DEF Views, ToldInOrder

-----------------------------------------------------------------------------
\* The step of the whole beacon.
LEMMA ViewsStep ==
  ASSUME CInv, BInv', FirstBinds, [Next]_vars
  PROVE  Views' /\ ToldInOrder
<1>1. Views
  BY DEF CInv
<1>2. CASE UNCHANGED vars \/ Start \/ Stop
  BY <1>1, <1>2, QuietSteps
<1>3. CASE BeaconWorker
  BY <1>1, <1>3, QuietSteps, DecideStep, SetStep, TellStep DEF BeaconWorker
<1>4. ASSUME NEW t \in Receivers, Receiver(t) PROVE Views' /\ ToldInOrder
  <2>1. CASE t = 1
    <3>1. Receiver(1)
      BY <1>4, <2>1
    <3> QED
      BY <1>1, <3>1, QuietReceiver, FindStep, ReadStep, RxSetStep, RxTellStep, PushStep
         DEF Receiver
  <2>2. CASE t # 1
    BY <1>1, <1>4, <2>2, OtherReceivers
  <2> QED
    BY <2>1, <2>2
<1>5. CASE \/ \E p \in Peers \ {Self} : Deliver(p)
           \/ \E i \in DOMAIN knownPeers : TimePasses(i)
  BY <1>1, <1>5, QuietSteps
<1> QED
  BY <1>2, <1>3, <1>4, <1>5 DEF Next

\* the list never shrinks, so the entry the worker checks stays
LEMMA WorkerPlaceStep ==
  ASSUME CInv, [Next]_vars
  PROVE  WorkerPlace'
<1> USE Types
<1> DEFINE Checking == {"decide", "setMissed", "setDown", "setNominal", "tellMissed", "tellDown"}
<1>1. knownPeers \in Seq(Entry)
  BY DEF ListTypeOK
<1>2. DOMAIN knownPeers \subseteq DOMAIN knownPeers'
  <2>1. \/ DOMAIN knownPeers' = DOMAIN knownPeers
        \/ \E e : knownPeers' = Append(knownPeers, e)
    BY DEF Next, BeaconWorker, Receiver, vars, Start, Stop, WorkerTest, CheckUp, CheckDecide,
       CheckSet, CheckTell, CheckEnd, Send, RxTest, RxTake, RxNothing, RxFails, RxFind, RxRead,
       RxSet, RxTell, RxPush, RxReturn, Deliver, TimePasses, peerVars
  <2>2. ASSUME NEW e, knownPeers' = Append(knownPeers, e)
        PROVE  DOMAIN knownPeers \subseteq DOMAIN knownPeers'
    <3>1. DOMAIN Append(knownPeers, e) = 1 .. Len(knownPeers) + 1
      BY <1>1
    <3> QED
      BY <1>1, <2>2, <3>1
  <2> QED
    BY <2>1, <2>2
<1>3. \/ wpc' \notin Checking
      \/ wpc \in Checking /\ at' = at
      \/ wpc = "check" /\ at \in DOMAIN knownPeers /\ at' = at
  <2>1. CASE CheckUp
    <3>1. at <= Len(knownPeers) /\ at \in Nat \ {0}
      BY <2>1 DEF CheckUp, TypeRest
    <3>2. at \in DOMAIN knownPeers
      BY <1>1, <3>1
    <3> QED
      BY <2>1, <3>2 DEF CheckUp, Worker
  <2>2. CASE ~CheckUp
    BY <2>2 DEF Next, BeaconWorker, Receiver, vars, Start, Stop, WorkerTest, CheckDecide,
       CheckSet, CheckTell, CheckEnd, Send, RxTest, RxTake, RxNothing, RxFails, RxFind, RxRead,
       RxSet, RxTell, RxPush, RxReturn, Deliver, TimePasses, workerVars, Worker, Stays, Advances
  <2> QED
    BY <2>1, <2>2
<1> QED
  BY <1>2, <1>3 DEF WorkerPlace

\* the port is taken once
LEMMA FirstBindsKept ==
  ASSUME [Next]_vars
  PROVE  FirstBinds' => FirstBinds
<1>1. build' = build
  BY DEF Next, BeaconWorker, Receiver, vars, Start, Stop, WorkerTest, CheckUp, CheckDecide,
     CheckSet, CheckTell, CheckEnd, Send, RxTest, RxTake, RxNothing, RxFails, RxFind, RxRead,
     RxSet, RxTell, RxPush, RxReturn, Deliver, TimePasses
<1>2. CASE Start
  <2>1. bound' = bound \/ bound = 0
    BY <1>2 DEF Start, OpensSocket, SocketFails
  <2> QED
    BY <1>1, <2>1 DEF FirstBinds, Single
<1>3. CASE ~Start
  <2>1. bound' = bound
    BY <1>3 DEF Next, BeaconWorker, Receiver, vars, Stop, WorkerTest, CheckUp, CheckDecide,
       CheckSet, CheckTell, CheckEnd, Send, RxTest, RxTake, RxNothing, RxFails, RxFind, RxRead,
       RxSet, RxTell, RxPush, RxReturn, Deliver, TimePasses, sockVars
  <2> QED
    BY <1>1, <2>1 DEF FirstBinds, Single
<1> QED
  BY <1>2, <1>3

LEMMA CInvariant == Spec => []CInv
<1>1. Init /\ BInv => CInv
  <2> SUFFICES ASSUME Init, BInv PROVE CInv
    OBVIOUS
  <2>1. 1 \in Receivers /\ knownPeers = <<>> /\ rx[1] = "off" /\ wpc = "off"
    BY BeaconAssumption DEF Init, Receivers
  <2>2. TypeOK
    <3>1. inbox = <<>> /\ Len(inbox) <= MaxInbox
      BY BeaconAssumption DEF Init
    <3>2. /\ told \in [Peers -> Callbacks \cup {None}]
          /\ found \in [Receivers -> Nat \ {0}] /\ wasDown \in [Receivers -> BOOLEAN]
      BY DEF Init
    <3>3. /\ build \in {"threaded", "single"} /\ thread_run \in BOOLEAN
          /\ errno \in {"EAGAIN", "other"} /\ down \in BOOLEAN
          /\ iterating \in BOOLEAN
      BY DEF Init
    <3>4. wpc \in WorkerSteps /\ at \in Nat \ {0}
      BY DEF Init, WorkerSteps
    <3>5. TypeRest
      BY <3>1, <3>2, <3>3, <3>4 DEF TypeRest
    <3> QED
      BY <3>5, TypeParts DEF BInv
  <2>3. \A p \in Peers : told[p] = None /\ ~Known(p)
    BY DEF Init, Known, Entries
  <2>4. ReceiverPlace /\ Introduced /\ WorkerPlace
    BY <2>1, <2>3 DEF ReceiverPlace, Introduced, WorkerPlace
  <2>5. NewIsNotDown /\ OneThread
    BY <2>1 DEF NewIsNotDown, OneThread
  <2> QED
    BY <2>2, <2>4, <2>5 DEF CInv, Views
<1>2. CInv /\ BInv' /\ [Next]_vars => CInv'
  <2> SUFFICES ASSUME CInv, BInv', [Next]_vars PROVE CInv'
    OBVIOUS
  <2>1. FirstBinds' => FirstBinds
    BY FirstBindsKept
  <2>2. TypeOK'
    BY TypeStep DEF CInv, BInv
  <2> QED
    BY <2>1, <2>2, ViewsStep, WorkerPlaceStep DEF CInv
<1> QED
  BY <1>1, <1>2, BInvariant, PTL DEF Spec

(* The beacon's variables keep their types for any peers, any number of     *)
(* starts and any buffer: above all the indices into knownPeers, which the  *)
(* two threads use without a lock, stay places of a list that only grows.   *)
THEOREM BeaconTypeCorrect == Spec => []TypeOK
<1>1. CInv => TypeOK
  BY DEF CInv
<1> QED
  BY <1>1, CInvariant, PTL

(* Between two iterations of the single-threaded build the application's    *)
(* picture of every peer, made from the callbacks, agrees with knownPeers.  *)
THEOREM ApplicationIsInformed == Spec => []ApplicationKnows
<1>1. CInv => ApplicationKnows
  <2> SUFFICES ASSUME CInv, Single, wpc = "idle", NEW e \in ToSet(knownPeers)
               PROVE  /\ told[e.uri] = "down" <=> e.state = "DOWN"
                      /\ e.state = "MISSED_UPD" => told[e.uri] = "missed"
                      /\ told[e.uri] = "missed" => e.state \in {"MISSED_UPD", "NOMINAL"}
    BY DEF ApplicationKnows
  <2>1. OneThread
    BY DEF CInv, FirstBinds, Views
  <2>2. PICK i \in DOMAIN knownPeers : e = knownPeers[i]
    BY DEF ToSet
  <2>3. Picture(i) /\ rx[1] = "off"
    BY <2>1, <2>2 DEF OneThread
  <2>4. <<knownPeers[i].state, told[knownPeers[i].uri]>> \in Agreed
    BY <2>3 DEF Picture
  <2> QED
    BY <2>2, <2>4 DEF Agreed
<1> QED
  BY <1>1, CInvariant, PTL

(* What the application is told of a peer follows the peer's life in both   *)
(* builds: new first and once, missed before down, and in the build of one  *)
(* thread exactly the order of checkHosts and registerHost.                 *)
THEOREM CallbacksFollowLife == Spec => CallbackOrder
<1>1. CInv /\ BInv' /\ [Next]_vars =>
        [\A p \in Peers :
           FirstBinds /\ told'[p] # told[p] =>
             \/ <<told[p], told'[p]>> \in Follows
             \/ Threaded /\ <<told[p], told'[p]>> \in Races]_vars
  BY ViewsStep DEF ToldInOrder
<1> QED
  BY <1>1, BInvariant, CInvariant, PTL DEF Spec, CallbackOrder
-----------------------------------------------------------------------------
\* The single thread's errno.  EAGAIN is left by a poll of the bound socket; a
\* beacon that runs is polled by iterate, whose sleep sets errno anew.
ErrnoInv ==
  Single =>
    /\ errno = "EAGAIN" => bound # 0
    /\ thread_run /\ wpc \notin {"off", "idle"} => iterating
    /\ thread_run /\ errno = "EAGAIN" => wpc = "receive" /\ rx[1] = "return"

\* in that build there is one receiver, and it is a call of the worker
LEMMA OneReceiver ==
  ASSUME CInv, Single, NEW t \in Receivers, rx[t] # "off"
  PROVE  t = 1 /\ wpc = "receive"
BY DEF CInv, BInv, FirstSocket, FirstBinds, Views, OneThread

LEMMA ErrnoStep ==
  ASSUME CInv, ErrnoInv, [Next]_vars
  PROVE  ErrnoInv'
<1>1. /\ 1 \in Receivers /\ rx \in [Receivers -> RxSteps]
      /\ starts \in Nat /\ bound \in Nat /\ bound <= starts
  BY BeaconAssumption DEF CInv, BInv, ListTypeOK, FirstSocket, Receivers
<1>2. CASE UNCHANGED vars
  BY <1>2 DEF vars, sockVars, workerVars, rxVars, ErrnoInv, Single
<1>3. CASE Start
  <2>1. build' = build /\ (Single => wpc' = "idle")
    BY <1>3 DEF Start, Single, Threaded
  <2>2. CASE rxsocket' = 0 \/ rxsocket' # bound'
    BY <1>3, <2>1, <2>2 DEF Start, ErrnoInv, Single
  <2>3. CASE rxsocket' # 0 /\ rxsocket' = bound'
    <3>1. bound = 0
      BY <1>1, <1>3, <2>3 DEF Start, OpensSocket, SocketFails
    <3>2. errno' = errno
      BY <1>3, <2>3 DEF Start
    <3> QED
      BY <2>1, <3>1, <3>2 DEF ErrnoInv, Single
  <2> QED
    BY <2>2, <2>3
<1>4. CASE Stop
  BY <1>4 DEF Stop, ErrnoInv, Single, Threaded, sockVars, rxVars
<1>5. CASE BeaconWorker
  <2>1. UNCHANGED <<build, thread_run, bound>> /\ errno' \in {errno, "other"}
    BY <1>5 DEF BeaconWorker, WorkerTest, CheckUp, CheckDecide, CheckSet, CheckTell,
         CheckEnd, Send, sockVars, rxVars
  <2>2. wpc # "receive"
    BY <1>5 DEF BeaconWorker, WorkerTest, CheckUp, CheckDecide, CheckSet, CheckTell,
         CheckEnd, Send, Worker
  <2>3. \/ wpc = "idle" /\ iterating' = TRUE
        \/ wpc = "test" /\ iterating' = iterating
        \/ wpc \notin {"off", "idle"} /\ iterating' = iterating
    BY <1>5 DEF BeaconWorker, WorkerTest, CheckUp, CheckDecide, CheckSet, CheckTell,
         CheckEnd, Send, Worker
  <2> QED
    BY <2>1, <2>2, <2>3 DEF ErrnoInv, Single
<1>6. ASSUME NEW t \in Receivers, Receiver(t) PROVE ErrnoInv'
  <2>1. build' = build /\ bound' = bound /\ thread_run' = thread_run
    BY <1>6 DEF Receiver, RxTest, RxTake, RxNothing, RxFails, RxFind, RxRead, RxSet,
         RxTell, RxPush, RxReturn, sockVars
  <2>2. SUFFICES ASSUME Single PROVE ErrnoInv'
    BY <2>1 DEF ErrnoInv, Single
  <2>3. rx[t] # "off"
    BY <1>6, ReceiverFrame DEF CInv
  <2>4. t = 1 /\ wpc = "receive"
    BY <2>2, <2>3, OneReceiver
  <2>5. CASE RxReturn(t)
    BY <2>1, <2>2, <2>4, <2>5 DEF RxReturn, Slept, ErrnoInv, Single, Threaded
  <2>6. CASE RxNothing(t)
    BY <1>1, <2>1, <2>2, <2>4, <2>6 DEF RxNothing, Rx, workerVars, ErrnoInv, Single
  <2>7. CASE ~RxReturn(t) /\ ~RxNothing(t)
    <3>1. rx[1] # "return" /\ wpc' = wpc /\ iterating' = iterating
          /\ errno' \in {errno, "other"}
      BY <1>6, <2>4, <2>7 DEF Receiver, RxTest, RxTake, RxFails, RxFind, RxRead, RxSet,
           RxTell, RxPush, Rx, workerVars
    <3> QED
      BY <2>1, <2>2, <2>4, <3>1 DEF ErrnoInv, Single
  <2> QED
    BY <2>5, <2>6, <2>7
<1>7. CASE \/ \E p \in Peers \ {Self} : Deliver(p)
           \/ \E i \in DOMAIN knownPeers : TimePasses(i)
  BY <1>7 DEF Deliver, TimePasses, sockVars, workerVars, rxVars, ErrnoInv, Single
<1> QED
  BY <1>2, <1>3, <1>4, <1>5, <1>6, <1>7 DEF Next

(* A running beacon of one thread registers the sender of every packet it   *)
(* takes, however often it is stopped and started again.                    *)
THEOREM RunningBeaconHears == Spec => HearsWhileRunning
<1>1. Init => ErrnoInv
  BY DEF Init, ErrnoInv
<1>2. ASSUME CInv, ErrnoInv, [Next]_vars, Single, thread_run,
             Len(inbox') < Len(inbox)
      PROVE  rx'[1] = "find"
  <2>1. inbox \in Seq(Peers) /\ rx \in [Receivers -> RxSteps]
    BY <1>2 DEF CInv, BInv, ListTypeOK
  <2>2. Len(inbox) \in Nat /\ \A p : Len(Append(inbox, p)) = Len(inbox) + 1
    BY <2>1
  <2>3. inbox' # inbox /\ \A p : inbox' # Append(inbox, p)
    BY <1>2, <2>2
  <2>4. PICK t \in Receivers : RxTake(t)
    BY <1>2, <2>3 DEF Next, Start, Stop, BeaconWorker, WorkerTest, CheckUp, CheckDecide,
         CheckSet, CheckTell, CheckEnd, Send, Receiver, RxTest, RxNothing, RxFails, RxFind,
         RxRead, RxSet, RxTell, RxPush, RxReturn, Deliver, TimePasses, Arrives, vars
  <2>5. rx[t] = "recv"
    BY <2>4 DEF RxTake, Rx
  <2>6. t = 1
    BY <1>2, <2>5, OneReceiver
  <2>7. errno # "EAGAIN"
    BY <1>2, <2>5, <2>6 DEF ErrnoInv
  <2> QED
    BY <2>1, <2>4, <2>6, <2>7 DEF RxTake, Rx, Discards
<1>3. CInv /\ ErrnoInv /\ [Next]_vars =>
        [Single /\ thread_run /\ Len(inbox') < Len(inbox) => rx'[1] = "find"]_vars
  BY <1>2
<1> QED
  BY <1>1, <1>3, ErrnoStep, CInvariant, PTL DEF Spec, HearsWhileRunning
=============================================================================
