------------------------ MODULE Cc3000Sockets_proofs ------------------------
(* Proofs about the sockets of the CC3000 library, for every number of       *)
(* sockets, server slots and buffers: every connection of the device has one *)
(* owner, and the counter in socket.cpp keeps the account TransmitBuffers.   *)
EXTENDS Cc3000Sockets, WellFoundedInduction, FiniteSetTheorems, SequenceTheorems, TLAPS

(* A set of numbers has a least element.                                   *)
LEMMA LeastNumber ==
  ASSUME NEW T \in SUBSET Nat, T # {}
  PROVE  \E m \in T : \A k \in T : m <= k
<1> DEFINE R == OpToRel(<, Nat)
<1>1. PICK m \in T : \A k \in T : <<k, m>> \notin R
  <2>1. IsWellFoundedOn(R, Nat)
    BY NatLessThanWellFounded
  <2> HIDE DEF R
  <2>2. QED
    BY <2>1, WFMin
<1>2. \A k \in T : ~ (k < m)
  BY <1>1 DEF OpToRel
<1>3. QED
  BY <1>2

Stages ==
  {"idle", "connected", "selected", "available", "accept", "flow", "store", "send",
   "waits", "read", "close", "connect", "connecting", "begin"}
Tasks == {"one", "accept", "ready", "write"}

TypeInv ==
  /\ pc \in Stages /\ task \in Tasks
  /\ at \in Clients /\ (task # "one" => at \in Slots)
  /\ soc \in Sockets \cup {NoSocket}
  /\ client \in [Clients -> [socket : Sockets \cup {NoSocket}, left : Int]]
  /\ device \in [Sockets -> [st : {"free", "new", "listen", "conn", "gone"},
                             inbox : Int, fin : BOOLEAN]]

\* A client's socket is a connection, no other client has it, and every
\* connection is the socket of a client.
Connection(s) == device[s].st \in {"conn", "gone"}
Open(i) == client[i].socket # NoSocket

Owners ==
  /\ \A i \in Clients : Open(i) => Connection(client[i].socket)
  /\ \A i, j \in Clients : Open(i) /\ client[i].socket = client[j].socket => i = j
  /\ \A s \in Sockets : Connection(s) => \E i \in Clients : client[i].socket = s

\* What the program knows where it is: the local socket is nobody's yet, a slot
\* that accept() fills is empty, and only open clients read, write and close.
Places ==
  /\ pc \in {"connecting", "begin"} => soc \in Sockets /\ device[soc].st = "new"
  /\ pc \in {"connect", "connecting"} => ~ Open(Own)
  /\ pc = "accept" => ~ Open(at)
  /\ pc \in {"selected", "available", "flow", "store", "send", "read", "close"} => Open(at)

OwnersInv == TypeInv /\ Owners /\ Places

-----------------------------------------------------------------------------
(* Operators of the model                                                    *)

LEMMA MinNumber ==
  ASSUME NEW S \in SUBSET Nat, S # {}
  PROVE  Min(S) \in S /\ \A x \in S : Min(S) <= x
<1>1. \E m \in S : \A x \in S : m <= x
  BY LeastNumber
<1>2. QED
  BY <1>1 DEF Min

LEMMA FreeSocket ==
  ASSUME TypeInv, FreeSockets # {}
  PROVE  /\ Min(FreeSockets) \in Sockets
         /\ device[Min(FreeSockets)].st = "free"
<1>1. FreeSockets \in SUBSET Nat
  BY SocketsAssumption DEF FreeSockets
<1>2. Min(FreeSockets) \in FreeSockets
  BY <1>1, MinNumber
<1>3. QED
  BY <1>2 DEF FreeSockets

LEMMA NoSocketFacts == NoSocket \notin Sockets
BY SocketsAssumption DEF NoSocket

LEMMA ClientFacts ==
  /\ Own \in Clients /\ Min(Slots) \in Slots /\ Slots \subseteq Clients /\ Slots \subseteq Nat
<1>1. Slots \in SUBSET Nat /\ Slots # {}
  BY SlotsAssumption
<1>2. QED
  BY <1>1, MinNumber DEF Clients

\* Where a call for a client ends, and where connected() goes on.
Continues(places) ==
  /\ pc' \in places /\ task' \in Tasks
  /\ at' \in Clients /\ (task' # "one" => at' \in Slots)

LEMMA IdleContinues == Idle => Continues({"idle"})
BY ClientFacts DEF Idle, Continues, Tasks

LEMMA NextClientContinues ==
  ASSUME TypeInv, NextClient
  PROVE  Continues({"idle", "connected"})
<1> DEFINE rest == {i \in Slots : i > at}
<1>1. CASE task # "one" /\ rest # {}
  <2>1. rest \in SUBSET Nat /\ Min(rest) \in rest
    BY <1>1, ClientFacts, MinNumber
  <2>2. pc' = "connected" /\ at' = Min(rest) /\ UNCHANGED task
    BY <1>1 DEF NextClient
  <2>3. QED
    BY <2>1, <2>2, ClientFacts DEF Continues, TypeInv
<1>2. CASE task = "accept" /\ rest = {}
  <2>1. pc' = "connected" /\ at' = Min(Slots) /\ task' = "ready"
    BY <1>2 DEF NextClient
  <2>2. QED
    BY <2>1, ClientFacts DEF Continues, Tasks
<1>3. CASE task = "one" \/ (task # "accept" /\ rest = {})
  <2>1. Idle
    BY <1>3 DEF NextClient
  <2>2. QED
    BY <2>1, IdleContinues DEF Continues
<1>4. QED
  BY <1>1, <1>2, <1>3

LEMMA CheckedContinues ==
  ASSUME TypeInv, NEW b \in BOOLEAN, Checked(b)
  PROVE  /\ Continues({"idle", "connected", "accept", "flow", "available"})
         /\ pc' \in {"flow", "available"} => b /\ at' = at
         /\ pc' = "accept" => ~ b /\ at' = at
<1>1. CASE task = "accept" /\ ~ b
  BY <1>1 DEF Checked, Continues, TypeInv
<1>2. CASE task = "write" /\ b
  BY <1>2 DEF Checked, Continues, TypeInv
<1>3. CASE task = "ready" /\ b
  BY <1>3 DEF Checked, Continues, TypeInv
<1>4. CASE ~ (task = "accept" /\ ~ b) /\ ~ (task \in {"write", "ready"} /\ b)
  <2>1. NextClient
    BY <1>4 DEF Checked
  <2>2. QED
    BY <2>1, NextClientContinues DEF Continues
<1>5. QED
  BY <1>1, <1>2, <1>3, <1>4

-----------------------------------------------------------------------------
(* How ownership changes                                                     *)

ClientType == client \in [Clients -> [socket : Sockets \cup {NoSocket}, left : Int]]
DeviceType ==
  device \in [Sockets -> [st : {"free", "new", "listen", "conn", "gone"},
                          inbox : Int, fin : BOOLEAN]]

\* A client gives up its connection and the device closes it.
LEMMA ConnectionClosed ==
  ASSUME OwnersInv, NEW i \in Clients, Open(i), closesocket(client[i].socket),
         client' = [client EXCEPT ![i].socket = NoSocket]
  PROVE  Owners' /\ ClientType' /\ DeviceType'
<1> DEFINE s == client[i].socket
<1>1. s \in Sockets /\ s # NoSocket
  BY NoSocketFacts DEF OwnersInv, TypeInv, Open
<1>2. device' = [device EXCEPT ![s] = Free] /\ Free.st = "free"
  BY DEF closesocket, Free
<1>3. DeviceType'
  BY <1>1, <1>2 DEF DeviceType, OwnersInv, TypeInv, Free
<1>4. ClientType'
  BY DEF ClientType, OwnersInv, TypeInv
<1>5. /\ client'[i].socket = NoSocket
      /\ \A k \in Clients : k # i => client'[k] = client[k]
  BY DEF OwnersInv, TypeInv
<1>6. /\ device'[s].st = "free"
      /\ \A t \in Sockets : t # s => device'[t] = device[t]
  BY <1>1, <1>2 DEF OwnersInv, TypeInv
<1>7. ASSUME NEW k \in Clients, client'[k].socket # NoSocket
      PROVE  /\ client'[k].socket = client[k].socket /\ client'[k].socket # s
             /\ client[k].socket \in Sockets
  BY <1>5, <1>7 DEF OwnersInv, Owners, Open, TypeInv
<1> HIDE DEF s
<1>8. \A k \in Clients : Open(k)' => Connection(client[k].socket)'
  BY <1>6, <1>7 DEF OwnersInv, Owners, Open, Connection
<1>9. \A k, m \in Clients : Open(k)' /\ client'[k].socket = client'[m].socket => k = m
  BY <1>7 DEF OwnersInv, Owners, Open
<1>10. ASSUME NEW t \in Sockets, Connection(t)'
       PROVE  \E k \in Clients : client'[k].socket = t
  <2>1. t # s /\ Connection(t)
    BY <1>6, <1>10 DEF Connection
  <2>2. PICK k \in Clients : client[k].socket = t
    BY <2>1 DEF OwnersInv, Owners
  <2>3. QED
    BY <1>5, <2>1, <2>2 DEF s
<1>11. QED
  BY <1>3, <1>4, <1>8, <1>9, <1>10 DEF Owners

\* A client that has none gets a connection that is new in the device.
LEMMA ConnectionGiven ==
  ASSUME OwnersInv, NEW i \in Clients, ~ Open(i),
         NEW s \in Sockets, ~ Connection(s),
         device' = [device EXCEPT ![s].st = "conn"],
         client' = [client EXCEPT ![i] = NewClient(s)]
  PROVE  Owners' /\ ClientType' /\ DeviceType'
<1>1. s # NoSocket
  BY NoSocketFacts
<1>2. DeviceType'
  BY DEF DeviceType, OwnersInv, TypeInv
<1>3. ClientType'
  BY DEF ClientType, OwnersInv, TypeInv, NewClient
<1>4. /\ client'[i].socket = s
      /\ \A k \in Clients : k # i => client'[k] = client[k]
  BY DEF OwnersInv, TypeInv, NewClient
<1>5. /\ device'[s].st = "conn"
      /\ \A t \in Sockets : t # s => device'[t].st = device[t].st
  BY DEF OwnersInv, TypeInv
<1>6. \A k \in Clients : client[k].socket # s
  BY <1>1 DEF OwnersInv, Owners, Open
<1>7. \A k \in Clients : Open(k) => client[k].socket \in Sockets
  BY DEF OwnersInv, TypeInv, Open
<1>8. \A k \in Clients : Open(k)' => Connection(client[k].socket)'
  BY <1>4, <1>5, <1>6, <1>7 DEF OwnersInv, Owners, Open, Connection
<1>9. \A k, m \in Clients : Open(k)' /\ client'[k].socket = client'[m].socket => k = m
  BY <1>4, <1>6 DEF OwnersInv, Owners, Open
<1>10. ASSUME NEW t \in Sockets, Connection(t)'
       PROVE  \E k \in Clients : client'[k].socket = t
  <2>1. CASE t = s
    BY <1>4, <2>1
  <2>2. CASE t # s
    <3>1. PICK k \in Clients : client[k].socket = t
      BY <1>5, <1>10, <2>2 DEF Connection, OwnersInv, Owners
    <3>2. k # i
      BY <3>1, NoSocketFacts DEF Open
    <3>3. QED
      BY <1>4, <3>1, <3>2
  <2>3. QED
    BY <2>1, <2>2
<1>11. QED
  BY <1>2, <1>3, <1>8, <1>9, <1>10 DEF Owners

\* Nobody's socket changes, and what is a connection stays one.
LEMMA OwnersKept ==
  ASSUME OwnersInv,
         \A i \in Clients : client'[i].socket = client[i].socket,
         \A s \in Sockets : Connection(s)' = Connection(s)
  PROVE  Owners'
<1>1. \A i \in Clients : Open(i) => client[i].socket \in Sockets
  BY DEF OwnersInv, TypeInv, Open
<1>2. \A i \in Clients : Open(i)' => Connection(client[i].socket)'
  BY <1>1 DEF OwnersInv, Owners, Open, Connection
<1>3. QED
  BY <1>2 DEF OwnersInv, Owners, Open

-----------------------------------------------------------------------------
(* The steps                                                                 *)

\* Steps that leave sockets and clients alone and only move the program.
LEMMA MovesKeepOwners ==
  ASSUME OwnersInv, UNCHANGED <<client, device, soc>>, Continues(Stages), Places'
  PROVE  OwnersInv'
<1>1. Owners'
  BY OwnersKept DEF Connection
<1>2. QED
  BY <1>1 DEF OwnersInv, TypeInv, Continues

LEMMA NetworkStep ==
  ASSUME OwnersInv, Network \/ DeviceTransmits \/ Interrupt
  PROVE  OwnersInv'
<1>0. UNCHANGED <<pc, at, task, soc, client>>
  BY DEF Network, DeviceTransmits, Interrupt, PeerConnects, PeerSends, PeerCloses,
         PeerResets, program
<1>1. \/ device' = device
      \/ \E s \in Sockets : \/ device' = [device EXCEPT ![s].inbox = @ + 1]
                            \/ device' = [device EXCEPT ![s].fin = TRUE]
                            \/ /\ device[s].st = "conn"
                               /\ device' = [device EXCEPT ![s] = [st |-> "gone", inbox |-> 0,
                                                                   fin |-> TRUE]]
  BY DEF Network, DeviceTransmits, Interrupt, PeerConnects, PeerSends, PeerCloses, PeerResets
<1>2. DeviceType'
  <2>0. DeviceType
    BY DEF DeviceType, OwnersInv, TypeInv
  <2>1. ASSUME NEW s \in Sockets, device' = [device EXCEPT ![s].inbox = @ + 1]
        PROVE  DeviceType'
    <3>1. device[s].inbox + 1 \in Int
      BY <2>0 DEF DeviceType
    <3>2. QED
      BY <2>0, <2>1, <3>1 DEF DeviceType
  <2>2. ASSUME NEW s \in Sockets, device' = [device EXCEPT ![s].fin = TRUE]
        PROVE  DeviceType'
    BY <2>0, <2>2 DEF DeviceType
  <2>3. ASSUME NEW s \in Sockets,
               device' = [device EXCEPT ![s] = [st |-> "gone", inbox |-> 0, fin |-> TRUE]]
        PROVE  DeviceType'
    BY <2>0, <2>3 DEF DeviceType
  <2>4. QED
    BY <1>1, <2>0, <2>1, <2>2, <2>3 DEF DeviceType
<1>3. \A s \in Sockets : /\ Connection(s)' = Connection(s)
                         /\ device[s].st = "new" => device'[s].st = "new"
  BY <1>1 DEF Connection, OwnersInv, TypeInv
<1>4. Owners'
  BY <1>0, <1>3, OwnersKept
<1>5. QED
  BY <1>0, <1>2, <1>3, <1>4 DEF OwnersInv, TypeInv, DeviceType, Places, Open

LEMMA CallStep ==
  ASSUME OwnersInv,
         \/ \E i \in Clients : CallConnected(i) \/ CallWrite(i) \/ CallRead(i) \/ CallClose(i)
         \/ CallServer("accept") \/ CallServer("write") \/ CallConnect
  PROVE  OwnersInv'
<1>0. UNCHANGED <<client, device, soc>>
  BY DEF CallConnected, CallWrite, CallRead, CallClose, CallServer, CallConnect, network
<1>1. \/ pc' = "connected" /\ at' \in Clients /\ task' = "one"
      \/ pc' \in {"flow", "read", "close"} /\ at' \in Clients /\ task' = "one" /\ Open(at')
      \/ pc' = "connected" /\ at' \in Slots /\ task' \in {"accept", "write"}
      \/ pc' = "connect" /\ at' = Own /\ task' = "one" /\ ~ Open(Own)
  BY ClientFacts DEF CallConnected, CallWrite, CallRead, CallClose, CallServer, CallConnect,
                     Call, Goto, Open
<1>2. Continues(Stages)
  BY <1>1, ClientFacts DEF Continues, Stages, Tasks
<1>3. Places'
  BY <1>0, <1>1 DEF Places, Open
<1>4. QED
  BY <1>0, <1>2, <1>3, MovesKeepOwners

\* connected() and send() where they change no socket.
LEMMA MoveStep ==
  ASSUME OwnersInv,
         \/ NotOpen \/ Buffered \/ Select \/ StillConnected \/ Available
         \/ SendRefused \/ TakeBuffer \/ StoreBuffer \/ SendPacket
  PROVE  OwnersInv'
<1> USE DEF OwnersInv
<1>0. UNCHANGED <<client, device, soc>>
  BY DEF NotOpen, Buffered, Select, StillConnected, Available, SendRefused, TakeBuffer,
         StoreBuffer, SendPacket, network, program
<1>1. CASE NotOpen
  <2>1. ~ Open(at) /\ Checked(FALSE)
    BY <1>1 DEF NotOpen, Open
  <2>2. QED
    BY <1>0, <2>1, CheckedContinues, MovesKeepOwners DEF Continues, Stages, Places, Open
<1>2. CASE Buffered
  <2>1. Open(at) /\ Checked(TRUE)
    BY <1>2 DEF Buffered, Open
  <2>2. QED
    BY <1>0, <2>1, CheckedContinues, MovesKeepOwners DEF Continues, Stages, Places, Open
<1>3. CASE StillConnected
  <2>1. Open(at) /\ Checked(TRUE)
    BY <1>3 DEF StillConnected, Places
  <2>2. QED
    BY <1>0, <2>1, CheckedContinues, MovesKeepOwners DEF Continues, Stages, Places, Open
<1>4. CASE Available \/ SendRefused
  <2>1. Continues({"idle", "connected"})
    BY <1>4, IdleContinues, NextClientContinues
       DEF Available, SendRefused, Return, Continues
  <2>2. QED
    BY <1>0, <2>1, MovesKeepOwners DEF Continues, Stages, Places
<1>5. CASE Select \/ TakeBuffer \/ StoreBuffer
  <2>1. /\ pc' \in {"selected", "store", "send"} /\ Open(at) /\ UNCHANGED <<at, task>>
    BY <1>5 DEF Select, TakeBuffer, StoreBuffer, Goto, Places, Open
  <2>2. QED
    BY <1>0, <2>1, MovesKeepOwners DEF Continues, Stages, Places, Open, TypeInv
<1>6. CASE SendPacket
  <2>1. Continues({"idle", "connected", "waits"})
    <3>1. CASE Return
      BY <3>1, NextClientContinues DEF Return, Continues
    <3>2. CASE pc' = "waits" /\ UNCHANGED <<at, task>>
      BY <3>2 DEF Continues, TypeInv
    <3>3. QED
      BY <1>6, <3>1, <3>2 DEF SendPacket
  <2>2. QED
    BY <1>0, <2>1, MovesKeepOwners DEF Continues, Stages, Places
<1>7. QED
  BY <1>1, <1>2, <1>3, <1>4, <1>5, <1>6

\* connected() drops a connection, read() or close() ends one.
LEMMA CloseStep ==
  ASSUME OwnersInv, DropClosed \/ ReadEnds \/ CloseClient
  PROVE  OwnersInv'
<1>1. /\ Open(at) /\ at \in Clients /\ soc' = soc
      /\ closesocket(client[at].socket)
      /\ client' = [client EXCEPT ![at].socket = NoSocket]
  BY DEF DropClosed, ReadEnds, CloseClient, Close, Finish, OwnersInv, Places, TypeInv
<1>2. Owners' /\ ClientType' /\ DeviceType'
  BY <1>1, ConnectionClosed
<1>3. client'[at].socket = NoSocket
  BY <1>1 DEF OwnersInv, TypeInv
<1>4. Continues({"idle", "connected", "accept"}) /\ (pc' = "accept" => at' = at)
  <2>1. CASE DropClosed
    BY <2>1, CheckedContinues DEF DropClosed, OwnersInv, Continues
  <2>2. CASE ReadEnds \/ CloseClient
    BY <2>2, IdleContinues DEF ReadEnds, CloseClient, Finish, Continues
  <2>3. QED
    BY <2>1, <2>2
<1>5. Places'
  BY <1>3, <1>4 DEF Places, Continues, Open
<1>6. TypeInv'
  BY <1>1, <1>2, <1>4 DEF TypeInv, OwnersInv, Continues, ClientType, DeviceType, Stages
<1>7. QED
  BY <1>2, <1>5, <1>6 DEF OwnersInv

\* The server's accept() and the sketch's connectTCP() hand out a connection.
LEMMA OpenStep ==
  ASSUME OwnersInv, Accept \/ Connected
  PROVE  OwnersInv'
<1>1. CASE Accept /\ client' # client
  <2>1. /\ FreeSockets # {} /\ soc' = soc /\ NextClient
        /\ device' = [device EXCEPT ![Min(FreeSockets)].st = "conn"]
        /\ client' = [client EXCEPT ![at] = NewClient(Min(FreeSockets))]
    BY <1>1 DEF Accept, accept
  <2>2. ~ Open(at) /\ at \in Clients
    BY <1>1 DEF Accept, OwnersInv, Places, TypeInv
  <2>3. Min(FreeSockets) \in Sockets /\ ~ Connection(Min(FreeSockets))
    BY <2>1, FreeSocket DEF OwnersInv, Connection
  <2>4. Owners' /\ ClientType' /\ DeviceType'
    BY <2>1, <2>2, <2>3, ConnectionGiven
  <2>5. Continues({"idle", "connected"})
    BY <2>1, NextClientContinues DEF OwnersInv
  <2>6. QED
    BY <2>1, <2>4, <2>5
       DEF OwnersInv, TypeInv, Continues, ClientType, DeviceType, Stages, Places
<1>2. CASE Accept /\ client' = client
  <2>1. UNCHANGED <<client, device, soc>> /\ NextClient
    <3>1. FreeSockets # {} => NewClient(Min(FreeSockets)) # client[at]
      BY <1>2, FreeSocket, NoSocketFacts
         DEF Accept, OwnersInv, Places, NewClient, Open
    <3>2. at \in Clients /\ client \in [Clients -> [socket : Sockets \cup {NoSocket}, left : Int]]
      BY DEF OwnersInv, TypeInv
    <3>3. QED
      BY <1>2, <3>1, <3>2 DEF Accept, accept
  <2>2. QED
    BY <2>1, NextClientContinues, MovesKeepOwners DEF OwnersInv, Continues, Places, Stages
<1>3. CASE Connected
  <2>1. /\ soc' = NoSocket /\ Idle
        /\ device' = [device EXCEPT ![soc].st = "conn"]
        /\ client' = [client EXCEPT ![Own] = NewClient(soc)]
    BY <1>3 DEF Connected, Finish
  <2>2. /\ ~ Open(Own) /\ Own \in Clients /\ soc \in Sockets /\ ~ Connection(soc)
    BY <1>3, ClientFacts DEF Connected, Finish, OwnersInv, Places, Connection
  <2>3. Owners' /\ ClientType' /\ DeviceType'
    BY <2>1, <2>2, ConnectionGiven
  <2>4. Continues({"idle"})
    BY <2>1, IdleContinues
  <2>5. QED
    BY <2>1, <2>3, <2>4
       DEF OwnersInv, TypeInv, Continues, ClientType, DeviceType, Stages, Places
<1>4. QED
  BY <1>1, <1>2, <1>3

\* read() takes what has arrived; the owners stay.
LEMMA ReadStep ==
  ASSUME OwnersInv, ReadBuffered \/ ReadReceives
  PROVE  OwnersInv'
<1>1. /\ soc' = soc /\ Idle /\ at \in Clients
      /\ \/ client' = [client EXCEPT ![at].left = @ - 1]
         \/ \E n \in 1..RxBufferSize : client' = [client EXCEPT ![at].left = n - 1]
      /\ \/ device' = device
         \/ device' = [device EXCEPT ![client[at].socket].inbox = @ - 1]
  BY DEF ReadBuffered, ReadReceives, Finish, OwnersInv, TypeInv, network
<1>2. client[at].socket \in Sockets
  BY DEF ReadBuffered, ReadReceives, Finish, OwnersInv, TypeInv, Places, Open
<1>3. ClientType' /\ \A i \in Clients : client'[i].socket = client[i].socket
  <2>1. client[at].left - 1 \in Int /\ \A n \in 1..RxBufferSize : n - 1 \in Int
    BY <1>1 DEF OwnersInv, TypeInv
  <2>2. CASE client' = [client EXCEPT ![at].left = @ - 1]
    BY <1>1, <2>1, <2>2 DEF ClientType, OwnersInv, TypeInv
  <2>3. CASE \E n \in 1..RxBufferSize : client' = [client EXCEPT ![at].left = n - 1]
    <3>1. PICK n \in 1..RxBufferSize : client' = [client EXCEPT ![at].left = n - 1]
      BY <2>3
    <3>2. QED
      BY <1>1, <2>1, <3>1 DEF ClientType, OwnersInv, TypeInv
  <2>4. QED
    BY <1>1, <2>2, <2>3
<1>4. DeviceType' /\ \A s \in Sockets : Connection(s)' = Connection(s)
  <2>1. CASE device' = device
    BY <2>1 DEF DeviceType, Connection, OwnersInv, TypeInv
  <2>2. CASE device' = [device EXCEPT ![client[at].socket].inbox = @ - 1]
    BY <1>2, <2>2 DEF DeviceType, Connection, OwnersInv, TypeInv
  <2>3. QED
    BY <1>1, <2>1, <2>2
<1>5. Owners'
  BY <1>3, <1>4, OwnersKept
<1>6. Continues({"idle"})
  BY <1>1, IdleContinues
<1>7. QED
  BY <1>1, <1>3, <1>4, <1>5, <1>6
     DEF OwnersInv, TypeInv, Continues, ClientType, DeviceType, Stages, Places

\* connectTCP() and begin() with a socket that is not a connection yet.
LEMMA SocketStep ==
  ASSUME OwnersInv, ConnectSocket \/ BeginSocket \/ ConnectFails \/ BeginListens \/ BeginFails
  PROVE  OwnersInv'
<1>1. client' = client
  BY DEF ConnectSocket, BeginSocket, ConnectFails, BeginListens, BeginFails
<1>2. /\ soc' \in Sockets \cup {NoSocket}
      /\ \/ device' = device
         \/ /\ soc' \in Sockets /\ device[soc'].st = "free"
            /\ device' = [device EXCEPT ![soc'].st = "new"]
         \/ /\ soc' = NoSocket /\ soc \in Sockets /\ device[soc].st = "new"
            /\ device' = [device EXCEPT ![soc] = Free]
         \/ /\ soc' = NoSocket /\ soc \in Sockets /\ device[soc].st = "new"
            /\ device' = [device EXCEPT ![soc].st = "listen"]
  BY FreeSocket
     DEF ConnectSocket, BeginSocket, OpenSocket, ConnectFails, BeginListens, BeginFails,
         closesocket, Finish, OwnersInv, Places, network
<1>3. Continues({"idle", "connecting", "begin"})
  <2>1. CASE Idle
    BY <2>1, IdleContinues DEF Continues
  <2>2. CASE pc' \in {"connecting", "begin"} /\ UNCHANGED <<at, task>>
    BY <2>2 DEF Continues, OwnersInv, TypeInv
  <2>3. QED
    BY <2>1, <2>2 DEF ConnectSocket, BeginSocket, ConnectFails, BeginListens, BeginFails, Finish
<1>4. pc' \in {"connecting", "begin"} =>
        /\ soc' \in Sockets /\ device'[soc'].st = "new"
        /\ pc' = "connecting" => ~ Open(Own)
  <2>1. SUFFICES ASSUME pc' \in {"connecting", "begin"}
        PROVE  /\ soc' \in Sockets /\ device'[soc'].st = "new"
               /\ pc' = "connecting" => ~ Open(Own)
    OBVIOUS
  <2>2. (ConnectSocket \/ BeginSocket) /\ ~ Idle /\ soc' # NoSocket
    BY <2>1 DEF ConnectSocket, BeginSocket, ConnectFails, BeginListens, BeginFails,
                Finish, Idle
  <2>3. soc' \in Sockets /\ device' = [device EXCEPT ![soc'].st = "new"]
    BY <2>2, FreeSocket DEF ConnectSocket, BeginSocket, OpenSocket, OwnersInv
  <2>4. pc' = "connecting" => ~ Open(Own)
    BY <2>2 DEF ConnectSocket, BeginSocket, OwnersInv, Places
  <2>5. QED
    BY <2>3, <2>4 DEF OwnersInv, TypeInv
<1>5. DeviceType' /\ \A s \in Sockets : Connection(s)' = Connection(s)
  <2>1. CASE device' = device
    BY <2>1 DEF DeviceType, Connection, OwnersInv, TypeInv
  <2>2. CASE soc' \in Sockets /\ device[soc'].st = "free"
             /\ device' = [device EXCEPT ![soc'].st = "new"]
    BY <2>2 DEF DeviceType, Connection, OwnersInv, TypeInv
  <2>3. CASE soc \in Sockets /\ device[soc].st = "new" /\ device' = [device EXCEPT ![soc] = Free]
    BY <2>3 DEF DeviceType, Connection, Free, OwnersInv, TypeInv
  <2>4. CASE soc \in Sockets /\ device[soc].st = "new"
             /\ device' = [device EXCEPT ![soc].st = "listen"]
    BY <2>4 DEF DeviceType, Connection, OwnersInv, TypeInv
  <2>5. QED
    BY <1>2, <2>1, <2>2, <2>3, <2>4
<1>6. Owners'
  BY <1>1, <1>5, OwnersKept
<1>7. QED
  BY <1>1, <1>2, <1>3, <1>4, <1>5, <1>6
     DEF OwnersInv, TypeInv, Continues, DeviceType, Stages, Places, Open

LEMMA OwnersInit == Init => OwnersInv
BY NoSocketFacts, ClientFacts
   DEF Init, OwnersInv, TypeInv, Owners, Places, Stages, Tasks, NoClient, Free, Connection, Open

LEMMA OwnersStep ==
  ASSUME OwnersInv, [Next]_vars
  PROVE  OwnersInv'
<1>1. CASE UNCHANGED vars
  <2>1. UNCHANGED <<pc, at, task, soc, client, device>>
    BY <1>1 DEF vars, program, network
  <2>2. Owners'
    BY <2>1, OwnersKept DEF Connection
  <2>3. QED
    BY <2>1, <2>2 DEF OwnersInv, TypeInv, Places, Open
<1>2. CASE Sketch
  BY <1>2, CallStep, SocketStep DEF Sketch
<1>3. CASE Library
  BY <1>3, MoveStep, CloseStep, OpenStep, ReadStep, SocketStep DEF Library
<1>4. QED
  BY <1>1, <1>2, <1>3, NetworkStep DEF Next

LEMMA OwnersAlways == Spec => []OwnersInv
<1>1. QED
  BY OwnersInit, OwnersStep, PTL DEF Spec

\* ConnectionsHaveOneOwner for every number of sockets and slots: whatever the
\* peers and the sketch do, accept(), connectTCP(), connected(), read() and
\* close() neither forget a connection of the device nor hand one out twice.
THEOREM ConnectionsHaveOneOwnerAlways == Spec => []ConnectionsHaveOneOwner
<1>1. OwnersInv => ConnectionsHaveOneOwner
  <2> SUFFICES ASSUME OwnersInv, NEW s \in Sockets, Connection(s)
               PROVE  Cardinality({i \in Clients : client[i].socket = s}) = 1
    BY DEF ConnectionsHaveOneOwner, Connection
  <2>1. PICK i \in Clients : client[i].socket = s
    BY DEF OwnersInv, Owners
  <2>2. Open(i)
    BY <2>1, NoSocketFacts DEF Open
  <2>3. {k \in Clients : client[k].socket = s} = {i}
    BY <2>1, <2>2 DEF OwnersInv, Owners
  <2>4. QED
    BY <2>3, FS_Singleton
<1>2. QED
  BY <1>1, OwnersAlways, PTL

-----------------------------------------------------------------------------
(* The account of transmit buffers                                           *)

\* What the account rests on: reports return at least one buffer, and nothing
\* else that the device sends returns any.
EventType == [op : {"FREE_BUFF", "CLOSE_WAIT", "SEND_FAILED"}, s : Nat, n : Nat]

EventsInv ==
  /\ inDevice \in Nat
  /\ events \in Seq(EventType) /\ Len(events) <= MaxEvents
  /\ \A i \in 1..Len(events) :
       IF events[i].op = "FREE_BUFF" THEN events[i].n >= 1 ELSE events[i].n = 0

LEMMA EventCounts ==
  ASSUME EventsInv
  PROVE  \A i \in 1..Len(events) : events[i] \in EventType /\ events[i].n \in Nat
<1>1. events \in Seq(EventType)
  BY DEF EventsInv
<1>2. \A i \in 1..Len(events) : events[i] \in EventType
  BY <1>1
<1>3. \A e \in EventType : e.n \in Nat
  BY DEF EventType
<1>4. QED
  BY <1>2, <1>3

LEMMA ReportedPosted ==
  ASSUME EventsInv, Len(events) < MaxEvents, NEW e \in EventType, Post(e)
  PROVE  /\ Reported' = Reported + e.n /\ Reported \in Nat
         /\ events' \in Seq(EventType) /\ Len(events') <= MaxEvents
         /\ \A i \in 1..Len(events') : events'[i] = IF i \in 1..Len(events) THEN events[i] ELSE e
<1>1. events \in Seq(EventType) /\ events' = Append(events, e) /\ Len(events) \in {0, 1}
  <2>1. events \in Seq(EventType) /\ Len(events) < 2 /\ events' = Append(events, e)
    BY DEF EventsInv, MaxEvents, Post
  <2>2. \A k \in Nat : k < 2 => k \in {0, 1}
    OBVIOUS
  <2>3. Len(events) \in {0, 1}
    BY <2>1, <2>2, LenProperties
  <2>4. QED
    BY <2>1, <2>3
<1>2. /\ events' \in Seq(EventType) /\ Len(events') = Len(events) + 1
      /\ events'[Len(events) + 1] = e
      /\ \A i \in 1..Len(events) : events'[i] = events[i]
  BY <1>1, AppendProperties
<1>3. DOMAIN events = 1..Len(events) /\ DOMAIN events' = 1..Len(events')
  BY <1>1, <1>2
<1>4. e.n \in Nat /\ \A i \in 1..Len(events) : events[i].n \in Nat
  BY EventCounts DEF EventType
<1>5. CASE Len(events) = 0
  <2>1. ReportedBy(1) = 0 /\ ReportedBy(2) = 0
    BY <1>3, <1>5 DEF ReportedBy
  <2>2. ReportedBy(1)' = e.n /\ ReportedBy(2)' = 0
    BY <1>2, <1>3, <1>5 DEF ReportedBy
  <2>3. QED
    BY <1>2, <1>4, <1>5, <2>1, <2>2 DEF Reported, MaxEvents
<1>6. CASE Len(events) = 1
  <2>1. ReportedBy(1) = events[1].n /\ ReportedBy(2) = 0
    BY <1>3, <1>6 DEF ReportedBy
  <2>2. ReportedBy(1)' = events[1].n /\ ReportedBy(2)' = e.n
    BY <1>2, <1>3, <1>6 DEF ReportedBy
  <2>3. QED
    BY <1>2, <1>4, <1>6, <2>1, <2>2 DEF Reported, MaxEvents
<1>7. QED
  BY <1>1, <1>5, <1>6

LEMMA ReportedTaken ==
  ASSUME EventsInv, events # <<>>, events' = Tail(events)
  PROVE  /\ Reported' = Reported - Head(events).n /\ Reported \in Nat
         /\ Head(events) = events[1] /\ Head(events).n \in 0..Reported
         /\ events' \in Seq(EventType) /\ Len(events') <= MaxEvents
         /\ \A i \in 1..Len(events') : i + 1 \in 1..Len(events) /\ events'[i] = events[i + 1]
<1>1. /\ events \in Seq(EventType) /\ Len(events) \in {1, 2} /\ Head(events) = events[1]
      /\ events' \in Seq(EventType) /\ Len(events') = Len(events) - 1
      /\ \A i \in 1..Len(events') : events'[i] = events[i + 1]
  <2>1. events \in Seq(EventType) /\ Len(events) <= 2
    BY DEF EventsInv, MaxEvents
  <2>2. Len(events) \in Nat /\ Len(events) # 0
    BY <2>1, EmptySeq
  <2>3. /\ Tail(events) \in Seq(EventType) /\ Len(Tail(events)) = Len(events) - 1
        /\ \A i \in 1..Len(Tail(events)) : Tail(events)[i] = events[i + 1]
    BY <2>1, HeadTailProperties
  <2>4. Len(events) \in {1, 2}
    <3>1. \A k \in Nat : k <= 2 /\ k # 0 => k \in {1, 2}
      OBVIOUS
    <3>2. QED
      BY <2>1, <2>2, <3>1
  <2>5. Head(events) = events[1]
    BY <2>1
  <2>6. QED
    BY <2>1, <2>3, <2>4, <2>5
<1>2. DOMAIN events = 1..Len(events) /\ DOMAIN events' = 1..Len(events')
  BY <1>1
<1>3. \A i \in 1..Len(events) : events[i].n \in Nat
  BY EventCounts
<1>4. CASE Len(events) = 1
  <2>1. ReportedBy(1) = events[1].n /\ ReportedBy(2) = 0
    BY <1>2, <1>4 DEF ReportedBy
  <2>2. ReportedBy(1)' = 0 /\ ReportedBy(2)' = 0
    BY <1>1, <1>2, <1>4 DEF ReportedBy
  <2>3. QED
    BY <1>1, <1>3, <1>4, <2>1, <2>2 DEF Reported, MaxEvents
<1>5. CASE Len(events) = 2
  <2>1. ReportedBy(1) = events[1].n /\ ReportedBy(2) = events[2].n
    BY <1>2, <1>5 DEF ReportedBy
  <2>2. ReportedBy(1)' = events[2].n /\ ReportedBy(2)' = 0
    <3>1. Len(events') = 1
      BY <1>1, <1>5
    <3>2. 1 \in 1..1 /\ 2 \notin 1..1 /\ 1 + 1 = 2
      OBVIOUS
    <3>3. 1 \in DOMAIN events' /\ 2 \notin DOMAIN events'
      BY <1>2, <3>1, <3>2, Zenon
    <3>4. events'[1] = events[2]
      BY <1>1, <3>1, <3>2, Zenon
    <3>5. QED
      BY <3>3, <3>4 DEF ReportedBy
  <2>3. QED
    BY <1>1, <1>3, <1>5, <2>1, <2>2 DEF Reported, MaxEvents
<1>6. QED
  BY <1>1, <1>4, <1>5

\* A step that the account does not see: it stutters.
Unseen == UNCHANGED <<freeBufs, Phase, loaded, inDevice, events>>

LEMMA UnseenStutters ==
  ASSUME EventsInv, Unseen
  PROVE  EventsInv' /\ UNCHANGED Account!vars
BY DEF Unseen, EventsInv, Account!vars, Reported, ReportedBy

LEMMA PhaseUnseen ==
  ASSUME pc' = pc \/ (pc \notin {"store", "send"} /\ pc' \notin {"store", "send"})
  PROVE  UNCHANGED Phase
BY DEF Phase

\* An event that returns no buffer leaves the account as it is.
LEMMA SilentPost ==
  ASSUME EventsInv, Len(events) < MaxEvents, NEW e \in EventType, Post(e),
         e.op # "FREE_BUFF", e.n = 0, inDevice' = inDevice
  PROVE  EventsInv' /\ UNCHANGED Reported
<1>1. /\ Reported' = Reported + e.n /\ Reported \in Nat
      /\ events' \in Seq(EventType) /\ Len(events') <= MaxEvents
      /\ \A i \in 1..Len(events') : events'[i] = IF i \in 1..Len(events) THEN events[i] ELSE e
  BY ReportedPosted
<1>2. QED
  BY <1>1 DEF EventsInv

LEMMA NetworkAccount ==
  ASSUME EventsInv, Network
  PROVE  EventsInv' /\ UNCHANGED Account!vars
<1>1. UNCHANGED <<pc, loaded, freeBufs, inDevice>> /\ UNCHANGED Phase
  BY PhaseUnseen DEF Network, PeerConnects, PeerSends, PeerCloses, PeerResets, program
<1>2. \/ events' = events
      \/ /\ Len(events) < MaxEvents
         /\ \E s \in Sockets, op \in {"CLOSE_WAIT", "SEND_FAILED"} :
              Post([op |-> op, s |-> s, n |-> 0])
  BY DEF Network, PeerConnects, PeerSends, PeerCloses, PeerResets
<1>3. CASE events' = events
  BY <1>1, <1>3, UnseenStutters DEF Unseen
<1>4. ASSUME Len(events) < MaxEvents,
             NEW s \in Sockets, NEW op \in {"CLOSE_WAIT", "SEND_FAILED"},
             Post([op |-> op, s |-> s, n |-> 0])
      PROVE  EventsInv' /\ UNCHANGED Account!vars
  <2> DEFINE e == [op |-> op, s |-> s, n |-> 0]
  <2>1. e \in EventType /\ e.op # "FREE_BUFF" /\ e.n = 0
    BY SocketsAssumption DEF EventType
  <2>2. EventsInv' /\ UNCHANGED Reported
    BY <1>1, <1>4, <2>1, SilentPost
  <2>3. QED
    BY <1>1, <2>2 DEF Account!vars
<1>5. QED
  BY <1>2, <1>3, <1>4

LEMMA DeviceAccount ==
  ASSUME EventsInv, DeviceTransmits
  PROVE  EventsInv' /\ Account!Transmit
<1>1. PICK n \in 1..inDevice :
        inDevice' = inDevice - n /\ Post([op |-> "FREE_BUFF", s |-> 0, n |-> n])
  BY DEF DeviceTransmits
<1> DEFINE e == [op |-> "FREE_BUFF", s |-> 0, n |-> n]
<1>2. n \in Nat /\ n >= 1 /\ inDevice' \in Nat
  BY <1>1 DEF EventsInv
<1>3. e \in EventType /\ e.op = "FREE_BUFF" /\ e.n = n
  BY <1>2 DEF EventType
<1>4. /\ Reported' = Reported + e.n /\ Reported \in Nat
      /\ events' \in Seq(EventType) /\ Len(events') <= MaxEvents
      /\ \A i \in 1..Len(events') : events'[i] = IF i \in 1..Len(events) THEN events[i] ELSE e
  BY <1>1, <1>3, ReportedPosted DEF DeviceTransmits
<1> HIDE DEF e
<1>5. EventsInv'
  BY <1>2, <1>3, <1>4 DEF EventsInv
<1>6. UNCHANGED <<freeBufs, loaded>> /\ UNCHANGED Phase
  BY PhaseUnseen DEF DeviceTransmits, program
<1>7. QED
  BY <1>1, <1>3, <1>4, <1>5, <1>6 DEF Account!Transmit

LEMMA InterruptAccount ==
  ASSUME EventsInv, Interrupt
  PROVE  EventsInv' /\ (Account!Report \/ UNCHANGED Account!vars)
<1> DEFINE e == Head(events)
<1>1. /\ events # <<>> /\ events' = Tail(events)
      /\ UNCHANGED <<pc, loaded, inDevice>> /\ UNCHANGED Phase
  BY PhaseUnseen DEF Interrupt, program
<1>2. /\ Reported' = Reported - e.n /\ Reported \in Nat
      /\ e = events[1] /\ e.n \in 0..Reported
      /\ events' \in Seq(EventType) /\ Len(events') <= MaxEvents
      /\ \A i \in 1..Len(events') : i + 1 \in 1..Len(events) /\ events'[i] = events[i + 1]
  BY <1>1, ReportedTaken
<1>3. EventsInv'
  BY <1>1, <1>2 DEF EventsInv
<1>4. IF e.op = "FREE_BUFF" THEN e.n >= 1 ELSE e.n = 0
  <2>1. 1 \in 1..Len(events)
    <3>1. events \in Seq(EventType)
      BY DEF EventsInv
    <3>2. Len(events) \in Nat \ {0}
      BY <1>1, <3>1, EmptySeq
    <3>3. QED
      BY <3>2
  <2>2. QED
    BY <1>2, <2>1 DEF EventsInv
<1>5. \/ e.op = "FREE_BUFF" /\ freeBufs' = freeBufs + e.n
      \/ e.op # "FREE_BUFF" /\ freeBufs' = freeBufs
  BY DEF Interrupt, FlowControl, CloseWait, SendFailed
<1> HIDE DEF e
<1>6. CASE e.op = "FREE_BUFF"
  <2>1. e.n \in 1..Reported /\ Reported' = Reported - e.n /\ freeBufs' = freeBufs + e.n
    BY <1>2, <1>4, <1>5, <1>6
  <2>2. QED
    BY <1>1, <1>3, <2>1 DEF Account!Report
<1>7. CASE e.op # "FREE_BUFF"
  BY <1>1, <1>2, <1>3, <1>4, <1>5, <1>7 DEF Account!vars
<1>8. QED
  BY <1>6, <1>7

LEMMA SketchAccount ==
  ASSUME OwnersInv, EventsInv, Sketch
  PROVE  EventsInv' /\ UNCHANGED Account!vars
<1>1. UNCHANGED <<freeBufs, loaded, inDevice, events>>
  BY DEF Sketch, CallConnected, CallWrite, CallRead, CallClose, CallServer, CallConnect,
         BeginSocket, network, flags
<1>2. pc \notin {"store", "send"} /\ pc' \notin {"store", "send"}
  BY DEF Sketch, CallConnected, CallWrite, CallRead, CallClose, CallServer, CallConnect,
         Call, Goto, BeginSocket, Idle
<1>3. QED
  BY <1>1, <1>2, PhaseUnseen, UnseenStutters DEF Unseen

LEMMA LibraryUnseen ==
  ASSUME OwnersInv, EventsInv, Library,
         ~ (TakeBuffer \/ StoreBuffer \/ SendPacket)
  PROVE  EventsInv' /\ UNCHANGED Account!vars
<1> USE DEF OwnersInv
<1>1. UNCHANGED <<freeBufs, loaded, inDevice, events>>
  BY DEF Library, NotOpen, Buffered, Select, StillConnected, DropClosed, Available, Accept,
         SendRefused, ReadBuffered, ReadReceives, ReadEnds, CloseClient, ConnectSocket,
         Connected, ConnectFails, BeginListens, BeginFails, network
<1>2. CASE NotOpen \/ Buffered \/ StillConnected \/ DropClosed
  <2>1. pc \in {"connected", "selected"} /\ \E b \in BOOLEAN : Checked(b)
    BY <1>2 DEF NotOpen, Buffered, StillConnected, DropClosed
  <2>2. pc' \notin {"store", "send"}
    BY <2>1, CheckedContinues DEF Continues
  <2>3. QED
    BY <1>1, <2>1, <2>2, PhaseUnseen, UnseenStutters DEF Unseen
<1>3. CASE Available \/ Accept \/ SendRefused
  <2>1. pc \in {"available", "accept", "flow"} /\ (Idle \/ NextClient)
    BY <1>3 DEF Available, Accept, SendRefused, Return
  <2>2. pc' \notin {"store", "send"}
    BY <2>1, NextClientContinues DEF Continues, Idle
  <2>3. QED
    BY <1>1, <2>1, <2>2, PhaseUnseen, UnseenStutters DEF Unseen
<1>4. CASE \/ Select \/ ReadBuffered \/ ReadReceives \/ ReadEnds \/ CloseClient
           \/ ConnectSocket \/ Connected \/ ConnectFails \/ BeginListens \/ BeginFails
  <2>1. pc \notin {"store", "send"} /\ pc' \notin {"store", "send"}
    BY <1>4 DEF Select, ReadBuffered, ReadReceives, ReadEnds, CloseClient, ConnectSocket,
                Connected, ConnectFails, BeginListens, BeginFails, Goto, Finish, Idle
  <2>2. QED
    BY <1>1, <2>1, PhaseUnseen, UnseenStutters DEF Unseen
<1>5. QED
  BY <1>2, <1>3, <1>4 DEF Library

\* send() is the account's sender: its decrement loads and stores, and its
\* packet then fills the buffer, also when the connection turns out lost.
LEMMA SenderAccount ==
  ASSUME OwnersInv, EventsInv, TakeBuffer \/ StoreBuffer \/ SendPacket
  PROVE  EventsInv' /\ Account!Next
<1>1. UNCHANGED events /\ UNCHANGED Reported
  BY DEF TakeBuffer, StoreBuffer, SendPacket, network, Reported, ReportedBy
<1>2. EventsInv'
  <2>1. inDevice' = inDevice \/ inDevice' = inDevice + 1
    BY DEF TakeBuffer, StoreBuffer, SendPacket, network
  <2>2. inDevice' \in Nat
    BY <2>1 DEF EventsInv
  <2>3. QED
    BY <1>1, <2>2 DEF EventsInv
<1>3. CASE TakeBuffer
  <2>1. Phase = "idle" /\ Phase' = "loaded"
    BY <1>3 DEF TakeBuffer, Goto, Phase
  <2>2. Account!Load
    BY <1>1, <1>3, <2>1 DEF TakeBuffer, network, Account!Load
  <2>3. QED
    BY <1>2, <2>2 DEF Account!Next
<1>4. CASE StoreBuffer
  <2>1. Phase = "loaded" /\ Phase' = "taken"
    BY <1>4 DEF StoreBuffer, Goto, Phase
  <2>2. Account!Store
    BY <1>1, <1>4, <2>1 DEF StoreBuffer, network, Account!Store
  <2>3. QED
    BY <1>2, <2>2 DEF Account!Next
<1>5. CASE SendPacket
  <2>1. pc' \notin {"store", "send"}
    BY <1>5, NextClientContinues DEF SendPacket, Return, Continues, OwnersInv
  <2>2. Phase = "taken" /\ Phase' = "idle"
    BY <1>5, <2>1 DEF SendPacket, Phase
  <2>3. Account!Packet
    BY <1>1, <1>5, <2>2 DEF SendPacket, Account!Packet
  <2>4. QED
    BY <1>2, <2>3 DEF Account!Next
<1>6. QED
  BY <1>3, <1>4, <1>5

LEMMA AccountInit == Init => EventsInv /\ Account!Init
<1> SUFFICES ASSUME Init PROVE EventsInv /\ Account!Init
  OBVIOUS
<1>1. events = <<>> /\ Len(events) = 0 /\ events \in Seq(EventType)
  BY EmptySeq DEF Init
<1>2. Reported = 0 /\ Phase = "idle"
  BY DEF Init, Reported, ReportedBy, Phase
<1>3. QED
  BY <1>1, <1>2 DEF Init, EventsInv, MaxEvents, Account!Init

LEMMA AccountStep ==
  ASSUME OwnersInv, EventsInv, [Next]_vars
  PROVE  EventsInv' /\ [Account!Next]_Account!vars
<1>1. CASE UNCHANGED vars
  BY <1>1, PhaseUnseen, UnseenStutters DEF vars, program, network, Unseen
<1>2. CASE Sketch
  BY <1>2, SketchAccount
<1>3. CASE Library
  BY <1>3, LibraryUnseen, SenderAccount
<1>4. CASE Network
  BY <1>4, NetworkAccount
<1>5. CASE DeviceTransmits
  BY <1>5, DeviceAccount DEF Account!Next
<1>6. CASE Interrupt
  BY <1>6, InterruptAccount DEF Account!Next
<1>7. QED
  BY <1>1, <1>2, <1>3, <1>4, <1>5, <1>6 DEF Next

\* The counter usNumberOfFreeBuffers of socket.cpp and its interrupt keep the
\* account of TransmitBuffers, for every number of sockets, slots and buffers:
\* what TransmitBuffers_proofs shows of the account holds of the library.
THEOREM ImplementsAccountAlways == Spec => ImplementsAccount
<1>1. OwnersInv /\ EventsInv /\ [Next]_vars => EventsInv' /\ [Account!Next]_Account!vars
  BY AccountStep
<1>2. QED
  BY <1>1, AccountInit, OwnersAlways, PTL DEF Spec, ImplementsAccount, Account!Spec

Proved == INSTANCE TransmitBuffers_proofs
            WITH free <- freeBufs, phase <- Phase, reported <- Reported

\* What the refinement is for: the library never sends the device a packet it
\* has no buffer for, and never waits for a buffer that nobody will return.
THEOREM LibraryKeepsAccount ==
  Spec => [](Account!NeverOverruns /\ Account!SomeBufferRemains)
<1>1. Account!Init => Proved!AccountInv
  BY BuffersAssumption, Proved!AccountInit DEF Account!Init, Proved!Init
<1>2. Proved!AccountInv /\ [Account!Next]_Account!vars => Proved!AccountInv'
  <2>1. [Account!Next]_Account!vars => [Proved!Next]_Proved!vars
    BY DEF Account!Next, Account!Load, Account!Store, Account!Packet, Account!Transmit,
           Account!Report, Account!vars, Proved!Next, Proved!Load, Proved!Store,
           Proved!Packet, Proved!Transmit, Proved!Report, Proved!vars
  <2>2. QED
    BY <2>1, BuffersAssumption, Proved!AccountStep
<1>3. Proved!AccountInv => Account!NeverOverruns /\ Account!SomeBufferRemains
  BY DEF Proved!AccountInv, Proved!NeverOverruns, Proved!SomeBufferRemains, Proved!InHand,
         Account!NeverOverruns, Account!SomeBufferRemains, Account!InHand
<1>4. QED
  BY <1>1, <1>2, <1>3, ImplementsAccountAlways, PTL DEF ImplementsAccount, Account!Spec

=============================================================================
