--------------------------- MODULE Cc3000Sockets ---------------------------
(* Sockets of the CC3000 library: socket.cpp, the client and the server     *)
(* classes, and the unsolicited events that change their state from the     *)
(* interrupt. A command and its answer are one step (see Cc3000Spi and      *)
(* HciExchange); events the device queued before the answer come first.     *)
EXTENDS Integers, Sequences, FiniteSetsExt

CONSTANTS
  Sockets,        \* socket numbers of the device
  Slots,          \* _clients of the server
  Own,            \* the sketch's own client, from connectTCP()
  DeviceBuffers,  \* transmit buffers of the device
  RxBufferSize,   \* RXBUFFERSIZE
  MaxInbox,       \* bound: answers to recv() waiting in the device per socket
  MaxCalls        \* bound: remote connections and resets in a run

ASSUME SocketsAssumption == IsFiniteSet(Sockets) /\ Sockets \subseteq Nat
ASSUME BuffersAssumption == DeviceBuffers \in Nat \ {0}
ASSUME SlotsAssumption == Slots \subseteq Nat \ {0} /\ Slots # {} /\ Own \notin Slots

NoSocket == -1
Clients == Slots \cup {Own}

VARIABLES
  pc,         \* where the program is
  at,         \* the client it works on
  task,       \* the loop it works in: "one", "accept", "ready", "write"
  soc,        \* the socket in a local variable of the library
  loaded,     \* usNumberOfFreeBuffers as loaded for the decrement
  dataSeen,   \* what select() answered
  client,     \* [Clients -> [socket, left]]: _socket, bufsiz - _rx_buf_idx
  listening,  \* _listenSocket
  active,     \* sockets whose bit in socket_active_status says active
  closed,     \* sockets with closed_sockets[] set
  freeBufs,   \* usNumberOfFreeBuffers
  txError,    \* slTransmitDataError # 0
  device,     \* [Sockets -> [st, inbox, fin]]
  inDevice,   \* packets in the device's transmit buffers
  backlog,    \* connections that wait for accept()
  events,     \* events on their way to the host
  calls       \* ghost: remote connections and resets so far

program == <<pc, at, task, soc, loaded, dataSeen>>
flags == <<active, closed, txError>>
network == <<device, inDevice, backlog, events, calls>>
vars == <<program, client, listening, freeBufs, flags, network>>

Free == [st |-> "free", inbox |-> 0, fin |-> FALSE]
NoClient == [socket |-> NoSocket, left |-> 0]
NewClient(s) == [socket |-> s, left |-> 0]

FreeSockets == {s \in Sockets : device[s].st = "free"}

-----------------------------------------------------------------------------
(* The network and the device. *)

MaxEvents == 2  \* bound: events on their way to the host
Post(e) == events' = Append(events, e)

PeerConnects ==
  /\ \E s \in Sockets : device[s].st = "listen"
  /\ backlog = 0 /\ calls < MaxCalls /\ backlog' = 1 /\ calls' = calls + 1
  /\ UNCHANGED <<program, client, listening, freeBufs, flags, device, inDevice, events>>

PeerSends(s) ==
  /\ device[s].st = "conn" /\ ~device[s].fin /\ device[s].inbox < MaxInbox
  /\ device' = [device EXCEPT ![s].inbox = @ + 1]
  /\ UNCHANGED <<program, client, listening, freeBufs, flags, inDevice, backlog, events, calls>>

\* TCP_CLOSE_WAIT, whether or not the host has read all data.
PeerCloses(s) ==
  /\ device[s].st = "conn" /\ ~device[s].fin /\ Len(events) < MaxEvents
  /\ device' = [device EXCEPT ![s].fin = TRUE]
  /\ Post([op |-> "CLOSE_WAIT", s |-> s, n |-> 0])
  /\ UNCHANGED <<program, client, listening, freeBufs, flags, inDevice, backlog, calls>>

\* The connection is lost; a packet of it in the device may be reported as
\* a failed send.
PeerResets(s) ==
  /\ device[s].st = "conn" /\ calls < MaxCalls /\ calls' = calls + 1
  /\ device' = [device EXCEPT ![s] = [st |-> "gone", inbox |-> 0, fin |-> TRUE]]
  /\ \/ events' = events
     \/ inDevice > 0 /\ Len(events) < MaxEvents /\ Post([op |-> "SEND_FAILED", s |-> s, n |-> 0])
  /\ UNCHANGED <<program, client, listening, freeBufs, flags, inDevice, backlog>>

DeviceTransmits ==
  /\ Len(events) < MaxEvents
  /\ \E n \in 1..inDevice :
       inDevice' = inDevice - n /\ Post([op |-> "FREE_BUFF", s |-> 0, n |-> n])
  /\ UNCHANGED <<program, client, listening, freeBufs, flags, device, backlog, calls>>

-----------------------------------------------------------------------------
(* evnt_handler.cpp, in the interrupt. *)

\* set_socket_active_status(): numbers out of range change nothing.
SetActive(s, on) == active' = IF on THEN active \cup ({s} \cap Sockets) ELSE active \ {s}

\* Mutant: the number of handles is counted as a buffer too.
FlowControlCountsHandles(e) ==
  /\ e.op = "FREE_BUFF"
  /\ freeBufs' = freeBufs + e.n + 1
  /\ UNCHANGED <<active, closed, txError>>

FlowControl(e) ==
  /\ e.op = "FREE_BUFF"
  /\ freeBufs' = freeBufs + e.n
  /\ UNCHANGED <<active, closed, txError>>

CloseWait(e) ==
  /\ e.op = "CLOSE_WAIT"
  /\ closed' = closed \cup {e.s}
  /\ UNCHANGED <<freeBufs, active, txError>>

SendFailed(e) ==
  /\ e.op = "SEND_FAILED"
  /\ txError' = TRUE /\ SetActive(e.s, FALSE)
  /\ UNCHANGED <<freeBufs, closed>>

Interrupt ==
  /\ events # <<>> /\ events' = Tail(events)
  /\ LET e == Head(events) IN FlowControl(e) \/ CloseWait(e) \/ SendFailed(e)
  /\ UNCHANGED <<program, client, listening, device, inDevice, backlog, calls>>

-----------------------------------------------------------------------------
(* The commands of socket.cpp: what device and host do for each. *)

Command == events = <<>>

\* socket(): a number, or -1 when the device has none left.
OpenSocket ==
  IF FreeSockets = {} THEN soc' = NoSocket /\ UNCHANGED <<device, active>>
  ELSE LET s == Min(FreeSockets)
       IN  /\ soc' = s /\ SetActive(s, TRUE)
           /\ device' = [device EXCEPT ![s].st = "new"]

closesocket(s) ==
  /\ device' = [device EXCEPT ![s] = Free]
  /\ SetActive(s, FALSE)

\* accept(): the new socket, or an error that marks the listening one.
accept ==
  IF backlog > 0 /\ FreeSockets # {} /\ listening # NoSocket
    THEN LET s == Min(FreeSockets)
         IN  /\ device' = [device EXCEPT ![s].st = "conn"] /\ backlog' = backlog - 1
             /\ SetActive(s, TRUE)
             /\ client' = [client EXCEPT ![at] = NewClient(s)]
    ELSE SetActive(listening, FALSE) /\ UNCHANGED <<device, backlog, client>>

\* The handler of a recv answer tests memory behind its structure and may mark
\* the socket whose number is the flags word, 0 (evnt_handler.cpp:363-367).
RecvMayMark == active' = active \/ SetActive(0, FALSE)

-----------------------------------------------------------------------------
(* Control *)

Idle == pc' = "idle" /\ at' = Own /\ task' = "one"
Finish(from) == pc = from /\ Idle
Goto(from, to) == pc = from /\ pc' = to

\* The end of a call for client at: the loops of the server go on with the
\* next client, acceptNewConnections() ends in the loop of available().
NextClient ==
  LET rest == {i \in Slots : i > at}
  IN CASE task = "one" -> Idle
       [] task # "one" /\ rest # {} ->
            pc' = "connected" /\ at' = Min(rest) /\ UNCHANGED task
       [] task = "accept" /\ rest = {} ->
            pc' = "connected" /\ at' = Min(Slots) /\ task' = "ready"
       [] OTHER -> Idle

\* What the caller of connected() does with the answer.
Checked(isConnected) ==
  CASE task = "accept" /\ ~isConnected -> pc' = "accept" /\ UNCHANGED <<at, task>>
    [] task = "write" /\ isConnected -> pc' = "flow" /\ UNCHANGED <<at, task>>
    [] task = "ready" /\ isConnected -> pc' = "available" /\ UNCHANGED <<at, task>>
    [] OTHER -> NextClient

Call(i, label, name) == Goto("idle", label) /\ at' = i /\ task' = name

CallConnected(i) ==
  /\ Call(i, "connected", "one")
  /\ UNCHANGED <<soc, loaded, dataSeen, client, listening, freeBufs, flags, network>>

CallWrite(i) ==
  /\ client[i].socket # NoSocket /\ Call(i, "flow", "one")
  /\ UNCHANGED <<soc, loaded, dataSeen, client, listening, freeBufs, flags, network>>

\* Server::available() and Server::write()
CallServer(name) ==
  /\ listening # NoSocket /\ Call(Min(Slots), "connected", name)
  /\ UNCHANGED <<soc, loaded, dataSeen, client, listening, freeBufs, flags, network>>

-----------------------------------------------------------------------------
(* Client::connected(), with the select() of available(). *)

NotOpen ==
  /\ pc = "connected" /\ client[at].socket = NoSocket /\ Checked(FALSE)
  /\ UNCHANGED <<soc, loaded, dataSeen, client, listening, freeBufs, flags, network>>

Buffered ==
  /\ pc = "connected" /\ client[at].socket # NoSocket /\ client[at].left > 0
  /\ Checked(TRUE)
  /\ UNCHANGED <<soc, loaded, dataSeen, client, listening, freeBufs, flags, network>>

Select ==
  /\ Command /\ Goto("connected", "selected")
  /\ client[at].socket # NoSocket /\ client[at].left = 0
  /\ dataSeen' = (device[client[at].socket].inbox > 0)
  /\ UNCHANGED <<at, task, soc, loaded, client, listening, freeBufs, flags, network>>

StillConnected ==
  /\ pc = "selected" /\ (dataSeen \/ client[at].socket \notin closed)
  /\ Checked(TRUE) /\ dataSeen' = FALSE
  /\ UNCHANGED <<soc, loaded, client, listening, freeBufs, flags, network>>

DropClosed ==
  /\ pc = "selected" /\ ~dataSeen /\ client[at].socket \in closed
  /\ Command /\ closesocket(client[at].socket)
  /\ closed' = closed \ {client[at].socket}
  /\ client' = [client EXCEPT ![at].socket = NoSocket]
  /\ Checked(FALSE)
  /\ UNCHANGED <<soc, loaded, dataSeen, listening, freeBufs, txError,
                 inDevice, backlog, events, calls>>

Available ==
  /\ pc = "available" /\ Command
  /\ IF client[at].left > 0 \/ device[client[at].socket].inbox > 0
       THEN Idle ELSE NextClient
  /\ UNCHANGED <<soc, loaded, dataSeen, client, listening, freeBufs, flags, network>>

Accept ==
  /\ pc = "accept" /\ Command
  /\ accept /\ NextClient
  /\ UNCHANGED <<soc, loaded, dataSeen, listening, freeBufs, closed, txError,
                 inDevice, events, calls>>

-----------------------------------------------------------------------------
(* send(), recv() and close() of a client. *)

Return == NextClient

\* Mutant: the buffer is taken before the socket's state is tested.
SendRefusedTakesBuffer ==
  /\ pc = "flow" /\ freeBufs > 0 /\ (txError \/ client[at].socket \notin active)
  /\ txError' = FALSE /\ freeBufs' = freeBufs - 1
  /\ Return
  /\ UNCHANGED <<soc, loaded, dataSeen, client, listening, active, closed, network>>

SendRefused ==
  /\ pc = "flow" /\ (txError \/ client[at].socket \notin active)
  /\ txError' = FALSE
  /\ Return
  /\ UNCHANGED <<soc, loaded, dataSeen, client, listening, freeBufs, active, closed, network>>

\* usNumberOfFreeBuffers-- loads here and stores in the next step.
TakeBuffer ==
  /\ Goto("flow", "store") /\ ~txError /\ client[at].socket \in active
  /\ freeBufs > 0 /\ loaded' = freeBufs
  /\ UNCHANGED <<at, task, soc, dataSeen, client, listening, freeBufs, flags, network>>

StoreBuffer ==
  /\ Goto("store", "send")
  /\ freeBufs' = loaded - 1 /\ loaded' = 0
  /\ UNCHANGED <<at, task, soc, dataSeen, client, listening, flags, network>>

\* The answer for a lost connection is taken by the interrupt for a failed
\* send of the past, and send() goes on waiting for it.
SendPacket ==
  /\ pc = "send" /\ Command
  /\ inDevice' = inDevice + 1
  /\ LET s == client[at].socket
     IN IF device[s].st = "conn" THEN Return /\ UNCHANGED <<txError, active>>
        ELSE /\ pc' = "waits" /\ txError' = TRUE /\ SetActive(s, FALSE)
             /\ UNCHANGED <<at, task>>
  /\ UNCHANGED <<soc, loaded, dataSeen, client, listening, freeBufs, closed,
                 device, backlog, events, calls>>

CallRead(i) ==
  /\ client[i].socket # NoSocket /\ Call(i, "read", "one")
  /\ UNCHANGED <<soc, loaded, dataSeen, client, listening, freeBufs, flags, network>>

ReadBuffered ==
  /\ Finish("read") /\ client[at].left > 0
  /\ client' = [client EXCEPT ![at].left = @ - 1]
  /\ UNCHANGED <<soc, loaded, dataSeen, listening, freeBufs, flags, network>>

ReadReceives ==
  /\ Finish("read") /\ Command
  /\ LET c == client[at]
     IN /\ c.left = 0 /\ device[c.socket].inbox > 0
        /\ \E n \in 1..RxBufferSize : client' = [client EXCEPT ![at].left = n - 1]
        /\ device' = [device EXCEPT ![c.socket].inbox = @ - 1]
        /\ RecvMayMark
  /\ UNCHANGED <<soc, loaded, dataSeen, listening, freeBufs, closed, txError, inDevice, backlog, events, calls>>

\* Mutant: the client keeps the number of the socket it closed.
CloseKeepsNumber == closesocket(client[at].socket) /\ UNCHANGED client

\* close() leaves closed_sockets[] as it is.
Close ==
  /\ closesocket(client[at].socket)
  /\ client' = [client EXCEPT ![at].socket = NoSocket]

\* recv() answers -57 on a connection that is over.
ReadEnds ==
  /\ Finish("read") /\ Command
  /\ LET s == client[at].socket
     IN client[at].left = 0 /\ device[s].inbox = 0 /\ device[s].fin
  /\ Close
  /\ UNCHANGED <<soc, loaded, dataSeen, listening, freeBufs, closed, txError, inDevice, backlog, events, calls>>

CallClose(i) ==
  /\ client[i].socket # NoSocket /\ Call(i, "close", "one")
  /\ UNCHANGED <<soc, loaded, dataSeen, client, listening, freeBufs, flags, network>>

CloseClient ==
  /\ Finish("close") /\ Command /\ Close
  /\ UNCHANGED <<soc, loaded, dataSeen, listening, freeBufs, closed, txError, inDevice, backlog, events, calls>>

-----------------------------------------------------------------------------
(* connectTCP() assigned to the sketch's client, and Server::begin(). *)

CallConnect ==
  /\ client[Own].socket = NoSocket /\ calls < MaxCalls /\ calls' = calls + 1
  /\ Call(Own, "connect", "one")
  /\ UNCHANGED <<soc, loaded, dataSeen, client, listening, freeBufs, flags, device,
                 inDevice, backlog, events>>

ConnectSocket ==
  /\ pc = "connect" /\ Command /\ OpenSocket
  /\ IF soc' = NoSocket THEN Idle ELSE pc' = "connecting" /\ UNCHANGED <<at, task>>
  /\ UNCHANGED <<loaded, dataSeen, client, listening, freeBufs, closed, txError, inDevice, backlog, events, calls>>

Connected ==
  /\ Finish("connecting") /\ Command /\ soc' = NoSocket
  /\ device' = [device EXCEPT ![soc].st = "conn"]
  /\ client' = [client EXCEPT ![Own] = NewClient(soc)]
  /\ UNCHANGED <<loaded, dataSeen, listening, freeBufs, flags, inDevice,
                 backlog, events, calls>>

ConnectFails ==
  /\ Finish("connecting") /\ Command /\ soc' = NoSocket /\ closesocket(soc)
  /\ UNCHANGED <<loaded, dataSeen, client, listening, freeBufs, closed,
                 txError, inDevice, backlog, events, calls>>

\* netapp_timeout_values() and socket()
BeginSocket ==
  /\ pc = "idle" /\ listening = NoSocket /\ calls < MaxCalls /\ Command
  /\ calls' = calls + 1
  /\ OpenSocket /\ IF soc' = NoSocket THEN Idle ELSE pc' = "begin" /\ UNCHANGED <<at, task>>
  /\ UNCHANGED <<loaded, dataSeen, client, listening, freeBufs, closed, txError, inDevice, backlog, events>>

\* setsockopt(), bind() and listen()
BeginListens ==
  /\ Finish("begin") /\ Command /\ soc' = NoSocket
  /\ device' = [device EXCEPT ![soc].st = "listen"] /\ listening' = soc
  /\ UNCHANGED <<loaded, dataSeen, client, freeBufs, flags, inDevice,
                 backlog, events, calls>>

\* One of them failed: the socket stays open in the device.
BeginFails ==
  /\ Finish("begin") /\ Command /\ soc' = NoSocket
  /\ UNCHANGED <<loaded, dataSeen, client, listening, freeBufs, flags, network>>

-----------------------------------------------------------------------------
Init ==
  /\ pc = "idle" /\ at = Own /\ task = "one" /\ soc = NoSocket /\ loaded = 0
  /\ dataSeen = FALSE /\ client = [i \in Clients |-> NoClient] /\ listening = NoSocket
  /\ active = {} /\ closed = {} /\ freeBufs = DeviceBuffers
  /\ txError = FALSE
  /\ device = [s \in Sockets |-> Free] /\ inDevice = 0 /\ backlog = 0
  /\ events = <<>> /\ calls = 0

\* What the sketch may call.
Sketch ==
  \/ \E i \in Clients : CallConnected(i) \/ CallWrite(i) \/ CallRead(i) \/ CallClose(i)
  \/ CallServer("accept") \/ CallServer("write") \/ CallConnect \/ BeginSocket

Library ==
  \/ NotOpen \/ Buffered \/ Select \/ StillConnected \/ DropClosed \/ Available \/ Accept
  \/ SendRefused \/ TakeBuffer \/ StoreBuffer \/ SendPacket
  \/ ReadBuffered \/ ReadReceives \/ ReadEnds \/ CloseClient
  \/ ConnectSocket \/ Connected \/ ConnectFails \/ BeginListens \/ BeginFails

Network ==
  \/ PeerConnects
  \/ \E s \in Sockets : PeerSends(s) \/ PeerCloses(s) \/ PeerResets(s)

Next == Sketch \/ Library \/ Network \/ DeviceTransmits \/ Interrupt

Spec == Init /\ [][Next]_vars

\* The processor runs and takes its interrupts; the device transmits.
FairSpec == Spec /\ WF_vars(Library) /\ WF_vars(Interrupt) /\ WF_vars(DeviceTransmits)

-----------------------------------------------------------------------------
(* Properties *)

\* The account of transmit buffers, of which TransmitBuffers_proofs shows that
\* the device is never sent a packet it has no buffer for.
ReportedBy(i) == IF i \in DOMAIN events THEN events[i].n ELSE 0
Reported == ReportedBy(1) + ReportedBy(2)  \* of at most MaxEvents events
Phase == CASE pc = "store" -> "loaded" [] pc = "send" -> "taken" [] OTHER -> "idle"

Account == INSTANCE TransmitBuffers
             WITH free <- freeBufs, phase <- Phase, reported <- Reported

ImplementsAccount == Account!Spec

\* A sender that waits for a buffer gets one or is refused: returns lost
\* between load and store never add up to starvation.
SendGetsBuffer == pc = "flow" ~> pc # "flow"

\* Every connection in the device belongs to exactly one client, so that
\* somebody can still close it: no path of accept(), connect(), connected() or
\* read() forgets a connection or hands one to two clients.
ConnectionsHaveOneOwner ==
  \A s \in Sockets : device[s].st \in {"conn", "gone"} =>
    Cardinality({i \in Clients : client[i].socket = s}) = 1

\* connected() gives up only connections their peer has closed: "No more data,
\* and closed!" (Adafruit_CC3000.cpp:1303).
DropsOnlyClosed ==
  [][\A s \in Sockets :
       pc = "selected" /\ device[s].st = "conn" /\ device'[s].st = "free"
         => device[s].fin]_vars
=============================================================================
