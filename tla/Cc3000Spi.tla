----------------------------- MODULE Cc3000Spi -----------------------------
(* The link of the CC3000 library: ccspi.cpp, the sending half of hci.cpp,  *)
(* the receiving half of evnt_handler.cpp and wlan_start(), wlan_stop().    *)
(* The program steps through SpiWrite() and hci_event_handler() while the   *)
(* device moves its IRQ line and the falling edge calls SPI_IRQ().          *)
EXTENDS Naturals, Sequences

CONSTANTS
  MaxCommands,     \* bound: commands in a run, over all starts
  MaxEvents,       \* bound: unsolicited events of the device
  Patches          \* patch requests of the device at each start

VARIABLES
  pc,          \* where the program is
  asked,       \* commands so far
  cmd,         \* the packet it sends: [op, n], n numbers commands or patches
  sawLow,      \* the pin as the program last read it
  opcode,      \* usReceivedEventOpcode, local to hci_event_handler
  spiState,    \* sSpiInformation.ulSpiState
  intEnabled,  \* ccspi_int_enabled: SPI_IRQ is attached
  cs,          \* "low" while the device is selected
  rx,          \* the packet in spi_buffer
  received,    \* usEventOrDataReceived
  waitOp,      \* usRxEventOpcode, "none" for 0
  waitData,    \* usRxDataPending
  answer,      \* ghost: number of the command whose answer was handled last
  pinLow,      \* the device holds its IRQ line low
  edge,        \* the interrupt controller remembers a falling edge
  keepsEdges,  \* the board remembers edges that come while detached
  device,      \* [power, booted, up, got, unsol]: got counts commands received
  queue        \* packets the device has for the host

main == <<pc, asked, cmd, sawLow, opcode>>
link == <<spiState, intEnabled, cs>>
rxVars == <<rx, received, waitOp, waitData, answer>>
chip == <<pinLow, device, queue>>
vars == <<main, link, rxVars, chip, edge, keepsEdges>>

Event(op, n) == [type |-> "EVNT", op |-> op, n |-> n]
Data(n) == [type |-> "DATA", op |-> "DATA", n |-> n]
Nothing == [type |-> "none", op |-> "none", n |-> 0]
Command(op, n) == [op |-> op, n |-> n]

-----------------------------------------------------------------------------
(* The device, as far as the driver relies on it. It answers every command, *)
(* asks for patches before it answers the first one, releases the line when *)
(* it is deselected, and pulls it when it is selected for a write or has a  *)
(* packet.                                                                  *)

Answer(p) ==
  CASE p.op = "START" /\ Patches > 0 -> <<Event("PATCHES_REQ", 1)>>
    [] p.op = "PATCH" /\ p.n < Patches -> <<Event("PATCHES_REQ", p.n + 1)>>
    [] p.op = "PATCH" /\ p.n >= Patches -> <<Event("START", device.got)>>
    [] p.op = "RECV" -> <<Event("RECV", p.n), Data(p.n)>>
    [] OTHER -> <<Event(p.op, p.n)>>

Accepts(p) ==
  /\ queue' = queue \o Answer(p)
  /\ device' = [device EXCEPT !.got = IF p.op = "PATCH" THEN @ ELSE @ + 1,
                              !.up = @ \/ p.op = "BUFFER_SIZE"]

FallingEdge ==
  pinLow' = TRUE /\ edge' = (edge \/ intEnabled \/ keepsEdges)

\* Starting up takes the device longer than the program's polling loops.
Boot ==
  /\ device.power /\ ~device.booted /\ ~pinLow /\ pc = "waitLow"
  /\ FallingEdge /\ device' = [device EXCEPT !.booted = TRUE]
  /\ UNCHANGED <<main, link, rxVars, queue, keepsEdges>>

RaiseLine ==
  /\ pinLow /\ ~(device.power /\ device.booted)
  /\ pinLow' = FALSE
  /\ UNCHANGED <<main, link, rxVars, device, queue, edge, keepsEdges>>

PullLine ==
  /\ device.power /\ device.booted /\ ~pinLow /\ (cs = "low" \/ queue # <<>>)
  /\ FallingEdge
  /\ UNCHANGED <<main, link, rxVars, device, queue, keepsEdges>>

Unsolicited ==
  /\ device.power /\ device.up /\ device.unsol < MaxEvents
  /\ \E op \in {"UNSOL", "OTHER"} : queue' = Append(queue, Event(op, 0))
  /\ device' = [device EXCEPT !.unsol = @ + 1]
  /\ UNCHANGED <<main, link, rxVars, pinLow, edge, keepsEdges>>

-----------------------------------------------------------------------------
(* ccspi.cpp *)

Deselect == cs' = "high" /\ pinLow' = FALSE

WlanInterruptDisable == intEnabled' = FALSE

WlanInterruptEnable == intEnabled' = TRUE

\* What the host clocks out of the device: its next packet while it signals one.
NextPacket == IF pinLow /\ queue # <<>> THEN Head(queue) ELSE Nothing

\* "OTHER" stands for the events hci_unsol_event_handler() does not support.
IsUnsolicited(p) == p.type = "EVNT" /\ p.op = "UNSOL"

\* Plausible bugs of SpiTriggerRxProcessing: without SpiPauseSpi(), and without
\* SpiResumeSpi() after an unsolicited event.
TriggerWithoutPause(p) ==
  /\ rx' = p /\ received' = ~IsUnsolicited(p) /\ intEnabled' = TRUE
  /\ Deselect /\ UNCHANGED <<waitOp, waitData, answer>>

TriggerWithoutResume(p) ==
  /\ rx' = p /\ received' = ~IsUnsolicited(p) /\ intEnabled' = FALSE
  /\ Deselect /\ UNCHANGED <<waitOp, waitData, answer>>

\* SpiTriggerRxProcessing with its handler: an unsolicited event is finished
\* here, anything else waits for the program with the interrupt detached.
SpiTriggerRxProcessing(p) ==
  /\ rx' = p
  /\ received' = ~IsUnsolicited(p)
  /\ intEnabled' = IsUnsolicited(p)
  /\ Deselect
  /\ UNCHANGED <<waitOp, waitData, answer>>

ReadPacket ==
  /\ spiState = "IDLE"
  /\ SpiTriggerRxProcessing(NextPacket)
  /\ queue' = IF NextPacket = Nothing THEN queue ELSE Tail(queue)
  /\ UNCHANGED <<spiState, device>>

FirstInterrupt ==
  /\ spiState = "POWERUP" /\ spiState' = "INITIALIZED"
  /\ UNCHANGED <<intEnabled, cs, rxVars, chip>>

WriteInInterrupt ==
  /\ spiState = "WRITE_IRQ" /\ spiState' = "IDLE"
  /\ Accepts(cmd) /\ Deselect
  /\ UNCHANGED <<intEnabled, rxVars>>

OtherInterrupt ==
  spiState = "INITIALIZED" /\ UNCHANGED <<link, rxVars, chip>>

SPI_IRQ == ReadPacket \/ FirstInterrupt \/ WriteInInterrupt \/ OtherInterrupt

Interrupt ==
  /\ edge /\ intEnabled
  /\ edge' = FALSE
  /\ SPI_IRQ /\ UNCHANGED <<main, keepsEdges>>

\* The program runs while no interrupt is due. Only a read of the pin may still
\* see the level of an edge whose interrupt is taken right after it.
Quiet == ~(edge /\ intEnabled)

Goto(from, to) == pc = from /\ pc' = to

Ask(op) == asked' = asked + 1 /\ cmd' = Command(op, asked + 1)

-----------------------------------------------------------------------------
(* wlan_start and wlan_stop *)

StartOpen ==
  /\ Quiet /\ Goto("off", "enable") /\ asked + 1 < MaxCommands
  /\ waitOp' = "none" /\ waitData' = FALSE /\ received' = FALSE /\ rx' = Nothing
  /\ spiState' = "POWERUP" /\ WlanInterruptEnable
  /\ UNCHANGED <<asked, cmd, sawLow, opcode, cs, answer, chip, edge, keepsEdges>>

StartEnable ==
  /\ Quiet /\ Goto("enable", IF pinLow THEN "waitHigh" ELSE "waitLow")
  /\ sawLow' = pinLow
  /\ device' = [device EXCEPT !.power = TRUE]
  /\ UNCHANGED <<asked, cmd, opcode, link, rxVars, pinLow, queue, edge, keepsEdges>>

StartSawHigh ==
  /\ Goto("waitHigh", "waitLow") /\ ~pinLow
  /\ UNCHANGED <<asked, cmd, sawLow, opcode, link, rxVars, chip, edge, keepsEdges>>

StartSawLow ==
  /\ Goto("waitLow", "write") /\ pinLow
  /\ Ask("START")
  /\ UNCHANGED <<sawLow, opcode, link, rxVars, chip, edge, keepsEdges>>

Stop ==
  /\ Quiet /\ Goto("ready", "stopping") /\ device.power
  /\ device' = [device EXCEPT !.power = FALSE, !.booted = FALSE, !.up = FALSE]
  /\ queue' = <<>>
  /\ UNCHANGED <<asked, cmd, sawLow, opcode, link, rxVars, pinLow, edge, keepsEdges>>

SpiClose ==
  /\ Goto("stopping", "off") /\ ~pinLow
  /\ WlanInterruptDisable
  /\ UNCHANGED <<asked, cmd, sawLow, opcode, spiState, cs, rxVars, chip, edge, keepsEdges>>

-----------------------------------------------------------------------------
(* SpiWrite *)

Ready(op) ==
  /\ Quiet /\ Goto("ready", "write") /\ asked < MaxCommands
  /\ Ask(op)
  /\ UNCHANGED <<sawLow, opcode, link, rxVars, chip, edge, keepsEdges>>

SpiFirstWrite ==
  /\ Quiet /\ Goto("write", "written") /\ spiState = "INITIALIZED"
  /\ spiState' = "IDLE"
  /\ Accepts(cmd) /\ Deselect
  /\ UNCHANGED <<asked, cmd, sawLow, opcode, intEnabled, rxVars, edge, keepsEdges>>

WriteBegin ==
  /\ Quiet /\ Goto("write", "claim") /\ spiState \notin {"POWERUP", "INITIALIZED"}
  /\ WlanInterruptDisable
  /\ UNCHANGED <<asked, cmd, sawLow, opcode, spiState, cs, rxVars, chip, edge, keepsEdges>>

WriteClaim ==
  /\ Quiet /\ Goto("claim", "attach") /\ spiState = "IDLE"
  /\ spiState' = "WRITE_IRQ" /\ cs' = "low"
  /\ UNCHANGED <<asked, cmd, sawLow, opcode, intEnabled, rxVars, chip, edge, keepsEdges>>

WriteAttach ==
  /\ Quiet /\ Goto("attach", "check")
  /\ WlanInterruptEnable
  /\ UNCHANGED <<asked, cmd, sawLow, opcode, spiState, cs, rxVars, chip, edge, keepsEdges>>

\* A plausible bug: no look at the pin after the interrupt is attached again.
WriteWithoutCheck ==
  /\ Goto("check", "written")
  /\ sawLow' = pinLow
  /\ UNCHANGED <<asked, cmd, opcode, link, rxVars, chip, edge, keepsEdges>>

WriteCheck ==
  /\ Goto("check", IF pinLow THEN "transfer" ELSE "written")
  /\ sawLow' = pinLow
  /\ UNCHANGED <<asked, cmd, opcode, link, rxVars, chip, edge, keepsEdges>>

\* SpiWriteDataSynchronous without a selected device reaches nobody.
WriteTransfer ==
  /\ Quiet /\ Goto("transfer", "release")
  /\ IF cs = "low" THEN Accepts(cmd) ELSE UNCHANGED <<device, queue>>
  /\ UNCHANGED <<asked, cmd, sawLow, opcode, link, rxVars, pinLow, edge, keepsEdges>>

\* Deselecting a device that is not selected leaves its line alone.
WriteRelease ==
  /\ Quiet /\ Goto("release", "written")
  /\ spiState' = "IDLE"
  /\ IF cs = "low" THEN Deselect ELSE UNCHANGED <<cs, pinLow>>
  /\ UNCHANGED <<asked, cmd, sawLow, opcode, intEnabled, rxVars, device, queue, edge, keepsEdges>>

\* The final wait for IDLE, and SimpleLinkWaitEvent() for a command.
WaitEvent ==
  /\ Quiet /\ Goto("written", "poll") /\ spiState = "IDLE"
  /\ waitOp' = IF cmd.op = "PATCH" THEN waitOp ELSE cmd.op
  /\ opcode' = IF cmd.op = "PATCH" THEN opcode ELSE "none"
  /\ UNCHANGED <<asked, cmd, sawLow, link, rx, received, waitData, answer, chip, edge, keepsEdges>>

-----------------------------------------------------------------------------
(* hci_event_handler *)

PollPin ==
  /\ Goto("poll", "serve")
  /\ sawLow' = pinLow
  /\ UNCHANGED <<asked, cmd, opcode, link, rxVars, chip, edge, keepsEdges>>

PollServe ==
  /\ Quiet /\ Goto("serve", "handle")
  /\ IF sawLow /\ intEnabled THEN SPI_IRQ ELSE UNCHANGED <<link, rxVars, chip>>
  /\ UNCHANGED <<asked, cmd, sawLow, opcode, edge, keepsEdges>>

PollAgain ==
  /\ Quiet /\ Goto("handle", "poll") /\ ~received
  /\ UNCHANGED <<asked, cmd, sawLow, opcode, link, rxVars, chip, edge, keepsEdges>>

\* A plausible bug: any event ends the wait of the call.
HandleAnyEvent ==
  /\ Quiet /\ Goto("handle", "handled") /\ received
  /\ opcode' = IF rx.type = "EVNT" THEN rx.op ELSE opcode
  /\ waitOp' = "none"
  /\ waitData' = IF rx.type = "EVNT" THEN waitData ELSE FALSE
  /\ answer' = IF rx.op \in {"PATCHES_REQ", "OTHER"} THEN answer ELSE rx.n
  /\ received' = FALSE
  /\ WlanInterruptEnable
  /\ UNCHANGED <<asked, cmd, sawLow, spiState, cs, rx, chip, edge, keepsEdges>>

Handle ==
  /\ Quiet /\ Goto("handle", "handled") /\ received
  /\ opcode' = IF rx.type = "EVNT" THEN rx.op ELSE opcode
  /\ waitOp' = IF rx.op = waitOp THEN "none" ELSE waitOp
  /\ waitData' = IF rx.type = "EVNT" THEN waitData ELSE FALSE
  /\ answer' = IF rx.op \in {"PATCHES_REQ", "OTHER"} THEN answer ELSE rx.n
  /\ received' = FALSE
  /\ WlanInterruptEnable
  /\ UNCHANGED <<asked, cmd, sawLow, spiState, cs, rx, chip, edge, keepsEdges>>

\* The request is read from the buffer after the interrupt is attached again.
AskedForPatch == rx.type = "EVNT" /\ opcode = "PATCHES_REQ"

PatchRequest ==
  /\ Quiet /\ Goto("handled", "write") /\ AskedForPatch
  /\ cmd' = Command("PATCH", rx.n)
  /\ UNCHANGED <<asked, sawLow, opcode, link, rxVars, chip, edge, keepsEdges>>

KeepWaiting ==
  /\ Quiet /\ Goto("handled", "poll") /\ ~AskedForPatch
  /\ waitOp # "none" \/ waitData
  /\ UNCHANGED <<asked, cmd, sawLow, opcode, link, rxVars, chip, edge, keepsEdges>>

EventDone ==
  /\ Quiet /\ cmd.op # "RECV" /\ ~AskedForPatch
  /\ Goto("handled", IF cmd.op \in {"START", "PATCH"} THEN "started" ELSE "ready")
  /\ waitOp = "none" /\ ~waitData
  /\ UNCHANGED <<asked, cmd, sawLow, opcode, link, rxVars, chip, edge, keepsEdges>>

\* recv() waits for its data with SimpleLinkWaitData() after its event.
WaitData ==
  /\ Quiet /\ cmd.op = "RECV" /\ ~AskedForPatch
  /\ Goto("handled", "poll")
  /\ waitOp = "none" /\ ~waitData
  /\ cmd' = [cmd EXCEPT !.op = "RECV_DATA"] /\ waitData' = TRUE /\ opcode' = "none"
  /\ UNCHANGED <<asked, sawLow, link, rx, received, waitOp, answer, chip, edge, keepsEdges>>

\* wlan_start() goes on with the sizes of the device's buffers.
StartBufferSize ==
  /\ Quiet /\ Goto("started", "write") /\ Ask("BUFFER_SIZE")
  /\ UNCHANGED <<sawLow, opcode, link, rxVars, chip, edge, keepsEdges>>

-----------------------------------------------------------------------------
Init ==
  /\ pc = "off" /\ asked = 0 /\ cmd = Command("none", 0) /\ sawLow = FALSE
  /\ opcode = "none"
  /\ spiState = "IDLE" /\ intEnabled = FALSE /\ cs = "high"
  /\ rx = Nothing /\ received = FALSE /\ waitOp = "none" /\ waitData = FALSE
  /\ answer = 0 /\ edge = FALSE /\ queue = <<>>
  /\ pinLow \in BOOLEAN /\ keepsEdges \in BOOLEAN
  /\ device = [power |-> FALSE, booted |-> FALSE, up |-> FALSE, got |-> 0, unsol |-> 0]

Call == StartOpen \/ Stop \/ Ready("COMMAND") \/ Ready("RECV")

Program ==
  \/ StartEnable \/ StartSawHigh \/ StartSawLow \/ StartBufferSize \/ SpiClose
  \/ SpiFirstWrite \/ WriteBegin \/ WriteClaim \/ WriteAttach \/ WriteCheck
  \/ WriteTransfer \/ WriteRelease \/ WaitEvent
  \/ PollPin \/ PollServe \/ PollAgain \/ Handle
  \/ PatchRequest \/ KeepWaiting \/ EventDone \/ WaitData

Device == Boot \/ RaiseLine \/ PullLine

Next == Call \/ Program \/ Interrupt \/ Device \/ Unsolicited

Spec == Init /\ [][Next]_vars

\* The processor runs, takes its interrupts, and the device reacts.
Fairness == WF_vars(Program) /\ WF_vars(Interrupt) /\ WF_vars(Device)
FairSpec == Spec /\ Fairness

-----------------------------------------------------------------------------
(* Properties *)

\* The exchange a caller sees: its packet reaches the device exactly once,
\* however the interrupt, the check for a missed one and the poll share the
\* transfer, and the call returns with the answer to it.
Returned == IF pc \in {"off", "enable", "waitHigh", "waitLow", "ready", "started", "stopping"}
              THEN answer ELSE asked - 1

Exchange == INSTANCE HciExchange WITH arrived <- device.got, returned <- Returned

ImplementsExchange == Exchange!Spec

\* There is one receive buffer: a packet some call waits for stays in it until
\* the program has handled it, and a patch request until the program has read
\* it once more (evnt_handler.cpp:484 passes the buffer after SpiResumeSpi()).
Wanted == (received /\ rx.op # "OTHER") \/ (pc = "handled" /\ AskedForPatch)

PacketIsKept == [][rx' # rx => pc = "off" \/ ~Wanted]_vars

\* Every call returns, on boards that forget edges too: the poll and the check
\* in SpiWrite() make up for each of them.
EveryCallReturns == (pc = "write" \/ pc = "enable") ~> pc = "ready"

\* On a board that remembers edges an event reaches the host although the
\* program calls nothing, unless an unsupported one waits for the next call.
EventsReachHost ==
  (keepsEdges /\ queue # <<>>) ~> (queue = <<>> \/ (received /\ rx.op = "OTHER"))
=============================================================================
