------------------------------ MODULE Sd2Card ------------------------------
(* The SD card driver, Sd2Card.cpp: initialisation, block and partial block *)
(* reads and block writes as sequences of commands to a card that may stay  *)
(* busy, refuse a command or not answer in time.                            *)
EXTENDS Naturals

CONSTANTS
  Blocks,      \* block numbers
  BlockSize,   \* 512
  MaxWrites    \* bound: writes in a run

VARIABLES
  pc,        \* where the program is
  call,      \* arguments of the current call: [block, offset, count, data]
  type,      \* type_
  inBlock,   \* inBlock_
  block,     \* block_
  offset,    \* offset_
  partial,   \* partialBlockRead_
  cs,        \* level of the chip select pin
  answer,    \* ghost: what the last read delivered, "right" or "wrong"
  card,      \* [kind, state, stream, busy, blocks, target, failed]
  writes     \* ghost: number of writes, used as their data

driver == <<call, type, inBlock, block, offset, partial>>
vars == <<pc, driver, cs, answer, card, writes>>

\* What the card sends: the data of a block from some position on.
NoStream == [block |-> 0, data |-> 0, pos |-> BlockSize]
NoBlock == 0
NoCall == [block |-> NoBlock, offset |-> 0, count |-> 0, data |-> 0]

-----------------------------------------------------------------------------
(* The card. A kind "SD1" or "SD2" takes byte addresses, "SDHC" block       *)
(* numbers. While it programs a block it answers no command.                *)

Address(b) == IF type # "SDHC" THEN b * 512 ELSE b
BlockAt(address) == IF card.kind = "SDHC" THEN address ELSE address \div 512

GoIdle(c) == [c EXCEPT !.state = "idle", !.stream = NoStream]
Start(c) == [c EXCEPT !.state = IF c.kind = "SDHC" /\ type = "SD1" THEN "idle" ELSE "ready"]
Read(c) ==
  LET b == BlockAt(Address(call.block))
  IN [c EXCEPT !.stream = [block |-> b, pos |-> 0,
                           data |-> IF b \in Blocks THEN c.blocks[b] ELSE 0]]
Aim(c) == [c EXCEPT !.target = BlockAt(Address(call.block))]
-----------------------------------------------------------------------------
(* cardCommand() and its parts *)

\* readEnd(): the rest of the block is clocked out.
Ended(c) == IF inBlock THEN [c EXCEPT !.stream = NoStream] ELSE c

\* The card once it is ready for a command.
Listening == [Ended(card) EXCEPT !.busy = FALSE]

\* The card accepts the command, after which it is as in served, or it refuses
\* it, which it does while it is busy: waitNotBusy(300) may end before it is ready.
cardCommand(served, accepted, refused) ==
  \/ /\ Listening.stream = NoStream
     /\ card' = served /\ pc' = accepted /\ cs' = "low"
  \/ /\ \E stillBusy \in {FALSE, card.busy} : card' = [Ended(card) EXCEPT !.busy = stillBusy]
     /\ pc' = refused /\ cs' = IF refused = "init" THEN "low" ELSE "high"

CommandStep(from, served, accepted, refused) ==
  /\ pc = from /\ cardCommand(served, accepted, refused)
  /\ inBlock' = FALSE
  /\ UNCHANGED <<call, type, block, offset, partial, answer, writes>>

Fail == pc' = "false" /\ cs' = "high"
InitFail == pc' = "down" /\ cs' = "high"

-----------------------------------------------------------------------------
(* init() *)

Init0 ==
  /\ pc \in {"down", "idle"}
  /\ pc' = "init" /\ type' = "none" /\ inBlock' = FALSE /\ partial' = FALSE /\ cs' = "high"
  /\ card' = [card EXCEPT !.stream = NoStream]
  /\ UNCHANGED <<call, block, offset, answer, writes>>

InitCMD0 ==
  \E refused \in {"init", "down"} :
    CommandStep("init", GoIdle(Listening), "init8", refused)

\* A missing answer, 0xFF, has the bit of R1_ILLEGAL_COMMAND too.
InitCMD8 ==
  /\ pc = "init8"
  /\ \/ pc' = "init41" /\ type' = "SD1" /\ UNCHANGED cs
     \/ card.kind # "SD1" /\ pc' = "init41" /\ type' = "SD2" /\ UNCHANGED cs
     \/ card.kind # "SD1" /\ InitFail /\ UNCHANGED type
  /\ UNCHANGED <<call, inBlock, block, offset, partial, answer, card, writes>>

\* Without the host's support for it an SDHC card never gets ready.
InitACMD41 ==
  /\ pc = "init41"
  /\ card' = Start(card)
  /\ \/ card'.state = "ready" /\ pc' = "init58" /\ UNCHANGED cs
     \/ card'.state = "idle" /\ InitFail
  /\ UNCHANGED <<driver, answer, writes>>

InitCMD58 ==
  /\ pc = "init58"
  /\ \/ pc' = "true" /\ cs' = "high"
        /\ type' = IF type = "SD2" /\ card.kind = "SDHC" THEN "SDHC" ELSE type
     \/ type = "SD2" /\ InitFail /\ UNCHANGED type
  /\ UNCHANGED <<call, inBlock, block, offset, partial, answer, card, writes>>

-----------------------------------------------------------------------------
(* readData() and readBlock() *)

\* SdVolume and File use the card only after init() returned true.
Ready == pc = "idle"

\* Mutant: any open block is read on.
CallReadGoesOn(b, o, n) ==
  /\ Ready
  /\ call' = [NoCall EXCEPT !.block = b, !.offset = o, !.count = n]
  /\ IF ~inBlock \/ o < offset
       THEN pc' = "read" /\ block' = b
       ELSE pc' = "transfer" /\ UNCHANGED block
  /\ UNCHANGED <<type, inBlock, offset, partial, cs, answer, card, writes>>

CallRead(b, o, n) ==
  /\ Ready
  /\ call' = [NoCall EXCEPT !.block = b, !.offset = o, !.count = n]
  /\ IF ~inBlock \/ b # block \/ o < offset
       THEN pc' = "read" /\ block' = b
       ELSE pc' = "transfer" /\ UNCHANGED block
  /\ UNCHANGED <<type, inBlock, offset, partial, cs, answer, card, writes>>

ReadCommand == CommandStep("read", Read(Listening), "token", "false")

\* waitStartBlock(): the token, or an error or a timeout. A deselected card
\* drops the block it would have sent.
StartBlock ==
  /\ pc = "token"
  /\ \/ pc' = "transfer" /\ inBlock' = TRUE /\ offset' = 0 /\ UNCHANGED <<cs, card>>
     \/ Fail /\ card' = [card EXCEPT !.stream = NoStream] /\ UNCHANGED <<inBlock, offset>>
  /\ UNCHANGED <<call, type, block, partial, answer, writes>>

Advanced == call.offset + call.count

\* Skip to the offset, take the data, and end the block unless more of it may be read.
Transfer ==
  /\ pc = "transfer" /\ pc' = "true"
  /\ LET s == card.stream
     IN answer' = IF /\ cs = "low" /\ s.block = call.block
                     /\ s.data = card.blocks[call.block]
                     /\ s.pos = offset
                    THEN "right" ELSE "wrong"
  /\ IF ~partial \/ Advanced >= BlockSize
       THEN /\ card' = [card EXCEPT !.stream = NoStream]
            /\ inBlock' = FALSE /\ offset' = 0 /\ cs' = "high"
       ELSE /\ card' = [card EXCEPT !.stream.pos = call.offset + call.count]
            /\ offset' = Advanced /\ UNCHANGED <<inBlock, cs>>
  /\ UNCHANGED <<call, type, block, partial, writes>>

partialBlockRead(value) ==
  /\ Ready
  /\ card' = Ended(card) /\ cs' = (IF inBlock THEN "high" ELSE cs)
  /\ inBlock' = FALSE /\ partial' = value
  /\ UNCHANGED <<pc, call, type, block, offset, answer, writes>>

-----------------------------------------------------------------------------
(* writeBlock(); block zero is protected. *)

CallWrite(b) ==
  /\ Ready /\ b # 0 /\ writes < MaxWrites
  /\ writes' = writes + 1
  /\ call' = [NoCall EXCEPT !.block = b, !.data = writes + 1]
  /\ pc' = "write"
  /\ UNCHANGED <<type, inBlock, block, offset, partial, cs, answer, card>>

WriteCommand == CommandStep("write", Aim(Listening), "data", "false")

\* writeData(): the card accepts the block and programs it, well or not, or rejects it.
writeData ==
  /\ pc = "data"
  /\ \/ pc' = "program" /\ UNCHANGED cs
        /\ \E fails \in BOOLEAN :
             card' = [card EXCEPT !.busy = TRUE, !.failed = fails,
                        !.blocks[card.target] = IF fails THEN @ ELSE call.data]
     \/ Fail /\ UNCHANGED card
  /\ UNCHANGED <<driver, answer, writes>>

\* waitNotBusy(SD_WRITE_TIMEOUT)
Programmed ==
  /\ pc = "program"
  /\ \/ pc' = "status" /\ card' = [card EXCEPT !.busy = FALSE] /\ UNCHANGED cs
     \/ Fail /\ UNCHANGED card
  /\ UNCHANGED <<driver, answer, writes>>

\* Mutant: a block that could not be programmed counts as written.
WriteStatusIgnored ==
  /\ pc = "status" /\ pc' = "true" /\ cs' = "high" /\ card' = [card EXCEPT !.failed = FALSE]
  /\ UNCHANGED <<driver, answer, writes>>

\* CMD13: the card tells whether programming went well, or does not answer.
WriteStatus ==
  /\ pc = "status"
  /\ cs' = "high" /\ card' = [card EXCEPT !.failed = FALSE]
  /\ \/ ~card.failed /\ pc' = "true"
     \/ pc' = "false"
  /\ UNCHANGED <<driver, answer, writes>>

Return ==
  /\ pc \in {"true", "false"} /\ pc' = "idle" /\ call' = NoCall /\ answer' = "none"
  /\ UNCHANGED <<type, inBlock, block, offset, partial, cs, card, writes>>

-----------------------------------------------------------------------------
Init ==
  /\ pc = "down" /\ call = NoCall /\ type = "none" /\ inBlock = FALSE /\ block = NoBlock
  /\ offset = 0 /\ partial = FALSE /\ cs = "high" /\ answer = "none" /\ writes = 0
  /\ \E kind \in {"SD1", "SD2", "SDHC"} :
       card = [kind |-> kind, state |-> "native", stream |-> NoStream, busy |-> FALSE,
               blocks |-> [b \in Blocks |-> 0], target |-> NoBlock, failed |-> FALSE]

Next ==
  \/ Init0 \/ InitCMD0 \/ InitCMD8 \/ InitACMD41 \/ InitCMD58
  \/ \E b \in Blocks, o, n \in 0..BlockSize :
       n > 0 /\ o + n <= BlockSize /\ CallRead(b, o, n)
  \/ ReadCommand \/ StartBlock \/ Transfer
  \/ \E value \in BOOLEAN : partialBlockRead(value)
  \/ \E b \in Blocks : CallWrite(b)
  \/ WriteCommand \/ writeData \/ Programmed \/ WriteStatus \/ Return

Spec == Init /\ [][Next]_vars

-----------------------------------------------------------------------------
(* Properties *)

\* A read that succeeds delivers the present contents of the block it was asked
\* for, at the asked offset: whatever kind of card init() took it for, and
\* whether the read goes on in an open block or starts a new one.
ReadsAskedBlock == answer # "wrong"

\* writeBlock() is TRUE only when the block is on the card and the card is done.
WrittenMeansProgrammed ==
  [][pc = "status" /\ pc' = "true"
       => card.blocks[call.block] = call.data /\ ~card.busy]_vars
=============================================================================
