---------------------------- MODULE Drivers_proofs ----------------------------
(* Proofs about the drivers, for every value of their constants: the SD card *)
(* driver reads what it was asked for and reports what it has written, the   *)
(* flags of the CC3000 class follow the device, the link to the CC3000       *)
(* exchanges its packets as HciExchange promises, and a step of the motor    *)
(* shield turns one motor.                                                   *)
EXTENDS Drivers, SequenceTheorems, TLAPS

-----------------------------------------------------------------------------
(* The SD card driver: the inductive invariant                               *)

Streams == [block : Nat, data : Nat, pos : Nat]
Cards ==
  [kind : {"SD1", "SD2", "SDHC"}, state : {"native", "idle", "ready"}, stream : Streams,
   busy : BOOLEAN, blocks : [CardBlocks -> Nat], target : Nat, failed : BOOLEAN]

CardTypes ==
  /\ card \in Cards
  /\ call \in [block : Nat, offset : Nat, count : Nat, data : Nat]
  /\ type \in {"none", "SD1", "SD2", "SDHC"}
  /\ block \in Nat /\ offset \in Nat /\ writes \in Nat
  /\ inBlock \in BOOLEAN /\ partial \in BOOLEAN

\* init() finds out how the card is addressed before anything is read or written.
InitStages == {"down", "init", "init8", "init41", "init58"}
Addressing ==
  /\ cardPc = "init41" => type \in {"SD1", "SD2"}
  /\ cardPc = "init58" => type \in {"SD1", "SD2"} /\ (card.kind = "SDHC" => type = "SD2")
  /\ cardPc \notin InitStages => (type = "SDHC" <=> card.kind = "SDHC")

\* The card is about to send block b from position o on.
OpenAt(b, o) ==
  /\ b \in CardBlocks /\ cardCs = "low"
  /\ card.stream.block = b /\ card.stream.data = card.blocks[b] /\ card.stream.pos = o

\* inBlock_, block_ and offset_ say where the card is, whenever they are used.
Reading ==
  /\ inBlock => cardPc \in {"idle", "read", "write", "transfer", "true"}
  /\ inBlock /\ cardPc \in {"idle", "transfer", "true"} => OpenAt(block, offset)
  /\ cardPc = "transfer" => inBlock /\ block = call.block
  /\ cardPc = "token" => OpenAt(block, 0) /\ block = call.block
  /\ cardPc = "read" => call.block \in CardBlocks /\ block = call.block
  /\ cardAnswer # "wrong"

\* A write goes to its own block, and its status is asked for when it is done.
Writing ==
  /\ cardPc \in {"write", "data"} => call.block \in CardBlocks
  /\ cardPc = "data" => card.target = call.block
  /\ cardPc \in {"program", "status"} /\ ~ card.failed => card.blocks[call.block] = call.data
  /\ cardPc = "status" => ~ card.busy

CardInv == CardTypes /\ Addressing /\ Reading /\ Writing

-----------------------------------------------------------------------------
(* The SD card driver: commands                                              *)

LEMMA ListeningCard ==
  ASSUME CardTypes
  PROVE  /\ Card!Ended(card) \in Cards /\ Card!Listening \in Cards
         /\ Card!Ended(card).kind = card.kind /\ Card!Listening.kind = card.kind
         /\ Card!Ended(card).blocks = card.blocks /\ Card!Listening.blocks = card.blocks
<1>1. Card!NoStream \in Streams
  BY CardAssumption DEF Card!NoStream, Streams
<1>2. card \in Cards
  BY DEF CardTypes
<1>3. /\ Card!Ended(card) \in Cards
      /\ Card!Ended(card).kind = card.kind /\ Card!Ended(card).blocks = card.blocks
  BY <1>1, <1>2 DEF Card!Ended, Cards
<1>4. QED
  BY <1>3 DEF Card!Listening, Cards

\* A refused command leaves kind and contents of the card alone.
LEMMA CommandStep ==
  ASSUME CardTypes, NEW from, NEW served \in Cards, NEW accepted, NEW refused,
         Card!CommandStep(from, served, accepted, refused)
  PROVE  /\ cardPc = from /\ inBlock' = FALSE
         /\ UNCHANGED <<call, type, block, offset, partial, cardAnswer, writes>>
         /\ \/ card' = served /\ cardPc' = accepted /\ cardCs' = "low"
            \/ /\ card' \in Cards /\ card'.kind = card.kind /\ card'.blocks = card.blocks
               /\ cardPc' = refused
<1>1. CASE card' = served /\ cardPc' = accepted /\ cardCs' = "low"
  BY <1>1 DEF Card!CommandStep
<1>2. CASE /\ \E stillBusy \in {FALSE, card.busy} :
                card' = [Card!Ended(card) EXCEPT !.busy = stillBusy]
           /\ cardPc' = refused
  <2>1. card.busy \in BOOLEAN
    BY DEF CardTypes, Cards
  <2>2. card' \in Cards /\ card'.kind = card.kind /\ card'.blocks = card.blocks
    BY <1>2, <2>1, ListeningCard DEF Cards
  <2>3. QED
    BY <1>2, <2>2 DEF Card!CommandStep
<1>3. QED
  BY <1>1, <1>2 DEF Card!CommandStep, Card!cardCommand

\* Driver and card agree which block a command is about, once they agree on
\* whether addresses count bytes.
LEMMA AddressedBlock ==
  ASSUME NEW b \in Nat, type = "SDHC" <=> card.kind = "SDHC"
  PROVE  Card!BlockAt(Card!Address(b)) = b
<1>1. (b * 512) \div 512 = b
  OBVIOUS
<1>2. QED
  BY <1>1 DEF Card!BlockAt, Card!Address

-----------------------------------------------------------------------------
(* The SD card driver: the steps                                             *)

\* init() may come at any time between two calls, also after a failed one.
LEMMA InitStep ==
  ASSUME CardInv,
         \/ Card!Init0 \/ Card!InitCMD0 \/ Card!InitCMD8 \/ Card!InitACMD41 \/ Card!InitCMD58
  PROVE  CardInv'
<1> USE DEF CardInv
<1>1. CASE Card!Init0
  <2>1. /\ cardPc' = "init" /\ type' = "none" /\ inBlock' = FALSE /\ partial' = FALSE /\ cardAnswer' = cardAnswer
        /\ card' = [card EXCEPT !.stream = Card!NoStream]
        /\ UNCHANGED <<call, block, offset, writes>>
    BY <1>1 DEF Card!Init0
  <2>2. card' \in Cards
    BY <2>1, CardAssumption DEF CardTypes, Cards, Streams, Card!NoStream
  <2>3. CardTypes'
    <3>1. inBlock' \in BOOLEAN /\ partial' \in BOOLEAN
      BY <2>1
    <3>2. QED
      BY <2>1, <2>2, <3>1 DEF CardTypes
  <2>4. QED
    BY <2>1, <2>3 DEF Addressing, Reading, Writing, InitStages
<1>2. CASE Card!InitCMD0
  <2>1. PICK refused \in {"init", "down"} :
          Card!CommandStep("init", Card!GoIdle(Card!Listening), "init8", refused)
    BY <1>2 DEF Card!InitCMD0
  <2>2. Card!GoIdle(Card!Listening) \in Cards
    BY ListeningCard, CardAssumption DEF Card!GoIdle, Cards, Streams, Card!NoStream
  <2>3. /\ inBlock' = FALSE /\ UNCHANGED <<call, type, block, offset, partial, cardAnswer, writes>>
        /\ card' \in Cards /\ cardPc' \in {"init8", "init", "down"}
    BY <2>1, <2>2, CommandStep
  <2>4. CardTypes'
    <3>1. inBlock' \in BOOLEAN
      BY <2>3
    <3>2. QED
      BY <2>3, <3>1 DEF CardTypes
  <2>5. QED
    BY <2>3, <2>4 DEF Addressing, Reading, Writing, InitStages
<1>3. CASE Card!InitCMD8
  <2>1. /\ cardPc = "init8" /\ UNCHANGED <<call, inBlock, block, offset, partial, cardAnswer, card, writes>>
        /\ \/ cardPc' = "init41" /\ type' \in {"SD1", "SD2"}
           \/ cardPc' = "down" /\ type' = type
    BY <1>3 DEF Card!InitCMD8, Card!InitFail
  <2>2. QED
    BY <2>1 DEF CardTypes, Addressing, Reading, Writing, InitStages
<1>4. CASE Card!InitACMD41
  <2>1. /\ cardPc = "init41" /\ UNCHANGED <<call, type, inBlock, block, offset, partial, cardAnswer, writes>>
        /\ card' = Card!Start(card)
        /\ \/ card'.state = "ready" /\ cardPc' = "init58"
           \/ cardPc' = "down"
    BY <1>4 DEF Card!InitACMD41, Card!InitFail, Card!driver
  <2>2. /\ card' \in Cards /\ card'.kind = card.kind
        /\ card'.state = "ready" => ~ (card.kind = "SDHC" /\ type = "SD1")
    BY <2>1 DEF CardTypes, Cards, Card!Start
  <2>3. QED
    BY <2>1, <2>2 DEF CardTypes, Addressing, Reading, Writing, InitStages
<1>5. CASE Card!InitCMD58
  <2>1. /\ cardPc = "init58" /\ UNCHANGED <<call, inBlock, block, offset, partial, cardAnswer, card, writes>>
        /\ \/ /\ cardPc' = "true"
              /\ type' = IF type = "SD2" /\ card.kind = "SDHC" THEN "SDHC" ELSE type
           \/ cardPc' = "down" /\ type' = type
    BY <1>5 DEF Card!InitCMD58, Card!InitFail
  <2>2. QED
    BY <2>1 DEF CardTypes, Addressing, Reading, Writing, InitStages
<1>6. QED
  BY <1>1, <1>2, <1>3, <1>4, <1>5

\* readData(): a read goes on in the open block only from where the card is.
LEMMA ReadStep ==
  ASSUME CardInv,
         \/ \E b \in CardBlocks, o, n \in 0..BlockSize : Card!CallRead(b, o, n)
         \/ Card!ReadCommand \/ Card!StartBlock \/ Card!Transfer
  PROVE  CardInv'
<1> USE DEF CardInv
<1>1. ASSUME NEW b \in CardBlocks, NEW o \in 0..BlockSize, NEW n \in 0..BlockSize, Card!CallRead(b, o, n)
      PROVE  CardInv'
  <2>1. /\ cardPc = "idle" /\ UNCHANGED <<type, inBlock, offset, partial, cardCs, cardAnswer, card, writes>>
        /\ \/ cardPc' = "read" /\ block' = b
           \/ inBlock /\ b = block /\ cardPc' = "transfer" /\ block' = block
    BY <1>1 DEF Card!CallRead, Card!Ready, CardTypes
  <2>2. call' \in [block : Nat, offset : Nat, count : Nat, data : Nat] /\ call'.block = b
    <3>1. b \in Nat /\ o \in Nat /\ n \in Nat
      BY CardAssumption
    <3>2. call' = [block |-> b, offset |-> o, count |-> n, data |-> 0]
      BY <1>1 DEF Card!CallRead, Card!NoCall
    <3>3. QED
      BY <3>1, <3>2
  <2>3. CardTypes'
    BY <2>1, <2>2, CardAssumption DEF CardTypes
  <2>4. QED
    BY <2>1, <2>2, <2>3 DEF Addressing, Reading, Writing, InitStages, OpenAt
<1>2. CASE Card!ReadCommand
  <2> DEFINE served == Card!Read(Card!Listening)
  <2>1. /\ Card!CommandStep("read", served, "token", "false") /\ cardPc = "read"
        /\ call.block \in CardBlocks /\ block = call.block
    BY <1>2 DEF Card!ReadCommand, Card!CommandStep, Reading
  <2>2. Card!BlockAt(Card!Address(call.block)) = call.block
    BY <2>1, AddressedBlock, CardAssumption DEF Addressing, InitStages
  <2>3. /\ served \in Cards /\ served.kind = card.kind /\ served.blocks = card.blocks
        /\ served.stream = [block |-> call.block, pos |-> 0, data |-> card.blocks[call.block]]
    BY <2>1, <2>2, ListeningCard, CardAssumption DEF Card!Read, Cards, Streams
  <2> HIDE DEF served
  <2>4. /\ inBlock' = FALSE /\ UNCHANGED <<call, type, block, offset, partial, cardAnswer, writes>>
        /\ \/ card' = served /\ cardPc' = "token" /\ cardCs' = "low"
           \/ card' \in Cards /\ card'.kind = card.kind /\ cardPc' = "false"
    BY <2>1, <2>3, CommandStep
  <2>5. card' \in Cards
    BY <2>3, <2>4
  <2>6. CardTypes'
    <3>1. inBlock' \in BOOLEAN
      BY <2>4
    <3>2. QED
      BY <2>4, <2>5, <3>1 DEF CardTypes
  <2>7. QED
    BY <2>1, <2>3, <2>4, <2>6 DEF Addressing, Reading, Writing, InitStages, OpenAt
<1>3. CASE Card!StartBlock
  <2>1. /\ cardPc = "token" /\ UNCHANGED <<call, type, block, partial, cardAnswer, writes>>
        /\ \/ cardPc' = "transfer" /\ inBlock' = TRUE /\ offset' = 0 /\ UNCHANGED <<cardCs, card>>
           \/ /\ cardPc' = "false" /\ UNCHANGED <<inBlock, offset>>
              /\ card' = [card EXCEPT !.stream = Card!NoStream]
    BY <1>3 DEF Card!StartBlock, Card!Fail
  <2>2. card' \in Cards /\ card'.kind = card.kind
    BY <2>1, CardAssumption DEF CardTypes, Cards, Streams, Card!NoStream
  <2>3. CardTypes'
    <3>1. inBlock' = TRUE \/ inBlock' = inBlock
      BY <2>1
    <3>2. inBlock' \in BOOLEAN
      BY <3>1 DEF CardTypes
    <3>3. QED
      BY <2>1, <2>2, <3>2 DEF CardTypes
  <2>4. QED
    BY <2>1, <2>2, <2>3 DEF Addressing, Reading, Writing, InitStages, OpenAt
<1>4. CASE Card!Transfer
  <2>1. /\ cardPc = "transfer" /\ cardPc' = "true"
        /\ UNCHANGED <<call, type, block, partial, writes>>
        /\ cardAnswer' = "right"
    BY <1>4 DEF Card!Transfer, Reading, OpenAt
  <2>2. \/ /\ card' = [card EXCEPT !.stream = Card!NoStream]
           /\ inBlock' = FALSE /\ offset' = 0 /\ cardCs' = "high"
        \/ /\ card' = [card EXCEPT !.stream.pos = call.offset + call.count]
           /\ offset' = call.offset + call.count /\ UNCHANGED <<inBlock, cardCs>>
    BY <1>4 DEF Card!Transfer, Card!Advanced
  <2>3. call.offset + call.count \in Nat
    BY DEF CardTypes
  <2>4. card' \in Cards /\ card'.kind = card.kind /\ CardTypes'
    <3>1. Card!NoStream \in Streams
      BY CardAssumption DEF Streams, Card!NoStream
    <3>2. card.stream \in Streams /\ card \in Cards
      BY DEF CardTypes, Cards
    <3>3. [card.stream EXCEPT !.pos = call.offset + call.count] \in Streams
      BY <2>3, <3>2 DEF Streams
    <3>4. card' \in Cards /\ card'.kind = card.kind
      BY <2>2, <3>1, <3>2, <3>3 DEF Cards
    <3>5. offset' \in Nat
      BY <2>2, <2>3
    <3>6. inBlock' = FALSE \/ inBlock' = inBlock
      BY <2>2
    <3>7. inBlock' \in BOOLEAN
      BY <3>6 DEF CardTypes
    <3>8. QED
      BY <2>1, <3>4, <3>5, <3>7 DEF CardTypes
  <2>5. inBlock' => OpenAt(block, offset)'
    BY <2>1, <2>2 DEF Reading, OpenAt, CardTypes, Cards, Streams
  <2>6. QED
    BY <2>1, <2>4, <2>5 DEF Addressing, Reading, Writing, InitStages
<1>5. QED
  BY <1>1, <1>2, <1>3, <1>4

\* writeBlock(): a write gives up the open block, aims at its own block, and
\* asks for the status once the card is done.
LEMMA WriteStep ==
  ASSUME CardInv,
         \/ \E b \in CardBlocks : Card!CallWrite(b)
         \/ Card!WriteCommand \/ Card!writeData \/ Card!Programmed \/ Card!WriteStatus
  PROVE  CardInv'
<1> USE DEF CardInv
<1>1. ASSUME NEW b \in CardBlocks, Card!CallWrite(b)
      PROVE  CardInv'
  <2>1. /\ cardPc = "idle" /\ cardPc' = "write" /\ writes' = writes + 1
        /\ UNCHANGED <<type, inBlock, block, offset, partial, cardCs, cardAnswer, card>>
        /\ call' = [block |-> b, offset |-> 0, count |-> 0, data |-> writes + 1]
    BY <1>1 DEF Card!CallWrite, Card!Ready, Card!NoCall
  <2>2. writes + 1 \in Nat /\ b \in Nat
    BY CardAssumption DEF CardTypes
  <2>3. CardTypes' /\ call'.block = b
    BY <2>1, <2>2 DEF CardTypes
  <2>4. QED
    BY <2>1, <2>3 DEF Addressing, Reading, Writing, InitStages
<1>2. CASE Card!WriteCommand
  <2> DEFINE served == Card!Aim(Card!Listening)
  <2>1. /\ Card!CommandStep("write", served, "data", "false") /\ cardPc = "write"
        /\ call.block \in CardBlocks /\ call.block \in Nat
    BY <1>2, CardAssumption DEF Card!WriteCommand, Card!CommandStep, Writing
  <2>2. Card!BlockAt(Card!Address(call.block)) = call.block
    BY <2>1, AddressedBlock DEF Addressing, InitStages
  <2>3. served \in Cards /\ served.kind = card.kind /\ served.target = call.block
    BY <2>1, <2>2, ListeningCard DEF Card!Aim, Cards
  <2> HIDE DEF served
  <2>4. /\ inBlock' = FALSE /\ UNCHANGED <<call, type, block, offset, partial, cardAnswer, writes>>
        /\ \/ card' = served /\ cardPc' = "data"
           \/ card' \in Cards /\ card'.kind = card.kind /\ cardPc' = "false"
    BY <2>1, <2>3, CommandStep
  <2>5. CardTypes'
    <3>1. inBlock' \in BOOLEAN /\ card' \in Cards
      BY <2>3, <2>4
    <3>2. QED
      BY <2>4, <3>1 DEF CardTypes
  <2>6. QED
    BY <2>1, <2>3, <2>4, <2>5 DEF Addressing, Reading, Writing, InitStages
<1>3. CASE Card!writeData
  <2>1. /\ cardPc = "data" /\ UNCHANGED <<call, type, inBlock, block, offset, partial, cardAnswer, writes>>
        /\ \/ /\ cardPc' = "program"
              /\ \E fails \in BOOLEAN :
                   card' = [card EXCEPT !.busy = TRUE, !.failed = fails,
                              !.blocks[card.target] = IF fails THEN @ ELSE call.data]
           \/ cardPc' = "false" /\ UNCHANGED card
    BY <1>3 DEF Card!writeData, Card!Fail, Card!driver
  <2>2. /\ card \in Cards /\ card.target \in CardBlocks /\ card.target = call.block
        /\ call.data \in Nat /\ card.blocks \in [CardBlocks -> Nat] /\ ~ inBlock
    BY <2>1 DEF CardTypes, Cards, Writing, Reading
  <2>3. ASSUME NEW fails \in BOOLEAN,
               card' = [card EXCEPT !.busy = TRUE, !.failed = fails,
                          !.blocks[card.target] = IF fails THEN @ ELSE call.data]
        PROVE  /\ card' \in Cards /\ card'.kind = card.kind
               /\ ~ card'.failed => card'.blocks[call.block] = call.data
    <3> DEFINE contents ==
          [card.blocks EXCEPT ![card.target] = IF fails THEN @ ELSE call.data]
    <3>1. contents \in [CardBlocks -> Nat] /\ (~ fails => contents[call.block] = call.data)
      BY <2>2
    <3>2. card' = [card EXCEPT !.busy = TRUE, !.failed = fails, !.blocks = contents]
      BY <2>2, <2>3
    <3> HIDE DEF contents
    <3>3. QED
      BY <2>2, <3>1, <3>2 DEF Cards
  <2>4. /\ card' \in Cards /\ card'.kind = card.kind
        /\ cardPc' = "program" /\ ~ card'.failed => card'.blocks[call.block] = call.data
    BY <2>1, <2>2, <2>3
  <2>5. CardTypes'
    BY <2>1, <2>4 DEF CardTypes
  <2>6. QED
    BY <2>1, <2>2, <2>4, <2>5 DEF Addressing, Reading, Writing, InitStages
<1>4. CASE Card!Programmed
  <2>1. /\ cardPc = "program" /\ UNCHANGED <<call, type, inBlock, block, offset, partial, cardAnswer, writes>>
        /\ \/ cardPc' = "status" /\ card' = [card EXCEPT !.busy = FALSE]
           \/ cardPc' = "false" /\ UNCHANGED card
    BY <1>4 DEF Card!Programmed, Card!Fail, Card!driver
  <2>2. /\ card' \in Cards /\ UNCHANGED <<card.kind, card.blocks, card.failed>>
        /\ cardPc' = "status" => ~ card'.busy
    BY <2>1 DEF CardTypes, Cards
  <2>3. QED
    BY <2>1, <2>2 DEF CardTypes, Addressing, Reading, Writing, InitStages
<1>5. CASE Card!WriteStatus
  <2>1. /\ cardPc = "status" /\ cardPc' \in {"true", "false"}
        /\ card' = [card EXCEPT !.failed = FALSE]
        /\ UNCHANGED <<call, type, inBlock, block, offset, partial, cardAnswer, writes>>
    BY <1>5 DEF Card!WriteStatus, Card!driver
  <2>2. card' \in Cards /\ card'.kind = card.kind
    BY <2>1 DEF CardTypes, Cards
  <2>3. QED
    BY <2>1, <2>2 DEF CardTypes, Addressing, Reading, Writing, InitStages
<1>6. QED
  BY <1>1, <1>2, <1>3, <1>4, <1>5

LEMMA BetweenCallsStep ==
  ASSUME CardInv,
         (\E value \in BOOLEAN : Card!partialBlockRead(value)) \/ Card!Return
  PROVE  CardInv'
<1> USE DEF CardInv
<1>1. ASSUME NEW value \in BOOLEAN, Card!partialBlockRead(value)
      PROVE  CardInv'
  <2>1. /\ cardPc = "idle" /\ cardPc' = cardPc /\ inBlock' = FALSE /\ partial' = value
        /\ card' = Card!Ended(card)
        /\ UNCHANGED <<call, type, block, offset, cardAnswer, writes>>
    BY <1>1 DEF Card!partialBlockRead, Card!Ready
  <2>2. card' \in Cards /\ card'.kind = card.kind
    BY <2>1, ListeningCard
  <2>3. inBlock' \in BOOLEAN /\ partial' \in BOOLEAN
    BY <2>1
  <2>4. CardTypes'
    BY <2>1, <2>2, <2>3 DEF CardTypes
  <2>5. QED
    BY <2>1, <2>2, <2>4 DEF Addressing, Reading, Writing, InitStages
<1>2. CASE Card!Return
  <2>1. /\ cardPc \in {"true", "false"} /\ cardPc' = "idle"
        /\ call' = Card!NoCall /\ cardAnswer' = "none"
        /\ UNCHANGED <<type, inBlock, block, offset, partial, cardCs, card, writes>>
    BY <1>2 DEF Card!Return
  <2>2. CardTypes'
    BY <2>1 DEF CardTypes, Card!NoCall, Card!NoBlock
  <2>3. QED
    BY <2>1, <2>2 DEF Addressing, Reading, Writing, InitStages, OpenAt
<1>3. QED
  BY <1>1, <1>2

LEMMA CardInit == Card!Init => CardInv
<1> SUFFICES ASSUME Card!Init PROVE CardInv
  OBVIOUS
<1>1. card \in Cards
  <2>1. [b \in CardBlocks |-> 0] \in [CardBlocks -> Nat]
    OBVIOUS
  <2>2. QED
    BY <2>1, CardAssumption DEF Card!Init, Cards, Streams, Card!NoStream, Card!NoBlock
<1>2. QED
  BY <1>1 DEF Card!Init, CardInv, CardTypes, Addressing, Reading, Writing, InitStages,
              Card!NoCall, Card!NoBlock

LEMMA CardStep ==
  ASSUME CardInv, [Card!Next]_Card!vars
  PROVE  CardInv'
<1>1. CASE UNCHANGED Card!vars
  BY <1>1 DEF Card!vars, Card!driver, CardInv, CardTypes, Addressing, Reading, Writing,
              InitStages, OpenAt
<1>2. CASE Card!Next
  BY <1>2, InitStep, ReadStep, WriteStep, BetweenCallsStep DEF Card!Next
<1>3. QED
  BY <1>1, <1>2

\* Sd2Card.cpp, readData(), for every card, block size and sequence of calls: a
\* read that succeeds delivers what the asked block holds at the asked offset.
THEOREM ReadsAskedBlockAlways == Card!Spec => []ReadsAskedBlock
<1>1. Card!Init => CardInv
  BY CardInit
<1>2. CardInv /\ [Card!Next]_Card!vars => CardInv'
  BY CardStep
<1>3. CardInv => ReadsAskedBlock
  BY DEF CardInv, Reading, ReadsAskedBlock, Card!ReadsAskedBlock
<1>4. QED
  BY <1>1, <1>2, <1>3, PTL DEF Card!Spec

\* Sd2Card.cpp, writeBlock(): when it says it has written, the card has
\* programmed the data into the block of the call and is done.
THEOREM WrittenMeansProgrammedAlways == Card!Spec => WrittenMeansProgrammed
<1>1. Card!Init => CardInv
  BY CardInit
<1>2. CardInv /\ [Card!Next]_Card!vars => CardInv'
  BY CardStep
<1>3. CardInv /\ [Card!Next]_Card!vars =>
        [cardPc = "status" /\ cardPc' = "true"
           => card.blocks[call.block] = call.data /\ ~ card.busy]_Card!vars
  <2> SUFFICES ASSUME CardInv, Card!Next, cardPc = "status", cardPc' = "true"
               PROVE  card.blocks[call.block] = call.data /\ ~ card.busy
    OBVIOUS
  <2>1. ~ card.failed
    BY DEF Card!Next, Card!Init0, Card!InitCMD0, Card!InitCMD8, Card!InitACMD41, Card!InitCMD58,
           Card!CallRead, Card!ReadCommand, Card!StartBlock, Card!Transfer,
           Card!partialBlockRead, Card!CallWrite, Card!WriteCommand, Card!writeData,
           Card!Programmed, Card!WriteStatus, Card!Return, Card!CommandStep, Card!Ready
  <2>2. QED
    BY <2>1 DEF CardInv, Writing
<1>4. QED
  BY <1>1, <1>2, <1>3, PTL DEF Card!Spec, WrittenMeansProgrammed,
                                   Card!WrittenMeansProgrammed

-----------------------------------------------------------------------------
(* The network: the inductive invariant                                      *)

Kinds == {"CONNECT", "DISCONNECT", "DHCP", "SIMPLE_CONFIG_DONE"}
Stations ==
  [on : BOOLEAN, link : {"down", "joining", "up", "leaving"}, address : BOOLEAN,
   auto : BOOLEAN, profile : BOOLEAN, smart : {"off", "running"}]

NetTypes ==
  /\ netDevice \in Stations
  /\ connected \in BOOLEAN /\ dhcp \in BOOLEAN
  /\ events \in Seq(Kinds)

Linked(d) == d.link \in {"up", "leaving"}

\* Of a flag that the event yes sets and DISCONNECT clears, with q under way:
\* the last of these events in q tells what the device says, and when none is in
\* q the flag says so itself, unless one side has changed without an event.
None(q, yes) == \A i \in 1..Len(q) : q[i] \notin {yes, "DISCONNECT"}

Last(q, i, yes) ==
  /\ q[i] \in {yes, "DISCONNECT"}
  /\ \A k \in 1..Len(q) : k > i => q[k] \notin {yes, "DISCONNECT"}

Follows(q, yes, flag, value, reported) ==
  /\ \A i \in 1..Len(q) : Last(q, i, yes) => (q[i] = yes <=> value)
  /\ None(q, yes) /\ reported => (flag <=> value)

NetInv ==
  /\ NetTypes
  /\ Follows(events, "CONNECT", connected, Linked(netDevice), "connected" \notin unreported)
  /\ Follows(events, "DHCP", dhcp, netDevice.address, "dhcp" \notin unreported)

-----------------------------------------------------------------------------
(* The network: a flag and the events under way                              *)

LEMMA EventPosted ==
  ASSUME NEW q \in Seq(Kinds), NEW e \in Kinds, NEW yes \in Kinds, NEW flag \in BOOLEAN,
         NEW value \in BOOLEAN, NEW value1 \in BOOLEAN, NEW reported \in BOOLEAN,
         Follows(q, yes, flag, value, reported),
         IF e \in {yes, "DISCONNECT"} THEN e = yes <=> value1 ELSE value1 <=> value
  PROVE  Follows(Append(q, e), yes, flag, value1, reported)
<1> DEFINE q1 == Append(q, e)
<1>1. /\ Len(q1) = Len(q) + 1 /\ Len(q) \in Nat /\ q1[Len(q) + 1] = e
      /\ \A i \in 1..Len(q) : q1[i] = q[i]
  BY AppendProperties, LenProperties
<1> HIDE DEF q1
<1>2. ASSUME NEW i \in 1..Len(q1), Last(q1, i, yes)
      PROVE  q1[i] = yes <=> value1
  <2>1. CASE i = Len(q) + 1
    BY <1>1, <1>2, <2>1 DEF Last
  <2>2. CASE i \in 1..Len(q)
    <3>1. Last(q, i, yes) /\ e \notin {yes, "DISCONNECT"}
      BY <1>1, <1>2, <2>2 DEF Last
    <3>2. q[i] = yes <=> value
      BY <2>2, <3>1 DEF Follows
    <3>3. QED
      BY <1>1, <2>2, <3>1, <3>2
  <2>3. QED
    BY <1>1, <2>1, <2>2
<1>3. ASSUME None(q1, yes), reported
      PROVE  flag <=> value1
  <2>1. None(q, yes) /\ e \notin {yes, "DISCONNECT"}
    BY <1>1, <1>3 DEF None
  <2>2. flag <=> value
    BY <1>3, <2>1 DEF Follows
  <2>3. QED
    BY <2>1, <2>2
<1>4. QED
  BY <1>2, <1>3 DEF Follows, q1

LEMMA EventTaken ==
  ASSUME NEW q \in Seq(Kinds), q # <<>>, NEW yes \in Kinds, yes # "DISCONNECT",
         NEW flag \in BOOLEAN, NEW flag1 \in BOOLEAN, NEW value \in BOOLEAN,
         NEW reported \in BOOLEAN, NEW reported1 \in BOOLEAN,
         Follows(q, yes, flag, value, reported),
         IF Head(q) \in {yes, "DISCONNECT"} THEN flag1 <=> Head(q) = yes
         ELSE (flag1 <=> flag) /\ (reported1 <=> reported)
  PROVE  Follows(Tail(q), yes, flag1, value, reported1)
<1> DEFINE e == Head(q)
           q1 == Tail(q)
<1>1. /\ Len(q) \in Nat \ {0} /\ Len(q1) = Len(q) - 1 /\ e = q[1]
      /\ \A i \in 1..Len(q1) : q1[i] = q[i + 1]
  BY HeadTailProperties, EmptySeq
<1> HIDE DEF e, q1
<1>2. \A i \in 1..Len(q1) : i + 1 \in 1..Len(q)
  BY <1>1
<1>3. \A k \in 2..Len(q) : k - 1 \in 1..Len(q1) /\ q[k] = q1[k - 1]
  BY <1>1
<1>4. ASSUME NEW i \in 1..Len(q1), Last(q1, i, yes)
      PROVE  q1[i] = yes <=> value
  <2>1. q[i + 1] \in {yes, "DISCONNECT"}
    BY <1>1, <1>4 DEF Last
  <2>2. ASSUME NEW k \in 1..Len(q), k > i + 1
        PROVE  q[k] \notin {yes, "DISCONNECT"}
    <3>1. k \in 2..Len(q) /\ k - 1 > i
      BY <1>1, <2>2
    <3>2. QED
      BY <1>3, <1>4, <3>1 DEF Last
  <2>3. Last(q, i + 1, yes)
    BY <2>1, <2>2 DEF Last
  <2>4. QED
    BY <1>1, <1>2, <2>3 DEF Follows
<1>5. ASSUME None(q1, yes), reported1
      PROVE  flag1 <=> value
  <2>1. \A k \in 2..Len(q) : q[k] \notin {yes, "DISCONNECT"}
    BY <1>3, <1>5 DEF None
  <2>2. CASE e \in {yes, "DISCONNECT"}
    <3>1. 1 \in 1..Len(q) /\ Last(q, 1, yes)
      BY <1>1, <2>1, <2>2 DEF Last
    <3>2. QED
      BY <1>1, <2>2, <3>1 DEF Follows, e
  <2>3. CASE e \notin {yes, "DISCONNECT"}
    <3>1. None(q, yes)
      BY <1>1, <2>1, <2>3 DEF None
    <3>2. QED
      BY <1>5, <2>3, <3>1 DEF Follows, e
  <2>4. QED
    BY <2>2, <2>3
<1>6. QED
  BY <1>4, <1>5 DEF Follows, q1

LEMMA NoEvents ==
  ASSUME NEW yes, NEW flag \in BOOLEAN, NEW value \in BOOLEAN, NEW reported \in BOOLEAN,
         reported => (flag <=> value)
  PROVE  Follows(<<>>, yes, flag, value, reported)
BY DEF Follows

-----------------------------------------------------------------------------
(* The network: the steps                                                    *)

\* A step that changes neither side of a flag nor what is under way.
SameLink(d) == d \in Stations /\ (Linked(d) <=> Linked(netDevice)) /\ d.address = netDevice.address
FlagsUntouched == SameLink(netDevice') /\ UNCHANGED <<connected, dhcp, events, unreported>>

LEMMA UntouchedKeeps ==
  ASSUME NetInv, FlagsUntouched
  PROVE  NetInv'
BY DEF NetInv, NetTypes, FlagsUntouched, SameLink, Follows, None, Last

\* Every command leaves the link as the flags see it.
LEMMA CommandEffects ==
  ASSUME NetTypes
  PROVE  /\ SameLink(netDevice)
         /\ \A b \in BOOLEAN : SameLink(Net!wlan_ioctl_set_connection_policy(b))
         /\ SameLink(Net!wlan_ioctl_del_profile) /\ SameLink(Net!wlan_add_profile)
         /\ SameLink(Net!wlan_connect) /\ SameLink(Net!wlan_disconnect)
         /\ SameLink(Net!wlan_smart_config_start)
<1> netDevice \in Stations
  BY DEF NetTypes
<1>1. \A b \in BOOLEAN : SameLink(Net!wlan_ioctl_set_connection_policy(b))
  BY DEF SameLink, Linked, Stations, Net!wlan_ioctl_set_connection_policy
<1>2. SameLink(Net!wlan_ioctl_del_profile) /\ SameLink(Net!wlan_add_profile)
  BY DEF SameLink, Linked, Stations, Net!wlan_ioctl_del_profile, Net!wlan_add_profile
<1>3. SameLink(Net!wlan_connect) /\ SameLink(Net!wlan_smart_config_start)
  BY DEF SameLink, Linked, Stations, Net!wlan_connect, Net!wlan_smart_config_start
<1>4. SameLink(Net!wlan_disconnect)
  BY DEF SameLink, Linked, Stations, Net!wlan_disconnect
<1>5. QED
  BY <1>1, <1>2, <1>3, <1>4 DEF SameLink

LEMMA ExchangeUntouched ==
  ASSUME NetTypes, NEW from, NEW effect, NEW to, NEW otherwise, SameLink(effect),
         Net!Exchange(from, effect, to, otherwise)
  PROVE  FlagsUntouched
BY DEF Net!Exchange, Net!flags, FlagsUntouched, SameLink, NetTypes

LEMMA GoUntouched ==
  ASSUME NetTypes, NEW from, NEW to, Net!Go(from, to) \/ Net!wlan_start(from, to)
  PROVE  FlagsUntouched
BY DEF Net!Go, Net!wlan_start, Net!flags, FlagsUntouched, SameLink, NetTypes, Stations, Linked

LEMMA WaitUntouched ==
  ASSUME NetTypes, NEW from, NEW until, NEW to, NEW tooLate, Net!Wait(from, until, to, tooLate)
  PROVE  FlagsUntouched
BY DEF Net!Wait, Net!flags, FlagsUntouched, SameLink, NetTypes

\* Switching the device off drops the events that are under way: only a flag
\* that was set is now wrong.
LEMMA StopKeeps ==
  ASSUME NetInv, NEW from, NEW to, Net!PowerOff(from, to)
  PROVE  NetInv'
<1>1. /\ netDevice' \in Stations /\ ~ Linked(netDevice') /\ netDevice'.address = FALSE
      /\ events' = <<>> /\ UNCHANGED <<connected, dhcp>>
      /\ "connected" \notin unreported' => ~ connected
      /\ "dhcp" \notin unreported' => ~ dhcp
  BY DEF Net!PowerOff, Net!flags, NetInv, NetTypes, Stations, Linked
<1>2. NetTypes'
  BY <1>1, EmptySeq DEF NetInv, NetTypes
<1>3. Follows(<<>>, "CONNECT", connected', Linked(netDevice'), "connected" \notin unreported')
  BY <1>1 DEF Follows
<1>4. Follows(<<>>, "DHCP", dhcp', netDevice'.address, "dhcp" \notin unreported')
  BY <1>1 DEF Follows
<1>5. QED
  BY <1>1, <1>2, <1>3, <1>4 DEF NetInv, Linked

LEMMA ResetKeeps ==
  ASSUME NetInv, Net!SmartReset
  PROVE  NetInv'
<1>1. /\ connected' = FALSE /\ dhcp' = FALSE /\ unreported' = {"connected", "dhcp"}
      /\ UNCHANGED <<netDevice, events>>
  BY DEF Net!SmartReset
<1>2. NetTypes'
  <2>1. connected' \in BOOLEAN /\ dhcp' \in BOOLEAN
    BY <1>1
  <2>2. QED
    BY <1>1, <2>1 DEF NetInv, NetTypes
<1>3. QED
  BY <1>1, <1>2 DEF NetInv, Follows, None, Last, Linked

LEMMA ProgramStep ==
  ASSUME NetInv, Net!Program
  PROVE  NetInv'
<1> USE DEF Net!Command, Net!Checked, Net!wlan_stop
<1>0. NetTypes
  BY DEF NetInv
<1>1. CASE Net!begin
  BY <1>0, <1>1, CommandEffects, ExchangeUntouched, GoUntouched, StopKeeps, UntouchedKeeps
     DEF Net!begin, Net!init_spi, Net!wlan_set_event_mask
<1>2. CASE Net!AutoConnect
  BY <1>0, <1>2, CommandEffects, ExchangeUntouched, GoUntouched, WaitUntouched, UntouchedKeeps
     DEF Net!AutoConnect, Net!mdnsAdvertiser
<1>3. CASE Net!reboot \/ Net!stop \/ Net!disconnect
  BY <1>0, <1>3, CommandEffects, ExchangeUntouched, GoUntouched, StopKeeps, UntouchedKeeps
     DEF Net!reboot, Net!stop, Net!disconnect, Net!Call
<1>4. CASE Net!deleteProfiles \/ Net!setMacAddress \/ Net!connect
  BY <1>0, <1>4, CommandEffects, ExchangeUntouched, GoUntouched, UntouchedKeeps
     DEF Net!deleteProfiles, Net!setMacAddress, Net!connect, Net!Call,
         Net!netapp_config_mac_adrress
<1>5. CASE Net!startSmartConfig
  BY <1>0, <1>5, CommandEffects, ExchangeUntouched, GoUntouched, WaitUntouched, StopKeeps,
     UntouchedKeeps
     DEF Net!startSmartConfig, Net!nvmem_create_entry, Net!aes_write_key,
         Net!wlan_smart_config_set_prefix
<1>6. CASE Net!SmartConnect
  BY <1>0, <1>6, CommandEffects, ExchangeUntouched, GoUntouched, StopKeeps, UntouchedKeeps
     DEF Net!SmartConnect, Net!SmartUse, Net!wlan_set_event_mask
<1>7. CASE Net!connectToAP
  BY <1>0, <1>7, CommandEffects, ExchangeUntouched, GoUntouched, WaitUntouched, UntouchedKeeps
     DEF Net!connectToAP, Net!wlan_ioctl_set_scan_params
<1>8. CASE Net!beginDone \/ Net!CallConnectToAP \/ Net!ConnectedToAP \/ Net!Return
  <2>1. UNCHANGED <<netDevice, connected, dhcp, events, unreported>>
    BY <1>8 DEF Net!beginDone, Net!CallConnectToAP, Net!ConnectedToAP, Net!Return, Net!Go,
                Net!flags
  <2>2. FlagsUntouched
    BY <1>0, <2>1, CommandEffects DEF FlagsUntouched
  <2>3. QED
    BY <2>2, UntouchedKeeps
<1>9. QED
  BY <1>1, <1>2, <1>3, <1>4, <1>5, <1>6, <1>7, <1>8, ResetKeeps DEF Net!Program

\* The device joins, gets an address, loses the link: each change of what a flag
\* stands for posts its event.
LEMMA PostingKeeps ==
  ASSUME NetInv, NEW e \in Kinds, Net!Sends(e), netDevice' \in Stations,
         UNCHANGED <<connected, dhcp, unreported>>,
         IF e \in {"CONNECT", "DISCONNECT"} THEN e = "CONNECT" <=> Linked(netDevice')
         ELSE Linked(netDevice') <=> Linked(netDevice),
         IF e \in {"DHCP", "DISCONNECT"} THEN e = "DHCP" <=> netDevice'.address
         ELSE netDevice'.address <=> netDevice.address
  PROVE  NetInv'
<1>1. events \in Seq(Kinds) /\ events' = Append(events, e) /\ events' \in Seq(Kinds)
  BY AppendProperties DEF NetInv, NetTypes, Net!Sends
<1>2. /\ netDevice.address \in BOOLEAN /\ netDevice'.address \in BOOLEAN
      /\ connected \in BOOLEAN /\ dhcp \in BOOLEAN
  BY DEF NetInv, NetTypes, Stations
<1> DEFINE c == "connected" \notin unreported
           d == "dhcp" \notin unreported
           was == Linked(netDevice)
           is == Linked(netDevice')
<1>3. c \in BOOLEAN /\ d \in BOOLEAN /\ was \in BOOLEAN /\ is \in BOOLEAN
  BY DEF Linked
<1>4. Follows(events, "CONNECT", connected, was, c) /\ Follows(events, "DHCP", dhcp, netDevice.address, d)
  BY DEF NetInv
<1>5. IF e \in {"CONNECT", "DISCONNECT"} THEN e = "CONNECT" <=> is ELSE is <=> was
  OBVIOUS
<1>6. "CONNECT" \in Kinds /\ "DHCP" \in Kinds
  BY DEF Kinds
<1> HIDE DEF c, d, was, is
<1>7. Follows(Append(events, e), "CONNECT", connected, is, c)
  BY <1>1, <1>2, <1>3, <1>4, <1>5, <1>6, EventPosted
<1>8. Follows(Append(events, e), "DHCP", dhcp, netDevice'.address, d)
  BY <1>1, <1>2, <1>3, <1>4, <1>6, EventPosted
<1>9. NetTypes'
  BY <1>1 DEF NetInv, NetTypes
<1>10. QED
  BY <1>1, <1>7, <1>8, <1>9 DEF NetInv, c, d, is, Linked

LEMMA DeviceStep ==
  ASSUME NetInv, Net!Device
  PROVE  NetInv'
<1> USE DEF Net!DeviceStep, Net!program, Net!flags
<1>0. netDevice \in Stations /\ NetTypes
  BY DEF NetInv, NetTypes
<1>1. CASE Net!Joins
  <2>1. /\ Net!Sends("CONNECT") /\ UNCHANGED <<connected, dhcp, unreported>>
        /\ netDevice' = [netDevice EXCEPT !.link = "up"]
    BY <1>1 DEF Net!Joins
  <2>2. netDevice' \in Stations /\ Linked(netDevice') /\ netDevice'.address = netDevice.address
    BY <1>0, <2>1 DEF Stations, Linked
  <2>3. QED
    BY <2>1, <2>2, PostingKeeps DEF Kinds
<1>2. CASE Net!JoinFails \/ Net!AutoJoins
  <2>1. /\ UNCHANGED <<connected, dhcp, events, unreported>>
        /\ netDevice.link \in {"down", "joining"}
        /\ \E to \in {"down", "joining"} : netDevice' = [netDevice EXCEPT !.link = to]
    BY <1>2 DEF Net!JoinFails, Net!AutoJoins
  <2>2. SameLink(netDevice')
    BY <1>0, <2>1 DEF SameLink, Stations, Linked
  <2>3. QED
    BY <2>1, <2>2, UntouchedKeeps DEF FlagsUntouched
<1>3. CASE Net!ReportsAddress
  <2>1. /\ Net!Sends("DHCP") /\ UNCHANGED <<connected, dhcp, unreported>>
        /\ netDevice' = [netDevice EXCEPT !.address = TRUE]
    BY <1>3 DEF Net!ReportsAddress
  <2>2. /\ netDevice' \in Stations /\ (Linked(netDevice') <=> Linked(netDevice))
        /\ netDevice'.address
    BY <1>0, <2>1 DEF Stations, Linked
  <2>3. QED
    BY <2>1, <2>2, PostingKeeps DEF Kinds
<1>4. CASE Net!Loses
  <2>1. /\ Net!Sends("DISCONNECT") /\ UNCHANGED <<connected, dhcp, unreported>>
        /\ netDevice' = [netDevice EXCEPT !.link = "down", !.address = FALSE]
    BY <1>4 DEF Net!Loses
  <2>2. /\ netDevice' \in Stations /\ ~ Linked(netDevice') /\ ~ netDevice'.address
    BY <1>0, <2>1 DEF Stations, Linked
  <2>3. QED
    BY <2>1, <2>2, PostingKeeps DEF Kinds
<1>5. CASE Net!SmartConfigDone
  <2>1. /\ Net!Sends("SIMPLE_CONFIG_DONE") /\ UNCHANGED <<connected, dhcp, unreported>>
        /\ netDevice' = [netDevice EXCEPT !.smart = "off", !.profile = TRUE]
    BY <1>5 DEF Net!SmartConfigDone
  <2>2. /\ netDevice' \in Stations /\ (Linked(netDevice') <=> Linked(netDevice))
        /\ netDevice'.address = netDevice.address
    BY <1>0, <2>1 DEF Stations, Linked
  <2>3. QED
    BY <2>1, <2>2, PostingKeeps DEF Kinds
<1>6. QED
  BY <1>1, <1>2, <1>3, <1>4, <1>5 DEF Net!Device

\* The interrupt takes the oldest event and brings the flags it is about in order.
LEMMA CallbackStep ==
  ASSUME NetInv, Net!CC3000_UsynchCallback
  PROVE  NetInv'
<1> DEFINE e == Head(events)
<1>1. /\ events \in Seq(Kinds) /\ events # <<>> /\ events' = Tail(events)
      /\ netDevice' = netDevice
  BY DEF NetInv, NetTypes, Net!CC3000_UsynchCallback
<1>2. events' \in Seq(Kinds) /\ e \in Kinds
  BY <1>1, HeadTailProperties
<1> DEFINE c == "connected" \notin unreported
           c1 == "connected" \notin unreported'
           d == "dhcp" \notin unreported
           d1 == "dhcp" \notin unreported'
           link == Linked(netDevice)
<1>3. /\ connected' = CASE e = "CONNECT" -> TRUE [] e = "DISCONNECT" -> FALSE [] OTHER -> connected
      /\ dhcp' = CASE e = "DHCP" -> TRUE [] e = "DISCONNECT" -> FALSE [] OTHER -> dhcp
      /\ unreported' = unreported \ CASE e = "CONNECT" -> {"connected"}
                                      [] e = "DHCP" -> {"dhcp"}
                                      [] e = "DISCONNECT" -> {"connected", "dhcp"}
                                      [] OTHER -> {}
  BY DEF Net!CC3000_UsynchCallback
<1>4. /\ connected \in BOOLEAN /\ dhcp \in BOOLEAN /\ netDevice.address \in BOOLEAN
      /\ link \in BOOLEAN /\ c \in BOOLEAN /\ c1 \in BOOLEAN /\ d \in BOOLEAN /\ d1 \in BOOLEAN
  BY DEF NetInv, NetTypes, Stations, Linked
<1>5. connected' \in BOOLEAN
  BY <1>3, <1>4
<1>6. dhcp' \in BOOLEAN
  BY <1>3, <1>4
<1>7. IF e \in {"CONNECT", "DISCONNECT"} THEN connected' <=> e = "CONNECT"
      ELSE (connected' <=> connected) /\ (c1 <=> c)
  BY <1>3
<1>8. IF e \in {"DHCP", "DISCONNECT"} THEN dhcp' <=> e = "DHCP"
      ELSE (dhcp' <=> dhcp) /\ (d1 <=> d)
  BY <1>3
<1>9. Follows(events, "CONNECT", connected, link, c) /\ Follows(events, "DHCP", dhcp, netDevice.address, d)
  BY DEF NetInv
<1>10. "CONNECT" \in Kinds \ {"DISCONNECT"} /\ "DHCP" \in Kinds \ {"DISCONNECT"}
  BY DEF Kinds
<1> HIDE DEF e, c, c1, d, d1, link
<1>11. Follows(Tail(events), "CONNECT", connected', link, c1)
  BY <1>1, <1>4, <1>5, <1>7, <1>9, <1>10, EventTaken DEF e
<1>12. Follows(Tail(events), "DHCP", dhcp', netDevice.address, d1)
  BY <1>1, <1>4, <1>6, <1>8, <1>9, <1>10, EventTaken DEF e
<1>13. NetTypes'
  BY <1>1, <1>2, <1>5, <1>6 DEF NetInv, NetTypes
<1>14. QED
  BY <1>1, <1>11, <1>12, <1>13 DEF NetInv, c1, d1, link, Linked

LEMMA NetInit == Net!Init => NetInv
<1> SUFFICES ASSUME Net!Init PROVE NetInv
  OBVIOUS
<1>1. connected = FALSE /\ dhcp = FALSE /\ events = <<>>
  BY DEF Net!Init
<1>2. netDevice \in Stations /\ ~ Linked(netDevice) /\ ~ netDevice.address
  BY DEF Net!Init, Stations, Linked
<1>3. connected \in BOOLEAN /\ dhcp \in BOOLEAN /\ events \in Seq(Kinds)
  BY <1>1, EmptySeq
<1>4. QED
  BY <1>1, <1>2, <1>3 DEF NetTypes, NetInv, Follows

LEMMA NetStep ==
  ASSUME NetInv, [Net!Next]_Net!vars
  PROVE  NetInv'
<1>1. CASE UNCHANGED Net!vars
  <2>1. FlagsUntouched
    BY <1>1, CommandEffects DEF Net!vars, Net!flags, FlagsUntouched, NetInv
  <2>2. QED
    BY <2>1, UntouchedKeeps
<1>2. QED
  BY <1>1, ProgramStep, DeviceStep, CallbackStep DEF Net!Next

\* checkConnected() and checkDHCP() agree with the device when no event about
\* them is under way, for every order in which the device joins, leaves and
\* reports while the program calls what it likes (Adafruit_CC3000.cpp:909-952).
THEOREM FlagsFollowDeviceAlways == Net!Spec => []FlagsFollowDevice
<1>1. NetInv => FlagsFollowDevice
  <2> SUFFICES ASSUME NetInv PROVE FlagsFollowDevice
    OBVIOUS
  <2>1. /\ connected \in BOOLEAN /\ dhcp \in BOOLEAN /\ netDevice.address \in BOOLEAN
        /\ DOMAIN events = 1..Len(events)
    BY DEF NetInv, NetTypes, Stations
  <2>2. Net!Queued \cap {"CONNECT", "DISCONNECT"} = {} => None(events, "CONNECT")
    BY <2>1 DEF Net!Queued, None
  <2>3. Net!Queued \cap {"DHCP", "DISCONNECT"} = {} => None(events, "DHCP")
    BY <2>1 DEF Net!Queued, None
  <2>4. Net!Queued \cap {"CONNECT", "DISCONNECT"} = {} /\ "connected" \notin unreported
          => connected = (netDevice.link \in {"up", "leaving"})
    BY <2>1, <2>2 DEF NetInv, Follows, Linked
  <2>5. Net!Queued \cap {"DHCP", "DISCONNECT"} = {} /\ "dhcp" \notin unreported
          => dhcp = netDevice.address
    BY <2>1, <2>3 DEF NetInv, Follows
  <2>6. QED
    BY <2>4, <2>5 DEF FlagsFollowDevice, Net!FlagsFollowDevice
<1>2. QED
  BY <1>1, NetInit, NetStep, PTL DEF Net!Spec

-----------------------------------------------------------------------------
(* The network: what startSmartConfig() has learned                          *)

\* From the moment the device listens until the restart it has the profile or is
\* still listening, and before the restart it is told to use it.
Learns == {"smartWait", "smartDone", "smartProcess", "smartUse", "smartStop2"}
SmartInv ==
  /\ netDevice \in Stations
  /\ netPc \in Learns => netDevice.profile \/ netDevice.smart = "running"
  /\ netPc = "smartStop2" => netDevice.auto

\* The program learns only in startSmartConfig() and what follows it.
LEMMA ElsewhereStep ==
  ASSUME SmartInv, NetTypes,
         \/ Net!begin \/ Net!beginDone \/ Net!AutoConnect \/ Net!reboot \/ Net!stop
         \/ Net!disconnect \/ Net!deleteProfiles \/ Net!setMacAddress \/ Net!SmartReset
         \/ Net!connect \/ Net!CallConnectToAP \/ Net!connectToAP \/ Net!ConnectedToAP
         \/ Net!Return
  PROVE  netPc' \notin Learns
<1> USE DEF Net!Command, Net!Checked, Net!Exchange, Net!Go, Net!Wait, Net!wlan_start,
            Net!PowerOff, Net!wlan_stop, Net!init_spi, Net!Call, Learns
<1>1. CASE Net!begin \/ Net!beginDone \/ Net!AutoConnect
  BY <1>1 DEF Net!begin, Net!beginDone, Net!AutoConnect
<1>2. CASE Net!reboot \/ Net!stop \/ Net!disconnect \/ Net!deleteProfiles \/ Net!setMacAddress
  BY <1>2 DEF Net!reboot, Net!stop, Net!disconnect, Net!deleteProfiles, Net!setMacAddress
<1>3. CASE Net!SmartReset \/ Net!connect \/ Net!CallConnectToAP \/ Net!ConnectedToAP \/ Net!Return
  BY <1>3 DEF Net!SmartReset, Net!connect, Net!CallConnectToAP, Net!ConnectedToAP, Net!Return
<1>4. CASE Net!connectToAP
  BY <1>4 DEF Net!connectToAP
<1>5. QED
  BY <1>1, <1>2, <1>3, <1>4

LEMMA LearningStep ==
  ASSUME SmartInv, Net!startSmartConfig \/ Net!SmartConnect
  PROVE  /\ netPc' \in Learns => netDevice'.profile \/ netDevice'.smart = "running"
         /\ netPc' = "smartStop2" => netDevice'.auto
<1> USE DEF Net!Command, Net!Checked, Net!Exchange, Net!Go, Net!Wait, Net!wlan_start,
            Net!PowerOff, Net!wlan_stop, Learns, SmartInv, Stations
<1>1. CASE Net!startSmartConfig
  BY <1>1 DEF Net!startSmartConfig, Net!wlan_smart_config_start
<1>2. CASE Net!SmartConnect
  BY <1>2 DEF Net!SmartConnect, Net!SmartUse, Net!wlan_add_profile,
              Net!wlan_ioctl_set_connection_policy
<1>3. QED
  BY <1>1, <1>2

LEMMA SmartStep ==
  ASSUME SmartInv, NetInv, NetInv', [Net!Next]_Net!vars
  PROVE  SmartInv'
<1>1. netDevice' \in Stations /\ NetTypes
  BY DEF NetInv, NetTypes
<1>2. CASE Net!Program
  BY <1>1, <1>2, ElsewhereStep, LearningStep DEF Net!Program, SmartInv, Learns
<1>3. CASE Net!Device
  <2>1. /\ netPc' = netPc
        /\ netDevice'.auto = netDevice.auto
        /\ \/ UNCHANGED <<netDevice.profile, netDevice.smart>>
           \/ netDevice'.profile = TRUE
    BY <1>3 DEF Net!Device, Net!Joins, Net!JoinFails, Net!AutoJoins, Net!ReportsAddress,
                Net!Loses, Net!SmartConfigDone, Net!DeviceStep, Net!program, SmartInv, Stations
  <2>2. QED
    BY <1>1, <2>1 DEF SmartInv
<1>4. CASE Net!CC3000_UsynchCallback \/ UNCHANGED Net!vars
  BY <1>4 DEF Net!CC3000_UsynchCallback, Net!vars, Net!program, SmartInv
<1>5. QED
  BY <1>2, <1>3, <1>4 DEF Net!Next

\* startSmartConfig() restarts the device only when it is told to use profiles
\* and has learned one or is still listening, whichever commands have failed and
\* whenever the event came (Adafruit_CC3000.cpp:738-827).
THEOREM SmartConfigPersistsAlways == Net!Spec => SmartConfigPersists
<1>1. Net!Init => SmartInv
  BY NetInit DEF Net!Init, SmartInv, NetInv, NetTypes, Learns
<1>2. SmartInv /\ NetInv /\ NetInv' /\ [Net!Next]_Net!vars => SmartInv'
  BY SmartStep
<1>3. SmartInv /\ [Net!Next]_Net!vars =>
        [netPc = "smartStop2" /\ netPc' # netPc
           => netDevice.auto /\ (netDevice.profile \/ netDevice.smart = "running")]_Net!vars
  BY DEF SmartInv, Learns
<1>4. QED
  BY <1>1, <1>2, <1>3, NetInit, NetStep, PTL DEF Net!Spec, SmartConfigPersists, Net!SmartConfigPersists

-----------------------------------------------------------------------------
(* The CC3000 link: the inductive invariant                                  *)
(* The device holds the answer to the command one packet behind the other,   *)
(* with unsolicited events around them; the call owes itself what is left of *)
(* that answer, in the receive buffer and in the device.                     *)

Ops == {"none", "START", "PATCH", "BUFFER_SIZE", "COMMAND", "RECV", "RECV_DATA"}
Commands == [op : Ops, n : Nat]
Packets ==
  {p \in [type : {"EVNT", "DATA"}, n : Nat,
          op : Ops \cup {"DATA", "UNSOL", "OTHER", "PATCHES_REQ"}] :
     p.op # "DATA" => p.type = "EVNT"}
Chips == [power : BOOLEAN, booted : BOOLEAN, up : BOOLEAN, got : Nat, unsol : Nat]

\* Where the program is: switched off, starting up, between two calls, sending.
Down == {"off", "stopping"}
Opening == {"enable", "waitHigh", "waitLow"}
Resting == Down \cup Opening \cup {"ready", "started"}
Transfers == {"check", "transfer", "release", "written"}
Stages ==
  Resting \cup Transfers \cup
  {"write", "claim", "attach", "poll", "serve", "handle", "handled"}

SpiTypes ==
  /\ spiPc \in Stages
  /\ asked \in Nat /\ cmd \in Commands /\ spiDevice \in Chips
  /\ queue \in Seq(Packets) /\ rx \in Packets \cup {Spi!Nothing} /\ spiAnswer \in Nat
  /\ intEnabled \in BOOLEAN /\ received \in BOOLEAN /\ waitData \in BOOLEAN
  /\ pinLow \in BOOLEAN /\ edge \in BOOLEAN /\ keepsEdges \in BOOLEAN /\ sawLow \in BOOLEAN

\* Packets that no call has asked for, and packets a call may wait for.
Loose(p) == Spi!IsUnsolicited(p) \/ p.op = "OTHER"
Owed == {p \in Packets : ~ Loose(p)}
AllOwed(q) == \A k \in 1..Len(q) : ~ Loose(q[k])

\* Queue q holds the owed packets one behind the other after n loose ones, and
\* nothing else that is owed.
CarriesAt(q, due, n) ==
  /\ n + Len(due) <= Len(q)
  /\ \A k \in 1..Len(q) :
       IF n < k /\ k <= n + Len(due) THEN q[k] = due[k - n] ELSE Loose(q[k])
Carries(q, due) == \E n \in Nat : CarriesAt(q, due, n)

\* What is due is still to come: a packet kept in the buffer comes first. Of
\* Front(d) the very next packet is d.
Useful(r) == r # Spi!Nothing /\ r.op # "OTHER"
PendingIn(q, r, kept, due) ==
  IF kept /\ Useful(r)
  THEN due # <<>> /\ r = Head(due) /\ CarriesAt(q, Tail(due), 0)
  ELSE Carries(q, due)
FrontIn(q, r, kept, d) ==
  IF kept /\ Useful(r) THEN r = d /\ CarriesAt(q, <<>>, 0) ELSE CarriesAt(q, <<d>>, 0)
Pending(due) == PendingIn(queue, rx, received, due)
Front(d) == FrontIn(queue, rx, received, d)

\* wlan_start() and wlan_stop(): the first write of SpiWrite() comes with the
\* line low and the device silent.
First == spiPc = "write" /\ cmd.op = "START"

Opened ==
  /\ spiPc \in Down => /\ ~spiDevice.power /\ ~spiDevice.booted /\ ~(edge /\ intEnabled)
                       /\ queue = <<>> /\ spiState = "IDLE"
  /\ spiPc = "off" => ~intEnabled
  /\ spiPc \in Opening =>
       spiState \in {"POWERUP", "INITIALIZED"} /\ intEnabled /\ queue = <<>>
  /\ spiPc \in {"enable", "waitHigh"} => ~spiDevice.booted
  /\ spiPc = "waitLow" /\ spiDevice.booted => pinLow
  /\ spiPc = "waitLow" /\ pinLow =>
       spiDevice.power /\ spiDevice.booted /\ (edge \/ spiState = "INITIALIZED")
  /\ spiPc \notin Down \cup Opening => spiDevice.power /\ spiDevice.booted
  /\ First => /\ spiState \in {"POWERUP", "INITIALIZED"} /\ intEnabled /\ pinLow
              /\ edge \/ spiState = "INITIALIZED"
              /\ queue = <<>>

\* The transfer of a packet belongs to the interrupt or to the program.
Line ==
  /\ spiCs = IF spiState = "WRITE_IRQ" THEN "low" ELSE "high"
  /\ spiPc \in {"claim", "poll", "serve", "handle", "handled", "ready", "started"} =>
       spiState = "IDLE"
  /\ spiPc = "write" /\ ~First => spiState = "IDLE"
  /\ spiPc = "claim" => ~intEnabled
  /\ spiPc = "attach" => spiState = "WRITE_IRQ" /\ ~intEnabled
  /\ spiPc \in Transfers => spiState = "IDLE" \/ (spiState = "WRITE_IRQ" /\ intEnabled)
  /\ spiPc \in {"transfer", "release"} /\ spiState = "WRITE_IRQ" => pinLow
  /\ spiPc = "release" /\ spiState = "WRITE_IRQ" => ~edge
  /\ spiPc \notin Down \cup Opening /\ ~First =>
     (edge => pinLow) /\ (spiState = "IDLE" /\ pinLow => queue # <<>>)

\* A packet in the buffer keeps the interrupt detached.
Kept == received /\ rx.op # "OTHER" => ~intEnabled

\* The poll reads an empty device only where the call goes on waiting.
Exacting == cmd.op \in {"START", "PATCH", "RECV_DATA"}
Empty ==
  /\ spiPc = "serve" /\ sawLow /\ intEnabled /\ Exacting => pinLow
  /\ received /\ rx = Spi!Nothing => spiPc = "handle" /\ ~Exacting

\* No unsolicited event before the device is up.
Silent ==
  /\ spiPc \in Down \cup Opening \cup {"started"} \/ cmd.op \in {"START", "PATCH"} =>
       ~spiDevice.up
  /\ ~spiDevice.up => AllOwed(queue)

\* The packets the call waits for, before and after the device has its own.
Due == IF cmd.op = "RECV_DATA" THEN <<Spi!Data(asked)>> ELSE Spi!Answer(cmd)
Unsent ==
  \/ spiPc \in {"write", "claim", "attach"}
  \/ spiPc \in Transfers \ {"release"} /\ spiState = "WRITE_IRQ"
Sent ==
  \/ spiPc \in {"release", "poll", "serve", "handle"}
  \/ spiPc \in Transfers /\ spiState = "IDLE"
Owes == Pending(Due) /\ (cmd.op = "RECV_DATA" => Front(Spi!Data(asked)))
Patching == cmd.op \in {"START", "PATCH"}
Awaits ==
  /\ waitOp = CASE cmd.op = "RECV_DATA" -> "none"
                [] cmd.op = "PATCH" -> "START"
                [] OTHER -> cmd.op
  /\ waitData <=> cmd.op = "RECV_DATA"

Rests == spiPc \in Resting =>
  /\ spiAnswer = asked /\ spiDevice.got = asked /\ Pending(<<>>)
  /\ waitOp = "none" /\ ~waitData
Called == spiPc \notin Resting =>
  asked > 0 /\ cmd.op # "none" /\ (cmd.op # "PATCH" => cmd.n = asked)
Sends ==
  /\ Unsent \/ spiPc \in Transfers =>
       /\ ~waitData /\ waitOp = IF cmd.op = "PATCH" THEN "START" ELSE "none"
       /\ cmd.op # "RECV_DATA"
  /\ Unsent => /\ Pending(<<>>)
               /\ spiDevice.got = IF cmd.op = "PATCH" THEN asked ELSE asked - 1
  /\ Sent => Owes /\ spiDevice.got = asked
  /\ spiPc \in {"poll", "serve", "handle"} =>
       Awaits /\ (~Patching => opcode # "PATCHES_REQ")
Handled == spiPc = "handled" =>
  /\ spiDevice.got = asked
  /\ \/ opcode # "PATCHES_REQ" /\ Owes /\ Awaits
     \/ /\ opcode = "PATCHES_REQ" /\ rx.type = "EVNT" /\ queue = <<>> /\ ~received
        /\ Patching /\ waitOp = "START" /\ ~waitData
     \/ /\ opcode # "PATCHES_REQ"
        /\ waitOp = "none" /\ ~waitData
        /\ IF cmd.op = "RECV" THEN Front(Spi!Data(asked)) ELSE spiAnswer = asked /\ Pending(<<>>)

SpiInv ==
  /\ SpiTypes /\ Opened /\ Line /\ Kept /\ Empty /\ Silent
  /\ Rests /\ Called /\ Sends /\ Handled

-----------------------------------------------------------------------------
(* The CC3000 link: packets under way                                        *)

\* Nothing is owed when every packet is loose.
LEMMA CarriesNothing ==
  ASSUME NEW q \in Seq(Packets)
  PROVE  /\ Carries(q, <<>>) <=> \A k \in 1..Len(q) : Loose(q[k])
         /\ Carries(q, <<>>) <=> CarriesAt(q, <<>>, 0)
<1>1. Len(<<>>) = 0 /\ Len(q) \in Nat
  BY LenProperties, EmptySeq
<1>2. CarriesAt(q, <<>>, 0) <=> \A k \in 1..Len(q) : Loose(q[k])
  BY <1>1 DEF CarriesAt
<1>3. ASSUME NEW n \in Nat, CarriesAt(q, <<>>, n)
      PROVE  \A k \in 1..Len(q) : Loose(q[k])
  BY <1>1, <1>3 DEF CarriesAt
<1>4. QED
  BY <1>2, <1>3 DEF Carries

\* An answer is queued behind loose packets.
LEMMA CarriesAccepted ==
  ASSUME NEW q \in Seq(Packets), NEW due \in Seq(Packets), Carries(q, <<>>)
  PROVE  q \o due \in Seq(Packets) /\ Carries(q \o due, due)
<1> DEFINE all == q \o due
           n == Len(q)
<1>1. /\ all \in Seq(Packets) /\ Len(all) = n + Len(due)
      /\ n \in Nat /\ Len(due) \in Nat
      /\ \A k \in 1..n : all[k] = q[k]
      /\ \A k \in 1..Len(due) : all[n + k] = due[k]
  BY ConcatProperties, LenProperties
<1>2. \A k \in 1..n : Loose(q[k])
  BY CarriesNothing
<1> HIDE DEF all, n
<1>3. ASSUME NEW k \in 1..Len(all)
      PROVE  IF n < k /\ k <= n + Len(due) THEN all[k] = due[k - n] ELSE Loose(all[k])
  <2>1. CASE k <= n
    BY <1>1, <1>2, <2>1
  <2>2. CASE k > n
    <3>1. k - n \in 1..Len(due) /\ n + (k - n) = k
      BY <1>1, <2>2
    <3>2. QED
      BY <1>1, <2>2, <3>1
  <2>3. QED
    BY <1>1, <2>1, <2>2
<1>4. CarriesAt(all, due, n)
  BY <1>1, <1>3 DEF CarriesAt
<1>5. QED
  BY <1>1, <1>4 DEF all, Carries

\* An unsolicited event is queued behind an answer.
LEMMA CarriesLoose ==
  ASSUME NEW q \in Seq(Packets), NEW due \in Seq(Packets), NEW p \in Packets, Loose(p),
         NEW n \in Nat, CarriesAt(q, due, n)
  PROVE  CarriesAt(Append(q, p), due, n)
<1> DEFINE all == Append(q, p)
<1>1. /\ Len(all) = Len(q) + 1 /\ Len(q) \in Nat /\ all[Len(q) + 1] = p
      /\ \A k \in 1..Len(q) : all[k] = q[k]
      /\ Len(due) \in Nat
  BY AppendProperties, LenProperties
<1> HIDE DEF all
<1>2. CarriesAt(all, due, n)
  BY <1>1 DEF CarriesAt
<1>3. QED
  BY <1>2 DEF all

\* The device hands over its next packet.
LEMMA CarriesTaken ==
  ASSUME NEW q \in Seq(Packets), NEW due \in Seq(Owed), q # <<>>,
         NEW n \in Nat, CarriesAt(q, due, n)
  PROVE  /\ Tail(q) \in Seq(Packets) /\ Head(q) \in Packets
         /\ Loose(Head(q)) => Carries(Tail(q), due)
         /\ ~ Loose(Head(q)) =>
              due # <<>> /\ Head(q) = Head(due) /\ CarriesAt(Tail(q), Tail(due), 0)
         /\ n = 0 /\ due # <<>> => ~ Loose(Head(q))
<1> DEFINE rest == Tail(q)
           l == Len(due)
<1>1. /\ Head(q) = q[1] /\ Head(q) \in Packets /\ rest \in Seq(Packets)
      /\ Len(q) \in Nat \ {0} /\ Len(rest) = Len(q) - 1
      /\ \A k \in 1..Len(rest) : rest[k] = q[k + 1]
  BY HeadTailProperties, LenProperties, EmptySeq
<1>2. l \in Nat /\ \A i \in 1..l : ~ Loose(due[i])
  <2>1. l \in Nat /\ \A i \in 1..l : due[i] \in Owed
    BY LenProperties, ElementOfSeq
  <2>2. QED
    BY <2>1 DEF Owed
<1>3. /\ n + l <= Len(q)
      /\ \A k \in 1..Len(q) : IF n < k /\ k <= n + l THEN q[k] = due[k - n] ELSE Loose(q[k])
  BY DEF CarriesAt
<1> HIDE DEF rest, l
<1>4. CASE n = 0 /\ l > 0
  <2> DEFINE later == Tail(due)
  <2>1. due # <<>>
    BY <1>4, EmptySeq DEF l
  <2>2. /\ Head(due) = due[1] /\ Len(later) = l - 1
        /\ \A i \in 1..(l - 1) : later[i] = due[i + 1]
    BY <2>1, HeadTailProperties DEF l
  <2> HIDE DEF later
  <2>3. Head(q) = Head(due) /\ ~ Loose(Head(q))
    BY <1>1, <1>2, <1>3, <1>4, <2>2
  <2>4. ASSUME NEW k \in 1..Len(rest)
        PROVE  IF 0 < k /\ k <= 0 + Len(later) THEN rest[k] = later[k - 0] ELSE Loose(rest[k])
    <3>1. k + 1 \in 1..Len(q) /\ rest[k] = q[k + 1]
      BY <1>1
    <3>2. CASE k <= l - 1
      BY <1>2, <1>3, <1>4, <2>2, <3>1, <3>2
    <3>3. CASE k > l - 1
      BY <1>2, <1>3, <1>4, <2>2, <3>1, <3>3
    <3>4. QED
      BY <1>2, <3>2, <3>3
  <2>5. CarriesAt(rest, later, 0)
    <3>1. 0 + Len(later) <= Len(rest)
      BY <1>1, <1>2, <1>3, <1>4, <2>2
    <3>2. QED
      BY <2>4, <3>1 DEF CarriesAt
  <2>6. QED
    BY <1>1, <2>1, <2>3, <2>5 DEF rest, later
<1>5. CASE ~ (n = 0 /\ l > 0)
  <2> DEFINE m == IF n = 0 THEN 0 ELSE n - 1
  <2>1. m \in Nat /\ Loose(Head(q))
    BY <1>1, <1>2, <1>3, <1>5
  <2>2. ASSUME NEW k \in 1..Len(rest)
        PROVE  IF m < k /\ k <= m + l THEN rest[k] = due[k - m] ELSE Loose(rest[k])
    <3>1. k + 1 \in 1..Len(q) /\ rest[k] = q[k + 1] /\ k \in Nat
      BY <1>1
    <3>2. CASE n = 0
      BY <1>2, <1>3, <1>5, <3>1, <3>2
    <3>3. CASE n # 0
      <4>1. m = n - 1 /\ (k + 1) - n = k - m
        BY <3>1, <3>3
      <4>2. QED
        BY <1>2, <1>3, <3>1, <4>1
    <3>4. QED
      BY <3>2, <3>3
  <2>3. m + l <= Len(rest)
    BY <1>1, <1>2, <1>3, <1>5
  <2> HIDE DEF m
  <2>4. Carries(rest, due)
    BY <2>1, <2>2, <2>3 DEF CarriesAt, Carries, l
  <2>5. n = 0 => due = <<>>
    BY <1>2, <1>5, EmptySeq DEF l
  <2>6. QED
    BY <1>1, <2>1, <2>4, <2>5 DEF rest
<1>6. QED
  BY <1>2, <1>4, <1>5

\* The same three steps with the packet in the receive buffer.
LEMMA PendingAccepted ==
  ASSUME NEW q \in Seq(Packets), NEW r, NEW kept, NEW due \in Seq(Owed),
         PendingIn(q, r, kept, <<>>)
  PROVE  q \o due \in Seq(Packets) /\ PendingIn(q \o due, r, kept, due)
<1>1. due \in Seq(Packets) /\ Carries(q, <<>>) /\ ~ (kept /\ Useful(r))
  BY SeqMonotonic DEF PendingIn, Owed
<1>2. QED
  BY <1>1, CarriesAccepted DEF PendingIn

LEMMA PendingLoose ==
  ASSUME NEW q \in Seq(Packets), NEW r, NEW kept, NEW p \in Packets, Loose(p)
  PROVE  /\ \A due \in Seq(Owed) :
              PendingIn(q, r, kept, due) => PendingIn(Append(q, p), r, kept, due)
         /\ \A d \in Owed : FrontIn(q, r, kept, d) => FrontIn(Append(q, p), r, kept, d)
<1>1. ASSUME NEW due \in Seq(Owed)
      PROVE  due \in Seq(Packets) /\ (due # <<>> => Tail(due) \in Seq(Packets))
  <2>1. due \in Seq(Packets)
    BY SeqMonotonic DEF Owed
  <2>2. QED
    BY <2>1, HeadTailProperties
<1>2. ASSUME NEW due \in Seq(Owed), PendingIn(q, r, kept, due)
      PROVE  PendingIn(Append(q, p), r, kept, due)
  <2>1. CASE kept /\ Useful(r)
    <3>1. due # <<>> /\ r = Head(due) /\ CarriesAt(q, Tail(due), 0)
      BY <1>2, <2>1 DEF PendingIn
    <3>2. CarriesAt(Append(q, p), Tail(due), 0)
      BY <1>1, <3>1, CarriesLoose
    <3>3. QED
      BY <2>1, <3>1, <3>2 DEF PendingIn
  <2>2. CASE ~ (kept /\ Useful(r))
    BY <1>1, <1>2, <2>2, CarriesLoose DEF PendingIn, Carries
  <2>3. QED
    BY <2>1, <2>2
<1>3. ASSUME NEW d \in Owed, FrontIn(q, r, kept, d)
      PROVE  FrontIn(Append(q, p), r, kept, d)
  <2>1. <<d>> \in Seq(Packets) /\ <<>> \in Seq(Packets)
    BY DEF Owed
  <2>2. QED
    BY <1>3, <2>1, CarriesLoose DEF FrontIn
<1>4. QED
  BY <1>2, <1>3

LEMMA PendingTaken ==
  ASSUME NEW q \in Seq(Packets), NEW r, NEW kept, q # <<>>, ~ (kept /\ Useful(r))
  PROVE  /\ Tail(q) \in Seq(Packets) /\ Head(q) \in Packets /\ Head(q) # Spi!Nothing
         /\ \A due \in Seq(Owed) : PendingIn(q, r, kept, due) =>
              PendingIn(Tail(q), Head(q), ~ Spi!IsUnsolicited(Head(q)), due)
         /\ \A d \in Owed : FrontIn(q, r, kept, d) =>
              /\ ~ Spi!IsUnsolicited(Head(q))
              /\ FrontIn(Tail(q), Head(q), ~ Spi!IsUnsolicited(Head(q)), d)
<1>1. Tail(q) \in Seq(Packets) /\ Head(q) \in Packets
  BY HeadTailProperties
<1>2. Head(q) # Spi!Nothing
  <2>1. Head(q).type # "none"
    BY <1>1 DEF Packets
  <2>2. QED
    BY <2>1 DEF Spi!Nothing
<1>3. /\ Loose(Head(q)) => ~ (~ Spi!IsUnsolicited(Head(q)) /\ Useful(Head(q)))
      /\ ~ Loose(Head(q)) => ~ Spi!IsUnsolicited(Head(q)) /\ Useful(Head(q))
  BY <1>2 DEF Loose, Useful
<1>4. ASSUME NEW due \in Seq(Owed), PendingIn(q, r, kept, due)
      PROVE  PendingIn(Tail(q), Head(q), ~ Spi!IsUnsolicited(Head(q)), due)
  <2>1. PICK n \in Nat : CarriesAt(q, due, n)
    BY <1>4 DEF PendingIn, Carries
  <2>2. /\ Loose(Head(q)) => Carries(Tail(q), due)
        /\ ~ Loose(Head(q)) =>
             due # <<>> /\ Head(q) = Head(due) /\ CarriesAt(Tail(q), Tail(due), 0)
    BY <2>1, CarriesTaken
  <2>3. QED
    BY <1>3, <2>2 DEF PendingIn
<1>5. ASSUME NEW d \in Owed, FrontIn(q, r, kept, d)
      PROVE  /\ ~ Spi!IsUnsolicited(Head(q))
             /\ FrontIn(Tail(q), Head(q), ~ Spi!IsUnsolicited(Head(q)), d)
  <2>1. CarriesAt(q, <<d>>, 0) /\ <<d>> \in Seq(Owed) /\ <<d>> # <<>>
        /\ Head(<<d>>) = d /\ Tail(<<d>>) = <<>>
    BY <1>5 DEF FrontIn
  <2>2. ~ Loose(Head(q)) /\ Head(q) = d /\ CarriesAt(Tail(q), <<>>, 0)
    BY <2>1, CarriesTaken
  <2>3. QED
    BY <1>3, <2>2 DEF FrontIn
<1>6. QED
  BY <1>1, <1>2, <1>4, <1>5

\* The very next packet is also still to come.
LEMMA FrontPending ==
  ASSUME NEW q, NEW r, NEW kept, NEW d, FrontIn(q, r, kept, d)
  PROVE  PendingIn(q, r, kept, <<d>>)
<1>1. <<d>> # <<>> /\ Head(<<d>>) = d /\ Tail(<<d>>) = <<>>
  OBVIOUS
<1>2. QED
  BY <1>1 DEF FrontIn, PendingIn, Carries

\* Before the device is up nothing is loose.
LEMMA AllOwedKept ==
  ASSUME NEW q \in Seq(Packets), NEW due \in Seq(Owed), AllOwed(q)
  PROVE  /\ AllOwed(q \o due)
         /\ q # <<>> => AllOwed(Tail(q))
         /\ Carries(q, <<>>) => q = <<>>
<1>1. due \in Seq(Packets) /\ \A k \in 1..Len(due) : ~ Loose(due[k])
  BY SeqMonotonic, ElementOfSeq DEF Owed
<1>2. AllOwed(q \o due)
  <2>1. /\ Len(q \o due) = Len(q) + Len(due) /\ Len(q) \in Nat /\ Len(due) \in Nat
        /\ \A k \in 1..Len(q) + Len(due) :
             (q \o due)[k] = IF k <= Len(q) THEN q[k] ELSE due[k - Len(q)]
    BY <1>1, ConcatProperties, LenProperties
  <2>2. ASSUME NEW k \in 1..Len(q) + Len(due)
        PROVE  ~ Loose((q \o due)[k])
    <3>1. CASE k <= Len(q)
      BY <2>1, <3>1 DEF AllOwed
    <3>2. CASE ~ (k <= Len(q))
      <4>1. k - Len(q) \in 1..Len(due)
        BY <2>1, <3>2
      <4>2. QED
        BY <1>1, <2>1, <3>2, <4>1
    <3>3. QED
      BY <3>1, <3>2
  <2>3. QED
    BY <2>1, <2>2 DEF AllOwed
<1>3. ASSUME q # <<>>
      PROVE  AllOwed(Tail(q))
  <2>1. /\ Len(q) \in Nat \ {0} /\ Len(Tail(q)) = Len(q) - 1
        /\ \A k \in 1..Len(Tail(q)) : Tail(q)[k] = q[k + 1]
    BY <1>3, HeadTailProperties, LenProperties, EmptySeq
  <2>2. QED
    BY <2>1 DEF AllOwed
<1>4. ASSUME Carries(q, <<>>)
      PROVE  q = <<>>
  <2>1. \A k \in 1..Len(q) : FALSE
    BY <1>4, CarriesNothing DEF AllOwed
  <2>2. Len(q) = 0
    BY <2>1, LenProperties
  <2>3. QED
    BY <2>2, EmptySeq
<1>5. QED
  BY <1>2, <1>3, <1>4

\* Answers consist of owed packets.
LEMMA AnswerFacts ==
  ASSUME spiDevice.got \in Nat, NEW p \in Commands
  PROVE  Spi!Answer(p) \in Seq(Owed) /\ Spi!Answer(p) # <<>>
<1>1. ASSUME NEW e \in Owed
      PROVE  <<e>> \in Seq(Owed) /\ <<e>> # <<>>
  BY <1>1
<1>2. ASSUME NEW e \in Owed, NEW d \in Owed
      PROVE  <<e, d>> \in Seq(Owed) /\ <<e, d>> # <<>>
  BY <1>2
<1>3. p.op \in Ops /\ p.n \in Nat
  BY DEF Commands
<1>4. /\ Spi!Event("PATCHES_REQ", 1) \in Owed /\ Spi!Event("PATCHES_REQ", p.n + 1) \in Owed
      /\ Spi!Event("START", spiDevice.got) \in Owed /\ Spi!Event(p.op, p.n) \in Owed
      /\ Spi!Event("RECV", p.n) \in Owed /\ Spi!Data(p.n) \in Owed
  BY <1>3 DEF Spi!Event, Spi!Data, Owed, Packets, Ops, Loose, Spi!IsUnsolicited
<1>5. QED
  BY <1>1, <1>2, <1>4 DEF Spi!Answer

LEMMA DueFacts ==
  ASSUME SpiTypes
  PROVE  Due \in Seq(Owed) /\ Due # <<>> /\ Spi!Data(asked) \in Owed /\ <<>> \in Seq(Owed)
<1>1. Spi!Data(asked) \in Owed
  BY DEF SpiTypes, Spi!Data, Owed, Packets, Loose, Spi!IsUnsolicited
<1>2. <<Spi!Data(asked)>> \in Seq(Owed) /\ <<Spi!Data(asked)>> # <<>>
  BY <1>1
<1>3. Spi!Answer(cmd) \in Seq(Owed) /\ Spi!Answer(cmd) # <<>>
  BY AnswerFacts DEF SpiTypes, Chips
<1>4. QED
  BY <1>1, <1>2, <1>3, EmptySeq DEF Due

-----------------------------------------------------------------------------
(* The CC3000 link: the steps                                                *)

\* No packet moves.
Still == UNCHANGED <<rx, received, spiAnswer, spiDevice, queue, keepsEdges>>

LEMMA StillKeeps ==
  ASSUME SpiInv, Still, UNCHANGED <<cmd, asked>>
  PROVE  /\ Pending(<<>>)' = Pending(<<>>) /\ Front(Spi!Data(asked))' = Front(Spi!Data(asked))
         /\ Owes' = Owes
<1>1. Due' = Due
  BY DEF Still, Due, Spi!Answer, Spi!Event, Spi!Data
<1>2. QED
  BY <1>1 DEF Still, Pending, Front, Owes, Spi!Data

\* SpiWrite() up to its look at the pin.
LEMMA WriteMoves ==
  ASSUME SpiInv, Spi!WriteBegin \/ Spi!WriteClaim \/ Spi!WriteAttach \/ Spi!WriteCheck
  PROVE  SpiInv'
<1> USE DEF SpiInv
<1>1. Still /\ UNCHANGED <<cmd, asked, edge, pinLow, waitOp, waitData, opcode>>
  BY DEF Spi!WriteBegin, Spi!WriteClaim, Spi!WriteAttach, Spi!WriteCheck, Still, Spi!rxVars,
         Spi!chip, Spi!WlanInterruptDisable, Spi!WlanInterruptEnable
<1>2. /\ Pending(<<>>)' = Pending(<<>>) /\ Front(Spi!Data(asked))' = Front(Spi!Data(asked))
      /\ Owes' = Owes
  BY <1>1, StillKeeps
<1> DEFINE Act == Spi!WriteBegin \/ Spi!WriteClaim \/ Spi!WriteAttach \/ Spi!WriteCheck
<1>0. Act
  OBVIOUS
<1> USE DEF Spi!WriteBegin, Spi!WriteClaim, Spi!WriteAttach, Spi!WriteCheck,
            Spi!WlanInterruptDisable, Spi!WlanInterruptEnable, Spi!Goto, Still, Spi!link, Spi!Quiet
<1>3. SpiTypes'
  BY <1>0, <1>1 DEF SpiTypes, Stages, Resting, Down, Opening, Transfers
<1>4. Opened'
  BY <1>0, <1>1 DEF Opened, Down, Opening, First
<1>5. Line'
  BY <1>0, <1>1 DEF Opened, Line, Down, Opening, First, Transfers
<1>6. Kept' /\ Empty'
  BY <1>0, <1>1 DEF Kept, Empty, Exacting, Sends, Unsent, Pending, PendingIn, Useful, Line
<1>7. Silent'
  BY <1>0, <1>1 DEF Silent, AllOwed, Down, Opening
<1>8. Rests' /\ Called' /\ Handled'
  BY <1>0, <1>1, <1>2 DEF Rests, Called, Handled, Resting, Down, Opening
<1>9. Sends'
  BY <1>0, <1>1, <1>2 DEF Sends, Unsent, Sent, Transfers, Line, Patching, Awaits
<1>10. QED
  BY <1>3, <1>4, <1>5, <1>6, <1>7, <1>8, <1>9

\* wlan_start(), wlan_stop() and the beginning of a call.
LEMMA StartMoves ==
  ASSUME SpiInv,
         \/ Spi!StartSawHigh \/ Spi!StartSawLow \/ Spi!SpiClose
         \/ Spi!Ready("COMMAND") \/ Spi!Ready("RECV") \/ Spi!StartBufferSize
  PROVE  SpiInv'
<1> USE DEF SpiInv
<1> DEFINE Act == \/ Spi!StartSawHigh \/ Spi!StartSawLow \/ Spi!SpiClose
                  \/ Spi!Ready("COMMAND") \/ Spi!Ready("RECV") \/ Spi!StartBufferSize
<1>0. Act
  OBVIOUS
<1>1. Still /\ UNCHANGED <<edge, pinLow, waitOp, waitData, opcode, spiState, spiCs>>
  BY DEF Spi!StartSawHigh, Spi!StartSawLow, Spi!SpiClose, Spi!Ready, Spi!StartBufferSize, Still,
         Spi!rxVars, Spi!chip, Spi!link
<1>2. Pending(<<>>)' = Pending(<<>>)
  BY <1>1 DEF Still, Pending
<1> USE DEF Spi!StartSawHigh, Spi!StartSawLow, Spi!SpiClose, Spi!Ready, Spi!StartBufferSize,
            Spi!WlanInterruptDisable, Spi!Goto, Still, Spi!link, Spi!Quiet, Spi!Ask, Spi!Command
<1>3. SpiTypes'
  <2>1. asked + 1 \in Nat
    BY DEF SpiTypes
  <2>2. cmd' \in Commands /\ asked' \in Nat
    BY <1>0, <2>1 DEF SpiTypes, Commands, Ops
  <2>3. intEnabled' \in BOOLEAN
    BY <1>0 DEF SpiTypes
  <2>4. QED
    BY <1>0, <1>1, <2>2, <2>3 DEF SpiTypes, Stages, Resting, Down, Opening, Transfers
<1>4. Opened'
  BY <1>0, <1>1 DEF Opened, Down, Opening, First, Line
<1>5. Line'
  BY <1>0, <1>1 DEF Opened, Line, Down, Opening, First, Transfers
<1>6. Kept' /\ Empty'
  BY <1>0, <1>1 DEF Kept, Empty, Exacting, Down, Opening, Resting, Ops, Called, SpiTypes, Commands
<1>7. Silent'
  BY <1>0, <1>1 DEF Silent, AllOwed, Down, Opening
<1>8. Rests' /\ Called' /\ Handled'
  BY <1>0, <1>1, <1>2 DEF Rests, Called, Handled, Resting, Down, Opening, SpiTypes
<1>9. Sends'
  BY <1>0, <1>1, <1>2 DEF Sends, Unsent, Sent, Transfers, Rests, Resting, Down, Opening, SpiTypes
<1>10. QED
  BY <1>3, <1>4, <1>5, <1>6, <1>7, <1>8, <1>9

\* The loop of hci_event_handler().
LEMMA PollMoves ==
  ASSUME SpiInv, Spi!WaitEvent \/ Spi!PollPin \/ Spi!PollAgain \/ Spi!KeepWaiting \/ Spi!EventDone
  PROVE  SpiInv'
<1> USE DEF SpiInv
<1> DEFINE Act == Spi!WaitEvent \/ Spi!PollPin \/ Spi!PollAgain \/ Spi!KeepWaiting \/ Spi!EventDone
<1>0. Act
  OBVIOUS
<1>1. Still /\ UNCHANGED <<cmd, asked, edge, pinLow, waitData, spiState, spiCs, intEnabled>>
  BY DEF Spi!WaitEvent, Spi!PollPin, Spi!PollAgain, Spi!KeepWaiting, Spi!EventDone, Still,
         Spi!rxVars, Spi!chip, Spi!link
<1>2. /\ Pending(<<>>)' = Pending(<<>>) /\ Front(Spi!Data(asked))' = Front(Spi!Data(asked))
      /\ Owes' = Owes
  BY <1>1, StillKeeps
<1> USE DEF Spi!WaitEvent, Spi!PollPin, Spi!PollAgain, Spi!KeepWaiting, Spi!EventDone,
            Spi!AskedForPatch, Spi!Goto, Still, Spi!Quiet, Spi!rxVars
<1>3. SpiTypes'
  BY <1>0, <1>1 DEF SpiTypes, Stages, Resting, Down, Opening, Transfers
<1>4. Opened'
  BY <1>0, <1>1 DEF Opened, Down, Opening, First
<1>5. Line'
  BY <1>0, <1>1 DEF Opened, Line, Down, Opening, First, Transfers
<1>6. Kept' /\ Empty'
  BY <1>0, <1>1 DEF Kept, Empty, Exacting, Down, Opening, Resting, Ops, Called, SpiTypes, Commands
<1>7. Silent'
  BY <1>0, <1>1 DEF Silent, AllOwed, Down, Opening
<1>8. Rests' /\ Called'
  BY <1>0, <1>1, <1>2 DEF Rests, Called, Handled, Resting, Down, Opening, Awaits, Patching, SpiTypes
<1>9. Handled'
  BY <1>0, <1>1 DEF Handled
<1>10. Sends'
  <2>1. CASE Spi!WaitEvent
    BY <1>1, <1>2, <2>1 DEF Sends, Unsent, Sent, Transfers, Awaits, Patching, SpiTypes
  <2>2. CASE Spi!PollPin \/ Spi!PollAgain
    BY <1>1, <1>2, <2>2 DEF Sends, Unsent, Sent, Transfers, Awaits, Patching
  <2>3. CASE Spi!KeepWaiting
    <3>1. Owes /\ Awaits /\ spiDevice.got = asked /\ opcode # "PATCHES_REQ"
      BY <2>3 DEF Handled, Awaits
    <3>2. Awaits'
      BY <1>1, <2>3, <3>1 DEF Awaits
    <3>3. QED
      BY <1>1, <1>2, <2>3, <3>1, <3>2 DEF Sends, Unsent, Sent, Transfers
  <2>4. CASE Spi!EventDone
    BY <1>1, <1>2, <2>4 DEF Sends, Unsent, Sent, Transfers
  <2>5. QED
    BY <1>0, <2>1, <2>2, <2>3, <2>4
<1>11. QED
  BY <1>3, <1>4, <1>5, <1>6, <1>7, <1>8, <1>9, <1>10

\* The call goes on with the data, or with the patch that was asked for.
LEMMA AskingMoves ==
  ASSUME SpiInv, Spi!WaitData \/ Spi!PatchRequest
  PROVE  SpiInv'
<1> USE DEF SpiInv
<1> DEFINE Act == Spi!WaitData \/ Spi!PatchRequest
<1>0. Act
  OBVIOUS
<1>1. Still /\ UNCHANGED <<asked, edge, pinLow, spiState, spiCs, intEnabled>>
  BY DEF Spi!WaitData, Spi!PatchRequest, Still, Spi!rxVars, Spi!chip, Spi!link
<1>2. /\ Pending(<<>>)' = Pending(<<>>) /\ Front(Spi!Data(asked))' = Front(Spi!Data(asked))
  BY <1>1 DEF Still, Pending, Front, Spi!Data
<1> USE DEF Spi!WaitData, Spi!PatchRequest, Spi!AskedForPatch, Spi!Goto, Still, Spi!Quiet,
            Spi!Command, Spi!rxVars
<1>3. SpiTypes'
  <2>1. CASE Spi!WaitData
    <3>1. waitData' \in BOOLEAN
      BY <2>1
    <3>2. cmd' \in Commands
      BY <2>1 DEF SpiTypes, Commands, Ops
    <3>3. QED
      BY <1>1, <2>1, <3>1, <3>2 DEF SpiTypes, Stages
  <2>2. CASE Spi!PatchRequest
    <3>1. cmd' \in Commands
      BY <2>2 DEF SpiTypes, Commands, Ops, Packets, Spi!Nothing
    <3>2. QED
      BY <1>1, <2>2, <3>1 DEF SpiTypes, Stages
  <2>3. QED
    BY <1>0, <2>1, <2>2
<1>4. Opened'
  BY <1>0, <1>1 DEF Opened, Down, Opening, First, SpiTypes, Commands
<1>5. Line'
  BY <1>0, <1>1 DEF Opened, Line, Down, Opening, First, Transfers
<1>6. Kept' /\ Empty'
  BY <1>0, <1>1 DEF Kept, Empty, Exacting, Down, Opening, Resting, Ops, Called, SpiTypes, Commands
<1>7. Silent'
  BY <1>0, <1>1 DEF Silent, AllOwed, Down, Opening, Handled, Patching, SpiTypes, Commands
<1>8. Rests' /\ Called' /\ Handled'
  BY <1>0, <1>1, <1>2 DEF Rests, Called, Handled, Resting, Down, Opening, SpiTypes, Commands
<1>9. Sends'
  <2>1. CASE Spi!WaitData
    <3>1. /\ spiPc = "handled" /\ spiPc' = "poll" /\ cmd.op = "RECV" /\ cmd'.op = "RECV_DATA"
          /\ waitOp = "none" /\ ~ waitData /\ waitOp' = "none" /\ waitData' /\ opcode' = "none"
      BY <2>1 DEF SpiTypes, Commands
    <3>2. Front(Spi!Data(asked)) /\ spiDevice.got = asked
      BY <3>1 DEF Handled, Awaits, Patching
    <3>3. Pending(<<Spi!Data(asked)>>)
      BY <3>2, FrontPending DEF Front, Pending
    <3>4. Owes'
      <4>1. Due' = <<Spi!Data(asked)>>
        BY <1>1, <3>1 DEF Due, Spi!Data
      <4>2. Pending(Due)'
        BY <1>1, <3>3, <4>1 DEF Pending
      <4>3. QED
        BY <1>2, <3>2, <4>2 DEF Owes
    <3>5. QED
      BY <1>1, <3>1, <3>2, <3>4 DEF Sends, Unsent, Sent, Transfers, Awaits, Patching
  <2>2. CASE Spi!PatchRequest
    <3>1. queue = <<>> /\ ~ received /\ spiDevice.got = asked /\ waitOp = "START" /\ ~ waitData
      BY <2>2 DEF Handled, Patching, Awaits
    <3>2. Pending(<<>>)
      <4>1. queue \in Seq(Packets) /\ Len(queue) = 0
        BY <3>1 DEF SpiTypes
      <4>0. \A k \in 1..Len(queue) : Loose(queue[k])
        BY <4>1
      <4>2. Carries(queue, <<>>)
        BY <4>0, <4>1, CarriesNothing
      <4>3. QED
        BY <3>1, <4>2 DEF Pending, PendingIn
    <3>3. QED
      BY <1>1, <1>2, <2>2, <3>1, <3>2 DEF Sends, Unsent, Sent, Transfers, Awaits, Patching
  <2>3. QED
    BY <1>0, <2>1, <2>2
<1>10. QED
  BY <1>3, <1>4, <1>5, <1>6, <1>7, <1>8, <1>9

\* SpiWrite() lets go of the device.
LEMMA ReleaseMove ==
  ASSUME SpiInv, Spi!WriteRelease
  PROVE  SpiInv'
<1> USE DEF SpiInv
<1>0. Spi!WriteRelease
  OBVIOUS
<1>1. /\ Still /\ UNCHANGED <<cmd, asked, edge, waitOp, waitData, opcode, intEnabled, sawLow>>
      /\ spiPc = "release" /\ spiPc' = "written" /\ ~(edge /\ intEnabled)
      /\ spiState' = "IDLE"
      /\ IF spiCs = "low" THEN spiCs' = "high" /\ pinLow' = FALSE
         ELSE spiCs' = spiCs /\ pinLow' = pinLow
  BY DEF Spi!WriteRelease, Still, Spi!rxVars, Spi!Deselect, Spi!Goto, Spi!Quiet
<1>2. /\ Pending(<<>>)' = Pending(<<>>) /\ Front(Spi!Data(asked))' = Front(Spi!Data(asked))
      /\ Owes' = Owes
  BY <1>1, StillKeeps
<1> USE DEF Still
<1>3. SpiTypes'
  <2>1. pinLow' \in BOOLEAN
    BY <1>1 DEF SpiTypes
  <2>2. QED
    BY <1>1, <2>1 DEF SpiTypes, Stages, Transfers
<1>4. Opened'
  BY <1>1 DEF Opened, Down, Opening, First
<1>5. Line'
  BY <1>1 DEF Opened, Line, Down, Opening, First, Transfers
<1>6. Kept' /\ Empty'
  BY <1>1 DEF Kept, Empty, Exacting
<1>7. Silent'
  BY <1>1 DEF Silent, AllOwed, Down, Opening
<1>8. Rests' /\ Called' /\ Handled'
  BY <1>1 DEF Rests, Called, Handled, Resting, Down, Opening
<1>9. Sends'
  BY <1>1, <1>2 DEF Sends, Unsent, Sent, Transfers
<1>10. QED
  BY <1>3, <1>4, <1>5, <1>6, <1>7, <1>8, <1>9

\* The device is switched on and off.
LEMMA OpenSteps ==
  ASSUME SpiInv, Spi!StartOpen \/ Spi!StartEnable \/ Spi!Stop
  PROVE  SpiInv'
<1> USE DEF SpiInv
<1> DEFINE Act == Spi!StartOpen \/ Spi!StartEnable \/ Spi!Stop
<1>0. Act
  OBVIOUS
<1>1. UNCHANGED <<asked, cmd, opcode, spiCs, spiAnswer, pinLow, edge, keepsEdges>>
  BY DEF Spi!StartOpen, Spi!StartEnable, Spi!Stop, Spi!link, Spi!rxVars, Spi!chip
<1>2. spiDevice' \in Chips /\ spiDevice'.got = spiDevice.got
  BY <1>0 DEF SpiTypes, Chips, Spi!StartOpen, Spi!StartEnable, Spi!Stop, Spi!chip
<1>3. queue' = queue \/ queue' = <<>>
  BY <1>0 DEF Spi!StartOpen, Spi!StartEnable, Spi!Stop, Spi!chip
<1>4. AllOwed(<<>>) /\ Carries(<<>>, <<>>) /\ <<>> \in Seq(Packets)
  <2>1. <<>> \in Seq(Packets) /\ Len(<<>>) = 0
    OBVIOUS
  <2>2. AllOwed(<<>>) /\ \A k \in 1..Len(<<>>) : Loose(<<>>[k])
    BY <2>1 DEF AllOwed
  <2>3. QED
    BY <2>1, <2>2, CarriesNothing
<1>5. Pending(<<>>)'
  <2>1. Pending(<<>>) /\ ~(received /\ Useful(rx)) /\ Carries(queue, <<>>)
    BY <1>0 DEF Rests, Resting, Down, Opening, Spi!StartOpen, Spi!StartEnable, Spi!Stop, Spi!Goto,
                Pending, PendingIn
  <2>2. Carries(queue', <<>>) /\ ~(received' /\ Useful(rx'))
    BY <1>0, <1>3, <1>4, <2>1 DEF Spi!StartOpen, Spi!StartEnable, Spi!Stop, Spi!rxVars
  <2>3. QED
    BY <2>2 DEF Pending, PendingIn
<1> USE DEF Spi!StartOpen, Spi!StartEnable, Spi!Stop, Spi!WlanInterruptEnable, Spi!Goto, Spi!link,
            Spi!Quiet, Spi!rxVars, Spi!chip
<1>6. SpiTypes'
  <2>1. /\ received' \in BOOLEAN /\ intEnabled' \in BOOLEAN
        /\ waitData' \in BOOLEAN /\ sawLow' \in BOOLEAN
    BY <1>0 DEF SpiTypes
  <2>2. rx' \in Packets \cup {Spi!Nothing}
    BY <1>0 DEF SpiTypes
  <2>3. queue' \in Seq(Packets) /\ spiPc' \in Stages
    BY <1>0, <1>3, <1>4 DEF SpiTypes, Stages, Resting, Down, Opening
  <2>4. QED
    BY <1>1, <1>2, <2>1, <2>2, <2>3 DEF SpiTypes
<1>7. Opened'
  BY <1>0, <1>1 DEF Opened, Down, Opening, First, SpiTypes, Chips, Line
<1>8. Line'
  BY <1>0, <1>1 DEF Opened, Line, Down, Opening, First, Transfers
<1>9. Kept' /\ Empty'
  BY <1>0, <1>1 DEF Kept, Empty, Exacting
<1>10. Silent'
  <2>1. ~ spiDevice'.up
    BY <1>0 DEF Silent, SpiTypes, Chips, Down, Opening
  <2>2. AllOwed(queue')
    BY <1>0, <1>4 DEF Silent, Down, Opening
  <2>3. QED
    BY <2>1, <2>2 DEF Silent, AllOwed
<1>11. Rests' /\ Called' /\ Handled'
  BY <1>0, <1>1, <1>2, <1>5 DEF Rests, Called, Handled, Resting, Down, Opening
<1>12. Sends'
  BY <1>0 DEF Sends, Unsent, Sent, Transfers
<1>13. QED
  BY <1>6, <1>7, <1>8, <1>9, <1>10, <1>11, <1>12

\* The device moves its line.
LEMMA DeviceMoves ==
  ASSUME SpiInv, Spi!Boot \/ Spi!RaiseLine \/ Spi!PullLine
  PROVE  SpiInv'
<1> USE DEF SpiInv
<1> DEFINE Act == Spi!Boot \/ Spi!RaiseLine \/ Spi!PullLine
<1>0. Act
  OBVIOUS
<1>1. /\ UNCHANGED <<spiPc, asked, cmd, sawLow, opcode, spiState, intEnabled, spiCs, rx, received,
                     waitOp, waitData, spiAnswer, queue, keepsEdges>>
      /\ spiDevice' = spiDevice \/ (spiDevice' = [spiDevice EXCEPT !.booted = TRUE] /\ spiPc = "waitLow")
  BY DEF Spi!Boot, Spi!RaiseLine, Spi!PullLine, Spi!main, Spi!link, Spi!rxVars
<1>2. /\ spiDevice' \in Chips /\ spiDevice'.got = spiDevice.got
      /\ spiDevice'.up = spiDevice.up /\ spiDevice'.power = spiDevice.power
  BY <1>1 DEF SpiTypes, Chips
<1>3. Due' = Due
  BY <1>1, <1>2 DEF Due, Spi!Answer, Spi!Event, Spi!Data
<1>4. /\ Pending(<<>>)' = Pending(<<>>) /\ Front(Spi!Data(asked))' = Front(Spi!Data(asked))
      /\ Owes' = Owes
  BY <1>1, <1>3 DEF Pending, Front, Owes, Spi!Data
<1>5. SpiTypes'
  <2>1. pinLow' \in BOOLEAN
    BY <1>0 DEF Spi!Boot, Spi!RaiseLine, Spi!PullLine, Spi!FallingEdge
  <2>2. edge' \in BOOLEAN
    BY <1>0 DEF SpiTypes, Spi!Boot, Spi!RaiseLine, Spi!PullLine, Spi!FallingEdge
  <2>3. QED
    BY <1>1, <1>2, <2>1, <2>2 DEF SpiTypes
<1> USE DEF Spi!Boot, Spi!RaiseLine, Spi!PullLine, Spi!FallingEdge
<1>6. Opened'
  BY <1>0, <1>1, <1>2 DEF Opened, Down, Opening, First, SpiTypes, Chips, Line
<1>7. Line'
  BY <1>0, <1>1, <1>2 DEF Opened, Line, Down, Opening, First, Transfers, SpiTypes
<1>8. Kept' /\ Silent' /\ Rests' /\ Called'
  BY <1>1, <1>2, <1>4 DEF Kept, Silent, AllOwed, Rests, Called
<1>12. Empty'
  BY <1>0, <1>1, <1>2 DEF Empty, Exacting, Opened, Down, Opening
<1>9. Sends'
  BY <1>1, <1>2, <1>4 DEF Sends, Unsent, Sent, Awaits, Patching
<1>10. Handled'
  BY <1>1, <1>2, <1>4 DEF Handled, Awaits, Patching
<1>11. QED
  BY <1>5, <1>6, <1>7, <1>8, <1>9, <1>10, <1>12

\* The device reports something by itself.
LEMMA UnsolicitedStep ==
  ASSUME SpiInv, Spi!Unsolicited
  PROVE  SpiInv'
<1> USE DEF SpiInv
<1>1. /\ UNCHANGED <<spiPc, asked, cmd, sawLow, opcode, spiState, intEnabled, spiCs, rx, received,
                     waitOp, waitData, spiAnswer, pinLow, edge, keepsEdges>>
      /\ spiDevice' = [spiDevice EXCEPT !.unsol = @ + 1] /\ spiDevice.power /\ spiDevice.up
  BY DEF Spi!Unsolicited, Spi!main, Spi!link, Spi!rxVars
<1>2. /\ spiDevice' \in Chips /\ spiDevice'.got = spiDevice.got /\ spiDevice'.up = spiDevice.up
      /\ spiDevice'.power = spiDevice.power /\ spiDevice'.booted = spiDevice.booted
  <2>1. spiDevice.unsol + 1 \in Nat
    BY DEF SpiTypes, Chips
  <2>2. QED
    BY <1>1, <2>1 DEF SpiTypes, Chips
<1>3. PICK op \in {"UNSOL", "OTHER"} : queue' = Append(queue, Spi!Event(op, 0))
  BY DEF Spi!Unsolicited
<1>4. Spi!Event(op, 0) \in Packets /\ Loose(Spi!Event(op, 0))
  BY <1>3 DEF Spi!Event, Packets, Loose, Spi!IsUnsolicited
<1>5. queue' \in Seq(Packets) /\ queue' # <<>>
  BY <1>3, <1>4, AppendProperties DEF SpiTypes
<1>6. /\ \A due \in Seq(Owed) : Pending(due) => PendingIn(queue', rx', received', due)
      /\ \A d \in Owed : Front(d) => FrontIn(queue', rx', received', d)
  BY <1>1, <1>3, <1>4, PendingLoose DEF Pending, Front, SpiTypes
<1>7. Due' = Due
  BY <1>1, <1>2 DEF Due, Spi!Answer, Spi!Event, Spi!Data
<1>8. /\ Pending(<<>>) => Pending(<<>>)'
      /\ Owes => Owes'
      /\ Front(Spi!Data(asked)) => Front(Spi!Data(asked))'
  BY <1>1, <1>6, <1>7, DueFacts DEF Pending, Front, Owes, Spi!Data
<1>9. spiPc \notin Down \cup Opening \cup {"started"} /\ cmd.op \notin {"START", "PATCH"}
  BY <1>1 DEF Silent
<1>10. SpiTypes'
  BY <1>1, <1>2, <1>5 DEF SpiTypes
<1>11. Opened' /\ Line'
  BY <1>1, <1>2, <1>5, <1>9 DEF Opened, Line, First
<1>12. Kept' /\ Empty' /\ Silent' /\ Rests' /\ Called'
  BY <1>1, <1>2, <1>8 DEF Kept, Empty, Exacting, Silent, Rests, Called
<1>13. Sends'
  BY <1>1, <1>2, <1>8 DEF Sends, Unsent, Sent, Awaits, Patching
<1>14. Handled'
  BY <1>1, <1>2, <1>8, <1>9 DEF Handled, Awaits, Patching
<1>15. QED
  BY <1>10, <1>11, <1>12, <1>13, <1>14

\* The device takes the packet.
LEMMA AcceptFacts ==
  ASSUME SpiInv, Unsent, Spi!Accepts(cmd), UNCHANGED <<cmd, asked, rx, received>>
  PROVE  /\ queue' \in Seq(Packets) /\ queue' # <<>> /\ spiDevice' \in Chips
         /\ spiDevice'.got = asked
         /\ spiDevice'.power = spiDevice.power /\ spiDevice'.booted = spiDevice.booted
         /\ Owes'
         /\ (spiDevice'.up <=> spiDevice.up \/ cmd.op = "BUFFER_SIZE")
         /\ AllOwed(queue) => AllOwed(queue')
<1> USE DEF SpiInv
<1>1. /\ queue' = queue \o Spi!Answer(cmd)
      /\ spiDevice' = [spiDevice EXCEPT !.got = IF cmd.op = "PATCH" THEN @ ELSE @ + 1,
                                  !.up = @ \/ cmd.op = "BUFFER_SIZE"]
  BY DEF Spi!Accepts
<1>2. /\ cmd.op # "RECV_DATA" /\ Pending(<<>>)
      /\ spiDevice.got = IF cmd.op = "PATCH" THEN asked ELSE asked - 1
  BY DEF Sends
<1>3. spiPc \notin Resting /\ asked > 0
  BY DEF Unsent, Resting, Down, Opening, Transfers, Called
<1>4. /\ spiDevice' \in Chips /\ spiDevice'.got = asked
      /\ (spiDevice'.up <=> spiDevice.up \/ cmd.op = "BUFFER_SIZE")
      /\ spiDevice'.power = spiDevice.power /\ spiDevice'.booted = spiDevice.booted
  <2> DEFINE g == IF cmd.op = "PATCH" THEN spiDevice.got ELSE spiDevice.got + 1
             u == spiDevice.up \/ cmd.op = "BUFFER_SIZE"
  <2>1. g \in Nat /\ g = asked
    BY <1>2, <1>3 DEF SpiTypes, Chips
  <2>2. u \in BOOLEAN
    BY DEF SpiTypes, Chips
  <2>3. spiDevice' = [spiDevice EXCEPT !.got = g, !.up = u]
    BY <1>1
  <2> HIDE DEF g
  <2>4. /\ spiDevice' \in Chips /\ spiDevice'.got = g /\ spiDevice'.up = u
        /\ spiDevice'.power = spiDevice.power /\ spiDevice'.booted = spiDevice.booted
    <3> HIDE DEF u
    <3>1. QED
      BY <2>1, <2>2, <2>3 DEF SpiTypes, Chips
  <2>5. QED
    BY <2>1, <2>4
<1>5. Due' = Spi!Answer(cmd)
  <2>1. Due' = Spi!Answer(cmd)'
    BY <1>2 DEF Due
  <2>2. CASE cmd.op = "PATCH"
    BY <1>2, <1>4, <2>1, <2>2 DEF Spi!Answer, Spi!Event, Spi!Data
  <2>3. CASE cmd.op # "PATCH"
    BY <2>1, <2>3 DEF Spi!Answer, Spi!Event, Spi!Data
  <2>4. QED
    BY <2>2, <2>3
<1>6. Spi!Answer(cmd) \in Seq(Owed) /\ Spi!Answer(cmd) # <<>>
  BY AnswerFacts DEF SpiTypes, Chips
<1>7. queue' \in Seq(Packets) /\ PendingIn(queue', rx, received, Spi!Answer(cmd))
  BY <1>1, <1>2, <1>6, PendingAccepted DEF Pending, SpiTypes
<1>8. queue' # <<>>
  <2>1. /\ Len(queue') = Len(queue) + Len(Spi!Answer(cmd)) /\ Len(queue) \in Nat
        /\ Len(Spi!Answer(cmd)) \in Nat \ {0}
    <3>1. Spi!Answer(cmd) \in Seq(Packets)
      BY <1>6, SeqMonotonic DEF Owed
    <3>2. QED
      BY <1>1, <1>6, <3>1, ConcatProperties, LenProperties, EmptySeq DEF SpiTypes
  <2>2. QED
    BY <2>1
<1>9. AllOwed(queue) => AllOwed(queue')
  BY <1>1, <1>6, AllOwedKept DEF SpiTypes
<1>10. cmd'.op # "RECV_DATA"
  BY <1>2
<1>11. QED
  BY <1>4, <1>5, <1>7, <1>8, <1>9, <1>10 DEF Pending, Owes

\* An interrupt in WRITE_IRQ finds the program waiting for it, or about to look.
LEMMA InterruptWrites ==
  ASSUME SpiInv, Spi!Interrupt, spiState = "WRITE_IRQ"
  PROVE  /\ Spi!WriteInInterrupt /\ edge' = FALSE /\ UNCHANGED <<Spi!main, keepsEdges>>
         /\ spiPc \in {"check", "transfer", "written"}
<1> USE DEF SpiInv
<1>1. Spi!WriteInInterrupt /\ edge /\ intEnabled /\ edge' = FALSE /\ UNCHANGED <<Spi!main, keepsEdges>>
  BY DEF Spi!Interrupt, Spi!SPI_IRQ, Spi!ReadPacket, Spi!FirstInterrupt, Spi!OtherInterrupt
<1>2. spiPc \in {"check", "transfer", "written"}
  BY <1>1 DEF SpiTypes, Stages, Resting, Down, Opening, Transfers, Line, Opened, First
<1>3. QED
  BY <1>1, <1>2

\* The three ways a packet reaches the device.
LEMMA AcceptSteps ==
  ASSUME SpiInv,
         \/ Spi!SpiFirstWrite
         \/ Spi!WriteTransfer
         \/ Spi!Interrupt /\ spiState = "WRITE_IRQ"
  PROVE  SpiInv'
<1> USE DEF SpiInv
<1>1. CASE Spi!WriteTransfer /\ spiCs # "low"
  <2>1. /\ Still /\ UNCHANGED <<cmd, asked, edge, pinLow, waitOp, waitData, opcode, intEnabled,
                                sawLow, spiState, spiCs>>
        /\ spiPc = "transfer" /\ spiPc' = "release" /\ spiState = "IDLE"
    BY <1>1 DEF Spi!WriteTransfer, Still, Spi!rxVars, Spi!link, Spi!Goto, Line, Transfers
  <2>2. /\ Pending(<<>>)' = Pending(<<>>) /\ Front(Spi!Data(asked))' = Front(Spi!Data(asked))
        /\ Owes' = Owes
    BY <2>1, StillKeeps
  <2>3. SpiTypes'
    BY <2>1 DEF SpiTypes, Stages, Transfers, Still
  <2>4. Opened' /\ Line'
    BY <2>1 DEF Opened, Line, Down, Opening, First, Transfers, Still
  <2>5. Kept' /\ Empty' /\ Silent' /\ Rests' /\ Called' /\ Handled'
    BY <2>1 DEF Kept, Empty, Exacting, Silent, AllOwed, Rests, Called, Handled, Resting, Down,
                Opening, Still
  <2>6. Sends'
    BY <2>1, <2>2 DEF Sends, Unsent, Sent, Transfers, Still
  <2>7. QED
    BY <2>3, <2>4, <2>5, <2>6
<1>2. CASE \/ Spi!SpiFirstWrite
           \/ Spi!WriteTransfer /\ spiCs = "low"
           \/ Spi!Interrupt /\ spiState = "WRITE_IRQ"
  <2>1. /\ Spi!Accepts(cmd)
        /\ UNCHANGED <<cmd, asked, opcode, sawLow, intEnabled, rx, received, waitOp, waitData,
                       spiAnswer, keepsEdges>>
        /\ \/ /\ First /\ spiPc' = "written"
              /\ spiState' = "IDLE" /\ spiCs' = "high" /\ pinLow' = FALSE
              /\ edge' = edge /\ ~ edge
           \/ /\ spiPc = "transfer" /\ spiPc' = "release" /\ spiState = "WRITE_IRQ"
              /\ UNCHANGED <<spiState, spiCs, pinLow, edge>> /\ ~ edge
           \/ /\ spiPc \in {"check", "transfer", "written"} /\ spiState = "WRITE_IRQ" /\ spiPc' = spiPc
              /\ spiState' = "IDLE" /\ spiCs' = "high" /\ pinLow' = FALSE /\ edge' = FALSE
    <3>1. CASE Spi!SpiFirstWrite
      BY <3>1 DEF Spi!SpiFirstWrite, Spi!Goto, Spi!Quiet, Spi!Deselect, Spi!rxVars, First, Line,
                  Opened
    <3>2. CASE Spi!WriteTransfer /\ spiCs = "low"
      BY <3>2 DEF Spi!WriteTransfer, Spi!Goto, Spi!Quiet, Spi!link, Spi!rxVars, Line, Transfers
    <3>3. CASE Spi!Interrupt /\ spiState = "WRITE_IRQ"
      BY <3>3, InterruptWrites DEF Spi!WriteInInterrupt, Spi!Deselect, Spi!main, Spi!rxVars
    <3>4. QED
      BY <1>2, <3>1, <3>2, <3>3
  <2>2. Unsent
    BY <2>1 DEF Unsent, First, Transfers
  <2>3. /\ queue' \in Seq(Packets) /\ queue' # <<>> /\ spiDevice' \in Chips
        /\ spiDevice'.got = asked
        /\ spiDevice'.power = spiDevice.power /\ spiDevice'.booted = spiDevice.booted
        /\ Owes'
        /\ (spiDevice'.up <=> spiDevice.up \/ cmd.op = "BUFFER_SIZE")
        /\ AllOwed(queue) => AllOwed(queue')
    BY <2>1, <2>2, AcceptFacts
  <2>4. SpiTypes'
    <3>1. pinLow' \in BOOLEAN /\ edge' \in BOOLEAN
      <4>1. pinLow' = FALSE \/ pinLow' = pinLow
        BY <2>1
      <4>2. edge' = FALSE \/ edge' = edge
        BY <2>1
      <4>3. QED
        BY <4>1, <4>2 DEF SpiTypes
    <3>2. spiPc' \in Stages
      BY <2>1 DEF Stages, Transfers
    <3>3. QED
      BY <2>1, <2>3, <3>1, <3>2 DEF SpiTypes
  <2>5. Opened'
    BY <2>1, <2>3 DEF Opened, Down, Opening, First
  <2>6. Line'
    BY <2>1, <2>3 DEF Opened, Line, Down, Opening, First, Transfers
  <2>7. Kept' /\ Empty'
    BY <2>1 DEF Kept, Empty, Exacting, First
  <2>8. Silent'
    <3>1. spiPc' \notin Down \cup Opening \cup {"started"}
      BY <2>1 DEF Down, Opening
    <3>2. ~ spiDevice'.up => AllOwed(queue')
      BY <2>3 DEF Silent
    <3>3. cmd'.op \in {"START", "PATCH"} => ~ spiDevice'.up
      BY <2>1, <2>3 DEF Silent
    <3>4. AllOwed(queue)' = AllOwed(queue')
      BY DEF AllOwed
    <3>5. QED
      BY <3>1, <3>2, <3>3, <3>4 DEF Silent
  <2>9. Rests' /\ Called' /\ Handled'
    BY <2>1 DEF Rests, Called, Handled, Resting, Down, Opening, First
  <2>10. Sends'
    BY <2>1, <2>2, <2>3 DEF Sends, Unsent, Sent, Transfers
  <2>11. QED
    BY <2>4, <2>5, <2>6, <2>7, <2>8, <2>9, <2>10
<1>3. QED
  BY <1>1, <1>2

\* A packet is taken into the receive buffer.
LEMMA ReadFacts ==
  ASSUME SpiInv, Spi!ReadPacket, intEnabled, pinLow, queue # <<>>, UNCHANGED <<cmd, asked>>
  PROVE  /\ rx' \in Packets /\ queue' \in Seq(Packets)
         /\ received' \in BOOLEAN /\ intEnabled' \in BOOLEAN
         /\ UNCHANGED <<waitOp, waitData, spiAnswer, spiState, spiDevice>>
         /\ spiCs' = "high" /\ pinLow' = FALSE /\ Kept' /\ rx' # Spi!Nothing
         /\ Exacting /\ Owes => ~ intEnabled'
         /\ AllOwed(queue) => AllOwed(queue')
         /\ Pending(<<>>) => Pending(<<>>)'
         /\ Front(Spi!Data(asked)) => Front(Spi!Data(asked))'
         /\ Owes => Owes'
<1> USE DEF SpiInv
<1>0. queue \in Seq(Packets)
  BY DEF SpiTypes
<1>1. Head(queue) \in Packets /\ Head(queue) # Spi!Nothing
  <2>1. Head(queue) \in Packets
    BY <1>0, HeadTailProperties
  <2>2. Head(queue).type # "none"
    BY <2>1 DEF Packets
  <2>3. QED
    BY <2>1, <2>2 DEF Spi!Nothing
<1> DEFINE u == Spi!IsUnsolicited(Head(queue))
<1>2. u \in BOOLEAN
  BY DEF Spi!IsUnsolicited
<1>3. /\ rx' = Head(queue) /\ queue' = Tail(queue)
      /\ received' = ~ u /\ intEnabled' = u /\ spiCs' = "high" /\ pinLow' = FALSE
      /\ UNCHANGED <<waitOp, waitData, spiAnswer, spiState, spiDevice>>
  BY <1>1 DEF Spi!ReadPacket, Spi!NextPacket, Spi!SpiTriggerRxProcessing, Spi!Deselect
<1>4. received' \in BOOLEAN
  BY <1>2, <1>3
<1>5. intEnabled' \in BOOLEAN
  BY <1>2, <1>3
<1>6. ~ (received /\ Useful(rx))
  BY DEF Kept, Useful
<1>7. /\ \A due \in Seq(Owed) : Pending(due) => PendingIn(queue', rx', received', due)
      /\ \A d \in Owed : Front(d) => FrontIn(queue', rx', received', d) /\ ~ u
  BY <1>0, <1>3, <1>6, PendingTaken DEF Pending, Front
<1>8. Due' = Due
  BY <1>3 DEF Due, Spi!Answer, Spi!Event, Spi!Data
<1>9. AllOwed(queue) => AllOwed(queue')
  BY <1>0, <1>3, AllOwedKept, DueFacts
<1>10. queue' \in Seq(Packets)
  BY <1>0, <1>3, HeadTailProperties
<1>11. Kept'
  BY <1>3 DEF Kept
<1>12. /\ Pending(<<>>) => Pending(<<>>)'
       /\ Front(Spi!Data(asked)) => Front(Spi!Data(asked))'
       /\ Owes => Owes'
  BY <1>7, <1>8, DueFacts DEF Pending, Front, Owes, Spi!Data
<1>13. ASSUME Exacting, Owes
       PROVE  ~ u
  <2>1. CASE cmd.op = "RECV_DATA"
    BY <1>7, <1>13, <2>1, DueFacts DEF Owes
  <2>2. CASE cmd.op \in {"START", "PATCH"}
    <3>1. AllOwed(queue) /\ 1 \in 1..Len(queue) /\ Head(queue) = queue[1]
      BY <1>0, <2>2, LenProperties, EmptySeq, HeadTailProperties DEF Silent
    <3>2. QED
      BY <3>1 DEF AllOwed, Loose
  <2>3. QED
    BY <1>13, <2>1, <2>2 DEF Exacting
<1> HIDE DEF u
<1>14. QED
  BY <1>1, <1>3, <1>4, <1>5, <1>9, <1>10, <1>11, <1>12, <1>13

\* SPI_IRQ() reads a packet, called by the interrupt or by the poll.
LEMMA ReadSteps ==
  ASSUME SpiInv,
         \/ Spi!Interrupt /\ spiState = "IDLE"
         \/ Spi!PollServe /\ sawLow /\ intEnabled /\ pinLow
  PROVE  SpiInv'
<1> USE DEF SpiInv
<1>1. /\ Spi!ReadPacket /\ intEnabled /\ spiState = "IDLE" /\ spiPc \notin Down \cup Opening
      /\ ~ First /\ pinLow
      /\ UNCHANGED <<cmd, asked, opcode, sawLow, keepsEdges>>
      /\ (spiPc' = spiPc \/ (spiPc = "serve" /\ spiPc' = "handle"))
      /\ edge' \in {FALSE, edge} /\ ~ edge'
  <2>1. CASE Spi!Interrupt /\ spiState = "IDLE"
    <3>1. Spi!ReadPacket /\ edge /\ intEnabled /\ edge' = FALSE /\ UNCHANGED <<Spi!main, keepsEdges>>
      BY <2>1 DEF Spi!Interrupt, Spi!SPI_IRQ, Spi!WriteInInterrupt, Spi!FirstInterrupt,
                  Spi!OtherInterrupt
    <3>2. spiPc \notin Down \cup Opening /\ ~ First
      BY <2>1, <3>1 DEF Opened, SpiTypes
    <3>3. pinLow
      BY <3>1, <3>2 DEF Line
    <3>4. QED
      BY <2>1, <3>1, <3>2, <3>3 DEF Spi!main
  <2>2. CASE Spi!PollServe /\ sawLow /\ intEnabled /\ pinLow
    <3>1. spiPc = "serve" /\ spiPc' = "handle" /\ Spi!SPI_IRQ /\ spiState = "IDLE" /\ pinLow /\ ~ edge
      BY <2>2 DEF Spi!PollServe, Spi!Goto, Line, Spi!Quiet
    <3>2. Spi!ReadPacket
      BY <3>1 DEF Spi!SPI_IRQ, Spi!WriteInInterrupt, Spi!FirstInterrupt, Spi!OtherInterrupt
    <3>3. QED
      BY <2>2, <3>1, <3>2 DEF Spi!PollServe, Down, Opening, First
  <2>3. QED
    BY <2>1, <2>2
<1>2. queue # <<>>
  BY <1>1 DEF Line
<1>3. /\ rx' \in Packets /\ queue' \in Seq(Packets)
      /\ received' \in BOOLEAN /\ intEnabled' \in BOOLEAN
      /\ UNCHANGED <<waitOp, waitData, spiAnswer, spiState, spiDevice>>
      /\ spiCs' = "high" /\ pinLow' = FALSE /\ Kept' /\ rx' # Spi!Nothing
      /\ (Exacting /\ Owes => ~ intEnabled')
      /\ AllOwed(queue) => AllOwed(queue')
      /\ Pending(<<>>) => Pending(<<>>)'
      /\ Front(Spi!Data(asked)) => Front(Spi!Data(asked))'
      /\ Owes => Owes'
  BY <1>1, <1>2, ReadFacts
<1>4. SpiTypes'
  <2>1. pinLow' \in BOOLEAN
    BY <1>3
  <2>2. edge' \in BOOLEAN
    BY <1>1 DEF SpiTypes
  <2>3. spiPc' \in Stages
    BY <1>1 DEF SpiTypes, Stages
  <2>4. QED
    BY <1>1, <1>3, <2>1, <2>2, <2>3 DEF SpiTypes
<1>5. Opened'
  BY <1>1, <1>3 DEF Opened, Down, Opening, First
<1>6. Line'
  <2>1. spiPc # "claim" /\ spiPc # "attach"
    BY <1>1 DEF Line
  <2>2. QED
    BY <1>1, <1>3, <2>1 DEF Line, Down, Opening, First, Transfers
<1>7. Silent'
  <2>1. AllOwed(queue)' = AllOwed(queue')
    BY DEF AllOwed
  <2>2. QED
    BY <1>1, <1>3, <2>1 DEF Silent, Down, Opening
<1>8. Rests' /\ Called'
  BY <1>1, <1>3 DEF Rests, Called, Resting, Down, Opening
<1>9. Sends'
  BY <1>1, <1>3 DEF Sends, Unsent, Sent, Transfers, Awaits, Patching
<1>10. Handled'
  BY <1>1, <1>2, <1>3 DEF Handled, Awaits, Patching
<1>11. Empty'
  BY <1>1, <1>3 DEF Empty, Exacting, Sends, Sent
<1>12. QED
  BY <1>3, <1>4, <1>5, <1>6, <1>7, <1>8, <1>9, <1>10, <1>11

\* An interrupt or a poll that moves no packet.
LEMMA IdleSteps ==
  ASSUME SpiInv,
         \/ Spi!Interrupt /\ spiState \in {"POWERUP", "INITIALIZED"}
         \/ Spi!PollServe /\ ~ (sawLow /\ intEnabled)
  PROVE  SpiInv'
<1> USE DEF SpiInv
<1>1. /\ Still /\ UNCHANGED <<cmd, asked, sawLow, opcode, waitOp, waitData, pinLow, intEnabled, spiCs>>
      /\ \/ /\ spiPc' = spiPc /\ edge /\ intEnabled /\ edge' = FALSE
            /\ spiState \in {"POWERUP", "INITIALIZED"} /\ spiState' = "INITIALIZED"
         \/ /\ spiPc = "serve" /\ spiPc' = "handle" /\ UNCHANGED <<edge, spiState>>
  <2>1. CASE Spi!Interrupt /\ spiState \in {"POWERUP", "INITIALIZED"}
    BY <2>1 DEF Spi!Interrupt, Spi!SPI_IRQ, Spi!ReadPacket, Spi!WriteInInterrupt,
                Spi!FirstInterrupt, Spi!OtherInterrupt,
                Still, Spi!main, Spi!rxVars, Spi!chip, Spi!link
  <2>2. CASE Spi!PollServe /\ ~ (sawLow /\ intEnabled)
    BY <2>2 DEF Spi!PollServe, Spi!Goto, Still, Spi!link, Spi!rxVars, Spi!chip
  <2>3. QED
    BY <2>1, <2>2
<1>2. /\ Pending(<<>>)' = Pending(<<>>) /\ Front(Spi!Data(asked))' = Front(Spi!Data(asked))
      /\ Owes' = Owes
  BY <1>1, StillKeeps
<1>3. SpiTypes'
  <2>1. edge' \in BOOLEAN
    <3>1. edge' = FALSE \/ edge' = edge
      BY <1>1
    <3>2. QED
      BY <3>1 DEF SpiTypes
  <2>2. QED
    BY <1>1, <2>1 DEF SpiTypes, Stages, Still
<1>4. Opened'
  BY <1>1 DEF Opened, Down, Opening, First, Still
<1>5. Line'
  BY <1>1 DEF Line, Opened, Down, Opening, First, Transfers, Still, SpiTypes, Stages, Resting
<1>6. Kept' /\ Empty' /\ Silent'
  BY <1>1 DEF Kept, Empty, Exacting, Silent, AllOwed, Down, Opening, Still
<1>7. Rests' /\ Called'
  BY <1>1, <1>2 DEF Rests, Called, Resting, Down, Opening, Still
<1>8. Sends'
  <2>1. spiState' = spiState \/ spiPc \notin Transfers
    BY <1>1 DEF Line, Transfers
  <2>2. QED
    BY <1>1, <1>2, <2>1 DEF Sends, Unsent, Sent, Transfers, Awaits, Patching, Still
<1>9. Handled'
  BY <1>1, <1>2 DEF Handled, Awaits, Patching, Still
<1>10. QED
  BY <1>3, <1>4, <1>5, <1>6, <1>7, <1>8, <1>9

\* An unsolicited event was taken after the pin was read: the poll finds nothing.
LEMMA EmptyStep ==
  ASSUME SpiInv, Spi!PollServe, sawLow, intEnabled, ~ pinLow
  PROVE  SpiInv'
<1> USE DEF SpiInv
<1>1. /\ spiPc = "serve" /\ spiPc' = "handle" /\ ~ edge /\ spiState = "IDLE" /\ Spi!SPI_IRQ
      /\ UNCHANGED <<asked, cmd, sawLow, opcode, edge, keepsEdges>>
  BY DEF Spi!PollServe, Spi!Goto, Spi!Quiet, Line
<1>2. /\ rx' = Spi!Nothing /\ received' = TRUE /\ intEnabled' = FALSE /\ spiCs' = "high"
      /\ pinLow' = FALSE /\ queue' = queue
      /\ UNCHANGED <<waitOp, waitData, spiAnswer, spiState, spiDevice>>
  BY <1>1 DEF Spi!SPI_IRQ, Spi!WriteInInterrupt, Spi!FirstInterrupt, Spi!OtherInterrupt,
              Spi!ReadPacket, Spi!NextPacket,
              Spi!SpiTriggerRxProcessing, Spi!Deselect, Spi!IsUnsolicited, Spi!Nothing
<1>3. ~ Exacting
  BY <1>1 DEF Empty
<1>4. Owes'
  <2>1. Owes /\ ~ (received /\ Useful(rx))
    BY <1>1 DEF Sends, Sent, Kept, Useful
  <2>2. Due' = Due
    BY <1>1, <1>2 DEF Due, Spi!Answer, Spi!Event, Spi!Data
  <2>3. ~ (received' /\ Useful(rx')) /\ cmd'.op # "RECV_DATA"
    BY <1>1, <1>2, <1>3 DEF Useful, Exacting
  <2>4. QED
    BY <1>2, <2>1, <2>2, <2>3 DEF Owes, Pending, PendingIn
<1>5. SpiTypes'
  BY <1>1, <1>2 DEF SpiTypes, Stages
<1>6. Opened' /\ Line'
  BY <1>1, <1>2 DEF Opened, Line, Down, Opening, First, Transfers
<1>7. Kept' /\ Empty' /\ Silent'
  BY <1>1, <1>2, <1>3 DEF Kept, Empty, Exacting, Silent, AllOwed, Down, Opening
<1>8. Rests' /\ Called' /\ Handled'
  BY <1>1 DEF Rests, Called, Handled, Resting, Down, Opening
<1>9. Sends'
  BY <1>1, <1>2, <1>4 DEF Sends, Unsent, Sent, Transfers, Awaits, Patching
<1>10. QED
  BY <1>5, <1>6, <1>7, <1>8, <1>9

\* What a call waits for, by its command.
LEMMA DueShape ==
  ASSUME SpiTypes, spiDevice.got = asked, cmd.op # "PATCH" => cmd.n = asked
  PROVE  /\ Due \in Seq(Owed) /\ Due # <<>>
         /\ \/ /\ cmd.op \in {"START", "PATCH"} /\ Tail(Due) = <<>>
               /\ Head(Due).op = "PATCHES_REQ" /\ Head(Due).type = "EVNT"
            \/ cmd.op = "RECV" /\ Head(Due) = Spi!Event("RECV", asked) /\ Tail(Due) = <<Spi!Data(asked)>>
            \/ cmd.op = "RECV_DATA" /\ Head(Due) = Spi!Data(asked) /\ Tail(Due) = <<>>
            \/ /\ cmd.op \notin {"RECV", "RECV_DATA"} /\ Tail(Due) = <<>>
               /\ Head(Due) = Spi!Event(IF cmd.op = "PATCH" THEN "START" ELSE cmd.op, asked)
<1>1. \A e : Head(<<e>>) = e /\ Tail(<<e>>) = <<>>
  OBVIOUS
<1>2. \A e, d : Head(<<e, d>>) = e /\ Tail(<<e, d>>) = <<d>>
  OBVIOUS
<1>3. cmd.n \in Nat
  BY DEF SpiTypes, Commands
<1>4. CASE cmd.op = "RECV_DATA"
  BY <1>1, <1>4, DueFacts DEF Due
<1>5. CASE cmd.op = "RECV"
  <2>1. Due = <<Spi!Event("RECV", asked), Spi!Data(asked)>>
    BY <1>5 DEF Due, Spi!Answer
  <2>2. QED
    BY <1>2, <1>5, <2>1, DueFacts
<1>6. CASE cmd.op = "START"
  <2>1. Due = <<Spi!Event("PATCHES_REQ", 1)>> \/ Due = <<Spi!Event("START", asked)>>
    BY <1>6 DEF Due, Spi!Answer
  <2>2. CASE Due = <<Spi!Event("PATCHES_REQ", 1)>>
    <3>1. Head(Due) = Spi!Event("PATCHES_REQ", 1) /\ Tail(Due) = <<>>
      BY <1>1, <2>2
    <3>2. QED
      BY <1>6, <3>1, DueFacts DEF Spi!Event
  <2>3. CASE Due = <<Spi!Event("START", asked)>>
    <3>1. Head(Due) = Spi!Event("START", asked) /\ Tail(Due) = <<>>
      BY <1>1, <2>3
    <3>2. QED
      BY <1>6, <3>1, DueFacts
  <2>4. QED
    BY <2>1, <2>2, <2>3
<1>7. CASE cmd.op = "PATCH"
  <2>1. Due = <<Spi!Event("PATCHES_REQ", cmd.n + 1)>> \/ Due = <<Spi!Event("START", asked)>>
    BY <1>3, <1>7, LinkAssumption DEF Due, Spi!Answer
  <2>2. CASE Due = <<Spi!Event("PATCHES_REQ", cmd.n + 1)>>
    <3>1. Head(Due) = Spi!Event("PATCHES_REQ", cmd.n + 1) /\ Tail(Due) = <<>>
      BY <1>1, <2>2
    <3>2. QED
      BY <1>7, <3>1, DueFacts DEF Spi!Event
  <2>3. CASE Due = <<Spi!Event("START", asked)>>
    <3>1. Head(Due) = Spi!Event("START", asked) /\ Tail(Due) = <<>>
      BY <1>1, <2>3
    <3>2. QED
      BY <1>7, <3>1, DueFacts
  <2>4. QED
    BY <2>1, <2>2, <2>3
<1>8. CASE cmd.op \notin {"RECV_DATA", "RECV", "START", "PATCH"}
  <2>1. Due = <<Spi!Event(cmd.op, asked)>>
    BY <1>8 DEF Due, Spi!Answer
  <2>2. QED
    BY <1>1, <1>8, <2>1, DueFacts
<1>9. QED
  BY <1>4, <1>5, <1>6, <1>7, <1>8

\* hci_event_handler() handles the packet in the buffer.
LEMMA HandleStep ==
  ASSUME SpiInv, Spi!Handle
  PROVE  SpiInv'
<1> USE DEF SpiInv
<1>1. /\ spiPc = "handle" /\ spiPc' = "handled" /\ received /\ received' = FALSE /\ intEnabled' = TRUE
      /\ opcode' = IF rx.type = "EVNT" THEN rx.op ELSE opcode
      /\ waitOp' = IF rx.op = waitOp THEN "none" ELSE waitOp
      /\ waitData' = IF rx.type = "EVNT" THEN waitData ELSE FALSE
      /\ spiAnswer' = IF rx.op \in {"PATCHES_REQ", "OTHER"} THEN spiAnswer ELSE rx.n
      /\ UNCHANGED <<asked, cmd, sawLow, spiState, spiCs, rx, pinLow, spiDevice, queue, edge, keepsEdges>>
  BY DEF Spi!Handle, Spi!Goto, Spi!WlanInterruptEnable, Spi!chip
<1>2. /\ Owes /\ Pending(Due) /\ spiDevice.got = asked /\ Awaits
      /\ (~ Patching => opcode # "PATCHES_REQ")
      /\ cmd.op # "none" /\ (cmd.op # "PATCH" => cmd.n = asked) /\ cmd.op \in Ops
  BY <1>1 DEF Sends, Sent, Owes, Called, Resting, Down, Opening, SpiTypes, Commands
<1>3. Due' = Due
  BY <1>1 DEF Due, Spi!Answer, Spi!Event, Spi!Data
<1>4. /\ \A due : Carries(queue, due) => PendingIn(queue', rx', received', due)
      /\ \A d : CarriesAt(queue, <<d>>, 0) => FrontIn(queue', rx', received', d)
  BY <1>1 DEF PendingIn, FrontIn
<1>5. Handled'
  <2>1. CASE ~ Useful(rx)
    <3>1. /\ rx = Spi!Nothing => ~ Exacting
          /\ rx # Spi!Nothing => rx.op = "OTHER" /\ rx.type = "EVNT"
      BY <1>1, <2>1 DEF Useful, Empty, SpiTypes, Packets
    <3>2. opcode' # "PATCHES_REQ" /\ waitData' = waitData /\ waitOp' = waitOp
      <4>1. CASE rx = Spi!Nothing
        BY <1>1, <1>2, <3>1, <4>1 DEF Awaits, Spi!Nothing, Exacting, Patching, SpiTypes
      <4>2. CASE rx # Spi!Nothing
        BY <1>1, <1>2, <3>1, <4>2 DEF Awaits, Ops
      <4>3. QED
        BY <4>1, <4>2
    <3>3. Owes'
      <4>1. /\ Carries(queue, Due)
            /\ cmd.op = "RECV_DATA" => CarriesAt(queue, <<Spi!Data(asked)>>, 0)
        BY <1>2, <2>1 DEF Owes, Pending, PendingIn, Front, FrontIn
      <4>2. cmd'.op = "RECV_DATA" => Front(Spi!Data(asked))'
        BY <1>1, <1>4, <4>1 DEF Front, Spi!Data
      <4>3. Pending(Due)'
        BY <1>3, <1>4, <4>1 DEF Pending
      <4>4. QED
        BY <4>2, <4>3 DEF Owes
    <3>4. Awaits'
      <4>1. cmd' = cmd /\ Awaits
        BY <1>1, <1>2
      <4>2. QED
        BY <3>2, <4>1 DEF Awaits
    <3>5. QED
      BY <1>1, <1>2, <3>2, <3>3, <3>4 DEF Handled
  <2>2. CASE Useful(rx)
    <3>1. rx = Head(Due) /\ CarriesAt(queue, Tail(Due), 0) /\ Carries(queue, Tail(Due))
      BY <1>1, <1>2, <2>2 DEF Pending, PendingIn, Carries
    <3>2. \/ /\ cmd.op \in {"START", "PATCH"} /\ Tail(Due) = <<>>
             /\ Head(Due).op = "PATCHES_REQ" /\ Head(Due).type = "EVNT"
          \/ cmd.op = "RECV" /\ Head(Due) = Spi!Event("RECV", asked) /\ Tail(Due) = <<Spi!Data(asked)>>
          \/ cmd.op = "RECV_DATA" /\ Head(Due) = Spi!Data(asked) /\ Tail(Due) = <<>>
          \/ /\ cmd.op \notin {"RECV", "RECV_DATA"} /\ Tail(Due) = <<>>
             /\ Head(Due) = Spi!Event(IF cmd.op = "PATCH" THEN "START" ELSE cmd.op, asked)
      BY <1>2, DueShape
    <3>3. CASE /\ cmd.op \in {"START", "PATCH"} /\ Tail(Due) = <<>>
               /\ rx.op = "PATCHES_REQ" /\ rx.type = "EVNT"
      <4>1. AllOwed(queue) /\ Carries(queue, <<>>)
        BY <3>1, <3>3 DEF Silent
      <4>2. queue = <<>>
        BY <4>1, AllOwedKept, DueFacts DEF SpiTypes
      <4>3. waitOp' = "START" /\ ~ waitData' /\ opcode' = "PATCHES_REQ"
        BY <1>1, <1>2, <3>3 DEF Awaits
      <4>4. QED
        BY <1>1, <1>2, <3>3, <4>2, <4>3 DEF Handled, Patching
    <3>4. CASE cmd.op = "RECV" /\ rx = Spi!Event("RECV", asked) /\ Tail(Due) = <<Spi!Data(asked)>>
      <4>1. Front(Spi!Data(asked))'
        BY <1>1, <1>4, <3>1, <3>4 DEF Front, Spi!Data
      <4>2. waitOp' = "none" /\ ~ waitData' /\ opcode' = "RECV"
        BY <1>1, <1>2, <3>4 DEF Awaits, Spi!Event
      <4>3. QED
        BY <1>1, <1>2, <3>4, <4>1, <4>2 DEF Handled
    <3>5. CASE cmd.op = "RECV_DATA" /\ rx = Spi!Data(asked) /\ Tail(Due) = <<>>
      <4>1. Pending(<<>>)'
        BY <1>1, <1>4, <3>1, <3>5 DEF Pending
      <4>2. /\ waitOp' = "none" /\ ~ waitData' /\ spiAnswer' = asked
            /\ opcode' = opcode /\ opcode # "PATCHES_REQ"
        BY <1>1, <1>2, <3>5 DEF Awaits, Spi!Data, Patching
      <4>3. QED
        BY <1>1, <1>2, <3>5, <4>1, <4>2 DEF Handled
    <3>6. CASE /\ cmd.op \notin {"RECV", "RECV_DATA"} /\ Tail(Due) = <<>>
               /\ rx = Spi!Event(IF cmd.op = "PATCH" THEN "START" ELSE cmd.op, asked)
      <4>1. Pending(<<>>)'
        BY <1>1, <1>4, <3>1, <3>6 DEF Pending
      <4>2. waitOp' = "none" /\ ~ waitData' /\ opcode' # "PATCHES_REQ" /\ spiAnswer' = asked
        BY <1>1, <1>2, <3>6 DEF Awaits, Spi!Event, Ops
      <4>3. QED
        BY <1>1, <1>2, <3>6, <4>1, <4>2 DEF Handled
    <3>7. QED
      BY <3>1, <3>2, <3>3, <3>4, <3>5, <3>6
  <2>3. QED
    BY <2>1, <2>2
<1>6. SpiTypes'
  <2>1. spiAnswer' \in Nat
    <3>1. CASE rx.op \in {"PATCHES_REQ", "OTHER"}
      BY <1>1, <3>1 DEF SpiTypes
    <3>2. CASE rx.op \notin {"PATCHES_REQ", "OTHER"}
      <4>1. rx.n \in Nat
        BY DEF SpiTypes, Packets, Spi!Nothing
      <4>2. QED
        BY <1>1, <3>2, <4>1
    <3>3. QED
      BY <3>1, <3>2
  <2>2. received' \in BOOLEAN /\ intEnabled' \in BOOLEAN
    BY <1>1
  <2>3. waitData' \in BOOLEAN
    BY <1>1 DEF SpiTypes
  <2>4. QED
    BY <1>1, <2>1, <2>2, <2>3 DEF SpiTypes, Stages
<1>7. Opened' /\ Line'
  BY <1>1 DEF Opened, Line, Down, Opening, First, Transfers
<1>8. Kept' /\ Empty' /\ Silent'
  BY <1>1 DEF Kept, Empty, Exacting, Silent, AllOwed, Down, Opening
<1>9. Rests' /\ Called' /\ Sends'
  BY <1>1, <1>2 DEF Rests, Called, Sends, Unsent, Sent, Transfers, Resting, Down, Opening
<1>10. QED
  BY <1>5, <1>6, <1>7, <1>8, <1>9

-----------------------------------------------------------------------------
(* The CC3000 link: the theorems                                             *)

LEMMA SpiInit == Spi!Init => SpiInv
<1> SUFFICES ASSUME Spi!Init PROVE SpiInv
  OBVIOUS
<1>1. /\ spiPc = "off" /\ asked = 0 /\ cmd = [op |-> "none", n |-> 0] /\ sawLow = FALSE
      /\ spiState = "IDLE" /\ intEnabled = FALSE /\ spiCs = "high" /\ rx = Spi!Nothing
      /\ received = FALSE /\ waitOp = "none" /\ waitData = FALSE /\ spiAnswer = 0 /\ edge = FALSE
      /\ queue = <<>> /\ pinLow \in BOOLEAN /\ keepsEdges \in BOOLEAN
      /\ spiDevice = [power |-> FALSE, booted |-> FALSE, up |-> FALSE, got |-> 0, unsol |-> 0]
  BY DEF Spi!Init, Spi!Command
<1>2. queue \in Seq(Packets) /\ AllOwed(queue) /\ Pending(<<>>)
  <2>1. queue \in Seq(Packets) /\ Len(queue) = 0
    BY <1>1
  <2>2. AllOwed(queue) /\ \A k \in 1..Len(queue) : Loose(queue[k])
    BY <2>1 DEF AllOwed
  <2>3. QED
    BY <1>1, <2>1, <2>2, CarriesNothing DEF Pending, PendingIn
<1>3. SpiTypes
  <2>1. cmd \in Commands /\ spiDevice \in Chips
    BY <1>1 DEF Commands, Chips, Ops
  <2>2. QED
    BY <1>1, <1>2, <2>1 DEF SpiTypes, Stages, Resting, Down
<1>4. Opened /\ Line /\ Kept /\ Empty /\ Silent
  BY <1>1, <1>2 DEF Opened, Line, Kept, Empty, Exacting, Silent, Down, Opening, First, Transfers
<1>5. Rests /\ Called /\ Sends /\ Handled
  BY <1>1, <1>2 DEF Rests, Called, Sends, Handled, Unsent, Sent, Transfers, Resting, Down
<1>6. QED
  BY <1>3, <1>4, <1>5 DEF SpiInv

LEMMA SpiStep ==
  ASSUME SpiInv, [Spi!Next]_Spi!vars
  PROVE  SpiInv'
<1>1. CASE UNCHANGED Spi!vars
  <2>1. Due' = Due
    BY <1>1 DEF Spi!vars, Spi!main, Spi!link, Spi!rxVars, Spi!chip, Due, Spi!Answer, Spi!Event,
                Spi!Data
  <2>2. /\ Pending(<<>>)' = Pending(<<>>) /\ Front(Spi!Data(asked))' = Front(Spi!Data(asked))
        /\ Owes' = Owes
    BY <1>1, <2>1 DEF Spi!vars, Spi!main, Spi!link, Spi!rxVars, Spi!chip, Pending, Front, Owes,
                      Spi!Data
  <2> USE <1>1 DEF Spi!vars, Spi!main, Spi!link, Spi!rxVars, Spi!chip
  <2>3. SpiTypes' /\ Opened' /\ Line' /\ Kept' /\ Empty'
    BY DEF SpiInv, SpiTypes, Opened, Line, Kept, Empty, Exacting, First
  <2>4. Silent' /\ Rests' /\ Called'
    BY <2>2 DEF SpiInv, Silent, AllOwed, Rests, Called
  <2>5. Sends'
    BY <2>2 DEF SpiInv, Sends, Unsent, Sent, Awaits, Patching
  <2>6. Handled'
    BY <2>2 DEF SpiInv, Handled, Awaits, Patching
  <2>7. QED
    BY <2>3, <2>4, <2>5, <2>6 DEF SpiInv
<1>2. CASE Spi!Call
  BY <1>2, OpenSteps, StartMoves DEF Spi!Call
<1>3. CASE Spi!PollServe
  BY <1>3, ReadSteps, EmptyStep, IdleSteps
<1>4. CASE Spi!Program /\ ~ Spi!PollServe
  BY <1>4, OpenSteps, StartMoves, AcceptSteps, WriteMoves, ReleaseMove, PollMoves, HandleStep,
     AskingMoves DEF Spi!Program
<1>5. CASE Spi!Interrupt
  <2>1. spiState \in {"IDLE", "WRITE_IRQ", "POWERUP", "INITIALIZED"}
    BY <1>5 DEF Spi!Interrupt, Spi!SPI_IRQ, Spi!ReadPacket, Spi!FirstInterrupt,
                Spi!WriteInInterrupt, Spi!OtherInterrupt
  <2>2. QED
    BY <1>5, <2>1, ReadSteps, IdleSteps, AcceptSteps
<1>6. CASE Spi!Device \/ Spi!Unsolicited
  BY <1>6, DeviceMoves, UnsolicitedStep DEF Spi!Device
<1>7. QED
  BY <1>1, <1>2, <1>3, <1>4, <1>5, <1>6 DEF Spi!Next

\* A packet that some call waits for is not overwritten: SpiTriggerRxProcessing
\* keeps SPI_IRQ() detached until hci_event_handler() is through with the one
\* receive buffer, and the device is silent while a patch request is read again.
THEOREM PacketIsKeptAlways == Spi!Spec => PacketIsKept
<1>1. SpiInv /\ [Spi!Next]_Spi!vars => [rx' # rx => spiPc = "off" \/ ~Spi!Wanted]_Spi!vars
  <2> SUFFICES ASSUME SpiInv, Spi!Next, rx' # rx, spiPc # "off", Spi!Wanted
               PROVE  FALSE
    OBVIOUS
  <2> USE DEF SpiInv
  <2>1. Spi!ReadPacket /\ intEnabled /\ spiState = "IDLE"
        /\ (Spi!Interrupt \/ (Spi!PollServe /\ sawLow))
    <3>1. CASE Spi!Interrupt
      BY <3>1 DEF Spi!Interrupt, Spi!SPI_IRQ, Spi!WriteInInterrupt, Spi!FirstInterrupt,
                  Spi!OtherInterrupt, Spi!rxVars, Spi!ReadPacket
    <3>2. CASE Spi!PollServe
      BY <3>2 DEF Spi!PollServe, Spi!SPI_IRQ, Spi!WriteInInterrupt, Spi!FirstInterrupt,
                  Spi!OtherInterrupt, Spi!rxVars, Spi!ReadPacket
    <3>3. CASE Spi!Call \/ (Spi!Program /\ ~ Spi!PollServe) \/ Spi!Device \/ Spi!Unsolicited
      BY <3>3 DEF Spi!Call, Spi!Program, Spi!Device, Spi!StartOpen, Spi!Stop, Spi!Ready,
                  Spi!StartEnable, Spi!StartSawHigh, Spi!StartSawLow,
        Spi!StartBufferSize, Spi!SpiClose, Spi!SpiFirstWrite, Spi!WriteBegin, Spi!WriteClaim,
        Spi!WriteAttach, Spi!WriteCheck,
        Spi!WriteTransfer, Spi!WriteRelease, Spi!WaitEvent, Spi!PollPin, Spi!PollAgain, Spi!Handle,
        Spi!PatchRequest,
        Spi!KeepWaiting, Spi!EventDone, Spi!WaitData, Spi!Boot, Spi!RaiseLine, Spi!PullLine,
        Spi!Unsolicited, Spi!rxVars, Spi!Goto
    <3>4. QED
      BY <3>1, <3>2, <3>3 DEF Spi!Next
  <2>2. spiPc = "handled" /\ Spi!AskedForPatch
    BY <2>1 DEF Spi!Wanted, Kept
  <2>3. queue = <<>>
    BY <2>2 DEF Handled, Spi!AskedForPatch
  <2>4. Spi!Interrupt /\ edge
    BY <2>1, <2>2 DEF Spi!PollServe, Spi!Goto, Spi!Interrupt
  <2>5. QED
    BY <2>1, <2>2, <2>3, <2>4 DEF Line, Down, Opening, First
<1>2. QED
  BY <1>1, SpiInit, SpiStep, PTL DEF Spi!Spec, PacketIsKept, Spi!PacketIsKept

\* The link implements HciExchange: whether SPI_IRQ(), the check in SpiWrite()
\* for a missed interrupt or the poll moves a packet, it reaches the device
\* exactly once and the call returns with the answer to it.
THEOREM ImplementsExchangeAlways == Spi!Spec => ImplementsExchange
<1>1. Spi!Init => Spi!Exchange!Init
  BY DEF Spi!Init, Spi!Exchange!Init, Spi!Returned
<1>2. SpiInv /\ SpiInv' /\ [Spi!Next]_Spi!vars =>
        [Spi!Exchange!Ask \/ Spi!Exchange!Arrive \/ Spi!Exchange!Return]_Spi!Exchange!vars
  <2> SUFFICES ASSUME SpiInv, SpiInv', [Spi!Next]_Spi!vars
               PROVE  [Spi!Exchange!Ask \/ Spi!Exchange!Arrive \/ Spi!Exchange!Return]_Spi!Exchange!vars
    OBVIOUS
  <2> USE DEF SpiInv
  <2>0. Spi!Returned = IF spiPc \in Resting THEN spiAnswer ELSE asked - 1
    BY DEF Spi!Returned, Resting, Down, Opening
  <2>00. Spi!Returned' = IF spiPc' \in Resting THEN spiAnswer' ELSE asked' - 1
    BY DEF Spi!Returned, Resting, Down, Opening
  <2>1. CASE Spi!StartSawLow \/ Spi!StartBufferSize \/ Spi!Ready("COMMAND") \/ Spi!Ready("RECV")
    <3>1. /\ asked' = asked + 1 /\ UNCHANGED spiDevice /\ spiPc' = "write" /\ spiPc \in Resting
      BY <2>1 DEF Spi!StartSawLow, Spi!StartBufferSize, Spi!Ready, Spi!Ask, Spi!Goto, Spi!chip,
                  Resting, Opening
    <3>2. asked = Spi!Returned /\ Spi!Returned' = asked
      BY <2>0, <2>00, <3>1 DEF Rests, Resting, Down, Opening, SpiTypes
    <3>3. QED
      BY <3>1, <3>2 DEF Spi!Exchange!Ask, Rests
  <2>2. CASE Spi!EventDone
    <3>1. /\ spiPc = "handled" /\ spiPc' \in Resting /\ UNCHANGED <<asked, spiDevice, spiAnswer>>
      BY <2>2 DEF Spi!EventDone, Spi!Goto, Spi!rxVars, Spi!chip, Resting
    <3>2. spiAnswer' = asked /\ spiDevice.got = asked
      BY <3>1 DEF Rests, Handled
    <3>3. Spi!Returned' = asked /\ Spi!Returned = asked - 1 /\ asked \in Nat
      BY <2>0, <2>00, <3>1, <3>2 DEF Resting, Down, Opening, SpiTypes
    <3>4. QED
      BY <3>1, <3>2, <3>3 DEF Spi!Exchange!Return
  <2>3. CASE Spi!Accepts(cmd) /\ Unsent /\ (Spi!SpiFirstWrite \/ Spi!WriteTransfer \/ Spi!Interrupt)
    <3>1. /\ spiPc \notin Resting /\ spiPc' \notin Resting /\ UNCHANGED asked
      BY <2>3 DEF Spi!SpiFirstWrite, Spi!WriteTransfer, Spi!Interrupt, Spi!main, Spi!Goto, Unsent,
                  Transfers, Resting, Down, Opening
    <3>2. /\ spiDevice.got = IF cmd.op = "PATCH" THEN asked ELSE asked - 1
          /\ spiDevice'.got = IF cmd.op = "PATCH" THEN spiDevice.got ELSE spiDevice.got + 1
      BY <2>3 DEF Spi!Accepts, Sends, SpiTypes, Chips
    <3>3. asked \in Nat \ {0}
      BY <3>1 DEF Called, SpiTypes
    <3>4. QED
      BY <2>0, <2>00, <3>1, <3>2, <3>3 DEF Spi!Exchange!Arrive, Spi!Exchange!vars
  <2>4. CASE /\ spiPc \in Resting <=> spiPc' \in Resting
             /\ asked' = asked /\ spiDevice'.got = spiDevice.got
             /\ spiPc \in Resting => spiAnswer' = spiAnswer
    BY <2>0, <2>00, <2>4 DEF Spi!Exchange!vars
  <2>5. CASE UNCHANGED Spi!vars
    BY <2>4, <2>5 DEF Spi!vars, Spi!main, Spi!rxVars, Spi!chip
  <2>6. CASE Spi!StartOpen \/ Spi!StartEnable \/ Spi!Stop
    BY <2>4, <2>6 DEF Spi!StartOpen, Spi!StartEnable, Spi!Stop, Spi!Goto, Spi!rxVars, Spi!chip,
                      Resting, Down, Opening,
                      SpiTypes, Chips
  <2>7. CASE \/ Spi!StartSawHigh \/ Spi!SpiClose \/ Spi!WriteBegin
             \/ Spi!WriteClaim \/ Spi!WriteAttach \/ Spi!WriteCheck
             \/ Spi!WriteRelease \/ Spi!WaitEvent \/ Spi!PollPin \/ Spi!PollAgain \/ Spi!Handle
             \/ Spi!PatchRequest \/ Spi!KeepWaiting \/ Spi!WaitData
    <3>1. UNCHANGED <<asked, spiDevice>>
      BY <2>7 DEF Spi!StartSawHigh, Spi!SpiClose, Spi!WriteBegin, Spi!WriteClaim, Spi!WriteAttach,
                  Spi!WriteCheck,
                  Spi!WriteRelease, Spi!WaitEvent, Spi!PollPin, Spi!PollAgain, Spi!Handle,
                  Spi!PatchRequest,
                  Spi!KeepWaiting, Spi!WaitData, Spi!chip
    <3>2. /\ spiPc \in Resting <=> spiPc' \in Resting
          /\ spiPc \in Resting => spiAnswer' = spiAnswer
      BY <2>7 DEF Spi!StartSawHigh, Spi!SpiClose, Spi!WriteBegin, Spi!WriteClaim, Spi!WriteAttach,
                  Spi!WriteCheck,
                  Spi!WriteRelease, Spi!WaitEvent, Spi!PollPin, Spi!PollAgain, Spi!Handle,
                  Spi!PatchRequest,
                  Spi!KeepWaiting, Spi!WaitData, Spi!Goto, Spi!rxVars, Resting, Down, Opening
    <3>3. QED
      BY <2>4, <3>1, <3>2
  <2>8. CASE Spi!SpiFirstWrite
    BY <2>3, <2>8 DEF Spi!SpiFirstWrite, Spi!Goto, Unsent
  <2>9. CASE Spi!WriteTransfer
    <3>1. CASE spiCs = "low"
      BY <2>3, <2>9, <3>1 DEF Spi!WriteTransfer, Spi!Goto, Unsent, Transfers, Line
    <3>2. CASE spiCs # "low"
      BY <2>4, <2>9, <3>2 DEF Spi!WriteTransfer, Spi!Goto, Spi!rxVars, Resting, Down, Opening
    <3>3. QED
      BY <3>1, <3>2
  <2>10. CASE Spi!PollServe
    <3>1. spiPc = "serve" /\ spiPc' = "handle" /\ asked' = asked
      BY <2>10 DEF Spi!PollServe, Spi!Goto
    <3>2. spiDevice' = spiDevice
      BY <2>10, <3>1 DEF Spi!PollServe, Spi!SPI_IRQ, Spi!ReadPacket, Spi!FirstInterrupt,
                         Spi!WriteInInterrupt,
                         Spi!OtherInterrupt, Spi!chip, Line
    <3>3. QED
      BY <2>4, <3>1, <3>2 DEF Resting, Down, Opening
  <2>11. CASE Spi!Interrupt
    <3>1. CASE spiState = "WRITE_IRQ"
      <4>1. Spi!WriteInInterrupt /\ spiPc \in {"check", "transfer", "written"}
        BY <2>11, <3>1, InterruptWrites
      <4>2. Spi!Accepts(cmd) /\ Unsent
        BY <3>1, <4>1 DEF Spi!WriteInInterrupt, Unsent, Transfers
      <4>3. QED
        BY <2>3, <2>11, <4>2
    <3>2. CASE spiState # "WRITE_IRQ"
      BY <2>4, <2>11, <3>2 DEF Spi!Interrupt, Spi!SPI_IRQ, Spi!ReadPacket, Spi!FirstInterrupt,
                               Spi!WriteInInterrupt,
         Spi!OtherInterrupt, Spi!SpiTriggerRxProcessing, Spi!main, Spi!rxVars, Spi!chip
    <3>3. QED
      BY <3>1, <3>2
  <2>12. CASE Spi!Device \/ Spi!Unsolicited
    <3>1. UNCHANGED <<Spi!main, Spi!rxVars>>
      BY <2>12 DEF Spi!Device, Spi!Boot, Spi!RaiseLine, Spi!PullLine, Spi!Unsolicited
    <3>2. spiDevice'.got = spiDevice.got
      BY <2>12 DEF Spi!Device, Spi!Boot, Spi!RaiseLine, Spi!PullLine, Spi!Unsolicited, SpiTypes,
                   Chips
    <3>3. QED
      BY <2>4, <3>1, <3>2 DEF Spi!main, Spi!rxVars
  <2>13. QED
    BY <2>1, <2>2, <2>5, <2>6, <2>7, <2>8, <2>9, <2>10, <2>11, <2>12
       DEF Spi!Next, Spi!Call, Spi!Program
<1>3. QED
  BY <1>1, <1>2, SpiInit, SpiStep, PTL DEF Spi!Spec, ImplementsExchange, Spi!ImplementsExchange,
                                           Spi!Exchange!Spec

-----------------------------------------------------------------------------
(* The motor shield: the inductive invariant                                 *)

Styles == {"SINGLE", "DOUBLE", "INTERLEAVE", "MICROSTEP"}
Positions == 0..63

\* A stepper that has current points to its position. Positions between two half
\* steps are left before a call of step() ends, because the second loop of a
\* microstepping call goes on to 0 or 16.
Pointing ==
  \A p \in Steppers : Motor!Powered(p) => Motor!FieldOf(p) = currentstep[p]
HalfSteps ==
  /\ stepping = Motor!Idle \/ stepping \in
       [port : Steppers, dir : {1, -1}, style : Styles, left : Nat, ret : Positions]
  /\ \A p \in Steppers : p # stepping.port => currentstep[p] % 8 = 0
  /\ stepping # Motor!Idle =>
       \/ currentstep[stepping.port] % 8 = 0
       \/ stepping.style = "MICROSTEP" /\ stepping.ret = currentstep[stepping.port]
MotorInv ==
  /\ currentstep \in [Steppers -> Positions] /\ pwm \in [1..4 -> 0..16]
  /\ Pointing /\ HalfSteps

-----------------------------------------------------------------------------
(* The motor shield: coils and positions                                     *)

\* Where a step goes to.
LEMMA NextStepFacts ==
  ASSUME NEW c \in Positions, NEW dir \in {1, -1}, NEW style \in Styles
  PROVE  /\ Motor!NextStep(c, dir, style) \in Positions
         /\ (dir * (Motor!NextStep(c, dir, style) - c)) % 64 \in 1..16
         /\ style # "MICROSTEP" /\ c % 8 = 0 => Motor!NextStep(c, dir, style) % 8 = 0
<1> DEFINE a == Motor!Advance(c, style)
<1>1. a \in {1, 8, 16} /\ (style # "MICROSTEP" => a \in {8, 16})
  BY DEF Motor!Advance, Motor!MICROSTEPS, Styles
<1>2. Motor!NextStep(c, dir, style) = (c + dir * a) % 64
  BY DEF Motor!NextStep, Motor!Circle, Motor!MICROSTEPS
<1> HIDE DEF a
<1> DEFINE x == Motor!NextStep(c, dir, style)
<1>3. x \in Positions /\ (dir * (x - c) = a \/ dir * (x - c) = a - 64)
  <2>1. CASE dir = 1
    <3>1. x = IF c + a < 64 THEN c + a ELSE c + a - 64
      BY <1>1, <1>2, <2>1 DEF Positions
    <3>2. QED
      BY <1>1, <2>1, <3>1 DEF Positions
  <2>2. CASE dir = -1
    <3>1. x = IF c >= a THEN c - a ELSE c - a + 64
      BY <1>1, <1>2, <2>2 DEF Positions
    <3>2. QED
      BY <1>1, <2>2, <3>1 DEF Positions
  <2>3. QED
    BY <2>1, <2>2
<1>4. (dir * (x - c)) % 64 = a
  <2> DEFINE turn == dir * (x - c)
  <2>1. turn = a \/ turn = a - 64
    BY <1>3
  <2> HIDE DEF turn
  <2>2. turn % 64 = a
    BY <1>1, <2>1
  <2>3. QED
    BY <2>2 DEF turn
<1>5. style # "MICROSTEP" /\ c % 8 = 0 => x % 8 = 0
  <2> SUFFICES ASSUME style # "MICROSTEP", c % 8 = 0 PROVE x % 8 = 0
    OBVIOUS
  <2>1. x = c + dir * a \/ x = c + dir * a - 64 \/ x = c + dir * a + 64
    <3> HIDE DEF x
    <3>1. CASE dir = 1
      BY <1>1, <1>3, <3>1 DEF Positions
    <3>2. CASE dir = -1
      BY <1>1, <1>3, <3>2 DEF Positions
    <3>3. QED
      BY <3>1, <3>2
  <2>2. dir * a \in {8, 16, -8, -16}
    BY <1>1
  <2> HIDE DEF x
  <2>3. QED
    BY <2>1, <2>2 DEF Positions
<1>6. QED
  BY <1>1, <1>3, <1>4, <1>5

\* The field of a port is made by its own coils and duties.
LEMMA FieldByCoils ==
  ASSUME NEW p \in Steppers,
         \A b \in Motor!CoilBits(p) : b \in latch' <=> b \in latch,
         pwm'[Motor!FirstMotor(p)] = pwm[Motor!FirstMotor(p)],
         pwm'[Motor!FirstMotor(p) + 1] = pwm[Motor!FirstMotor(p) + 1]
  PROVE  /\ Motor!FieldOf(p)' = Motor!FieldOf(p)
         /\ Motor!Powered(p)' <=> Motor!Powered(p)
<1> DEFINE m == Motor!FirstMotor(p)
<1>1. m \in Nat /\ m' = m
  BY ShieldAssumption DEF Motor!FirstMotor
<1>2. Motor!CoilBits(p) = {Motor!Bit(m, "A"), Motor!Bit(m + 1, "A"), Motor!Bit(m, "B"), Motor!Bit(m + 1, "B")}
  BY DEF Motor!CoilBits, Motor!Coils
<1>3. Motor!Current(m)' = Motor!Current(m) /\ Motor!Current(m + 1)' = Motor!Current(m + 1)
  BY <1>2 DEF Motor!Current, Motor!Bit
<1>4. QED
  BY <1>1, <1>2, <1>3 DEF Motor!FieldOf, Motor!Powered, Motor!Bit, Motor!CoilBits, Motor!Coils

\* A step leaves the stepper pointing to its new position.
LEMMA FieldOfStep ==
  ASSUME NEW p \in Steppers, NEW c \in Positions, NEW style \in Styles,
         style # "MICROSTEP" => c % 8 = 0,
         pwm'[Motor!FirstMotor(p)] = Motor!Duty(c, style)[1],
         pwm'[Motor!FirstMotor(p) + 1] = Motor!Duty(c, style)[2],
         latch' = (latch \ Motor!CoilBits(p)) \union
                  {Motor!Coils(p)[i] : i \in Motor!Energised(c, style)}
  PROVE  Motor!FieldOf(p)' = c /\ Motor!Powered(p)'
<1> DEFINE m == Motor!FirstMotor(p)
           On == Motor!Energised(c, style)
           Sign(i, j) == (IF i \in On THEN 1 ELSE 0) - (IF j \in On THEN 1 ELSE 0)
<1>1. m \in Nat /\ m' = m
  BY ShieldAssumption DEF Motor!FirstMotor
<1>2. On \subseteq {1, 2, 3, 4}
  BY DEF Motor!Energised, Motor!HalfStep, Motor!MICROSTEPS, Positions
<1>3. /\ Motor!Coils(p) = <<Motor!Bit(m, "A"), Motor!Bit(m + 1, "A"),
                           Motor!Bit(m, "B"), Motor!Bit(m + 1, "B")>>
      /\ Motor!CoilBits(p) = {Motor!Bit(m, "A"), Motor!Bit(m + 1, "A"),
                              Motor!Bit(m, "B"), Motor!Bit(m + 1, "B")}
  BY DEF Motor!CoilBits, Motor!Coils
<1> HIDE DEF m, On
<1>4. /\ Motor!Bit(m, "A") \in latch' <=> 1 \in On
      /\ Motor!Bit(m + 1, "A") \in latch' <=> 2 \in On
      /\ Motor!Bit(m, "B") \in latch' <=> 3 \in On
      /\ Motor!Bit(m + 1, "B") \in latch' <=> 4 \in On
  <2>1. latch' = (latch \ Motor!CoilBits(p)) \union {Motor!Coils(p)[i] : i \in On}
    BY DEF On
  <2>2. \A b \in Motor!CoilBits(p) : b \in latch' <=> \E i \in On : b = Motor!Coils(p)[i]
    BY <2>1
  <2>3. \A i, j \in {1, 2, 3, 4} : Motor!Coils(p)[i] = Motor!Coils(p)[j] => i = j
    BY <1>1, <1>3 DEF Motor!Bit
  <2>4. \A i \in {1, 2, 3, 4} : Motor!Coils(p)[i] \in Motor!CoilBits(p)
    BY <1>3
  <2>5. \A i \in {1, 2, 3, 4} : Motor!Coils(p)[i] \in latch' <=> i \in On
    BY <1>2, <2>2, <2>3, <2>4
  <2>6. /\ Motor!Bit(m, "A") = Motor!Coils(p)[1] /\ Motor!Bit(m + 1, "A") = Motor!Coils(p)[2]
        /\ Motor!Bit(m, "B") = Motor!Coils(p)[3] /\ Motor!Bit(m + 1, "B") = Motor!Coils(p)[4]
    BY <1>3
  <2>7. QED
    BY <2>5, <2>6
<1>5. /\ Motor!Current(m)' = pwm'[m] * Sign(1, 3)
      /\ Motor!Current(m + 1)' = pwm'[m + 1] * Sign(2, 4)
  BY <1>1, <1>4 DEF Motor!Current, Motor!Bit
<1> DEFINE x == Motor!Current(m)'
           y == Motor!Current(m + 1)'
           q == c \div 16
           k == c % 16
<1>6. q \in 0..3 /\ k \in 0..15 /\ c = 16 * q + k
  BY DEF Positions
<1> HIDE DEF q, k
<1>7. /\ On = {q + 1} \union (IF style = "MICROSTEP" \/ k >= 8 THEN {((q + 1) % 4) + 1} ELSE {})
      /\ pwm'[m] = IF style # "MICROSTEP" THEN 16 ELSE IF q \in {0, 2} THEN 16 - k ELSE k
      /\ pwm'[m + 1] = IF style # "MICROSTEP" THEN 16 ELSE IF q \in {0, 2} THEN k ELSE 16 - k
      /\ style # "MICROSTEP" => k \in {0, 8}
  <2>1. /\ (c \div 8) \div 2 = q /\ ((c \div 8) % 2 = 1 <=> k >= 8)
        /\ (q % 2 = 0 <=> q \in {0, 2}) /\ (c % 8 = 0 => k \in {0, 8})
    BY <1>6 DEF Positions
  <2>2. On = {q + 1} \union (IF style = "MICROSTEP" \/ k >= 8 THEN {((q + 1) % 4) + 1} ELSE {})
    BY <2>1 DEF On, Motor!Energised, Motor!HalfStep, Motor!MICROSTEPS
  <2>3. Motor!Duty(c, style) = IF style # "MICROSTEP" THEN <<16, 16>>
                               ELSE IF q \in {0, 2} THEN <<16 - k, k>> ELSE <<k, 16 - k>>
    BY <2>1 DEF Motor!Duty, Motor!MICROSTEPS, q, k
  <2>4. QED
    BY <2>1, <2>2, <2>3 DEF m
<1> DEFINE u == IF style = "MICROSTEP" THEN 16 - k ELSE 16
           v == IF style = "MICROSTEP" THEN k ELSE IF k = 8 THEN 16 ELSE 0
<1>8. /\ u \in 1..16 /\ v \in 0..16
      /\ (16 * v) \div (u + v) = k
  <2>1. CASE style = "MICROSTEP"
    BY <1>6, <2>1
  <2>2. CASE style # "MICROSTEP"
    BY <1>6, <1>7, <2>2
  <2>3. QED
    BY <2>1, <2>2
<1>9. \/ q = 0 /\ x = u /\ y = v
      \/ q = 1 /\ y = u /\ x = -v
      \/ q = 2 /\ x = -u /\ y = -v
      \/ q = 3 /\ y = -u /\ x = v
  <2>1. CASE q = 0
    BY <1>5, <1>6, <1>7, <2>1
  <2>2. CASE q = 1
    BY <1>5, <1>6, <1>7, <2>2
  <2>3. CASE q = 2
    BY <1>5, <1>6, <1>7, <2>3
  <2>4. CASE q = 3
    BY <1>5, <1>6, <1>7, <2>4
  <2>5. QED
    BY <1>6, <2>1, <2>2, <2>3, <2>4
<1>10. Motor!FieldOf(p)' = c
  <2> HIDE DEF x, y, u, v
  <2>1. Motor!FieldOf(p)' =
          LET quadrant == CASE x > 0 /\ y >= 0 -> 0
                            [] x <= 0 /\ y > 0 -> 1
                            [] x < 0 /\ y <= 0 -> 2
                            [] OTHER -> 3
              part == IF quadrant % 2 = 0 THEN Motor!Magnitude(y) ELSE Motor!Magnitude(x)
          IN quadrant * 16 + (16 * part) \div (Motor!Magnitude(x) + Motor!Magnitude(y))
    BY DEF Motor!FieldOf, Motor!MICROSTEPS, x, y, m
  <2>2. CASE q = 0
    BY <1>6, <1>8, <1>9, <2>1, <2>2 DEF Motor!Magnitude
  <2>3. CASE q = 1
    BY <1>6, <1>8, <1>9, <2>1, <2>3 DEF Motor!Magnitude
  <2>4. CASE q = 2
    BY <1>6, <1>8, <1>9, <2>1, <2>4 DEF Motor!Magnitude
  <2>5. CASE q = 3
    BY <1>6, <1>8, <1>9, <2>1, <2>5 DEF Motor!Magnitude
  <2>6. QED
    BY <1>6, <2>2, <2>3, <2>4, <2>5
<1>11. Motor!Powered(p)'
  <2>1. \E b \in Motor!CoilBits(p) : b \in latch' /\ pwm'[b.motor] > 0
    <3>1. CASE q \in {0, 2}
      <4>1. pwm'[m] > 0 /\ (1 \in On \/ 3 \in On)
        BY <1>6, <1>7, <3>1
      <4>2. QED
        BY <1>3, <1>4, <4>1 DEF Motor!Bit
    <3>2. CASE q \in {1, 3}
      <4>1. pwm'[m + 1] > 0 /\ (2 \in On \/ 4 \in On)
        BY <1>6, <1>7, <3>2
      <4>2. QED
        BY <1>3, <1>4, <4>1 DEF Motor!Bit
    <3>3. QED
      BY <1>6, <3>1, <3>2
  <2>2. QED
    BY <2>1 DEF Motor!Powered, Motor!CoilBits, Motor!Coils, Motor!Bit, Motor!FirstMotor
<1>12. QED
  BY <1>10, <1>11

-----------------------------------------------------------------------------
(* The motor shield: the steps and the theorem                               *)

\* The ports have different motors and coils.
LEMMA PortsApart ==
  ASSUME NEW p \in Steppers
  PROVE  /\ Motor!FirstMotor(p) \in 1..3 /\ Motor!FirstMotor(p) + 1 \in 1..4
         /\ \A r \in Steppers \ {p} :
              /\ Motor!CoilBits(r) \cap Motor!CoilBits(p) = {}
              /\ {Motor!FirstMotor(r), Motor!FirstMotor(r) + 1}
                   \cap {Motor!FirstMotor(p), Motor!FirstMotor(p) + 1} = {}
         /\ \A m \in 1..4 : (m + 1) \div 2 # p <=>
              m \notin {Motor!FirstMotor(p), Motor!FirstMotor(p) + 1}
<1>1. p \in {1, 2} /\ \A r \in Steppers \ {p} : r \in {1, 2} \ {p}
  BY ShieldAssumption
<1>2. \A r \in {1, 2} :
        /\ Motor!FirstMotor(r) = 2 * r - 1
        /\ \A b \in Motor!CoilBits(r) : b.motor \in {2 * r - 1, 2 * r}
  BY DEF Motor!FirstMotor, Motor!CoilBits, Motor!Coils, Motor!Bit
<1>3. \A r \in Steppers \ {p} : Motor!CoilBits(r) \cap Motor!CoilBits(p) = {}
  <2> SUFFICES ASSUME NEW r \in Steppers \ {p}, NEW b \in Motor!CoilBits(r) \cap Motor!CoilBits(p)
               PROVE  FALSE
    OBVIOUS
  <2>1. b.motor \in {2 * r - 1, 2 * r} /\ b.motor \in {2 * p - 1, 2 * p}
    BY <1>1, <1>2
  <2>2. QED
    BY <1>1, <2>1
<1>4. \A m \in 1..4 : (m + 1) \div 2 # p <=> m \notin {2 * p - 1, 2 * p}
  BY <1>1
<1>5. QED
  BY <1>1, <1>2, <1>3, <1>4

\* A step of one port.
LEMMA StepOnFacts ==
  ASSUME MotorInv, NEW p \in Steppers, Motor!StepOn(p)
  PROVE  LET c == Motor!NextStep(currentstep[p], stepping.dir, stepping.style)
         IN /\ stepping # Motor!Idle /\ stepping.port = p
            /\ c \in Positions /\ (stepping.dir * (c - currentstep[p])) % 64 \in 1..16
            /\ currentstep' = [currentstep EXCEPT ![p] = c]
            /\ \E left \in Nat : stepping' = [stepping EXCEPT !.ret = c, !.left = left]
            /\ stepping.style # "MICROSTEP" => c % 8 = 0
            /\ Motor!FieldOf(p)' = c /\ Motor!Powered(p)'
            /\ pwm' \in [1..4 -> 0..16]
            /\ latch' \ Motor!CoilBits(p) = latch \ Motor!CoilBits(p)
            /\ \A m \in 1..4 : (m + 1) \div 2 # p => pwm'[m] = pwm[m]
<1> DEFINE c == Motor!NextStep(currentstep[p], stepping.dir, stepping.style)
           duty == Motor!Duty(c, stepping.style)
           m1 == Motor!FirstMotor(p)
<1>1. /\ stepping.port = p /\ currentstep' = [currentstep EXCEPT ![p] = c]
      /\ pwm' = [pwm EXCEPT ![m1] = duty[1], ![m1 + 1] = duty[2]]
      /\ latch' = (latch \ Motor!CoilBits(p)) \union
                  {Motor!Coils(p)[i] : i \in Motor!Energised(c, stepping.style)}
      /\ stepping' = [stepping EXCEPT !.ret = c, !.left = IF @ > 0 THEN @ - 1 ELSE 0]
  BY DEF Motor!StepOn, Motor!onestep
<1>2. /\ stepping # Motor!Idle
      /\ stepping \in [port : Steppers, dir : {1, -1}, style : Styles, left : Nat, ret : Positions]
  BY <1>1, ShieldAssumption DEF MotorInv, HalfSteps, Motor!Idle
<1>3. /\ currentstep[p] \in Positions /\ stepping.dir \in {1, -1} /\ stepping.style \in Styles
      /\ stepping.style # "MICROSTEP" => currentstep[p] % 8 = 0
  BY <1>1, <1>2 DEF MotorInv, HalfSteps
<1>4. /\ c \in Positions /\ (stepping.dir * (c - currentstep[p])) % 64 \in 1..16
      /\ stepping.style # "MICROSTEP" => c % 8 = 0
  BY <1>3, NextStepFacts
<1> HIDE DEF c
<1>5. duty[1] \in 0..16 /\ duty[2] \in 0..16
  BY <1>4 DEF Motor!Duty, Motor!MICROSTEPS, Positions
<1>6. m1 \in 1..4 /\ m1 + 1 \in 1..4 /\ m1 # m1 + 1
  BY PortsApart
<1> HIDE DEF duty, m1
<1>7. /\ pwm' \in [1..4 -> 0..16] /\ pwm'[m1] = duty[1] /\ pwm'[m1 + 1] = duty[2]
      /\ \A m \in 1..4 : m \notin {m1, m1 + 1} => pwm'[m] = pwm[m]
  BY <1>1, <1>5, <1>6 DEF MotorInv
<1>8. Motor!FieldOf(p)' = c /\ Motor!Powered(p)'
  BY <1>1, <1>3, <1>4, <1>7, FieldOfStep DEF duty, m1
<1>9. latch' \ Motor!CoilBits(p) = latch \ Motor!CoilBits(p)
  <2>1. Motor!Energised(c, stepping.style) \subseteq 1..4
    BY <1>4 DEF Motor!Energised, Motor!HalfStep, Motor!MICROSTEPS, Positions
  <2>2. {Motor!Coils(p)[i] : i \in Motor!Energised(c, stepping.style)} \subseteq Motor!CoilBits(p)
    BY <2>1 DEF Motor!CoilBits
  <2>3. QED
    BY <1>1, <2>2
<1>10. \A m \in 1..4 : (m + 1) \div 2 # p => pwm'[m] = pwm[m]
  BY <1>7, PortsApart DEF m1
<1>11. \E left \in Nat : stepping' = [stepping EXCEPT !.ret = c, !.left = left]
  <2> DEFINE left == IF stepping.left > 0 THEN stepping.left - 1 ELSE 0
  <2>1. left \in Nat
    BY <1>2
  <2>2. stepping' = [stepping EXCEPT !.ret = c, !.left = left]
    BY <1>1
  <2>3. QED
    BY <2>1, <2>2
<1>12. QED
  BY <1>1, <1>2, <1>4, <1>7, <1>8, <1>9, <1>10, <1>11 DEF c

LEMMA MotorInit == Motor!Init => MotorInv
<1> SUFFICES ASSUME Motor!Init PROVE MotorInv
  OBVIOUS
<1>1. /\ latch = {} /\ stepping = Motor!Idle /\ currentstep = [p \in Steppers |-> 0]
      /\ pwm = [m \in 1..4 |-> IF m \in Motor!DcMotors THEN 0 ELSE 16]
  BY DEF Motor!Init, Motor!MICROSTEPS
<1>2. pwm \in [1..4 -> 0..16] /\ currentstep \in [Steppers -> Positions]
  BY <1>1 DEF Positions
<1>3. Pointing
  BY <1>1 DEF Pointing, Motor!Powered
<1>4. HalfSteps
  BY <1>1 DEF HalfSteps
<1>5. QED
  BY <1>2, <1>3, <1>4 DEF MotorInv

LEMMA MotorStep ==
  ASSUME MotorInv, [Motor!Next]_Motor!vars
  PROVE  MotorInv'
<1> USE DEF MotorInv
<1>1. ASSUME \A p \in Steppers : \A b \in Motor!CoilBits(p) : b \in latch' <=> b \in latch,
             \A p \in Steppers : /\ pwm'[Motor!FirstMotor(p)] = pwm[Motor!FirstMotor(p)]
                                 /\ pwm'[Motor!FirstMotor(p) + 1] = pwm[Motor!FirstMotor(p) + 1],
             currentstep' = currentstep
      PROVE  Pointing'
  <2>1. \A p \in Steppers : /\ Motor!FieldOf(p)' = Motor!FieldOf(p)
                            /\ Motor!Powered(p)' <=> Motor!Powered(p)
    BY <1>1, FieldByCoils
  <2>2. QED
    BY <1>1, <2>1 DEF Pointing
<1>2. ASSUME NEW d \in Motor!DcMotors, Motor!Run(d) \/ Motor!SetSpeed(d)
      PROVE  MotorInv'
  <2>1. UNCHANGED <<currentstep, stepping>> /\ stepping = Motor!Idle
    BY <1>2 DEF Motor!Run, Motor!SetSpeed
  <2>2. d \in 1..4 /\ \A p \in Steppers : d \notin {Motor!FirstMotor(p), Motor!FirstMotor(p) + 1}
    BY <1>2, PortsApart DEF Motor!DcMotors
  <2>3. pwm' \in [1..4 -> 0..16] /\ \A m \in 1..4 : m # d => pwm'[m] = pwm[m]
    BY <1>2, <2>2 DEF Motor!Run, Motor!SetSpeed, Motor!MICROSTEPS
  <2>4. \A b : b.motor # d => (b \in latch' <=> b \in latch)
    BY <1>2 DEF Motor!Run, Motor!SetSpeed, Motor!Bit
  <2>5. \A p \in Steppers : \A b \in Motor!CoilBits(p) :
          b.motor \in {Motor!FirstMotor(p), Motor!FirstMotor(p) + 1}
    BY DEF Motor!CoilBits, Motor!Coils, Motor!Bit
  <2>6. Pointing'
    BY <1>1, <2>1, <2>2, <2>3, <2>4, <2>5, PortsApart
  <2>7. QED
    BY <2>1, <2>3, <2>6 DEF HalfSteps
<1>3. ASSUME NEW p \in Steppers, Motor!Release(p)
      PROVE  MotorInv'
  <2>1. latch' = latch \ Motor!CoilBits(p) /\ UNCHANGED <<pwm, currentstep, stepping>>
    BY <1>3 DEF Motor!Release
  <2>2. ~ Motor!Powered(p)'
    BY <2>1 DEF Motor!Powered, Motor!CoilBits, Motor!Coils, Motor!Bit, Motor!FirstMotor
  <2>3. ASSUME NEW r \in Steppers \ {p}
        PROVE  Motor!Powered(r)' => Motor!FieldOf(r)' = currentstep'[r]
    <3>1. \A b \in Motor!CoilBits(r) : b \in latch' <=> b \in latch
      BY <2>1, PortsApart
    <3>2. QED
      BY <2>1, <3>1, FieldByCoils DEF Pointing
  <2>4. QED
    BY <2>1, <2>2, <2>3 DEF Pointing, HalfSteps
<1>4. ASSUME NEW p \in Steppers, Motor!StepBegin(p)
      PROVE  MotorInv'
  <2>1. PICK n \in StepCounts, dir \in {1, -1}, style \in Styles :
          stepping' = [port |-> p, dir |-> dir, style |-> style, ret |-> 0,
                       left |-> IF style = "MICROSTEP" THEN (n * 16) % 65536 ELSE n]
    BY <1>4 DEF Motor!StepBegin, Motor!MICROSTEPS, Styles
  <2>2. UNCHANGED <<latch, pwm, currentstep>> /\ stepping = Motor!Idle
    BY <1>4 DEF Motor!StepBegin
  <2>3. n \in Nat /\ (n * 16) % 65536 \in Nat
    BY ShieldAssumption
  <2>4. stepping' \in [port : Steppers, dir : {1, -1}, style : Styles, left : Nat, ret : Positions]
    BY <2>1, <2>3 DEF Positions
  <2>5. \A r \in Steppers : currentstep[r] % 8 = 0
    BY <2>2, ShieldAssumption DEF HalfSteps, Motor!Idle
  <2>6. HalfSteps'
    BY <2>1, <2>2, <2>4, <2>5 DEF HalfSteps
  <2>7. QED
    BY <1>1, <2>2, <2>6
<1>5. ASSUME NEW p \in Steppers, Motor!StepOn(p)
      PROVE  MotorInv'
  <2> DEFINE c == Motor!NextStep(currentstep[p], stepping.dir, stepping.style)
  <2>1. /\ stepping # Motor!Idle /\ stepping.port = p /\ c \in Positions
        /\ currentstep' = [currentstep EXCEPT ![p] = c]
        /\ stepping.style # "MICROSTEP" => c % 8 = 0
        /\ Motor!FieldOf(p)' = c /\ pwm' \in [1..4 -> 0..16]
        /\ latch' \ Motor!CoilBits(p) = latch \ Motor!CoilBits(p)
        /\ \A m \in 1..4 : (m + 1) \div 2 # p => pwm'[m] = pwm[m]
    BY <1>5, StepOnFacts
  <2>2. PICK left \in Nat : stepping' = [stepping EXCEPT !.ret = c, !.left = left]
    BY <1>5, StepOnFacts
  <2> HIDE DEF c
  <2>3. stepping \in [port : Steppers, dir : {1, -1}, style : Styles, left : Nat, ret : Positions]
    BY <2>1 DEF HalfSteps
  <2>4. /\ stepping' \in [port : Steppers, dir : {1, -1}, style : Styles, left : Nat, ret : Positions]
        /\ stepping'.port = p /\ stepping'.ret = c /\ stepping'.style = stepping.style
    BY <2>1, <2>2, <2>3
  <2>5. currentstep' \in [Steppers -> Positions] /\ currentstep'[p] = c
        /\ \A r \in Steppers \ {p} : currentstep'[r] = currentstep[r]
    BY <2>1
  <2>6. HalfSteps'
    BY <2>1, <2>4, <2>5, <2>3 DEF HalfSteps, Styles
  <2>7. ASSUME NEW r \in Steppers \ {p}
        PROVE  Motor!Powered(r)' => Motor!FieldOf(r)' = currentstep'[r]
    <3>1. \A b \in Motor!CoilBits(r) : b \in latch' <=> b \in latch
      BY <2>1, PortsApart
    <3>2. /\ pwm'[Motor!FirstMotor(r)] = pwm[Motor!FirstMotor(r)]
          /\ pwm'[Motor!FirstMotor(r) + 1] = pwm[Motor!FirstMotor(r) + 1]
      <4>1. /\ Motor!FirstMotor(r) \in 1..4 /\ Motor!FirstMotor(r) + 1 \in 1..4
            /\ Motor!FirstMotor(r) \notin {Motor!FirstMotor(p), Motor!FirstMotor(p) + 1}
            /\ Motor!FirstMotor(r) + 1 \notin {Motor!FirstMotor(p), Motor!FirstMotor(p) + 1}
        BY PortsApart
      <4>2. QED
        BY <2>1, <4>1, PortsApart
    <3>3. QED
      BY <2>5, <3>1, <3>2, FieldByCoils DEF Pointing
  <2>8. Pointing'
    BY <2>1, <2>5, <2>7 DEF Pointing
  <2>9. QED
    BY <2>1, <2>5, <2>6, <2>8
<1>6. CASE Motor!StepEnd
  <2>1. /\ stepping # Motor!Idle /\ ~ Motor!MoreSteps /\ stepping' = Motor!Idle
        /\ UNCHANGED <<latch, pwm, currentstep>>
    BY <1>6 DEF Motor!StepEnd
  <2>2. \A r \in Steppers : currentstep[r] % 8 = 0
    BY <2>1 DEF HalfSteps, Motor!MoreSteps, Motor!MICROSTEPS
  <2>3. HalfSteps'
    BY <2>1, <2>2 DEF HalfSteps
  <2>4. QED
    BY <1>1, <2>1, <2>3
<1>7. CASE UNCHANGED Motor!vars
  BY <1>1, <1>7 DEF Motor!vars, HalfSteps
<1>8. QED
  BY <1>2, <1>3, <1>4, <1>5, <1>6, <1>7 DEF Motor!Next

\* However styles are mixed, onestep() turns the field of its own motor by at
\* most a full step in the direction asked for, and the bits of the other port in
\* the shared latch_state and the other duties stay as they are.
THEOREM StepTurnsOneMotorAlways == Motor!Spec => StepTurnsOneMotor
<1>1. ASSUME MotorInv, NEW p \in Steppers, Motor!StepOn(p), Motor!Powered(p)
      PROVE  /\ Motor!Powered(p)'
             /\ LET turn == (stepping.dir * (Motor!FieldOf(p)' - Motor!FieldOf(p))) % Motor!Circle
                IN turn > 0 /\ turn <= Motor!MICROSTEPS
             /\ latch' \ Motor!CoilBits(p) = latch \ Motor!CoilBits(p)
             /\ \A m \in 1..4 : (m + 1) \div 2 # p => pwm'[m] = pwm[m]
  <2> DEFINE c == Motor!NextStep(currentstep[p], stepping.dir, stepping.style)
  <2>1. /\ (stepping.dir * (c - currentstep[p])) % 64 \in 1..16
        /\ Motor!FieldOf(p)' = c /\ Motor!Powered(p)'
        /\ latch' \ Motor!CoilBits(p) = latch \ Motor!CoilBits(p)
        /\ \A m \in 1..4 : (m + 1) \div 2 # p => pwm'[m] = pwm[m]
    BY <1>1, StepOnFacts
  <2>2. Motor!FieldOf(p) = currentstep[p]
    BY <1>1 DEF MotorInv, Pointing
  <2>3. QED
    BY <2>1, <2>2 DEF Motor!Circle, Motor!MICROSTEPS
<1>2. MotorInv /\ [Motor!Next]_Motor!vars =>
        [\A p \in Steppers : Motor!StepOn(p) /\ Motor!Powered(p) =>
           /\ Motor!Powered(p)'
           /\ LET turn == (stepping.dir * (Motor!FieldOf(p)' - Motor!FieldOf(p))) % Motor!Circle
              IN turn > 0 /\ turn <= Motor!MICROSTEPS
           /\ latch' \ Motor!CoilBits(p) = latch \ Motor!CoilBits(p)
           /\ \A m \in 1..4 : (m + 1) \div 2 # p => pwm'[m] = pwm[m]]_Motor!vars
  BY <1>1
<1>3. QED
  BY <1>2, MotorInit, MotorStep, PTL DEF Motor!Spec, StepTurnsOneMotor, Motor!StepTurnsOneMotor
=============================================================================
