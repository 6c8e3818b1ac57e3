------------------------------- MODULE Drivers -------------------------------
(* The drivers whose models need no recursion, side by side: an instance of  *)
(* each and its properties. They share no state and no constants. MCBench    *)
(* runs them, Drivers_proofs is about them.                                  *)
EXTENDS Integers, Sequences

CONSTANTS
  MaxCommands, MaxEvents, Patches,                \* of Cc3000Spi
  MaxWait, MaxLosses,                              \* of Cc3000Network
  CardBlocks, BlockSize, MaxWrites,                \* of Sd2Card
  Steppers, StepCounts                             \* of MotorShield

VARIABLES
  spiPc, asked, cmd, sawLow, opcode, spiState, intEnabled, spiCs, rx, received,
  waitOp, waitData, spiAnswer, pinLow, edge, keepsEdges, spiDevice, queue,
  netPc, initialised, connected, dhcp, smartFinished, waited, keyFits, netDevice,
  events, losses, unreported,
  cardPc, call, type, inBlock, block, offset, partial, cardCs, cardAnswer, card, writes,
  latch, pwm, currentstep, stepping

\* The device asks for so many patches; block numbers are numbers, and a block
\* has some size; the shield has two ports for steppers.
ASSUME LinkAssumption == Patches \in Nat
ASSUME CardAssumption == CardBlocks \subseteq Nat /\ BlockSize \in Nat
ASSUME ShieldAssumption == Steppers \subseteq {1, 2} /\ StepCounts \subseteq Nat

Spi == INSTANCE Cc3000Spi WITH
  pc <- spiPc, cs <- spiCs, answer <- spiAnswer, device <- spiDevice

Net == INSTANCE Cc3000Network WITH pc <- netPc, device <- netDevice

Card == INSTANCE Sd2Card WITH
  Blocks <- CardBlocks, pc <- cardPc, cs <- cardCs, answer <- cardAnswer

Motor == INSTANCE MotorShield

-----------------------------------------------------------------------------
(* The properties, each stated and explained in the module it is from.       *)

\* Every packet reaches the CC3000 once and every call gets its own answer.
ImplementsExchange == Spi!ImplementsExchange

\* A packet some call waits for is not overwritten in the one receive buffer.
PacketIsKept == Spi!PacketIsKept

\* Every call to the CC3000 returns, whichever edges the board forgets.
EveryCallReturns == Spi!EveryCallReturns

\* Unsolicited events reach the host without a call of the program.
EventsReachHost == Spi!EventsReachHost

\* checkConnected() and checkDHCP() agree with the device.
FlagsFollowDevice == Net!FlagsFollowDevice

\* What startSmartConfig() learned survives the restart that follows.
SmartConfigPersists == Net!SmartConfigPersists

\* The loops that wait for an event of the network end.
WaitsEnd == Net!WaitsEnd

\* A card read delivers the block it was asked for, wherever it goes on.
ReadsAskedBlock == Card!ReadsAskedBlock

\* A card write that succeeds is on the card.
WrittenMeansProgrammed == Card!WrittenMeansProgrammed

\* A step turns the field of its motor as asked and leaves the other port alone.
StepTurnsOneMotor == Motor!StepTurnsOneMotor
=============================================================================
