--------------------------- MODULE TransmitBuffers ---------------------------
(* The host's account of the device's transmit buffers: usNumberOfFreeBuffers *)
(* of the CC3000 library, taken by HostFlowControlConsumeBuff() and returned  *)
(* from the interrupt. The decrement is a load and a store, and the interrupt *)
(* can come between them, so that a return is lost.                           *)
EXTENDS Naturals

CONSTANT DeviceBuffers  \* at least one

VARIABLES
  free,      \* usNumberOfFreeBuffers
  phase,     \* "idle", "loaded" within the decrement, "taken" before the packet leaves
  loaded,    \* the value the decrement started from
  inDevice,  \* packets in buffers of the device
  reported   \* buffers in reports on their way to the host

vars == <<free, phase, loaded, inDevice, reported>>

Load ==
  /\ phase = "idle" /\ free > 0
  /\ phase' = "loaded" /\ loaded' = free
  /\ UNCHANGED <<free, inDevice, reported>>

Store ==
  /\ phase = "loaded"
  /\ phase' = "taken" /\ free' = loaded - 1 /\ loaded' = 0
  /\ UNCHANGED <<inDevice, reported>>

Packet ==
  /\ phase = "taken"
  /\ phase' = "idle" /\ inDevice' = inDevice + 1
  /\ UNCHANGED <<free, loaded, reported>>

Transmit ==
  \E n \in 1..inDevice :
    /\ inDevice' = inDevice - n /\ reported' = reported + n
    /\ UNCHANGED <<free, phase, loaded>>

Report ==
  \E n \in 1..reported :
    /\ reported' = reported - n /\ free' = free + n
    /\ UNCHANGED <<phase, loaded, inDevice>>

Init == /\ free = DeviceBuffers /\ phase = "idle" /\ loaded = 0
        /\ inDevice = 0 /\ reported = 0

Next == Load \/ Store \/ Packet \/ Transmit \/ Report

Spec == Init /\ [][Next]_vars

-----------------------------------------------------------------------------
TypeOK ==
  /\ free \in Nat /\ loaded \in Nat /\ inDevice \in Nat /\ reported \in Nat
  /\ phase \in {"idle", "loaded", "taken"}

\* Buffers the host has taken and not yet filled.
InHand == IF phase = "taken" THEN 1 ELSE 0

\* The device never gets a packet it has no buffer for, however decrements and
\* returns overlap: a lost return only makes the account too small.
NeverOverruns == inDevice + reported + free + InHand <= DeviceBuffers

\* Losses never use up the account: some buffer is free, in use or reported, so
\* a sender that waits in HostFlowControlConsumeBuff() can still get one.
SomeBufferRemains == inDevice + reported + free + InHand >= 1
=============================================================================
