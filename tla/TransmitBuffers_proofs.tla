----------------------- MODULE TransmitBuffers_proofs -----------------------
(* The account of transmit buffers is safe and never starves, for every      *)
(* number of buffers of the device.                                          *)
EXTENDS TransmitBuffers, Integers, TLAPS

\* What a decrement loaded is at least one, and returns only add to the account.
LoadedIsFree == phase = "loaded" => loaded \in 1..free

AccountInv == TypeOK /\ LoadedIsFree /\ NeverOverruns /\ SomeBufferRemains

\* The account starts with all of the device's buffers.
LEMMA AccountInit == ASSUME DeviceBuffers \in Nat \ {0} PROVE Init => AccountInv
BY DEF Init, AccountInv, TypeOK, LoadedIsFree, NeverOverruns, SomeBufferRemains, InHand

\* Every step of the sender, of the device and of the interrupt keeps it.
LEMMA AccountStep ==
  ASSUME DeviceBuffers \in Nat \ {0}, AccountInv, [Next]_vars
  PROVE  AccountInv'
<1> USE DEF AccountInv, TypeOK, LoadedIsFree, NeverOverruns, SomeBufferRemains, InHand
<1>1. CASE Load
  BY <1>1 DEF Load
<1>2. CASE Store
  BY <1>2 DEF Store
<1>3. CASE Packet
  BY <1>3 DEF Packet
<1>4. CASE Transmit
  <2>1. PICK n \in 1..inDevice :
          /\ inDevice' = inDevice - n /\ reported' = reported + n
          /\ UNCHANGED <<free, phase, loaded>>
    BY <1>4 DEF Transmit
  <2>2. QED BY <2>1
<1>5. CASE Report
  <2>1. PICK n \in 1..reported :
          /\ reported' = reported - n /\ free' = free + n
          /\ UNCHANGED <<phase, loaded, inDevice>>
    BY <1>5 DEF Report
  <2>2. QED BY <2>1
<1>6. CASE UNCHANGED vars
  BY <1>6 DEF vars
<1>7. QED BY <1>1, <1>2, <1>3, <1>4, <1>5, <1>6 DEF Next

\* socket.cpp:121-172 with evnt_handler.cpp:744-769: the device never gets a
\* packet it has no buffer for, whatever the interrupt interrupts.
THEOREM SenderNeverOverruns ==
  ASSUME DeviceBuffers \in Nat \ {0} PROVE Spec => []NeverOverruns
<1>1. Init => AccountInv BY AccountInit
<1>2. AccountInv /\ [Next]_vars => AccountInv' BY AccountStep
<1>3. AccountInv => NeverOverruns BY DEF AccountInv
<1>4. QED BY <1>1, <1>2, <1>3, PTL DEF Spec

\* The same code: lost returns never leave the sender without a buffer that is
\* free, in the device or reported, so its busy loop has something to wait for.
THEOREM AccountNeverStarves ==
  ASSUME DeviceBuffers \in Nat \ {0} PROVE Spec => []SomeBufferRemains
<1>1. Init => AccountInv BY AccountInit
<1>2. AccountInv /\ [Next]_vars => AccountInv' BY AccountStep
<1>3. AccountInv => SomeBufferRemains BY DEF AccountInv
<1>4. QED BY <1>1, <1>2, <1>3, PTL DEF Spec
=============================================================================
