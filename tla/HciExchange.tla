---------------------------- MODULE HciExchange ----------------------------
(* What the host interface of the CC3000 library promises its callers:      *)
(* commands are exchanged one at a time; each reaches the device once, and  *)
(* the call returns with the answer to this command.                        *)
EXTENDS Naturals

VARIABLES
  asked,      \* commands the program has called so far
  arrived,    \* the last command the device has received
  returned    \* the last command that has returned, with its own answer

vars == <<asked, arrived, returned>>

Init == asked = 0 /\ arrived = 0 /\ returned = 0

Ask == asked = returned /\ asked' = asked + 1 /\ UNCHANGED <<arrived, returned>>

Arrive == arrived + 1 = asked /\ arrived' = asked /\ UNCHANGED <<asked, returned>>

Return == /\ arrived = asked /\ returned + 1 = asked
          /\ returned' = asked /\ UNCHANGED <<asked, arrived>>

Spec == Init /\ [][Ask \/ Arrive \/ Return]_vars
=============================================================================
