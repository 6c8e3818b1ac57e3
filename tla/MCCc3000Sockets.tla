-------------------------- MODULE MCCc3000Sockets --------------------------
EXTENDS Cc3000Sockets

MCSockets == 0..2
MCSlots == 1..2
=============================================================================
