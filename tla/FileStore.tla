------------------------------- MODULE FileStore -------------------------------
(***************************************************************************)
(* What a logging sketch expects of the SD library: files that grow at     *)
(* their end, a call that makes a file's contents durable, and a power     *)
(* loss that takes every file back to what was made durable, never to      *)
(* anything else.                                                          *)
(***************************************************************************)
EXTENDS Naturals, Sequences

CONSTANTS Names, Unit

VARIABLES
  content,  \* what a reader of each file gets
  durable   \* what a reader gets after a power loss

vars == <<content, durable>>

Init ==
  /\ content = [n \in Names |-> << >>]
  /\ durable = content

(* The file n becomes longer; what it held stays.                          *)
Extend(n) ==
  /\ Len(content[n]) < Len(content'[n])
  /\ SubSeq(content'[n], 1, Len(content[n])) = content[n]
  /\ \A m \in Names \ {n} : content'[m] = content[m]
  /\ UNCHANGED durable

Sync(n) ==
  /\ durable' = [durable EXCEPT ![n] = content[n]]
  /\ UNCHANGED content

(* The power fails, possibly while n is being made durable: all of its     *)
(* contents are, or none of the new ones.                                  *)
PowerLoss ==
  /\ \/ UNCHANGED durable
     \/ \E n \in Names : durable' = [durable EXCEPT ![n] = content[n]]
  /\ content' = durable'

Next == PowerLoss \/ \E n \in Names : Extend(n) \/ Sync(n)

Spec == Init /\ [][Next]_vars

=============================================================================
