------------------------------ MODULE GpsPolling ------------------------------
(***************************************************************************)
(* The sketches that poll the GPS: Sailboat_Master_Program, DataLogging    *)
(* and GPS call GPS.read() once per iteration of loop(), hand a completed  *)
(* line to parse() in the same iteration, and leave the iteration early    *)
(* when parse() fails.  The serial ring fills while loop() is busy, so     *)
(* characters are lost when an iteration takes too long.                   *)
(***************************************************************************)
EXTENDS GpsReceiver

VARIABLES
  position,  \* mydecimallatitude and mydecimallongitude
  handed     \* the lines given to parse(), in order (history)

vars == <<rcv, gps, sent, rx, lost, position, handed>>

Init ==
  /\ GpsInit
  /\ position = [lat |-> 0, lon |-> 0]
  /\ handed = << >>

(* Mutation: the longitude is not taken over with the latitude.            *)
SentenceParsedLatOnly(g) == position' = [position EXCEPT !.lat = g.latitude]

(* Lines 227-232 of the sketch, after parse() returned true; the rest of   *)
(* the iteration runs the controllers.                                     *)
SentenceParsed(g) == position' = [lat |-> g.latitude, lon |-> g.longitude]

(* "we can fail to parse a sentence in which case we should just wait for  *)
(* another": the iteration ends, the controllers do not run.               *)
ParseFailed == UNCHANGED position

(* One iteration of loop(): read(), and parse() when a line is complete.   *)
Loop ==
  LET r == IF rx = << >> THEN rcv ELSE Receive(rcv, Head(rx))
      str == CString(r.line[r.lastline])
  IN /\ rx' = IF rx = << >> THEN rx ELSE Tail(rx)
     /\ IF r.recvdflag
        THEN \E p \in Parse(gps, str) :
               /\ rcv' = ClearFlag(r)
               /\ gps' = p.gps
               /\ handed' = Append(handed, str)
               /\ IF p.ok THEN SentenceParsed(p.gps) ELSE ParseFailed
        ELSE /\ rcv' = r
             /\ UNCHANGED <<gps, handed, position>>
     /\ UNCHANGED <<sent, lost>>

Uart == UartReceive /\ UNCHANGED <<rcv, gps, position, handed>>

Next == Loop \/ Uart

Spec == Init /\ [][Next]_vars

-----------------------------------------------------------------------------
(* Where a character stands in the transmission.                           *)
Place(c) == CHOOSE k \in 1 .. StreamLength : StreamChar(k) = c

(* Characters in the order sent, a '$' or a newline only at their front.   *)
Fragment(str) ==
  \A i, j \in 1 .. Len(str) :
    i < j => /\ Place(str[i]) < Place(str[j])
             /\ str[j].tok \notin {"$", "nl"}

Earlier(str, later) ==
  \A i \in 1 .. Len(str), j \in 1 .. Len(later) : Place(str[i]) < Place(later[j])

(* Whatever the ring drops and however long a line gets, the lines given   *)
(* to parse() are fragments of the transmission in the order sent: none    *)
(* mixes in what its buffer held before, none has characters from before   *)
(* its last '$', and no character comes a second time, in this line or a   *)
(* later one.  A damaged line may still lack the commas that parse()       *)
(* looks for, and parse() then reads outside it (Coordinate's Garbage).    *)
HandedOutLinesAreFragments ==
  \A m \in 1 .. Len(handed) :
    /\ Fragment(handed[m])
    /\ \A n \in m + 1 .. Len(handed) : Earlier(handed[m], handed[n])

(* How many newlines read() has consumed when nothing was dropped.         *)
LinesConsumed == (sent - Len(rx)) \div SentenceLength

(* As long as the ring dropped nothing, every sentence is handed to        *)
(* parse() exactly once, unchanged and in order.                           *)
LosslessDelivery ==
  ~ lost => handed = [s \in 1 .. LinesConsumed |-> Body(s)]

(* As long as the ring dropped nothing, the position the sketch logs is    *)
(* that of the newest RMC or GGA sentence, both coordinates of the same.   *)
PositionIsFresh ==
  ~ lost => position = [lat |-> LastPosition(LinesConsumed),
                        lon |-> LastPosition(LinesConsumed)]

=============================================================================
