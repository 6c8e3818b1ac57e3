----------------------------- MODULE GpsInterrupt -----------------------------
(***************************************************************************)
(* The sketches that read the GPS from the timer interrupt: echo,          *)
(* echo_MEGA and the library's parsing example call GPS.read() once a      *)
(* millisecond behind the back of loop(), which takes the last line and    *)
(* parses it.  An interrupt may come between any two reads of loop(): of   *)
(* the flag, of the two bytes of the pointer lastline, of the line itself. *)
(*                                                                         *)
(* A read of a character of the model, a field of the sentence, is one     *)
(* step; a field read from the buffer that read() is filling may be torn.  *)
(***************************************************************************)
EXTENDS GpsReceiver

VARIABLES
  main,  \* where loop() is, and the pointer it gave to parse()
  taken  \* history: position and line when the pointer was read, and
         \* whether a newline has been received since

vars == <<rcv, gps, sent, rx, lost, main, taken>>

(* "check": newNMEAreceived(); "clear", "low", "high": in lastNMEA();      *)
(* "GGA", "RMC": in strstr() for it; "fix", "lat", "lon": at that field;   *)
(* "astray": strchr() found no further comma.                              *)
Stages == {"check", "clear", "low", "high",
           "GGA", "RMC", "fix", "lat", "lon", "astray"}

(* A pointer made of bytes of both: neither of the buffers.                *)
Elsewhere == "elsewhere"

Init ==
  /\ GpsInit
  /\ main = [at |-> "check", buf |-> "line2"]
  /\ taken = [gps |-> gps, str |-> << >>, clean |-> FALSE]

Goto(stage) == main' = [main EXCEPT !.at = stage]

-----------------------------------------------------------------------------
(* SIGNAL(TIMER0_COMPA_vect): read(), with interrupts disabled.            *)
Isr ==
  /\ rx # << >>
  /\ rcv' = Receive(rcv, Head(rx))
  /\ rx' = Tail(rx)
  /\ taken' = [taken EXCEPT !.clean = @ /\ Head(rx).tok # "nl"]
  /\ UNCHANGED <<gps, sent, lost, main>>

Uart == UartReceive /\ UNCHANGED <<rcv, gps, main, taken>>

-----------------------------------------------------------------------------
(* loop()                                                                  *)
Check ==
  /\ main.at = "check"
  /\ Goto(IF rcv.recvdflag THEN "clear" ELSE "check")
  /\ UNCHANGED <<rcv, gps, taken>>

TakeLow ==
  /\ main.at = "low"
  /\ main' = [at |-> "high", buf |-> rcv.lastline]
  /\ taken' = [gps |-> gps, str |-> CString(rcv.line[rcv.lastline]), clean |-> TRUE]
  /\ UNCHANGED <<rcv, gps>>

(* The other byte: of another pointer when the lines changed in between,   *)
(* which matters unless both buffers have the same high address byte.      *)
TakeHigh ==
  /\ main.at = "high"
  /\ main' \in [at : {"GGA"},
                buf : {main.buf} \cup IF rcv.lastline = main.buf THEN {} ELSE {Elsewhere}]
  /\ UNCHANGED <<gps, taken>>

(* Mutation: the flag is cleared after the pointer was read.               *)
LastNMEAFlagLast ==
  \/ main.at = "clear" /\ Goto("low") /\ UNCHANGED <<rcv, gps, taken>>
  \/ TakeLow
  \/ TakeHigh /\ rcv' = ClearFlag(rcv)

(* lastNMEA(): the flag first, then the pointer, byte by byte.             *)
LastNMEA ==
  \/ main.at = "clear" /\ Goto("low") /\ rcv' = ClearFlag(rcv) /\ UNCHANGED <<gps, taken>>
  \/ TakeLow
  \/ TakeHigh /\ UNCHANGED rcv

-----------------------------------------------------------------------------
(* parse(), on a buffer that read() may be filling at the same time.       *)
Torn == main.buf = rcv.currentline
CharOf(i) == rcv.line[main.buf][i]

(* strstr() for "$GPGGA" or "$GPRMC"; a match can only be at the start of  *)
(* the line, where read() puts every '$'.                                  *)
Found(kind) ==
  /\ CharOf(0).tok = "$" /\ CharOf(1).tok = "hdr"
  /\ Kind[CharOf(1).sen] = kind

Search ==
  /\ main.at \in {"GGA", "RMC"} /\ main.buf # Elsewhere
  /\ Goto(CASE Found(main.at) /\ main.at = "GGA" -> "lat"
            [] Found(main.at) /\ main.at = "RMC" -> "fix"
            [] ~ Found(main.at) /\ main.at = "GGA" -> "RMC"
            [] ~ Found(main.at) /\ main.at = "RMC" -> "check")
  /\ UNCHANGED <<rcv, gps, taken>>

(* Time and status of an RMC sentence; parse() returns false when the      *)
(* status is no status.                                                    *)
ParseFix ==
  /\ main.at = "fix"
  /\ \/ /\ CharOf(1).tok = "hdr"
        /\ gps' = [gps EXCEPT !.fix = HasFix[CharOf(1).sen]]
        /\ Goto("lat")
     \/ CharOf(1).tok # "hdr" /\ Goto("check") /\ UNCHANGED gps
     \/ Torn /\ Goto("check") /\ UNCHANGED gps
  /\ UNCHANGED <<rcv, taken>>

TornCoordinate == {[value |-> Garbage, ok |-> b] : b \in BOOLEAN}

ParseLatitude ==
  /\ main.at = "lat"
  /\ \E o \in Coordinate(CharOf(2), "lat") \cup IF Torn THEN TornCoordinate ELSE {} :
       /\ gps' = [gps EXCEPT !.latitude = o.value]
       /\ Goto(IF ~ o.ok THEN "check" ELSE IF CharOf(2) = NUL THEN "astray" ELSE "lon")
  /\ UNCHANGED <<rcv, taken>>

ParseLongitude ==
  /\ main.at \in {"lon", "astray"}
  /\ \E o \in IF main.at = "astray" THEN TornCoordinate
             ELSE Coordinate(CharOf(3), "lon") \cup IF Torn THEN TornCoordinate ELSE {} :
       /\ gps' = [gps EXCEPT !.longitude = o.value]
       /\ Goto("check")
  /\ UNCHANGED <<rcv, taken>>

(* Through a torn pointer parse() reads memory that is not a line: it      *)
(* finds no sentence, or anything.                                         *)
ParseElsewhere ==
  /\ main.at = "GGA" /\ main.buf = Elsewhere
  /\ gps' \in {gps, [gps EXCEPT !.latitude = Garbage, !.longitude = Garbage]}
  /\ Goto("check")
  /\ UNCHANGED <<rcv, taken>>

Parsing == Search \/ ParseFix \/ ParseLatitude \/ ParseLongitude \/ ParseElsewhere

Loop == (Check \/ LastNMEA \/ Parsing) /\ UNCHANGED uartVars

Next == Isr \/ Uart \/ Loop

Spec == Init /\ [][Next]_vars

(* The timer keeps interrupting, the unit keeps sending, and loop() gets   *)
(* the processor between interrupts.                                       *)
FairSpec == Spec /\ WF_vars(Isr) /\ WF_vars(Uart) /\ WF_vars(Loop)

-----------------------------------------------------------------------------
(* strchr() finds no further comma: parse() reads on outside its line.     *)
Astray ==
  \/ main.at = "lat" /\ CharOf(2) = NUL
  \/ main.at = "lon" /\ CharOf(3) = NUL
  \/ main.at = "astray"

(* When no newline arrives between lastNMEA() and the end of parse(), what *)
(* parse() reads is a closed line that read() is not filling, through a    *)
(* whole pointer; and when that line is a whole sentence, strchr() finds   *)
(* every comma and parse() never leaves it.  (In a line cut short before a *)
(* coordinate it does leave it, interrupts or not.)                        *)
InParse == main.at \in {"GGA", "RMC", "fix", "lat", "lon", "astray"}
WholeSentence == \E s \in Sentences : taken.str = Body(s)
PromptParseStaysInside ==
  InParse /\ taken.clean =>
    /\ main.buf \notin {Elsewhere, rcv.currentline}
    /\ Terminated(rcv.line[main.buf])
    /\ WholeSentence => ~ Astray

(* "if a sentence is received, we can check the checksum, parse it": when  *)
(* no newline arrives in that time, the interrupts change nothing: parse() *)
(* has the result it has on the whole line.  Otherwise it goes on in the   *)
(* line that is being received.                                            *)
PromptParseIsAtomic ==
  [][Parsing /\ main'.at = "check" /\ taken.clean =>
       gps' \in {p.gps : p \in Parse(taken.gps, taken.str)}]_vars

(* ... and when nothing was dropped either, the position after the parse   *)
(* of an RMC or GGA line is that of the newest sentence, both coordinates. *)
LinesReceived == (sent - Len(rx)) \div SentenceLength
PromptPositionIsFresh ==
  main.at = "check" /\ taken.clean /\ ~ lost /\ Kind[LinesReceived] # "OTHER" =>
    gps.latitude = LinesReceived /\ gps.longitude = LinesReceived

(* No wakeup is lost: a line that arrives between the check of the flag,   *)
(* its clearing and the end of the parse is parsed after all.  Sentences   *)
(* may be missed, but not the last one before the unit pauses.             *)
EventuallyLastPosition ==
  <>[](\/ lost
       \/ Kind[NumSentences] = "OTHER"
       \/ gps.latitude = NumSentences /\ gps.longitude = NumSentences)

=============================================================================
