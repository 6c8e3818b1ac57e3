----------------------------- MODULE GpsReceiver -----------------------------
(***************************************************************************)
(* The NMEA line receiver of libraries/Adafruit_GPS: the two line buffers  *)
(* that read() fills one character at a time and swaps at a newline, the   *)
(* flag that announces a line, and the parser that turns a line into a     *)
(* position.  The GPS unit and the UART are the environment: the unit      *)
(* sends NumSentences sentences, the UART interrupt puts their characters  *)
(* in a ring of RxSize characters and drops one that arrives when the ring *)
(* is full.  GpsPolling and GpsInterrupt say who calls read() and when.    *)
(*                                                                         *)
(* A character of the model stands for a run of a real sentence: the '$',  *)
(* the identifier with the time and status ("hdr"), the latitude with its  *)
(* hemisphere ("lat"), the longitude with its hemisphere ("lon") and the   *)
(* newline ("nl").  Each carries the number of the sentence it belongs to. *)
(***************************************************************************)
EXTENDS Naturals, Sequences

CONSTANTS
  MaxLine,       \* MAXLINELENGTH, the size of a line buffer
  RxSize,        \* capacity of the serial receive ring
  NumSentences,  \* how many sentences the GPS unit sends (bound of the model)
  Kind,          \* kind of each sentence: "RMC", "GGA" or "OTHER"
  HasFix         \* whether the unit reports a fix in each sentence

Sentences == 1 .. NumSentences

ASSUME SizesAssumption ==
  /\ MaxLine \in Nat \ {0, 1}
  /\ RxSize \in Nat \ {0}
  /\ NumSentences \in Nat
ASSUME SentencesAssumption ==
  /\ Kind \in [Sentences -> {"RMC", "GGA", "OTHER"}]
  /\ HasFix \in [Sentences -> BOOLEAN]

VARIABLES
  rcv,   \* the receiver's static data: line1/line2, currentline, ...
  gps,   \* the position members of the Adafruit_GPS object
  sent,  \* how many characters the GPS unit has sent
  rx,    \* the serial receive ring
  lost   \* whether the ring has ever dropped a character (history)

uartVars == <<sent, rx, lost>>

Char == [tok : {"$", "hdr", "lat", "lon", "nl"}, sen : Sentences]
NUL == [tok |-> "NUL", sen |-> 0]

Buffers == {"line1", "line2"}
Index == 0 .. MaxLine - 1

-----------------------------------------------------------------------------
(* What the unit sends: sentence s without its newline, and the k-th       *)
(* character of the whole transmission.                                    *)
Body(s) == << [tok |-> "$", sen |-> s], [tok |-> "hdr", sen |-> s],
              [tok |-> "lat", sen |-> s], [tok |-> "lon", sen |-> s] >>

SentenceLength == 5
StreamLength == NumSentences * SentenceLength

StreamChar(k) ==
  LET s == (k - 1) \div SentenceLength + 1
      j == ((k - 1) % SentenceLength) + 1
  IN IF j = SentenceLength THEN [tok |-> "nl", sen |-> s] ELSE Body(s)[j]

(* The unit sends a character and the UART interrupt stores or drops it.   *)
UartReceive ==
  /\ sent < StreamLength
  /\ sent' = sent + 1
  /\ IF Len(rx) < RxSize
     THEN rx' = Append(rx, StreamChar(sent + 1)) /\ UNCHANGED lost
     ELSE lost' = TRUE /\ UNCHANGED rx

-----------------------------------------------------------------------------
(* The state common_init() leaves.                                         *)
GpsInit ==
  /\ rcv = [line |-> [b \in Buffers |-> [i \in Index |-> NUL]],
            currentline |-> "line1", lastline |-> "line2",
            lineidx |-> 0, recvdflag |-> FALSE]
  /\ gps = [latitude |-> 0, longitude |-> 0, fix |-> FALSE]
  /\ sent = 0
  /\ rx = << >>
  /\ lost = FALSE

OtherBuffer(b) == IF b = "line1" THEN "line2" ELSE "line1"

(* Mutation: the line is not terminated.                                   *)
CloseLineForgotten(r) == r

(* currentline[lineidx] = 0                                                *)
CloseLine(r) == [r EXCEPT !.line[r.currentline][r.lineidx] = NUL]

(* Mutation: the '$' of a new sentence does not restart the line.          *)
RestartLineNoReset(r) == CloseLine(r)

(* The '$' branch: whatever preceded it in the line is forgotten.          *)
RestartLine(r) == [CloseLine(r) EXCEPT !.lineidx = 0]

(* Mutation: read() goes on filling the line it just handed out.           *)
SwapLinesSameBuffer(r) ==
  [CloseLine(r) EXCEPT !.lastline = r.currentline, !.lineidx = 0,
                       !.recvdflag = TRUE]

(* The newline branch: the line is closed and the buffers change roles.    *)
SwapLines(r) ==
  [CloseLine(r) EXCEPT !.currentline = OtherBuffer(r.currentline),
                       !.lastline = r.currentline,
                       !.lineidx = 0,
                       !.recvdflag = TRUE]

(* currentline[lineidx++] = c, with the index held below the array's end.  *)
PutChar(r, c) ==
  [r EXCEPT !.line[r.currentline][r.lineidx] = c,
            !.lineidx = IF @ + 1 >= MaxLine THEN MaxLine - 1 ELSE @ + 1]

(* read() once it has taken the character c from the serial port.          *)
Receive(r, c) ==
  PutChar(CASE c.tok = "$" -> RestartLine(r)
            [] c.tok = "nl" -> SwapLines(r)
            [] OTHER -> r, c)

(* lastNMEA(): the flag is cleared; the caller gets the buffer lastline.   *)
ClearFlag(r) == [r EXCEPT !.recvdflag = FALSE]

-----------------------------------------------------------------------------
Terminated(buf) == \E i \in Index : buf[i] = NUL

(* The C string in a buffer: its characters before the first NUL (or all   *)
(* of them, and then the memory behind the buffer).                        *)
CString(buf) ==
  LET len == CHOOSE n \in 0 .. MaxLine :
               /\ \A i \in 0 .. n - 1 : buf[i] # NUL
               /\ n < MaxLine => buf[n] = NUL
  IN [i \in 1 .. len |-> buf[i - 1]]

(* strstr(nmea, "$GPGGA") or strstr(nmea, "$GPRMC"): the kind of line that *)
(* parse() takes str for.                                                  *)
LineKind(str) ==
  IF Len(str) >= 2 /\ str[1].tok = "$" /\ str[2].tok = "hdr"
  THEN Kind[str[2].sen] ELSE "OTHER"

(* A number that no sentence contained: digits of another field, or the    *)
(* memory at address 1 when strchr() found no further comma.               *)
Garbage == NumSentences + 1

(* What parse() makes of character c where the format has a coordinate of  *)
(* kind tok: the values it can get, and whether parsing goes on.  A wrong  *)
(* hemisphere letter ends parse() after the coordinate was assigned;       *)
(* beyond the last comma what is read is undefined.                        *)
Coordinate(c, tok) ==
  IF c = NUL THEN {[value |-> Garbage, ok |-> b] : b \in BOOLEAN}
  ELSE IF c.tok = tok THEN {[value |-> c.sen, ok |-> TRUE]}
  ELSE {[value |-> Garbage, ok |-> FALSE]}

CharAt(str, n) == IF n \in 1 .. Len(str) THEN str[n] ELSE NUL

(* parse(): the possible new members of the GPS object, and its result.    *)
Parse(g, str) ==
  IF LineKind(str) = "OTHER" THEN {[gps |-> g, ok |-> FALSE]}
  ELSE LET h == IF LineKind(str) = "RMC"
                THEN [g EXCEPT !.fix = HasFix[str[2].sen]] ELSE g
       IN UNION { IF a.ok
                  THEN { [gps |-> [h EXCEPT !.latitude = a.value,
                                            !.longitude = o.value],
                          ok |-> o.ok] : o \in Coordinate(CharAt(str, 4), "lon") }
                  ELSE { [gps |-> [h EXCEPT !.latitude = a.value],
                          ok |-> FALSE] }
                : a \in Coordinate(CharAt(str, 3), "lat") }

(* The newest sentence with a position among the first n.                  *)
LastPosition(n) ==
  LET known == {s \in Sentences : s <= n /\ Kind[s] # "OTHER"}
  IN IF known = {} THEN 0 ELSE CHOOSE s \in known : \A t \in known : t <= s

=============================================================================
