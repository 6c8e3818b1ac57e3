-------------------------- MODULE GpsInterrupt_proofs --------------------------
(***************************************************************************)
(* Proofs about the interrupt-driven GPS receiver, for every buffer size,  *)
(* ring size and transmission: as long as no newline arrives between       *)
(* lastNMEA() and the end of parse(), the interrupts do not disturb it.    *)
(***************************************************************************)
EXTENDS GpsInterrupt, GpsReceiver_proofs, SequenceTheorems

TypeInv ==
  /\ RcvType(rcv) /\ RcvStrings(rcv)
  /\ rx \in Seq(Char) /\ sent \in 0 .. StreamLength
  /\ main \in [at : Stages, buf : Buffers \cup {Elsewhere}]
  /\ DOMAIN taken = {"gps", "str", "clean"} /\ taken.clean \in BOOLEAN

(* The inductive invariant: while nothing has disturbed it, parse() reads  *)
(* the line that was handed out, which is as it was, and what it has       *)
(* assigned so far is what Parse assigns.                                  *)
Progress ==
  LET str == taken.str
      h == Header(taken.gps, str)
  IN /\ main.at \in {"high", "GGA", "RMC", "fix"} => gps = taken.gps
     /\ main.at = "RMC" => LineKind(str) # "GGA"
     /\ main.at = "fix" => LineKind(str) = "RMC"
     /\ main.at \in {"lat", "lon", "astray"} => LineKind(str) # "OTHER"
     /\ main.at = "lat" => gps = h
     /\ main.at = "lon" => /\ CharAt(str, 3) # NUL /\ CharAt(str, 3).tok = "lat"
                           /\ gps = [h EXCEPT !.latitude = CharAt(str, 3).sen]
     /\ main.at = "astray" => /\ CharAt(str, 3) = NUL
                              /\ gps = [h EXCEPT !.latitude = Garbage]

HoldsPointer == main.at \in Stages \ {"check", "clear", "low"}

Undisturbed ==
  taken.clean /\ HoldsPointer =>
    /\ main.buf = rcv.lastline
    /\ CString(rcv.line[main.buf]) = taken.str
    /\ Progress

-----------------------------------------------------------------------------
(* Types                                                                   *)

LEMMA ClearFlagFacts ==
  ASSUME RcvType(rcv), RcvStrings(rcv)
  PROVE  /\ RcvType(ClearFlag(rcv)) /\ RcvStrings(ClearFlag(rcv))
         /\ ClearFlag(rcv).lastline = rcv.lastline /\ ClearFlag(rcv).line = rcv.line
BY DEF ClearFlag, RcvType, RcvStrings

LEMMA GotoType ==
  ASSUME NEW stage \in Stages, main \in [at : Stages, buf : Buffers \cup {Elsewhere}],
         Goto(stage)
  PROVE  /\ main' \in [at : Stages, buf : Buffers \cup {Elsewhere}]
         /\ main'.at = stage /\ main'.buf = main.buf
BY DEF Goto

LEMMA LoopType ==
  ASSUME TypeInv, Loop
  PROVE  TypeInv'
<1> USE DEF TypeInv
<1>1. rx' = rx /\ sent' = sent
  BY DEF Loop, uartVars
<1>2. CASE Check
  BY <1>1, <1>2, GotoType DEF Check, Stages
<1>3. CASE LastNMEA
  <2>1. CASE TakeLow
    <3>1. main' \in [at : Stages, buf : Buffers \cup {Elsewhere}]
      BY <2>1 DEF TakeLow, RcvType, Stages
    <3>2. /\ taken'.clean = TRUE /\ rcv' = rcv
          /\ DOMAIN taken' = {"gps", "str", "clean"}
      BY <2>1 DEF TakeLow
    <3>3. QED
      BY <1>1, <3>1, <3>2
  <2>2. CASE TakeHigh /\ UNCHANGED rcv
    <3>1. main' \in [at : Stages, buf : Buffers \cup {Elsewhere}]
      BY <2>2 DEF TakeHigh, Stages
    <3>2. QED
      BY <1>1, <2>2, <3>1 DEF TakeHigh
  <2>3. CASE ~ TakeLow /\ ~ (TakeHigh /\ UNCHANGED rcv)
    BY <1>1, <1>3, <2>3, GotoType, ClearFlagFacts DEF LastNMEA, Stages
  <2>4. QED
    BY <2>1, <2>2, <2>3
<1>4. CASE Parsing
  <2>1. rcv' = rcv /\ taken' = taken
    BY <1>4 DEF Parsing, Search, ParseFix, ParseLatitude, ParseLongitude, ParseElsewhere
  <2>2. \E stage \in Stages : Goto(stage)
    BY <1>4 DEF Parsing, Search, ParseFix, ParseLatitude, ParseLongitude,
                ParseElsewhere, Stages
  <2>3. main' \in [at : Stages, buf : Buffers \cup {Elsewhere}]
    BY <2>2, GotoType
  <2>4. QED
    BY <1>1, <2>1, <2>3
<1>5. QED
  BY <1>2, <1>3, <1>4 DEF Loop

LEMMA TypeStep ==
  ASSUME TypeInv, [Next]_vars
  PROVE  TypeInv'
<1>1. CASE Isr
  <2>1. Head(rx) \in Char /\ Tail(rx) \in Seq(Char)
    BY <1>1 DEF Isr, TypeInv
  <2>2. taken'.clean \in BOOLEAN
    BY <1>1 DEF Isr, TypeInv
  <2>3. QED
    BY <1>1, <2>1, <2>2, ReceiveFacts DEF Isr, TypeInv
<1>2. CASE Uart
  <2>1. sent < StreamLength /\ sent' = sent + 1 /\ StreamLength \in Nat
    BY <1>2, SizesAssumption DEF Uart, UartReceive, StreamLength, SentenceLength
  <2>2. StreamChar(sent + 1) \in Char
    BY <2>1, StreamCharType DEF TypeInv
  <2>3. rx' \in Seq(Char) /\ sent' \in 0 .. StreamLength
    BY <1>2, <2>1, <2>2 DEF Uart, UartReceive, TypeInv
  <2>4. UNCHANGED <<rcv, main, taken>>
    BY <1>2 DEF Uart
  <2>5. QED
    BY <2>3, <2>4 DEF TypeInv
<1>3. CASE Loop
  BY <1>3, LoopType
<1>4. CASE UNCHANGED vars
  BY <1>4 DEF vars, TypeInv
<1>5. QED
  BY <1>1, <1>2, <1>3, <1>4 DEF Next

-----------------------------------------------------------------------------
(* The line, while nothing disturbs it                                     *)

(* The line parse() reads is the one it was given, up to its NUL.          *)
LEMMA LineIsTaken ==
  ASSUME TypeInv, Undisturbed, taken.clean, HoldsPointer
  PROVE  /\ ~ Torn /\ main.buf # Elsewhere /\ Terminated(rcv.line[main.buf])
         /\ \E n \in Index :
              /\ Len(taken.str) = n
              /\ \A k \in 0 .. n : CharAt(taken.str, k + 1) = CharOf(k)
              /\ \A k \in 0 .. n - 1 : CharOf(k) # NUL
              /\ CharOf(n) = NUL
<1>1. main.buf = rcv.lastline /\ CString(rcv.line[main.buf]) = taken.str
  BY DEF Undisturbed
<1>2. rcv.lastline \in Buffers /\ rcv.line[rcv.lastline] \in Buffer
  BY DEF TypeInv, RcvType, Buffer
<1>3. Terminated(rcv.line[rcv.lastline]) /\ rcv.lastline # rcv.currentline
  BY DEF TypeInv, RcvStrings
<1>4. Elsewhere \notin Buffers
  BY DEF Elsewhere, Buffers
<1>5. QED
  BY <1>1, <1>2, <1>3, <1>4, CStringFacts DEF CharOf, Torn

(* strstr() finds what LineKind says.                                      *)
LEMMA FoundIsLineKind ==
  ASSUME TypeInv, Undisturbed, taken.clean, HoldsPointer, NEW kind \in {"GGA", "RMC"}
  PROVE  Found(kind) <=> LineKind(taken.str) = kind
<1>1. PICK n \in Index : /\ Len(taken.str) = n
                         /\ \A k \in 0 .. n : CharAt(taken.str, k + 1) = CharOf(k)
                         /\ CharOf(n) = NUL
  BY LineIsTaken
<1>2. CASE n >= 2
  <2>1. taken.str[1] = CharOf(0) /\ taken.str[2] = CharOf(1)
    <3>1. CharAt(taken.str, 1) = CharOf(0) /\ CharAt(taken.str, 2) = CharOf(1)
      BY <1>1, <1>2, SizesAssumption DEF Index
    <3>2. QED
      BY <1>1, <1>2, <3>1 DEF CharAt
  <2>2. QED
    BY <1>1, <1>2, <2>1 DEF Found, LineKind
<1>3. CASE n < 2
  <2>1. n = 0 \/ n = 1
    BY <1>3, SizesAssumption DEF Index
  <2>2. CharOf(0).tok # "$" \/ CharOf(1).tok # "hdr"
    BY <1>1, <2>1 DEF NUL
  <2>3. QED
    BY <1>1, <2>1, <2>2 DEF Found, LineKind
<1>4. QED
  BY <1>2, <1>3, SizesAssumption DEF Index

(* In a line with a header, what stands at the places of the coordinates.  *)
LEMMA CoordinatePlaces ==
  ASSUME TypeInv, Undisturbed, taken.clean, HoldsPointer, LineKind(taken.str) # "OTHER"
  PROVE  /\ CharOf(1) = taken.str[2] /\ CharOf(1).tok = "hdr"
         /\ CharAt(taken.str, 3) = CharOf(2)
         /\ CharOf(2) # NUL => CharAt(taken.str, 4) = CharOf(3)
         /\ CharOf(2) = NUL => CharAt(taken.str, 4) = NUL
<1>1. PICK n \in Index : /\ Len(taken.str) = n
                         /\ \A k \in 0 .. n : CharAt(taken.str, k + 1) = CharOf(k)
                         /\ \A k \in 0 .. n - 1 : CharOf(k) # NUL
                         /\ CharOf(n) = NUL
  BY LineIsTaken
<1>2. n \in Nat /\ n >= 2 /\ taken.str[2].tok = "hdr"
  BY <1>1, SizesAssumption DEF LineKind, Index
<1>3. CharAt(taken.str, 2) = CharOf(1) /\ CharAt(taken.str, 3) = CharOf(2)
  BY <1>1, <1>2
<1>4. CharAt(taken.str, 2) = taken.str[2]
  BY <1>1, <1>2 DEF CharAt
<1>5. CharOf(2) # NUL => n >= 3
  BY <1>1, <1>2
<1>6. CharOf(2) # NUL => CharAt(taken.str, 4) = CharOf(3)
  BY <1>1, <1>2, <1>5
<1>7. CharOf(2) = NUL => n = 2
  BY <1>1, <1>2
<1>8. n = 2 => CharAt(taken.str, 4) = NUL
  BY <1>1 DEF CharAt
<1>9. QED
  BY <1>2, <1>3, <1>4, <1>6, <1>7, <1>8

-----------------------------------------------------------------------------
(* Every step keeps Undisturbed                                            *)

LEMMA IsrStep ==
  ASSUME TypeInv, Undisturbed, Isr
  PROVE  Undisturbed'
<1> SUFFICES ASSUME taken'.clean, HoldsPointer'
             PROVE  /\ main'.buf = rcv'.lastline
                    /\ CString(rcv'.line[main'.buf]) = taken'.str
                    /\ Progress'
  BY DEF Undisturbed
<1>1. /\ main' = main /\ gps' = gps /\ taken'.gps = taken.gps /\ taken'.str = taken.str
      /\ taken.clean /\ Head(rx).tok # "nl" /\ Head(rx) \in Char
      /\ rcv' = Receive(rcv, Head(rx))
  <2>1. rx # << >> /\ taken' = [taken EXCEPT !.clean = @ /\ Head(rx).tok # "nl"]
        /\ main' = main /\ gps' = gps /\ rcv' = Receive(rcv, Head(rx))
    BY DEF Isr
  <2>2. Head(rx) \in Char
    BY <2>1 DEF TypeInv
  <2>3. taken'.gps = taken.gps /\ taken'.str = taken.str
    BY <2>1
  <2>4. taken'.clean = (taken.clean /\ Head(rx).tok # "nl")
    BY <2>1 DEF TypeInv
  <2>5. taken.clean /\ Head(rx).tok # "nl"
    BY <2>4
  <2>6. QED
    BY <2>1, <2>2, <2>3, <2>5
<1>2. HoldsPointer
  BY <1>1 DEF HoldsPointer
<1>3. main.buf = rcv.lastline /\ CString(rcv.line[main.buf]) = taken.str /\ Progress
  BY <1>1, <1>2 DEF Undisturbed
<1>4. rcv'.lastline = rcv.lastline /\ rcv'.line[rcv.lastline] = rcv.line[rcv.lastline]
  BY <1>1, ReceiveKeepsLast DEF TypeInv
<1>5. Progress'
  BY <1>1, <1>3 DEF Progress
<1>6. QED
  BY <1>1, <1>3, <1>4, <1>5

LEMMA LastNMEAStep ==
  ASSUME TypeInv, Undisturbed, LastNMEA
  PROVE  Undisturbed'
<1>1. CASE TakeLow
  <2>1. /\ rcv' = rcv /\ gps' = gps /\ main'.at = "high" /\ main'.buf = rcv.lastline
        /\ taken'.gps = gps /\ taken'.str = CString(rcv.line[rcv.lastline])
    BY <1>1 DEF TakeLow
  <2>2. QED
    BY <2>1 DEF Undisturbed, Progress
<1>2. CASE TakeHigh /\ UNCHANGED rcv
  <2>1. SUFFICES ASSUME taken.clean PROVE Undisturbed'
    BY <1>2 DEF TakeHigh, Undisturbed
  <2>2. main.at = "high" /\ HoldsPointer /\ UNCHANGED <<rcv, gps, taken>>
    BY <1>2 DEF TakeHigh, HoldsPointer, Stages
  <2>3. main.buf = rcv.lastline /\ CString(rcv.line[main.buf]) = taken.str /\ gps = taken.gps
    BY <2>1, <2>2 DEF Undisturbed, Progress
  <2>4. main'.at = "GGA" /\ main'.buf = main.buf
    BY <1>2, <2>3 DEF TakeHigh
  <2>5. QED
    BY <2>2, <2>3, <2>4 DEF Undisturbed, Progress
<1>3. CASE ~ TakeLow /\ ~ (TakeHigh /\ UNCHANGED rcv)
  <2>1. main'.at = "low"
    BY <1>3, GotoType DEF LastNMEA, TypeInv, Stages
  <2>2. QED
    BY <2>1 DEF Undisturbed, HoldsPointer
<1>4. QED
  BY <1>1, <1>2, <1>3

Results(g, str) == {p.gps : p \in Parse(g, str)}

(* What Parse returns, in the steps of parse().                            *)
LEMMA ParseResults ==
  ASSUME NEW g, NEW str
  PROVE  /\ LineKind(str) = "OTHER" => g \in Results(g, str)
         /\ LineKind(str) # "OTHER" =>
              \A a \in Coordinate(CharAt(str, 3), "lat") :
                /\ ~ a.ok => [Header(g, str) EXCEPT !.latitude = a.value] \in Results(g, str)
                /\ a.ok =>
                     \A o \in Coordinate(CharAt(str, 4), "lon") :
                       [Header(g, str) EXCEPT !.latitude = a.value, !.longitude = o.value]
                         \in Results(g, str)
<1> DEFINE h == Header(g, str)
           One(a) == {[gps |-> [h EXCEPT !.latitude = a.value], ok |-> FALSE]}
           Both(a) == {[gps |-> [h EXCEPT !.latitude = a.value, !.longitude = o.value],
                        ok |-> o.ok] : o \in Coordinate(CharAt(str, 4), "lon")}
<1>1. CASE LineKind(str) = "OTHER"
  BY <1>1 DEF Parse, Results
<1>2. CASE LineKind(str) # "OTHER"
  <2>1. Parse(g, str) = UNION {IF a.ok THEN Both(a) ELSE One(a)
                                 : a \in Coordinate(CharAt(str, 3), "lat")}
    BY <1>2 DEF Parse, Header
  <2> HIDE DEF h
  <2>2. ASSUME NEW a \in Coordinate(CharAt(str, 3), "lat"), ~ a.ok
        PROVE  [h EXCEPT !.latitude = a.value] \in Results(g, str)
    <3>1. [gps |-> [h EXCEPT !.latitude = a.value], ok |-> FALSE] \in Parse(g, str)
      BY <2>1, <2>2
    <3>2. QED
      BY <3>1 DEF Results
  <2>3. ASSUME NEW a \in Coordinate(CharAt(str, 3), "lat"), a.ok,
               NEW o \in Coordinate(CharAt(str, 4), "lon")
        PROVE  [h EXCEPT !.latitude = a.value, !.longitude = o.value] \in Results(g, str)
    <3> DEFINE p == [gps |-> [h EXCEPT !.latitude = a.value, !.longitude = o.value],
                     ok |-> o.ok]
    <3>1. p \in Both(a)
      BY <2>3
    <3>2. p.gps = [h EXCEPT !.latitude = a.value, !.longitude = o.value]
      OBVIOUS
    <3> HIDE DEF p, Both, One
    <3>3. p \in Parse(g, str)
      BY <2>1, <2>3, <3>1
    <3>4. QED
      BY <3>2, <3>3 DEF Results
  <2>4. QED
    BY <1>2, <2>2, <2>3 DEF h
<1>3. QED
  BY <1>1, <1>2

(* A step of parse() goes on undisturbed, or ends with a result of Parse.  *)
ParseStep == Undisturbed' /\ (main'.at = "check" /\ taken.clean =>
                                gps' \in Results(taken.gps, taken.str))

LEMMA SearchStep ==
  ASSUME TypeInv, Undisturbed, Search
  PROVE  ParseStep
<1> USE DEF Stages
<1>0. UNCHANGED <<rcv, gps, taken>> /\ HoldsPointer /\ main.at \in {"GGA", "RMC"}
  BY DEF Search, HoldsPointer
<1>1. SUFFICES ASSUME taken.clean PROVE ParseStep
  BY <1>0 DEF ParseStep, Undisturbed
<1>2. /\ main.buf = rcv.lastline /\ CString(rcv.line[main.buf]) = taken.str
      /\ gps = taken.gps /\ (main.at = "RMC" => LineKind(taken.str) # "GGA")
  BY <1>0, <1>1 DEF Undisturbed, Progress
<1>3. \A kind \in {"GGA", "RMC"} : Found(kind) <=> LineKind(taken.str) = kind
  BY <1>0, <1>1, FoundIsLineKind
<1>4. LineKind(taken.str) \in {"GGA", "RMC", "OTHER"}
  <2>1. taken.str \in Seq(Char)
    <3>1. rcv.line[rcv.lastline] \in Buffer /\ Terminated(rcv.line[rcv.lastline])
      BY DEF TypeInv, RcvType, RcvStrings, Buffer
    <3>2. QED
      BY <1>2, <3>1, CStringFacts
  <2>2. ASSUME NEW i \in 1 .. Len(taken.str) PROVE taken.str[i].sen \in Sentences
    <3>1. taken.str[i] \in Char
      BY <2>1
    <3>2. QED
      BY <3>1 DEF Char
  <2>3. 2 \in 1 .. Len(taken.str) \/ Len(taken.str) < 2
    BY <2>1
  <2>4. QED
    BY <2>2, <2>3, SentencesAssumption DEF LineKind
<1>5. CASE Found(main.at) /\ main.at = "GGA"
  <2>1. main'.at = "lat" /\ main'.buf = main.buf
    BY <1>5, GotoType DEF Search, TypeInv
  <2>2. LineKind(taken.str) = "GGA"
    BY <1>3, <1>5
  <2>3. QED
    BY <1>0, <1>2, <2>1, <2>2 DEF ParseStep, Undisturbed, Progress, Header
<1>6. CASE Found(main.at) /\ main.at = "RMC"
  <2>1. main'.at = "fix" /\ main'.buf = main.buf
    BY <1>6, GotoType DEF Search, TypeInv
  <2>2. LineKind(taken.str) = "RMC"
    BY <1>3, <1>6
  <2>3. QED
    BY <1>0, <1>2, <2>1, <2>2 DEF ParseStep, Undisturbed, Progress
<1>7. CASE ~ Found(main.at) /\ main.at = "GGA"
  <2>1. main'.at = "RMC" /\ main'.buf = main.buf
    BY <1>7, GotoType DEF Search, TypeInv
  <2>2. LineKind(taken.str) # "GGA"
    BY <1>3, <1>7
  <2>3. QED
    BY <1>0, <1>2, <2>1, <2>2 DEF ParseStep, Undisturbed, Progress
<1>8. CASE ~ Found(main.at) /\ main.at = "RMC"
  <2>1. main'.at = "check"
    BY <1>8, GotoType DEF Search, TypeInv
  <2>2. LineKind(taken.str) = "OTHER"
    BY <1>2, <1>3, <1>4, <1>8
  <2>3. QED
    BY <1>0, <1>2, <2>1, <2>2, ParseResults DEF ParseStep, Undisturbed, HoldsPointer
<1>9. QED
  BY <1>0, <1>5, <1>6, <1>7, <1>8

LEMMA ParseFixStep ==
  ASSUME TypeInv, Undisturbed, ParseFix
  PROVE  ParseStep
<1>0. UNCHANGED <<rcv, taken>> /\ main.at = "fix" /\ HoldsPointer
  BY DEF ParseFix, HoldsPointer, Stages
<1>1. SUFFICES ASSUME taken.clean PROVE ParseStep
  BY <1>0 DEF ParseStep, Undisturbed
<1>2. /\ main.buf = rcv.lastline /\ CString(rcv.line[main.buf]) = taken.str
      /\ gps = taken.gps /\ LineKind(taken.str) = "RMC"
  BY <1>0, <1>1 DEF Undisturbed, Progress
<1>3. ~ Torn /\ CharOf(1) = taken.str[2] /\ CharOf(1).tok = "hdr"
  BY <1>0, <1>1, <1>2, LineIsTaken, CoordinatePlaces
<1>4. Goto("lat") /\ gps' = [gps EXCEPT !.fix = HasFix[taken.str[2].sen]]
  BY <1>3 DEF ParseFix
<1>5. main'.at = "lat" /\ main'.buf = main.buf
  BY <1>4, GotoType DEF TypeInv, Stages
<1>6. QED
  BY <1>0, <1>2, <1>4, <1>5 DEF ParseStep, Undisturbed, Progress, Header

LEMMA ParseLatitudeStep ==
  ASSUME TypeInv, Undisturbed, ParseLatitude
  PROVE  ParseStep
<1> DEFINE h == Header(taken.gps, taken.str)
<1>0. UNCHANGED <<rcv, taken>> /\ main.at = "lat" /\ HoldsPointer
  BY DEF ParseLatitude, HoldsPointer, Stages
<1>1. SUFFICES ASSUME taken.clean PROVE ParseStep
  BY <1>0 DEF ParseStep, Undisturbed
<1>2. /\ main.buf = rcv.lastline /\ CString(rcv.line[main.buf]) = taken.str
      /\ gps = h /\ LineKind(taken.str) # "OTHER"
  BY <1>0, <1>1 DEF Undisturbed, Progress
<1>3. ~ Torn /\ CharAt(taken.str, 3) = CharOf(2)
  BY <1>0, <1>1, <1>2, LineIsTaken, CoordinatePlaces
<1>4. PICK o \in Coordinate(CharAt(taken.str, 3), "lat") :
        /\ gps' = [h EXCEPT !.latitude = o.value]
        /\ Goto(IF ~ o.ok THEN "check"
                ELSE IF CharAt(taken.str, 3) = NUL THEN "astray" ELSE "lon")
  BY <1>2, <1>3 DEF ParseLatitude
<1> HIDE DEF h
<1>5. CASE ~ o.ok
  <2>1. main'.at = "check"
    BY <1>4, <1>5, GotoType DEF TypeInv, Stages
  <2>2. gps' \in Results(taken.gps, taken.str)
    BY <1>2, <1>4, <1>5, ParseResults DEF h
  <2>3. QED
    BY <1>0, <2>1, <2>2 DEF ParseStep, Undisturbed, HoldsPointer
<1>6. CASE o.ok /\ CharAt(taken.str, 3) = NUL
  <2>1. main'.at = "astray" /\ main'.buf = main.buf
    BY <1>4, <1>6, GotoType DEF TypeInv, Stages
  <2>2. o.value = Garbage
    BY <1>6 DEF Coordinate
  <2>3. QED
    BY <1>0, <1>2, <1>4, <1>6, <2>1, <2>2 DEF ParseStep, Undisturbed, Progress, h
<1>7. CASE o.ok /\ CharAt(taken.str, 3) # NUL
  <2>1. main'.at = "lon" /\ main'.buf = main.buf
    BY <1>4, <1>7, GotoType DEF TypeInv, Stages
  <2>2. CharAt(taken.str, 3).tok = "lat" /\ o.value = CharAt(taken.str, 3).sen
    BY <1>7 DEF Coordinate
  <2>3. QED
    BY <1>0, <1>2, <1>4, <1>7, <2>1, <2>2 DEF ParseStep, Undisturbed, Progress, h
<1>8. QED
  BY <1>5, <1>6, <1>7

LEMMA ParseLongitudeStep ==
  ASSUME TypeInv, Undisturbed, ParseLongitude
  PROVE  ParseStep
<1> DEFINE str == taken.str
           h == Header(taken.gps, str)
<1>0. UNCHANGED <<rcv, taken>> /\ main.at \in {"lon", "astray"} /\ HoldsPointer
  BY DEF ParseLongitude, HoldsPointer, Stages
<1>1. SUFFICES ASSUME taken.clean PROVE ParseStep
  BY <1>0 DEF ParseStep, Undisturbed
<1>2. /\ LineKind(str) # "OTHER" /\ Progress
  BY <1>0, <1>1 DEF Undisturbed, Progress
<1>3. main'.at = "check"
  BY GotoType DEF ParseLongitude, TypeInv, Stages
<1>4. /\ ~ Torn /\ CharAt(str, 3) = CharOf(2)
      /\ CharOf(2) # NUL => CharAt(str, 4) = CharOf(3)
      /\ CharOf(2) = NUL => CharAt(str, 4) = NUL
  BY <1>0, <1>1, <1>2, LineIsTaken, CoordinatePlaces
<1>5. PICK a \in Coordinate(CharAt(str, 3), "lat") :
        a.ok /\ gps = [h EXCEPT !.latitude = a.value]
  <2>1. CASE main.at = "lon"
    <3> DEFINE a == [value |-> CharAt(str, 3).sen, ok |-> TRUE]
    <3>1. CharAt(str, 3) # NUL /\ CharAt(str, 3).tok = "lat"
          /\ gps = [h EXCEPT !.latitude = CharAt(str, 3).sen]
      BY <1>2, <2>1 DEF Progress
    <3>2. a \in Coordinate(CharAt(str, 3), "lat") /\ a.ok /\ a.value = CharAt(str, 3).sen
      BY <3>1 DEF Coordinate
    <3> HIDE DEF a, h
    <3>3. QED
      BY <3>1, <3>2
  <2>2. CASE main.at = "astray"
    <3> DEFINE a == [value |-> Garbage, ok |-> TRUE]
    <3>1. CharAt(str, 3) = NUL /\ gps = [h EXCEPT !.latitude = Garbage]
      BY <1>2, <2>2 DEF Progress
    <3>2. a \in Coordinate(CharAt(str, 3), "lat") /\ a.ok /\ a.value = Garbage
      BY <3>1 DEF Coordinate
    <3> HIDE DEF a, h
    <3>3. QED
      BY <3>1, <3>2
  <2>3. QED
    BY <1>0, <2>1, <2>2
<1>6. PICK o \in Coordinate(CharAt(str, 4), "lon") : gps' = [gps EXCEPT !.longitude = o.value]
  <2>1. CASE main.at = "lon"
    <3>1. CharAt(str, 4) = CharOf(3)
      BY <1>2, <1>4, <2>1 DEF Progress
    <3>2. QED
      BY <1>4, <2>1, <3>1 DEF ParseLongitude
  <2>2. CASE main.at = "astray"
    <3>1. CharAt(str, 4) = NUL
      BY <1>2, <1>4, <2>2 DEF Progress
    <3>2. Coordinate(CharAt(str, 4), "lon") = TornCoordinate
      BY <3>1 DEF Coordinate, TornCoordinate
    <3>3. QED
      BY <2>2, <3>2 DEF ParseLongitude
  <2>3. QED
    BY <1>0, <2>1, <2>2
<1> HIDE DEF h
<1>7. gps' = [h EXCEPT !.latitude = a.value, !.longitude = o.value]
  BY <1>5, <1>6
<1>8. gps' \in Results(taken.gps, taken.str)
  BY <1>2, <1>5, <1>7, ParseResults DEF h
<1>9. QED
  BY <1>0, <1>3, <1>8 DEF ParseStep, Undisturbed, HoldsPointer

LEMMA ParsingStep ==
  ASSUME TypeInv, Undisturbed, Parsing
  PROVE  ParseStep
<1>1. CASE ParseElsewhere
  <2>1. main.buf = Elsewhere /\ main.at = "GGA" /\ taken' = taken /\ main'.at = "check"
    BY <1>1, GotoType DEF ParseElsewhere, TypeInv, Stages
  <2>2. ~ taken.clean
    BY <2>1, LineIsTaken DEF HoldsPointer, Stages
  <2>3. QED
    BY <2>1, <2>2 DEF ParseStep, Undisturbed
<1>2. QED
  BY <1>1, SearchStep, ParseFixStep, ParseLatitudeStep, ParseLongitudeStep DEF Parsing

-----------------------------------------------------------------------------
LEMMA UndisturbedStep ==
  ASSUME TypeInv, Undisturbed, [Next]_vars
  PROVE  Undisturbed'
<1>1. CASE Isr
  BY <1>1, IsrStep
<1>2. CASE Uart \/ UNCHANGED vars
  BY <1>2 DEF Uart, vars, Undisturbed, HoldsPointer, Progress
<1>3. CASE Loop
  <2>1. CASE Check
    <3>1. main'.at \in {"check", "clear"}
      BY <2>1, GotoType DEF Check, TypeInv, Stages
    <3>2. QED
      BY <3>1 DEF Undisturbed, HoldsPointer
  <2>2. QED
    BY <1>3, <2>1, LastNMEAStep, ParsingStep DEF Loop, ParseStep
<1>4. QED
  BY <1>1, <1>2, <1>3 DEF Next

LEMMA InvAlways == Spec => [](TypeInv /\ Undisturbed)
<1>1. Init => TypeInv /\ Undisturbed
  BY SizesAssumption, IndexFacts
     DEF Init, GpsInit, TypeInv, Undisturbed, RcvType, RcvStrings, Terminated, Buffers,
         Index, Stages, StreamLength, SentenceLength
<1>2. TypeInv /\ Undisturbed /\ [Next]_vars => (TypeInv /\ Undisturbed)'
  BY TypeStep, UndisturbedStep
<1>3. QED
  BY <1>1, <1>2, PTL DEF Spec

(* PromptParseStaysInside, for every size of the buffers and of the ring,  *)
(* every transmission and whatever the ring drops.                         *)
THEOREM PromptParseStaysInsideAlways == Spec => []PromptParseStaysInside
<1>1. TypeInv /\ Undisturbed => PromptParseStaysInside
  <2> SUFFICES ASSUME TypeInv, Undisturbed, InParse, taken.clean
               PROVE  /\ main.buf # Elsewhere /\ ~ Torn
                      /\ Terminated(rcv.line[main.buf])
                      /\ WholeSentence => ~ Astray
    BY DEF PromptParseStaysInside, Torn
  <2>1. HoldsPointer
    BY DEF InParse, HoldsPointer, Stages
  <2>2. ASSUME NEW s \in Sentences, taken.str = Body(s), Astray PROVE FALSE
    <3>1. CharAt(Body(s), 3) = Body(s)[3] /\ CharAt(Body(s), 4) = Body(s)[4]
      BY BodyFacts DEF CharAt
    <3>2. CharAt(taken.str, 3) # NUL /\ CharAt(taken.str, 4) # NUL
      BY <2>2, <3>1, BodyFacts, NulIsNoChar
    <3>3. main.at # "astray"
      BY <2>1, <3>2 DEF Undisturbed, Progress
    <3>4. CASE main.at \in {"lat", "lon"}
      <4>1. LineKind(taken.str) # "OTHER"
        BY <2>1, <3>4 DEF Undisturbed, Progress
      <4>2. CharOf(2) # NUL /\ CharOf(3) # NUL
        BY <2>1, <3>2, <4>1, CoordinatePlaces
      <4>3. QED
        BY <2>2, <3>3, <4>2 DEF Astray
    <3>5. QED
      BY <2>2, <3>3, <3>4 DEF Astray
  <2>3. QED
    BY <2>1, <2>2, LineIsTaken DEF WholeSentence
<1>2. QED
  BY <1>1, InvAlways, PTL

(* ... and has the result it would have without interrupts.                *)
THEOREM PromptParseIsAtomicAlways == Spec => PromptParseIsAtomic
<1> DEFINE Prompt == Parsing /\ main'.at = "check" /\ taken.clean
                       => gps' \in {p.gps : p \in Parse(taken.gps, taken.str)}
<1>1. TypeInv /\ Undisturbed /\ [Next]_vars => [Prompt]_vars
  BY ParsingStep DEF ParseStep, Results
<1>2. QED
  BY <1>1, InvAlways, PTL DEF Spec, PromptParseIsAtomic

-----------------------------------------------------------------------------
(* The position, while nothing is dropped                                  *)

(* The inductive invariant: what read() has collected follows from how     *)
(* many characters it has taken, as in GpsPolling_proofs; a pointer that   *)
(* loop() takes or has taken is to a line that was received; and after the *)
(* prompt parse of a line the position is that of the line.                *)
Fresh ==
  LET s == LinesReceived
  IN /\ RingInOrder
     /\ Collected(rcv, Consumed)
     /\ s >= 1 => CString(rcv.line[rcv.lastline]) = Body(s)
     /\ rcv.recvdflag \/ main.at \in {"clear", "low"} \/ taken.clean => s >= 1
     /\ taken.clean /\ ~ HoldsPointer /\ Kind[s] # "OTHER" =>
          gps.latitude = s /\ gps.longitude = s

FreshInv ==
  /\ IsGps(gps) /\ IsGps(taken.gps)
  /\ ~ lost => Fresh

LEMMA LinesReceivedType ==
  ASSUME TypeInv, RingInOrder
  PROVE  /\ LinesReceived = Consumed \div 5
         /\ LinesReceived \in Nat
         /\ LinesReceived >= 1 => LinesReceived \in Sentences
<1>1. Len(rx) \in Nat /\ Len(rx) <= sent /\ sent \in Nat /\ sent <= NumSentences * 5
  BY SizesAssumption DEF TypeInv, RingInOrder, StreamLength, SentenceLength
<1>2. LinesReceived = (sent - Len(rx)) \div 5
  BY DEF LinesReceived, SentenceLength
<1>3. QED
  BY <1>1, <1>2, SizesAssumption DEF Sentences, Consumed

LEMMA FreshInit == Init => FreshInv
<1> SUFFICES ASSUME Init PROVE FreshInv
  OBVIOUS
<1>1. rx = << >> /\ sent = 0
  BY DEF Init, GpsInit
<1>2. Len(rx) = 0
  BY <1>1, EmptySeq
<1>3. Consumed = 0 - 0 /\ LinesReceived = (0 - 0) \div 5
  BY <1>1, <1>2 DEF Consumed, LinesReceived, SentenceLength
<1>4. RingInOrder /\ Collected(rcv, Consumed) /\ ~ (LinesReceived >= 1)
  BY <1>1, <1>2, <1>3 DEF RingInOrder, Collected, SentenceLength
<1>5. IsGps(gps) /\ IsGps(taken.gps)
  BY DEF Init, GpsInit, IsGps
<1>6. ~ rcv.recvdflag /\ main.at = "check" /\ ~ taken.clean
  BY DEF Init, GpsInit
<1>7. QED
  BY <1>4, <1>5, <1>6 DEF FreshInv, Fresh

(* The interrupt takes the next character: of the same line, or the        *)
(* newline after which nothing is claimed of the position.                 *)
LEMMA FreshIsr ==
  ASSUME MaxLine >= SentenceLength, TypeInv, FreshInv, Isr
  PROVE  FreshInv'
<1>1. /\ rx # << >> /\ rx' = Tail(rx) /\ UNCHANGED <<gps, sent, lost, main>>
      /\ rcv' = Receive(rcv, Head(rx))
      /\ taken' = [taken EXCEPT !.clean = @ /\ Head(rx).tok # "nl"]
  BY DEF Isr
<1>2. /\ taken'.gps = taken.gps
      /\ taken'.clean = (taken.clean /\ Head(rx).tok # "nl")
  BY <1>1 DEF TypeInv
<1>3. IsGps(gps') /\ IsGps(taken'.gps)
  BY <1>1, <1>2 DEF FreshInv
<1>4. SUFFICES ASSUME ~ lost PROVE Fresh'
  BY <1>1, <1>3 DEF FreshInv
<1> DEFINE n == Consumed
           r == Receive(rcv, Head(rx))
<1>5. /\ RingInOrder' /\ Consumed' = n + 1 /\ n \in 0 .. StreamLength - 1
      /\ Head(rx) = StreamChar(n + 1)
  BY <1>1, <1>4, RingShrinks DEF TypeInv, FreshInv, Fresh
<1>6. /\ Collected(r, n + 1)
      /\ (n + 1) % 5 # 0 => /\ r.recvdflag = rcv.recvdflag /\ r.lastline = rcv.lastline
                            /\ r.line[r.lastline] = rcv.line[rcv.lastline]
      /\ (n + 1) % 5 = 0 => /\ CString(r.line[r.lastline]) = Body((n + 1) \div 5)
  BY <1>4, <1>5, ReceiveCollects DEF TypeInv, FreshInv, Fresh, SentenceLength
<1>7. n \in Nat /\ n + 1 <= NumSentences * 5
  BY <1>5, SizesAssumption DEF StreamLength, SentenceLength
<1>8. LinesReceived = n \div 5 /\ LinesReceived' = (n + 1) \div 5
  BY <1>5 DEF LinesReceived, Consumed, SentenceLength
<1>9. (n + 1) % 5 = 0 <=> Head(rx).tok = "nl"
  <2>1. /\ n \div 5 + 1 \in Sentences /\ n % 5 \in 0 .. 4
        /\ Head(rx) = IF n % 5 = 4 THEN [tok |-> "nl", sen |-> n \div 5 + 1]
                      ELSE Body(n \div 5 + 1)[(n % 5) + 1]
    BY <1>5, NextStreamChar
  <2>2. n % 5 # 4 => (n % 5) + 1 \in 1 .. 4 /\ Head(rx).tok # "nl"
    <3>1. \A i \in 1 .. 4 : Body(n \div 5 + 1)[i].tok # "nl"
      BY <2>1, BodyFacts
    <3>2. QED
      BY <2>1, <3>1
  <2>3. QED
    BY <1>7, <2>1, <2>2
<1> HIDE DEF n, r
<1>10. CASE (n + 1) % 5 # 0
  <2>1. LinesReceived' = LinesReceived
    BY <1>7, <1>8, <1>10
  <2>2. taken'.clean => taken.clean
    BY <1>2
  <2>3. HoldsPointer' = HoldsPointer
    BY <1>1 DEF HoldsPointer
  <2>4. rcv' = r
    BY <1>1 DEF r
  <2>5. QED
    BY <1>1, <1>4, <1>5, <1>6, <1>10, <2>1, <2>2, <2>3, <2>4 DEF FreshInv, Fresh
<1>11. CASE (n + 1) % 5 = 0
  <2>1. LinesReceived' >= 1
    BY <1>7, <1>8, <1>11
  <2>2. ~ taken'.clean
    BY <1>2, <1>9, <1>11
  <2>3. CString(rcv'.line[rcv'.lastline]) = Body(LinesReceived')
    BY <1>1, <1>6, <1>8, <1>11 DEF r
  <2>4. Collected(rcv', Consumed')
    BY <1>1, <1>5, <1>6 DEF r
  <2>5. QED
    BY <1>5, <2>1, <2>2, <2>3, <2>4 DEF Fresh
<1>12. QED
  BY <1>10, <1>11

LEMMA FreshUart ==
  ASSUME TypeInv, FreshInv, Uart
  PROVE  FreshInv'
<1>1. UNCHANGED <<rcv, gps, main, taken>>
  BY DEF Uart
<1>2. SUFFICES ASSUME ~ lost' PROVE Fresh'
  BY <1>1 DEF FreshInv
<1>3. ~ lost /\ RingInOrder' /\ Consumed' = Consumed
  BY <1>2, RingGrows DEF TypeInv, FreshInv, Fresh, Uart, UartReceive
<1>4. LinesReceived' = LinesReceived /\ HoldsPointer' = HoldsPointer
  BY <1>1, <1>3 DEF LinesReceived, Consumed, HoldsPointer
<1>5. QED
  BY <1>1, <1>3, <1>4 DEF FreshInv, Fresh

(* loop() outside of parse(): the flag announces a line; the line that is  *)
(* taken is the newest.                                                    *)
LEMMA FreshLoop ==
  ASSUME TypeInv, FreshInv, Check \/ LastNMEA, UNCHANGED uartVars
  PROVE  FreshInv'
<1>1. /\ LinesReceived' = LinesReceived /\ Consumed' = Consumed /\ lost' = lost
      /\ RingInOrder' = RingInOrder /\ rx' = rx
  BY DEF uartVars, LinesReceived, Consumed, RingInOrder
<1>2. CASE Check
  <2>1. /\ UNCHANGED <<rcv, gps, taken>> /\ main.at = "check"
        /\ main'.at = IF rcv.recvdflag THEN "clear" ELSE "check"
    BY <1>2, GotoType DEF Check, TypeInv, Stages
  <2>2. ~ HoldsPointer /\ ~ HoldsPointer'
    BY <2>1 DEF HoldsPointer
  <2>3. QED
    BY <1>1, <2>1, <2>2 DEF FreshInv, Fresh
<1>3. CASE TakeLow
  <2>1. /\ rcv' = rcv /\ gps' = gps /\ main.at = "low" /\ main'.at = "high"
        /\ taken'.gps = gps
    BY <1>3 DEF TakeLow
  <2>2. HoldsPointer'
    BY <2>1 DEF HoldsPointer, Stages
  <2>3. QED
    BY <1>1, <2>1, <2>2 DEF FreshInv, Fresh
<1>4. CASE TakeHigh /\ UNCHANGED rcv
  <2>1. /\ UNCHANGED <<rcv, gps, taken>> /\ main'.at = "GGA"
    BY <1>4 DEF TakeHigh
  <2>2. HoldsPointer'
    BY <2>1 DEF HoldsPointer, Stages
  <2>3. QED
    BY <1>1, <2>1, <2>2 DEF FreshInv, Fresh
<1>5. CASE main.at = "clear" /\ Goto("low") /\ rcv' = ClearFlag(rcv) /\ UNCHANGED <<gps, taken>>
  <2>1. main'.at = "low"
    BY <1>5, GotoType DEF TypeInv, Stages
  <2>2. /\ rcv'.line = rcv.line /\ rcv'.lastline = rcv.lastline
        /\ rcv'.currentline = rcv.currentline /\ rcv'.lineidx = rcv.lineidx
    BY <1>5 DEF ClearFlag, TypeInv, RcvType
  <2>3. ~ HoldsPointer /\ ~ HoldsPointer'
    BY <1>5, <2>1 DEF HoldsPointer
  <2>4. Collected(rcv, Consumed) => Collected(rcv', Consumed)
    BY <2>2 DEF Collected
  <2>5. QED
    BY <1>1, <1>5, <2>1, <2>2, <2>3, <2>4 DEF FreshInv, Fresh
<1>6. QED
  BY <1>2, <1>3, <1>4, <1>5 DEF LastNMEA

(* A step of parse(): it leaves with a result of the newest line.          *)
LEMMA FreshParsing ==
  ASSUME TypeInv, Undisturbed, FreshInv, Parsing, UNCHANGED uartVars
  PROVE  FreshInv'
<1>1. /\ LinesReceived' = LinesReceived /\ Consumed' = Consumed /\ lost' = lost
      /\ RingInOrder' = RingInOrder /\ rx' = rx
  BY DEF uartVars, LinesReceived, Consumed, RingInOrder
<1>2. UNCHANGED <<rcv, taken>> /\ HoldsPointer
  BY DEF Parsing, Search, ParseFix, ParseLatitude, ParseLongitude, ParseElsewhere,
         HoldsPointer, Stages
<1>3. IsGps(gps')
  BY DEF Parsing, Search, ParseFix, ParseLatitude, ParseLongitude, ParseElsewhere,
         FreshInv, IsGps
<1>4. SUFFICES ASSUME ~ lost PROVE Fresh'
  BY <1>1, <1>2, <1>3 DEF FreshInv
<1>5. main'.at \in {"check"} \cup {"RMC", "fix", "lat", "lon", "astray"}
  BY GotoType DEF Parsing, Search, ParseFix, ParseLatitude, ParseLongitude,
                  ParseElsewhere, TypeInv, Stages
<1>6. ASSUME taken.clean, ~ HoldsPointer', Kind[LinesReceived] # "OTHER"
      PROVE  gps'.latitude = LinesReceived /\ gps'.longitude = LinesReceived
  <2> DEFINE s == LinesReceived
  <2>1. s \in Sentences
    BY <1>4, <1>6, LinesReceivedType DEF FreshInv, Fresh
  <2>2. taken.str = Body(s)
    BY <1>2, <1>4, <1>6 DEF Undisturbed, FreshInv, Fresh
  <2>3. main'.at = "check"
    BY <1>5, <1>6 DEF HoldsPointer, Stages
  <2>4. gps' \in Results(taken.gps, Body(s))
    BY <1>6, <2>2, <2>3, ParsingStep DEF ParseStep
  <2> HIDE DEF s
  <2>5. PICK p \in Parse(taken.gps, Body(s)) : gps' = p.gps
    BY <2>4 DEF Results
  <2>6. QED
    BY <1>6, <2>1, <2>5, ParseSentence DEF FreshInv, s
<1>7. main'.at \notin {"clear", "low"}
  BY <1>5
<1>8. QED
  BY <1>1, <1>2, <1>4, <1>6, <1>7 DEF FreshInv, Fresh

(* PromptPositionIsFresh, for every transmission and every size of the     *)
(* ring, when a line buffer is at least as long as a sentence: as long as  *)
(* no newline overtakes the parse and nothing is dropped, loop() has the   *)
(* position of the newest sentence when the parse of it is done.           *)
THEOREM PromptPositionIsFreshAlways ==
  ASSUME MaxLine >= SentenceLength PROVE Spec => []PromptPositionIsFresh
<1>1. TypeInv /\ Undisturbed /\ FreshInv /\ [Next]_vars => FreshInv'
  <2> SUFFICES ASSUME TypeInv, Undisturbed, FreshInv, [Next]_vars PROVE FreshInv'
    OBVIOUS
  <2>1. CASE UNCHANGED vars
    BY <2>1 DEF vars, FreshInv, Fresh, LinesReceived, Consumed, RingInOrder, HoldsPointer
  <2>2. CASE Loop
    BY <2>2, FreshLoop, FreshParsing DEF Loop
  <2>3. QED
    BY <2>1, <2>2, FreshIsr, FreshUart DEF Next
<1>2. FreshInv => PromptPositionIsFresh
  BY DEF FreshInv, Fresh, PromptPositionIsFresh, HoldsPointer
<1>3. QED
  BY <1>1, <1>2, FreshInit, InvAlways, PTL DEF Spec

=============================================================================
