--------------------------- MODULE GpsPolling_proofs ---------------------------
(***************************************************************************)
(* Proofs about the polled GPS receiver, for every buffer size, ring size  *)
(* and transmission: the lines given to parse() are fragments of what was  *)
(* sent, in its order, and the whole sentences when nothing is dropped.    *)
(***************************************************************************)
EXTENDS GpsPolling, GpsReceiver_proofs, SequenceTheorems

(* The receiver and the ring are sound, whatever was dropped.              *)
TypeInv ==
  /\ RcvType(rcv) /\ RcvStrings(rcv)
  /\ rx \in Seq(Char) /\ sent \in 0 .. StreamLength

(* The receiver as an iteration of loop() finds it after its read().       *)
Received == IF rx = << >> THEN rcv ELSE Receive(rcv, Head(rx))

LEMMA TypeInit == Init => TypeInv
BY SizesAssumption, IndexFacts
   DEF Init, GpsInit, TypeInv, RcvType, RcvStrings, Terminated, Buffers, Index,
       StreamLength, SentenceLength

LEMMA TypeStep ==
  ASSUME TypeInv, [Next]_vars
  PROVE  TypeInv'
<1> USE DEF TypeInv
<1>1. CASE Loop
  <2>1. RcvType(Received) /\ RcvStrings(Received)
    BY ReceiveFacts DEF Received
  <2>2. RcvType(ClearFlag(Received)) /\ RcvStrings(ClearFlag(Received))
    BY <2>1 DEF ClearFlag, RcvType, RcvStrings
  <2>3. rcv' \in {Received, ClearFlag(Received)}
    BY <1>1 DEF Loop, Received
  <2>4. rx' \in Seq(Char) /\ sent' = sent
    BY <1>1 DEF Loop
  <2>5. QED
    BY <2>1, <2>2, <2>3, <2>4
<1>2. CASE Uart
  <2>1. rcv' = rcv /\ sent < StreamLength /\ sent' = sent + 1
    BY <1>2 DEF Uart, UartReceive
  <2>2. StreamLength \in Nat
    BY SizesAssumption DEF StreamLength, SentenceLength
  <2>3. StreamChar(sent + 1) \in Char
    BY <2>1, <2>2, StreamCharType
  <2>4. rx' \in Seq(Char)
    BY <1>2, <2>3 DEF Uart, UartReceive
  <2>5. QED
    BY <2>1, <2>2, <2>4
<1>3. CASE UNCHANGED vars
  BY <1>3 DEF vars
<1>4. QED
  BY <1>1, <1>2, <1>3 DEF Next

-----------------------------------------------------------------------------
(* Whatever is dropped                                                     *)

(* No two characters of the transmission are the same.                     *)
LEMMA PlaceOf ==
  ASSUME NEW k \in 1 .. StreamLength
  PROVE  Place(StreamChar(k)) = k
<1> DEFINE Tok == << "$", "hdr", "lat", "lon", "nl" >>
<1>1. ASSUME NEW l \in 1 .. StreamLength
      PROVE  /\ StreamChar(l).sen = (l - 1) \div 5 + 1
             /\ StreamChar(l).tok = Tok[((l - 1) % 5) + 1]
             /\ (l - 1) % 5 \in 0 .. 4 /\ l = 5 * ((l - 1) \div 5) + ((l - 1) % 5) + 1
  <2> DEFINE n == l - 1
             s == n \div 5 + 1
  <2>1. n \in 0 .. StreamLength - 1 /\ n + 1 = l
    BY SizesAssumption DEF StreamLength, SentenceLength
  <2>2. /\ s \in Sentences /\ n % 5 \in 0 .. 4
        /\ StreamChar(l) = IF n % 5 = 4 THEN [tok |-> "nl", sen |-> s]
                           ELSE Body(s)[(n % 5) + 1]
    BY <2>1, NextStreamChar
  <2>3. l = 5 * (n \div 5) + (n % 5) + 1
    BY <2>1
  <2> HIDE DEF n, s
  <2>4. StreamChar(l).sen = s /\ StreamChar(l).tok = Tok[(n % 5) + 1]
    <3>1. CASE n % 5 = 4
      BY <2>2, <3>1
    <3>2. CASE n % 5 \in 0 .. 3
      BY <2>2, <3>2, BodyFacts
    <3>3. QED
      BY <2>2, <3>1, <3>2
  <2>5. QED
    BY <2>2, <2>3, <2>4 DEF n, s
<1>2. ASSUME NEW i \in 0 .. 4, NEW j \in 0 .. 4, Tok[i + 1] = Tok[j + 1] PROVE i = j
  BY <1>2
<1> HIDE DEF Tok
<1>3. ASSUME NEW l \in 1 .. StreamLength, StreamChar(l) = StreamChar(k) PROVE l = k
  <2>1. (l - 1) % 5 = (k - 1) % 5
    BY <1>1, <1>2, <1>3
  <2>2. (l - 1) \div 5 = (k - 1) \div 5
    BY <1>1, <1>3, SizesAssumption DEF StreamLength, SentenceLength
  <2>3. QED
    BY <1>1, <2>1, <2>2
<1>4. QED
  BY <1>3 DEF Place

(* The first i places of the line that read() is filling hold characters   *)
(* in the order sent, after place h of the transmission and up to n.       *)
LineHolds(r, h, n) ==
  LET line == r.line[r.currentline]
  IN \A i \in 0 .. r.lineidx - 1 :
       /\ line[i] \in Char /\ Place(line[i]) \in h + 1 .. n
       /\ \A j \in i + 1 .. r.lineidx - 1 :
            Place(line[i]) < Place(line[j]) /\ line[j].tok \notin {"$", "nl"}

(* The ring holds characters in the order sent, all after place n.         *)
RingHolds(n) ==
  \A i \in 1 .. Len(rx) :
    /\ Place(rx[i]) \in n + 1 .. sent
    /\ \A j \in i + 1 .. Len(rx) : Place(rx[i]) < Place(rx[j])

(* The lines given to parse() are made of the first h characters.          *)
HandedHolds(h) ==
  /\ handed \in Seq(Seq(Char))
  /\ \A m \in 1 .. Len(handed) :
       \A i \in 1 .. Len(handed[m]) : Place(handed[m][i]) \in 1 .. h
  /\ HandedOutLinesAreFragments

(* The inductive invariant: the transmission is cut in two places, h and   *)
(* n; what was handed out, what read() is collecting and what waits in the *)
(* ring come from one of the three parts each.                             *)
FragmentInv ==
  /\ ~ rcv.recvdflag
  /\ \E h, n \in 0 .. sent : h <= n /\ HandedHolds(h) /\ LineHolds(rcv, h, n) /\ RingHolds(n)

LEMMA FragmentInit == Init => FragmentInv
<1> SUFFICES ASSUME Init PROVE FragmentInv
  OBVIOUS
<1>1. /\ rcv.lineidx = 0 /\ ~ rcv.recvdflag /\ sent = 0
      /\ rx = << >> /\ handed = << >>
  BY DEF Init, GpsInit
<1>2. HandedHolds(0) /\ LineHolds(rcv, 0, 0) /\ RingHolds(0)
  BY <1>1 DEF HandedHolds, HandedOutLinesAreFragments, LineHolds, RingHolds
<1>3. QED
  BY <1>1, <1>2 DEF FragmentInv

(* A character of the transmission goes to the end of the line.            *)
LEMMA PutCharHolds ==
  ASSUME NEW r, RcvType(r), RcvStrings(r), NEW c \in Char,
         NEW h \in Nat, NEW n \in Nat, h <= n, LineHolds(r, h, n),
         Place(c) \in Nat, n < Place(c),
         r.lineidx = 0 \/ c.tok \notin {"$", "nl"}
  PROVE  LineHolds(PutChar(r, c), h, Place(c))
<1> DEFINE q == PutChar(r, c)
           old == r.line[r.currentline]
           new == q.line[q.currentline]
           l == r.lineidx
           p == Place(c)
<1>1. /\ new = [old EXCEPT ![l] = c]
      /\ q.lineidx = IF l + 1 >= MaxLine THEN MaxLine - 1 ELSE l + 1
  BY PutCharParts
<1>2. l \in Index /\ old \in [Index -> Char \cup {NUL}]
  BY DEF RcvType
<1>3. /\ l \in Nat /\ q.lineidx \in Nat /\ q.lineidx <= l + 1
      /\ \A i \in 0 .. q.lineidx - 1 : i \in Index /\ i \in 0 .. l
  BY <1>1, <1>2, SizesAssumption DEF Index
<1>4. \A i \in 0 .. l : i \in Index
  BY <1>2, SizesAssumption DEF Index
<1>5. new[l] = c /\ \A i \in 0 .. l - 1 : new[i] = old[i]
  BY <1>1, <1>2, <1>3, <1>4
<1>6. \A i \in 0 .. l - 1 :
        /\ old[i] \in Char /\ Place(old[i]) \in h + 1 .. n
        /\ \A j \in i + 1 .. l - 1 :
             Place(old[i]) < Place(old[j]) /\ old[j].tok \notin {"$", "nl"}
  BY DEF LineHolds
<1>7. LineHolds(q, h, p) <=>
        \A i \in 0 .. q.lineidx - 1 :
          /\ new[i] \in Char /\ Place(new[i]) \in h + 1 .. p
          /\ \A j \in i + 1 .. q.lineidx - 1 :
               Place(new[i]) < Place(new[j]) /\ new[j].tok \notin {"$", "nl"}
  BY DEF LineHolds
<1> HIDE DEF old, new, l, q
<1>8. ASSUME NEW i \in 0 .. q.lineidx - 1
      PROVE  new[i] \in Char /\ Place(new[i]) \in h + 1 .. p
  <2>1. i \in 0 .. l - 1 \/ i = l
    BY <1>3
  <2>2. QED
    BY <1>5, <1>6, <2>1
<1>9. ASSUME NEW i \in 0 .. q.lineidx - 1, NEW j \in i + 1 .. q.lineidx - 1
      PROVE  Place(new[i]) < Place(new[j]) /\ new[j].tok \notin {"$", "nl"}
  <2>1. i \in 0 .. l - 1 /\ (j \in i + 1 .. l - 1 \/ j = l) /\ l # 0
    BY <1>3
  <2>2. CASE j \in i + 1 .. l - 1
    <3>1. j \in 0 .. l - 1
      BY <1>3, <2>1, <2>2
    <3>2. QED
      BY <1>5, <1>6, <2>1, <2>2, <3>1
  <2>3. CASE j = l
    BY <1>5, <1>6, <2>1, <2>3 DEF l
  <2>4. QED
    BY <2>1, <2>2, <2>3
<1>10. QED
  BY <1>7, <1>8, <1>9 DEF q

(* The string in a buffer that held a line and was closed behind it.       *)
LEMMA ClosedLine ==
  ASSUME NEW r, RcvType(r), NEW h \in Nat, NEW n \in Nat, LineHolds(r, h, n),
         NEW buf, buf = [r.line[r.currentline] EXCEPT ![r.lineidx] = NUL]
  PROVE  /\ CString(buf) \in Seq(Char) /\ Fragment(CString(buf))
         /\ \A i \in 1 .. Len(CString(buf)) : Place(CString(buf)[i]) \in h + 1 .. n
<1> DEFINE old == r.line[r.currentline]
           l == r.lineidx
           str == CString(buf)
<1>1. l \in Index /\ l \in Nat /\ old \in Buffer /\ \A i \in 0 .. l - 1 : i \in Index
  BY SizesAssumption DEF RcvType, Index, Buffer
<1>2. buf \in Buffer /\ buf[l] = NUL /\ \A i \in 0 .. l - 1 : buf[i] = old[i]
  BY <1>1 DEF Buffer
<1>3. \A i \in 0 .. l - 1 :
        /\ old[i] \in Char /\ Place(old[i]) \in h + 1 .. n
        /\ \A j \in i + 1 .. l - 1 :
             Place(old[i]) < Place(old[j]) /\ old[j].tok \notin {"$", "nl"}
  BY DEF LineHolds
<1> HIDE DEF old, l
<1>4. PICK k \in Index : /\ Len(str) = k /\ str \in Seq(Char)
                         /\ \A i \in 0 .. k : CharAt(str, i + 1) = buf[i]
                         /\ \A i \in 0 .. k - 1 : buf[i] # NUL
                         /\ buf[k] = NUL
  BY <1>1, <1>2, CStringFacts DEF Terminated
<1> HIDE DEF str
<1>5. k \in Nat /\ k = l
  <2>1. k \in Nat
    BY SizesAssumption DEF Index
  <2>2. ~ (l < k)
    BY <1>1, <1>2, <1>4, <2>1
  <2>3. ASSUME k < l PROVE FALSE
    <3>1. k \in 0 .. l - 1
      BY <1>1, <2>1, <2>3
    <3>2. old[k] \in Char /\ old[k] = NUL
      BY <1>2, <1>3, <1>4, <3>1
    <3>3. QED
      BY <3>2, NulIsNoChar
  <2>4. QED
    BY <1>1, <2>1, <2>2, <2>3
<1>6. \A i \in 1 .. Len(str) : str[i] = old[i - 1] /\ i - 1 \in 0 .. l - 1
  <2> TAKE i \in 1 .. Len(str)
  <2>1. i - 1 \in 0 .. l - 1 /\ i - 1 \in 0 .. k /\ (i - 1) + 1 = i
    BY <1>4, <1>5
  <2>2. CharAt(str, i) = str[i]
    BY <1>4 DEF CharAt
  <2>3. QED
    BY <1>2, <1>4, <2>1, <2>2
<1>7. \A i \in 1 .. Len(str) : Place(str[i]) \in h + 1 .. n
  BY <1>3, <1>6
<1>8. ASSUME NEW i \in 1 .. Len(str), NEW j \in 1 .. Len(str), i < j
      PROVE  Place(str[i]) < Place(str[j]) /\ str[j].tok \notin {"$", "nl"}
  <2>1. j - 1 \in (i - 1) + 1 .. l - 1
    BY <1>4, <1>5, <1>8
  <2>2. QED
    BY <1>3, <1>6, <2>1
<1>9. QED
  BY <1>4, <1>7, <1>8 DEF Fragment, str

LEMMA FragmentLoop ==
  ASSUME TypeInv, FragmentInv, Loop
  PROVE  FragmentInv'
<1>1. /\ ~ rcv.recvdflag /\ sent' = sent /\ sent \in Nat
      /\ RcvType(rcv) /\ RcvStrings(rcv) /\ rx \in Seq(Char)
  BY SizesAssumption DEF FragmentInv, Loop, TypeInv, StreamLength, SentenceLength
<1>2. PICK h \in 0 .. sent, n \in 0 .. sent :
        h <= n /\ HandedHolds(h) /\ LineHolds(rcv, h, n) /\ RingHolds(n)
  BY DEF FragmentInv
<1> DEFINE str == CString(Received.line[Received.lastline])
<1>3. IF Received.recvdflag
      THEN rcv' = ClearFlag(Received) /\ handed' = Append(handed, str)
      ELSE rcv' = Received /\ handed' = handed
  BY DEF Loop, Received
<1> HIDE DEF str
<1>4. CASE rx = << >>
  <2>1. rcv' = rcv /\ handed' = handed /\ rx' = rx
    BY <1>1, <1>3, <1>4 DEF Received, Loop
  <2>2. HandedHolds(h)' /\ LineHolds(rcv, h, n)' /\ RingHolds(n)'
    BY <1>1, <1>2, <2>1
       DEF HandedHolds, HandedOutLinesAreFragments, LineHolds, RingHolds
  <2>3. QED
    BY <1>1, <1>2, <2>1, <2>2 DEF FragmentInv
<1>5. CASE rx # << >>
  <2>0. PICK c \in Char : c = Head(rx) /\ c = rx[1]
    BY <1>1, <1>5
  <2>1. rx' = Tail(rx) /\ 1 \in 1 .. Len(rx) /\ Received = Receive(rcv, c)
    BY <1>1, <1>5, <2>0 DEF Loop, Received
  <2>2. PICK p \in Nat : p = Place(c) /\ p \in n + 1 .. sent /\ n < p
    BY <1>1, <1>2, <2>0, <2>1 DEF RingHolds
  <2>3. RingHolds(p)'
    <3>1. Len(rx') = Len(rx) - 1 /\ Len(rx) \in Nat /\ \A i \in 1 .. Len(rx') : rx'[i] = rx[i + 1]
      BY <1>1, <1>5, <2>1
    <3>2. ASSUME NEW i \in 1 .. Len(rx')
          PROVE  /\ Place(rx'[i]) \in p + 1 .. sent
                 /\ \A j \in i + 1 .. Len(rx') : Place(rx'[i]) < Place(rx'[j])
      <4>1. i + 1 \in 1 .. Len(rx) /\ i + 1 \in 1 + 1 .. Len(rx)
        BY <3>1
      <4>2. Place(rx[1]) < Place(rx[i + 1]) /\ Place(rx[i + 1]) \in n + 1 .. sent
        BY <1>2, <2>1, <4>1 DEF RingHolds
      <4>3. ASSUME NEW j \in i + 1 .. Len(rx') PROVE Place(rx'[i]) < Place(rx'[j])
        <5>1. j \in 1 .. Len(rx') /\ j + 1 \in (i + 1) + 1 .. Len(rx)
          BY <3>1
        <5>2. QED
          BY <1>2, <3>1, <4>1, <5>1 DEF RingHolds
      <4>4. p < Place(rx[i + 1]) /\ rx'[i] = rx[i + 1]
        BY <2>0, <2>2, <3>1, <4>2
      <4>5. QED
        BY <1>1, <2>2, <4>2, <4>3, <4>4
    <3>3. QED
      BY <1>1, <3>2 DEF RingHolds
  <2>4. CASE c.tok = "nl"
    <3> DEFINE m == SwapLines(rcv)
    <3>1. Received = PutChar(m, c)
      BY <2>1, <2>4, ReceiveCases
    <3>2. /\ RcvType(m) /\ RcvStrings(m) /\ m.lineidx = 0 /\ m.recvdflag
          /\ m.line[m.lastline] = [rcv.line[rcv.currentline] EXCEPT ![rcv.lineidx] = NUL]
      BY <1>1, SwapLinesParts
    <3> HIDE DEF m
    <3>3. Received.recvdflag /\ Received.line[Received.lastline] = m.line[m.lastline]
      <4>1. /\ Received.line[m.lastline] = m.line[m.lastline]
            /\ Received.lastline = m.lastline /\ Received.recvdflag = m.recvdflag
        BY <3>1, <3>2, PutCharParts
      <4>2. QED
        BY <3>2, <4>1
    <3>4. LineHolds(m, n, n)
      BY <3>2 DEF LineHolds
    <3>5. LineHolds(Received, n, p) /\ RcvType(Received)
      <4>1. n \in Nat /\ n <= n
        BY <1>1, <1>2
      <4>2. QED
        BY <2>1, <2>2, <3>1, <3>2, <3>4, <4>1, PutCharHolds, PutCharFacts
    <3>6. rcv' = ClearFlag(Received) /\ handed' = Append(handed, str)
      BY <1>3, <3>3
    <3>7. LineHolds(rcv, n, p)' /\ ~ rcv'.recvdflag
      <4>1. /\ rcv'.line = Received.line /\ rcv'.currentline = Received.currentline
            /\ rcv'.lineidx = Received.lineidx /\ ~ rcv'.recvdflag
        BY <3>5, <3>6 DEF ClearFlag, RcvType
      <4>2. QED
        BY <3>5, <4>1 DEF LineHolds
    <3>8. /\ str \in Seq(Char) /\ Fragment(str)
          /\ \A i \in 1 .. Len(str) : Place(str[i]) \in h + 1 .. n
      <4> DEFINE buf == Received.line[Received.lastline]
      <4>1. buf = [rcv.line[rcv.currentline] EXCEPT ![rcv.lineidx] = NUL]
        BY <3>2, <3>3
      <4>2. h \in Nat /\ n \in Nat
        BY <1>1, <1>2
      <4> HIDE DEF buf
      <4>3. QED
        BY <1>1, <1>2, <4>1, <4>2, ClosedLine DEF str, buf
    <3>9. HandedHolds(n)'
      <4>1. /\ handed \in Seq(Seq(Char)) /\ Len(handed) \in Nat /\ h \in Nat /\ n \in Nat
            /\ \A k \in 1 .. Len(handed) : handed[k] \in Seq(Char)
        BY <1>1, <1>2 DEF HandedHolds
      <4>2. /\ handed' \in Seq(Seq(Char)) /\ Len(handed') = Len(handed) + 1
            /\ handed'[Len(handed) + 1] = str
            /\ \A k \in 1 .. Len(handed) : handed'[k] = handed[k]
        BY <3>6, <3>8, <4>1
      <4>3. \A k \in 1 .. Len(handed) :
              /\ Fragment(handed[k])
              /\ \A i \in 1 .. Len(handed[k]) : Place(handed[k][i]) \in 1 .. h
              /\ \A l \in k + 1 .. Len(handed) : Earlier(handed[k], handed[l])
        BY <1>2 DEF HandedHolds, HandedOutLinesAreFragments
      <4>4. \A k \in 1 .. Len(handed) : Earlier(handed[k], str)
        BY <3>8, <4>1, <4>3 DEF Earlier
      <4>5. \A k \in 1 .. Len(handed') :
              \A i \in 1 .. Len(handed'[k]) : Place(handed'[k][i]) \in 1 .. n
        <5> TAKE k \in 1 .. Len(handed')
        <5>1. CASE k \in 1 .. Len(handed)
          <6>1. \A i \in 1 .. Len(handed[k]) : Place(handed[k][i]) \in 1 .. h
            BY <4>3, <5>1
          <6>2. handed'[k] = handed[k] /\ \A x \in 1 .. h : x \in 1 .. n
            BY <1>2, <4>1, <4>2, <5>1
          <6>3. QED
            BY <6>1, <6>2
        <5>2. CASE k = Len(handed) + 1
          BY <3>8, <4>1, <4>2, <5>2
        <5>3. QED
          BY <4>1, <4>2, <5>1, <5>2
      <4>6. \A k \in 1 .. Len(handed') :
              /\ Fragment(handed'[k])
              /\ \A l \in k + 1 .. Len(handed') : Earlier(handed'[k], handed'[l])
        <5> TAKE k \in 1 .. Len(handed')
        <5>1. CASE k \in 1 .. Len(handed)
          <6>1. \A l \in k + 1 .. Len(handed') :
                  \/ l \in k + 1 .. Len(handed) /\ l \in 1 .. Len(handed)
                  \/ l = Len(handed) + 1
            <7> DEFINE L == Len(handed)
            <7>1. L \in Nat /\ k \in 1 .. L /\ Len(handed') = L + 1
              BY <4>1, <4>2, <5>1
            <7> HIDE DEF L
            <7>2. \A l \in k + 1 .. L + 1 : (l \in k + 1 .. L /\ l \in 1 .. L) \/ l = L + 1
              BY <7>1
            <7>3. QED
              BY <7>1, <7>2 DEF L
          <6>2. QED
            BY <4>2, <4>3, <4>4, <5>1, <6>1
        <5>2. CASE k = Len(handed) + 1
          BY <3>8, <4>1, <4>2, <5>2
        <5>3. QED
          BY <4>1, <4>2, <5>1, <5>2
      <4>7. HandedOutLinesAreFragments'
        BY <4>6 DEF HandedOutLinesAreFragments, Fragment, Earlier
      <4>8. QED
        BY <4>2, <4>5, <4>7 DEF HandedHolds
    <3>10. p \in 0 .. sent' /\ n \in 0 .. sent' /\ n <= p
      BY <1>1, <1>2, <2>2
    <3>11. QED
      BY <2>3, <3>7, <3>9, <3>10 DEF FragmentInv
  <2>5. CASE c.tok # "nl"
    <3> DEFINE m == IF c.tok = "$" THEN RestartLine(rcv) ELSE rcv
    <3>1. Received = PutChar(m, c)
      BY <2>1, <2>5, ReceiveCases
    <3>2. /\ RcvType(m) /\ RcvStrings(m) /\ ~ m.recvdflag
          /\ m.lineidx = 0 \/ (m = rcv /\ c.tok # "$")
      BY <1>1, RestartLineParts
    <3>3. m.lineidx = 0 \/ c.tok \notin {"$", "nl"}
      BY <2>5, <3>2
    <3>4. LineHolds(m, h, n)
      BY <1>2, <3>2 DEF LineHolds
    <3> HIDE DEF m
    <3>5. LineHolds(Received, h, p) /\ ~ Received.recvdflag
      <4>1. n \in Nat /\ h \in Nat
        BY <1>1, <1>2
      <4>2. Received.recvdflag = m.recvdflag
        BY <3>1, <3>2, PutCharParts
      <4>3. LineHolds(Received, h, p)
        BY <1>2, <2>2, <3>1, <3>2, <3>3, <3>4, <4>1, PutCharHolds
      <4>4. QED
        BY <3>2, <4>2, <4>3
    <3>6. rcv' = Received /\ handed' = handed
      BY <1>3, <3>5
    <3>7. LineHolds(rcv, h, p)' /\ HandedHolds(h)'
      BY <1>2, <3>5, <3>6 DEF LineHolds, HandedHolds, HandedOutLinesAreFragments
    <3>8. p \in 0 .. sent' /\ h \in 0 .. sent' /\ h <= p
      BY <1>1, <1>2, <2>2
    <3>9. QED
      BY <2>3, <3>5, <3>6, <3>7, <3>8 DEF FragmentInv
  <2>6. QED
    BY <2>4, <2>5
<1>6. QED
  BY <1>4, <1>5

LEMMA FragmentUart ==
  ASSUME TypeInv, FragmentInv, Uart
  PROVE  FragmentInv'
<1>1. /\ UNCHANGED <<rcv, handed>> /\ sent' = sent + 1 /\ sent < StreamLength
      /\ sent \in Nat /\ rx \in Seq(Char) /\ StreamLength \in Nat
      /\ rx' = rx \/ rx' = Append(rx, StreamChar(sent + 1))
  BY SizesAssumption DEF Uart, UartReceive, TypeInv, StreamLength, SentenceLength
<1>2. PICK h \in 0 .. sent, n \in 0 .. sent :
        h <= n /\ HandedHolds(h) /\ LineHolds(rcv, h, n) /\ RingHolds(n)
  BY DEF FragmentInv
<1>3. HandedHolds(h)' /\ LineHolds(rcv, h, n)' /\ ~ rcv'.recvdflag
  BY <1>1, <1>2
     DEF FragmentInv, HandedHolds, HandedOutLinesAreFragments, LineHolds
<1>4. \A i \in 1 .. Len(rx) :
        /\ Place(rx[i]) \in n + 1 .. sent
        /\ \A j \in i + 1 .. Len(rx) : Place(rx[i]) < Place(rx[j])
  BY <1>2 DEF RingHolds
<1>5. \A i \in 1 .. Len(rx') :
        /\ Place(rx'[i]) \in n + 1 .. sent + 1
        /\ \A j \in i + 1 .. Len(rx') : Place(rx'[i]) < Place(rx'[j])
  <2>1. CASE rx' = rx
    BY <1>1, <1>2, <1>4, <2>1
  <2>2. CASE rx' = Append(rx, StreamChar(sent + 1))
    <3> DEFINE l == Len(rx)
               c == StreamChar(sent + 1)
    <3>1. Place(c) = sent + 1
      BY <1>1, PlaceOf
    <3>2. Len(rx') = l + 1 /\ rx'[l + 1] = c /\ l \in Nat
      BY <1>1, <2>2
    <3>3. \A i \in 1 .. l : rx'[i] = rx[i]
      BY <1>1, <2>2
    <3> HIDE DEF l, c
    <3>4. \A i \in 1 .. l + 1 : i \in 1 .. l \/ i = l + 1
      BY <3>2
    <3>5. \A i \in 1 .. l + 1 : Place(rx'[i]) \in n + 1 .. sent + 1
      BY <1>1, <1>2, <1>4, <3>1, <3>2, <3>3, <3>4 DEF l
    <3>6. ASSUME NEW i \in 1 .. l + 1, NEW j \in i + 1 .. l + 1
          PROVE  Place(rx'[i]) < Place(rx'[j])
      <4>1. i \in 1 .. l /\ (j \in i + 1 .. l \/ j = l + 1)
        BY <3>2
      <4>2. CASE j \in i + 1 .. l
        <5>1. j \in 1 .. l
          BY <3>2, <4>1, <4>2
        <5>2. QED
          BY <1>4, <3>3, <4>1, <4>2, <5>1 DEF l
      <4>3. CASE j = l + 1
        BY <1>1, <1>2, <1>4, <3>1, <3>2, <3>3, <4>1, <4>3 DEF l
      <4>4. QED
        BY <4>1, <4>2, <4>3
    <3>7. QED
      BY <3>2, <3>5, <3>6
  <2>3. QED
    BY <1>1, <2>1, <2>2
<1>6. RingHolds(n)'
  BY <1>1, <1>5 DEF RingHolds
<1>7. h \in 0 .. sent' /\ n \in 0 .. sent'
  BY <1>1, <1>2
<1>8. QED
  BY <1>2, <1>3, <1>6, <1>7 DEF FragmentInv

(* HandedOutLinesAreFragments, for every size of the line buffers and of   *)
(* the ring, every transmission and whatever the ring drops.               *)
THEOREM HandedOutLinesAreFragmentsAlways == Spec => []HandedOutLinesAreFragments
<1>1. TypeInv /\ FragmentInv /\ [Next]_vars => FragmentInv'
  <2> SUFFICES ASSUME TypeInv, FragmentInv, [Next]_vars PROVE FragmentInv'
    OBVIOUS
  <2>1. CASE UNCHANGED vars
    BY <2>1 DEF vars, FragmentInv, HandedHolds, HandedOutLinesAreFragments,
                LineHolds, RingHolds
  <2>2. QED
    BY <2>1, FragmentLoop, FragmentUart DEF Next
<1>2. FragmentInv => HandedOutLinesAreFragments
  BY DEF FragmentInv, HandedHolds
<1>3. QED
  BY <1>1, <1>2, TypeInit, TypeStep, FragmentInit, PTL DEF Spec

-----------------------------------------------------------------------------
(* While nothing is dropped                                                *)

(* The newest of the first n sentences that carried a position.            *)
LEMMA LastPositionInit == LastPosition(0) = 0
BY SizesAssumption DEF LastPosition, Sentences

LEMMA LastPositionNext ==
  ASSUME NEW s \in Sentences
  PROVE  LastPosition(s) = IF Kind[s] = "OTHER" THEN LastPosition(s - 1) ELSE s
<1> DEFINE known(n) == {t \in Sentences : t <= n /\ Kind[t] # "OTHER"}
           Newest(S) == IF S = {} THEN 0 ELSE CHOOSE m \in S : \A t \in S : t <= m
<1>0. \A n : LastPosition(n) = Newest(known(n))
  BY DEF LastPosition
<1>1. CASE Kind[s] = "OTHER"
  <2>1. known(s) = known(s - 1)
    BY <1>1, SizesAssumption DEF Sentences
  <2> HIDE DEF known, Newest
  <2>2. QED
    BY <1>0, <1>1, <2>1
<1>2. CASE Kind[s] # "OTHER"
  <2>1. s \in known(s) /\ \A t \in known(s) : t <= s
    BY <1>2, SizesAssumption DEF Sentences
  <2>2. \A m \in known(s) : (\A t \in known(s) : t <= m) => m = s
    BY <2>1, SizesAssumption DEF Sentences
  <2>3. (CHOOSE m \in known(s) : \A t \in known(s) : t <= m) = s
    BY <2>1, <2>2
  <2>4. QED
    BY <1>0, <1>2, <2>1, <2>3
<1>3. QED
  BY <1>1, <1>2

(* The inductive invariant: the line that read() is filling, the lines     *)
(* that were handed to parse() and the position follow from how many       *)
(* characters read() has taken; no line waits from one iteration to the    *)
(* next.                                                                   *)
Delivered ==
  /\ RingInOrder
  /\ Collected(rcv, Consumed) /\ ~ rcv.recvdflag
  /\ IsGps(gps)
  /\ handed = [s \in 1 .. LinesConsumed |-> Body(s)]
  /\ position = [lat |-> LastPosition(LinesConsumed), lon |-> LastPosition(LinesConsumed)]

LosslessInv == ~ lost => Delivered

LEMMA LosslessInit == Init => LosslessInv
<1> SUFFICES ASSUME Init PROVE Delivered
  BY DEF LosslessInv
<1>1. Len(rx) = 0 /\ sent = 0 /\ Consumed = 0 /\ LinesConsumed = 0
  <2>1. rx = << >> /\ sent = 0
    BY DEF Init, GpsInit
  <2>2. Len(rx) = 0
    BY <2>1, EmptySeq
  <2>3. Consumed = 0 - 0 /\ LinesConsumed = (0 - 0) \div 5
    BY <2>1, <2>2 DEF Consumed, LinesConsumed, SentenceLength
  <2>4. QED
    BY <2>1, <2>2, <2>3
<1>2. RingInOrder /\ Collected(rcv, Consumed)
  BY <1>1 DEF RingInOrder, Collected, SentenceLength
<1>3. IsGps(gps) /\ ~ rcv.recvdflag
  BY DEF Init, GpsInit, IsGps
<1>4. handed = [s \in 1 .. LinesConsumed |-> Body(s)]
  BY <1>1 DEF Init
<1>5. QED
  BY <1>1, <1>2, <1>3, <1>4, LastPositionInit DEF Init, Delivered

LEMMA LosslessUart ==
  ASSUME TypeInv, LosslessInv, Uart, ~ lost'
  PROVE  Delivered'
<1>1. ~ lost /\ RingInOrder' /\ Consumed' = Consumed
  BY RingGrows DEF TypeInv, LosslessInv, Delivered, Uart, UartReceive
<1>2. Delivered /\ LinesConsumed' = LinesConsumed
  BY <1>1 DEF LosslessInv, LinesConsumed, Consumed
<1>3. UNCHANGED <<rcv, gps, position, handed>>
  BY DEF Uart
<1>4. QED
  BY <1>1, <1>2, <1>3 DEF Delivered

LEMMA LosslessLoop ==
  ASSUME MaxLine >= SentenceLength, TypeInv, LosslessInv, Loop, ~ lost'
  PROVE  Delivered'
<1>1. Delivered /\ ~ lost /\ sent' = sent
  BY DEF Loop, LosslessInv
<1>2. LinesConsumed = Consumed \div 5 /\ LinesConsumed' = Consumed' \div 5
  BY DEF LinesConsumed, Consumed, SentenceLength
<1>3. CASE rx = << >>
  <2>1. rx' = rx /\ Received = rcv /\ ~ Received.recvdflag
    BY <1>1, <1>3 DEF Loop, Received, Delivered
  <2>2. rcv' = rcv /\ UNCHANGED <<gps, handed, position>>
    BY <1>3, <2>1 DEF Loop, Received
  <2>3. QED
    BY <1>1, <2>1, <2>2 DEF Delivered, RingInOrder, Consumed, LinesConsumed
<1>4. CASE rx # << >>
  <2>1. rx' = Tail(rx)
    BY <1>4 DEF Loop
  <2>2. /\ RingInOrder' /\ Consumed' = Consumed + 1
        /\ Consumed \in 0 .. StreamLength - 1
        /\ Head(rx) = StreamChar(Consumed + 1)
    BY <1>1, <1>4, <2>1, RingShrinks DEF TypeInv, Delivered
  <2> DEFINE n == Consumed
             r == Receive(rcv, StreamChar(n + 1))
             str == CString(r.line[r.lastline])
  <2>3. /\ Collected(r, n + 1)
        /\ (n + 1) % 5 # 0 => ~ r.recvdflag
        /\ (n + 1) % 5 = 0 => r.recvdflag /\ str = Body((n + 1) \div 5)
    BY <1>1, <2>2, ReceiveCollects DEF TypeInv, Delivered, SentenceLength
  <2>4. n \in Nat /\ n + 1 <= NumSentences * 5
    BY <2>2, SizesAssumption DEF StreamLength, SentenceLength
  <2>5. Received = r
    BY <1>4, <2>2 DEF Received
  <2> DEFINE line == Received.recvdflag
  <2>6. IF line
        THEN \E p \in Parse(gps, CString(Received.line[Received.lastline])) :
               /\ rcv' = ClearFlag(Received) /\ gps' = p.gps
               /\ handed' = Append(handed, CString(Received.line[Received.lastline]))
               /\ IF p.ok THEN SentenceParsed(p.gps) ELSE ParseFailed
        ELSE rcv' = Received /\ UNCHANGED <<gps, handed, position>>
    BY DEF Loop, Received
  <2> HIDE DEF r, n
  <2>7. CASE (n + 1) % 5 # 0
    <3>1. rcv' = r /\ UNCHANGED <<gps, handed, position>> /\ ~ r.recvdflag
      BY <2>3, <2>5, <2>6, <2>7
    <3>2. LinesConsumed' = LinesConsumed
      BY <1>2, <2>2, <2>4, <2>7 DEF n
    <3>3. Collected(rcv', Consumed')
      BY <2>2, <2>3, <3>1 DEF n
    <3>4. QED
      BY <1>1, <2>2, <3>1, <3>2, <3>3 DEF Delivered
  <2>8. CASE (n + 1) % 5 = 0
    <3> DEFINE s == (n + 1) \div 5
    <3>1. LinesConsumed = s - 1 /\ LinesConsumed' = s /\ s \in Sentences
      BY <1>2, <2>2, <2>4, <2>8, SizesAssumption DEF n, Sentences
    <3>2. r.recvdflag /\ str = Body(s)
      BY <2>3, <2>8
    <3>3. PICK p \in Parse(gps, Body(s)) :
            /\ rcv' = ClearFlag(r) /\ gps' = p.gps
            /\ handed' = Append(handed, Body(s))
            /\ IF p.ok THEN SentenceParsed(p.gps) ELSE ParseFailed
      BY <2>5, <2>6, <3>2
    <3>4. handed' = [t \in 1 .. s |-> Body(t)]
      <4>1. handed = [t \in 1 .. s - 1 |-> Body(t)] /\ s \in Nat \ {0}
        BY <1>1, <3>1, SizesAssumption DEF Delivered, Sentences
      <4> HIDE DEF s
      <4>2. QED
        BY <3>3, <4>1
    <3>5. /\ IsGps(p.gps)
          /\ Kind[s] = "OTHER" => ~ p.ok
          /\ Kind[s] # "OTHER" => p.ok /\ p.gps.latitude = s /\ p.gps.longitude = s
      BY <1>1, <3>1, ParseSentence DEF Delivered
    <3>6. position' = [lat |-> LastPosition(s), lon |-> LastPosition(s)]
      <4>1. position = [lat |-> LastPosition(s - 1), lon |-> LastPosition(s - 1)]
        BY <1>1, <3>1 DEF Delivered
      <4> HIDE DEF s
      <4>2. QED
        BY <3>1, <3>3, <3>5, <4>1, LastPositionNext DEF SentenceParsed, ParseFailed
    <3>7. Collected(rcv', Consumed') /\ ~ rcv'.recvdflag
      <4>1. rcv'.line = r.line /\ rcv'.currentline = r.currentline
            /\ rcv'.lineidx = r.lineidx /\ ~ rcv'.recvdflag
        <5>1. r.recvdflag \in BOOLEAN /\ RcvType(r)
          <6>1. Consumed + 1 \in 1 .. StreamLength
            BY <2>2, SizesAssumption DEF StreamLength, SentenceLength
          <6>2. QED
            BY <6>1, StreamCharType, ReceiveFacts DEF TypeInv, RcvType, r, n
        <5>2. QED
          BY <3>3, <5>1 DEF ClearFlag, RcvType
      <4>2. QED
        BY <2>2, <2>3, <4>1 DEF Collected, n
    <3>8. QED
      BY <2>2, <3>1, <3>3, <3>4, <3>5, <3>6, <3>7 DEF Delivered
  <2>9. QED
    BY <2>7, <2>8
<1>5. QED
  BY <1>3, <1>4

LEMMA LosslessAlways ==
  ASSUME MaxLine >= SentenceLength PROVE Spec => []LosslessInv
<1>1. TypeInv /\ LosslessInv /\ [Next]_vars => LosslessInv'
  <2> SUFFICES ASSUME TypeInv, LosslessInv, [Next]_vars, ~ lost' PROVE Delivered'
    BY DEF LosslessInv
  <2>1. CASE UNCHANGED vars
    BY <2>1 DEF vars, LosslessInv, Delivered, RingInOrder, Consumed, LinesConsumed
  <2>2. QED
    BY <2>1, LosslessUart, LosslessLoop DEF Next
<1>2. QED
  BY <1>1, TypeInit, TypeStep, LosslessInit, PTL DEF Spec

(* LosslessDelivery, for every transmission and every size of the ring,    *)
(* when a line buffer is at least as long as a sentence (MAXLINELENGTH is  *)
(* 120, a sentence has at most 82 characters): nothing that read() or      *)
(* lastNMEA() does duplicates, merges, cuts or reorders the sentences.     *)
THEOREM LosslessDeliveryAlways ==
  ASSUME MaxLine >= SentenceLength PROVE Spec => []LosslessDelivery
<1>1. LosslessInv => LosslessDelivery
  BY DEF LosslessInv, Delivered, LosslessDelivery
<1>2. QED
  BY <1>1, LosslessAlways, PTL

(* ... and the position the sketch logs and steers by is then that of the  *)
(* newest sentence with one, both coordinates of the same sentence.        *)
THEOREM PositionIsFreshAlways ==
  ASSUME MaxLine >= SentenceLength PROVE Spec => []PositionIsFresh
<1>1. LosslessInv => PositionIsFresh
  BY DEF LosslessInv, Delivered, PositionIsFresh
<1>2. QED
  BY <1>1, LosslessAlways, PTL

=============================================================================
