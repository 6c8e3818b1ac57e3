-------------------------- MODULE GpsReceiver_proofs --------------------------
(***************************************************************************)
(* Lemmas on the line receiver that hold whoever calls read(): the two     *)
(* line buffers never run into each other, the one handed out ends in a    *)
(* NUL, and only a newline changes it.                                     *)
(***************************************************************************)
EXTENDS GpsReceiver, WellFoundedInduction, TLAPS

(* A set of numbers has a least element.                                   *)
LEMMA LeastNumber ==
  ASSUME NEW T \in SUBSET Nat, T # {}
  PROVE  \E m \in T : \A k \in T : m <= k
<1> DEFINE R == OpToRel(<, Nat)
<1>1. PICK m \in T : \A k \in T : <<k, m>> \notin R
  <2>1. IsWellFoundedOn(R, Nat)
    BY NatLessThanWellFounded
  <2> HIDE DEF R
  <2>2. QED
    BY <2>1, WFMin
<1>2. \A k \in T : ~ (k < m)
  BY <1>1 DEF OpToRel
<1>3. QED
  BY <1>2

(* What read() and lastNMEA() preserve of the receiver's static data.      *)
RcvType(r) ==
  r \in [line : [Buffers -> [Index -> Char \cup {NUL}]],
         currentline : Buffers, lastline : Buffers,
         lineidx : Index, recvdflag : BOOLEAN]

RcvStrings(r) ==
  /\ r.lastline # r.currentline
  /\ Terminated(r.line[r.lastline])

LEMMA IndexFacts == 0 \in Index /\ MaxLine - 1 \in Index
  BY SizesAssumption DEF Index

LEMMA CloseLineFacts ==
  ASSUME NEW r, RcvType(r), RcvStrings(r)
  PROVE  /\ RcvType(CloseLine(r)) /\ RcvStrings(CloseLine(r))
         /\ Terminated(CloseLine(r).line[r.currentline])
         /\ CloseLine(r).currentline = r.currentline
         /\ CloseLine(r).lastline = r.lastline
<1> DEFINE l == [r.line EXCEPT ![r.currentline][r.lineidx] = NUL]
           q == [r EXCEPT !.line = l]
<1>1. CloseLine(r) = q
  BY DEF CloseLine
<1>2. l \in [Buffers -> [Index -> Char \cup {NUL}]]
  BY DEF RcvType
<1>3. l[r.currentline][r.lineidx] = NUL /\ l[r.lastline] = r.line[r.lastline]
  BY DEF RcvType, RcvStrings
<1>4. /\ q.line = l /\ q.currentline = r.currentline
      /\ q.lastline = r.lastline /\ RcvType(q)
  BY <1>2 DEF RcvType
<1>5. Terminated(l[r.currentline])
  BY <1>3 DEF RcvType, Terminated
<1>6. RcvStrings(q)
  BY <1>3, <1>4 DEF RcvStrings
<1>7. QED
  BY <1>1, <1>4, <1>5, <1>6

LEMMA PutCharFacts ==
  ASSUME NEW r, RcvType(r), RcvStrings(r), NEW c \in Char
  PROVE  RcvType(PutChar(r, c)) /\ RcvStrings(PutChar(r, c))
<1> DEFINE l == [r.line EXCEPT ![r.currentline][r.lineidx] = c]
           n == IF r.lineidx + 1 >= MaxLine THEN MaxLine - 1 ELSE r.lineidx + 1
           q == [r EXCEPT !.line = l, !.lineidx = n]
<1>1. PutChar(r, c) = q
  BY DEF PutChar
<1>2. l \in [Buffers -> [Index -> Char \cup {NUL}]]
  BY DEF RcvType
<1>3. l[r.lastline] = r.line[r.lastline]
  BY DEF RcvType, RcvStrings
<1>4. n \in Index
  BY SizesAssumption DEF RcvType, Index
<1>5. /\ q.line = l /\ q.currentline = r.currentline
      /\ q.lastline = r.lastline /\ RcvType(q)
  BY <1>2, <1>4 DEF RcvType
<1>6. QED
  BY <1>1, <1>3, <1>5 DEF RcvStrings, Terminated

LEMMA ReceiveFacts ==
  ASSUME NEW r, RcvType(r), RcvStrings(r), NEW c \in Char
  PROVE  RcvType(Receive(r, c)) /\ RcvStrings(Receive(r, c))
<1> DEFINE k == CloseLine(r)
<1>0. /\ RcvType(k) /\ RcvStrings(k) /\ Terminated(k.line[r.currentline])
      /\ k.currentline = r.currentline /\ k.lastline = r.lastline
  BY CloseLineFacts
<1>1. RcvType(RestartLine(r)) /\ RcvStrings(RestartLine(r))
  <2>1. RestartLine(r) = [k EXCEPT !.lineidx = 0]
    BY DEF RestartLine
  <2>2. QED
    BY <1>0, <2>1, IndexFacts DEF RcvType, RcvStrings
<1>2. RcvType(SwapLines(r)) /\ RcvStrings(SwapLines(r))
  <2> DEFINE q == [k EXCEPT !.currentline = OtherBuffer(r.currentline),
                            !.lastline = r.currentline,
                            !.lineidx = 0, !.recvdflag = TRUE]
  <2>1. SwapLines(r) = q
    BY DEF SwapLines
  <2>2. r.currentline \in Buffers
    BY DEF RcvType
  <2>3. /\ OtherBuffer(r.currentline) \in Buffers
        /\ OtherBuffer(r.currentline) # r.currentline
    BY <2>2 DEF OtherBuffer, Buffers
  <2>4. /\ q.line = k.line /\ q.lastline = r.currentline
        /\ q.currentline = OtherBuffer(r.currentline) /\ RcvType(q)
    BY <1>0, <2>2, <2>3, IndexFacts DEF RcvType
  <2>5. QED
    BY <1>0, <2>1, <2>3, <2>4 DEF RcvStrings
<1>3. QED
  BY <1>1, <1>2, PutCharFacts DEF Receive

(* What the unit sends is characters.                                      *)
LEMMA StreamCharType ==
  ASSUME NEW k \in 1 .. StreamLength
  PROVE  StreamChar(k) \in Char
<1> DEFINE s == (k - 1) \div SentenceLength + 1
           j == ((k - 1) % SentenceLength) + 1
<1>1. s \in Sentences /\ j \in 1 .. 5
  BY SizesAssumption DEF StreamLength, SentenceLength, Sentences
<1>2. CASE j = 5
  BY <1>1, <1>2 DEF StreamChar, SentenceLength, Char
<1>3. CASE j # 5
  <2>1. j \in {1, 2, 3, 4}
    BY <1>1, <1>3
  <2>2. Body(s)[j] \in Char
    BY <1>1, <2>1 DEF Body, Char
  <2>3. QED
    BY <1>3, <2>2 DEF StreamChar, SentenceLength
<1>4. QED
  BY <1>2, <1>3

(* Only a newline changes the line that was handed out, or which one it is.*)
LEMMA ReceiveKeepsLast ==
  ASSUME NEW r, RcvType(r), RcvStrings(r), NEW c \in Char, c.tok # "nl"
  PROVE  /\ Receive(r, c).lastline = r.lastline
         /\ Receive(r, c).line[r.lastline] = r.line[r.lastline]
<1> DEFINE k == CloseLine(r)
           m == IF c.tok = "$" THEN RestartLine(r) ELSE r
<1>1. /\ RcvType(k) /\ k.currentline = r.currentline /\ k.lastline = r.lastline
      /\ k.line[r.lastline] = r.line[r.lastline]
  <2>1. k.line = [r.line EXCEPT ![r.currentline][r.lineidx] = NUL]
    BY DEF CloseLine, RcvType
  <2>2. QED
    BY <2>1, CloseLineFacts DEF RcvType, RcvStrings
<1>2. /\ m.currentline = r.currentline /\ m.lastline = r.lastline
      /\ m.line[r.lastline] = r.line[r.lastline] /\ RcvType(m)
  <2>1. RestartLine(r) = [k EXCEPT !.lineidx = 0]
    BY DEF RestartLine
  <2>2. QED
    BY <1>1, <2>1, IndexFacts DEF RcvType
<1>3. Receive(r, c) = PutChar(m, c)
  BY DEF Receive
<1>4. /\ PutChar(m, c).lastline = m.lastline
      /\ PutChar(m, c).line = [m.line EXCEPT ![m.currentline][m.lineidx] = c]
  BY <1>2 DEF PutChar, RcvType
<1>5. QED
  BY <1>2, <1>3, <1>4 DEF RcvType, RcvStrings

-----------------------------------------------------------------------------
(* A terminated buffer and the C string in it agree up to and with its NUL.*)
Buffer == [Index -> Char \cup {NUL}]

LEMMA NulIsNoChar == NUL \notin Char
BY DEF NUL, Char

LEMMA CStringFacts ==
  ASSUME NEW buf \in Buffer, Terminated(buf)
  PROVE  \E n \in Index : /\ Len(CString(buf)) = n /\ CString(buf) \in Seq(Char)
                          /\ \A k \in 0 .. n : CharAt(CString(buf), k + 1) = buf[k]
                          /\ \A k \in 0 .. n - 1 : buf[k] # NUL
                          /\ buf[n] = NUL
<1> DEFINE free == {i \in Index : buf[i] = NUL}
           P(n) == /\ \A i \in 0 .. n - 1 : buf[i] # NUL
                   /\ n < MaxLine => buf[n] = NUL
<1>1. free # {} /\ free \in SUBSET Nat
  BY DEF Terminated, Index
<1>2. PICK m \in free : \A i \in free : m <= i
  BY <1>1, LeastNumber
<1>3. m \in Index /\ buf[m] = NUL /\ m \in 0 .. MaxLine /\ m < MaxLine
  BY <1>2, SizesAssumption DEF Index
<1>4. \A i \in 0 .. m - 1 : buf[i] # NUL
  <2>1. SUFFICES ASSUME NEW i \in 0 .. m - 1, buf[i] = NUL PROVE FALSE
    OBVIOUS
  <2>2. i \in Index /\ ~ (m <= i)
    BY <1>3, SizesAssumption DEF Index
  <2>3. QED
    BY <1>2, <2>1, <2>2
<1>5. P(m)
  BY <1>3, <1>4
<1>6. ASSUME NEW n \in 0 .. MaxLine, P(n) PROVE n = m
  <2>1. ~ (m < n)
    BY <1>3, <1>6
  <2>2. ~ (n < m)
    BY <1>3, <1>4, <1>6, SizesAssumption DEF Index
  <2>3. QED
    BY <1>3, <2>1, <2>2
<1>7. (CHOOSE n \in 0 .. MaxLine : P(n)) = m
  BY <1>3, <1>5, <1>6
<1>8. CString(buf) = [i \in 1 .. m |-> buf[i - 1]]
  BY <1>7 DEF CString
<1>9. ASSUME NEW i \in 1 .. m PROVE buf[i - 1] \in Char
  <2>1. i - 1 \in Index /\ i - 1 \in 0 .. m - 1
    BY <1>3, SizesAssumption DEF Index
  <2>2. QED
    BY <1>4, <2>1 DEF Buffer
<1>10. CString(buf) \in Seq(Char) /\ Len(CString(buf)) = m
  BY <1>3, <1>8, <1>9 DEF Index
<1>11. ASSUME NEW k \in 0 .. m PROVE CharAt(CString(buf), k + 1) = buf[k]
  BY <1>3, <1>8, <1>10, <1>11 DEF CharAt, Index
<1>12. QED
  BY <1>3, <1>4, <1>10, <1>11

-----------------------------------------------------------------------------
(* A transmission of which nothing is lost                                 *)

(* What the receiver holds when it has got the first n characters of the   *)
(* transmission: those of the sentence that is not complete yet.           *)
Collected(r, n) ==
  LET j == n % SentenceLength
  IN j # 0 => /\ r.lineidx = j
              /\ \A i \in 0 .. j - 1 :
                   r.line[r.currentline][i] = Body(n \div SentenceLength + 1)[i + 1]

(* How many characters read() has taken when none was dropped; the ring    *)
(* holds those that were sent after them, in order.                        *)
Consumed == sent - Len(rx)

RingInOrder ==
  /\ Len(rx) <= sent
  /\ \A i \in 1 .. Len(rx) : rx[i] = StreamChar(Consumed + i)

(* The character after the first n: a newline after four of a sentence.    *)
LEMMA NextStreamChar ==
  ASSUME NEW n \in 0 .. StreamLength - 1
  PROVE  /\ n \div 5 + 1 \in Sentences /\ n % 5 \in 0 .. 4
         /\ StreamChar(n + 1) = IF n % 5 = 4 THEN [tok |-> "nl", sen |-> n \div 5 + 1]
                                ELSE Body(n \div 5 + 1)[(n % 5) + 1]
<1>1. n \in Nat /\ n < NumSentences * 5
  BY SizesAssumption DEF StreamLength, SentenceLength
<1>2. (n + 1) - 1 = n
  BY <1>1
<1>3. n \div 5 + 1 \in Sentences /\ n % 5 \in 0 .. 4
  BY <1>1, SizesAssumption DEF Sentences
<1>4. StreamChar(n + 1) =
        LET s == n \div 5 + 1
            j == (n % 5) + 1
        IN IF j = 5 THEN [tok |-> "nl", sen |-> s] ELSE Body(s)[j]
  BY <1>2 DEF StreamChar, SentenceLength
<1>5. QED
  BY <1>3, <1>4

LEMMA BodyFacts ==
  ASSUME NEW s \in Sentences
  PROVE  /\ Body(s) \in Seq(Char) /\ Len(Body(s)) = 4
         /\ Body(s) = [i \in 1 .. 4 |-> Body(s)[i]]
         /\ Body(s)[1].tok = "$" /\ Body(s)[2].tok = "hdr"
         /\ Body(s)[3].tok = "lat" /\ Body(s)[4].tok = "lon"
         /\ \A i \in 1 .. 4 : Body(s)[i].sen = s /\ Body(s)[i] \in Char
BY DEF Body, Char

(* The C string in a buffer that holds a sentence and then a NUL.          *)
LEMMA SentenceInBuffer ==
  ASSUME NEW buf \in Buffer, NEW s \in Sentences, MaxLine >= SentenceLength,
         buf[4] = NUL, \A i \in 0 .. 3 : buf[i] = Body(s)[i + 1]
  PROVE  CString(buf) = Body(s)
<1>1. 4 \in Index
  BY SizesAssumption DEF Index, SentenceLength
<1>2. Terminated(buf)
  BY <1>1 DEF Terminated
<1>3. PICK n \in Index : /\ Len(CString(buf)) = n /\ CString(buf) \in Seq(Char)
                         /\ \A k \in 0 .. n : CharAt(CString(buf), k + 1) = buf[k]
                         /\ \A k \in 0 .. n - 1 : buf[k] # NUL
                         /\ buf[n] = NUL
  BY <1>2, CStringFacts
<1>4. \A i \in 0 .. 3 : buf[i] # NUL
  BY BodyFacts, NulIsNoChar
<1>5. n = 4
  BY <1>3, <1>4, SizesAssumption DEF Index
<1>6. \A i \in 1 .. 4 : CString(buf)[i] = Body(s)[i]
  <2> TAKE i \in 1 .. 4
  <2>1. CharAt(CString(buf), (i - 1) + 1) = buf[i - 1] /\ (i - 1) + 1 = i
    BY <1>3, <1>5
  <2>2. buf[i - 1] = Body(s)[i]
    OBVIOUS
  <2>3. QED
    BY <1>3, <1>5, <2>1, <2>2 DEF CharAt
<1>7. QED
  BY <1>3, <1>5, <1>6, BodyFacts

(* What read() does with each kind of character.                           *)
LEMMA ReceiveCases ==
  ASSUME NEW r, NEW c
  PROVE  /\ c.tok = "$" => Receive(r, c) = PutChar(RestartLine(r), c)
         /\ c.tok = "nl" => Receive(r, c) = PutChar(SwapLines(r), c)
         /\ c.tok \notin {"$", "nl"} => Receive(r, c) = PutChar(r, c)
<1>1. CASE c.tok = "$"
  BY <1>1 DEF Receive
<1>2. CASE c.tok = "nl"
  BY <1>2 DEF Receive
<1>3. CASE c.tok \notin {"$", "nl"}
  BY <1>3 DEF Receive
<1>4. QED
  BY <1>1, <1>2, <1>3

LEMMA PutCharParts ==
  ASSUME NEW r, RcvType(r), RcvStrings(r), NEW c \in Char
  PROVE  LET q == PutChar(r, c)
         IN /\ q.line[r.currentline] = [r.line[r.currentline] EXCEPT ![r.lineidx] = c]
            /\ q.line[r.lastline] = r.line[r.lastline]
            /\ q.currentline = r.currentline /\ q.lastline = r.lastline
            /\ q.recvdflag = r.recvdflag
            /\ q.lineidx = IF r.lineidx + 1 >= MaxLine THEN MaxLine - 1 ELSE r.lineidx + 1
<1> DEFINE l == [r.line EXCEPT ![r.currentline][r.lineidx] = c]
<1>1. PutChar(r, c).line = l
  BY DEF PutChar, RcvType
<1>2. l[r.currentline] = [r.line[r.currentline] EXCEPT ![r.lineidx] = c]
  BY DEF RcvType
<1>3. l[r.lastline] = r.line[r.lastline]
  BY DEF RcvType, RcvStrings
<1> HIDE DEF l
<1>4. QED
  BY <1>1, <1>2, <1>3 DEF PutChar, RcvType

LEMMA CloseLineParts ==
  ASSUME NEW r, RcvType(r), RcvStrings(r)
  PROVE  LET k == CloseLine(r)
         IN /\ k.line[r.currentline] = [r.line[r.currentline] EXCEPT ![r.lineidx] = NUL]
            /\ k.line[r.lastline] = r.line[r.lastline]
            /\ k.currentline = r.currentline /\ k.lastline = r.lastline
            /\ k.recvdflag = r.recvdflag
<1> DEFINE l == [r.line EXCEPT ![r.currentline][r.lineidx] = NUL]
<1>1. CloseLine(r).line = l
  BY DEF CloseLine, RcvType
<1>2. l[r.currentline] = [r.line[r.currentline] EXCEPT ![r.lineidx] = NUL]
  BY DEF RcvType
<1>3. l[r.lastline] = r.line[r.lastline]
  BY DEF RcvType, RcvStrings
<1> HIDE DEF l
<1>4. QED
  BY <1>1, <1>2, <1>3 DEF CloseLine, RcvType

LEMMA RestartLineParts ==
  ASSUME NEW r, RcvType(r), RcvStrings(r)
  PROVE  LET m == RestartLine(r)
         IN /\ RcvType(m) /\ RcvStrings(m) /\ m.lineidx = 0
            /\ m.currentline = r.currentline /\ m.lastline = r.lastline
            /\ m.recvdflag = r.recvdflag
            /\ m.line[r.lastline] = r.line[r.lastline]
<1> DEFINE k == CloseLine(r)
<1>1. RcvType(k) /\ RcvStrings(k)
  BY CloseLineFacts
<1>2. /\ k.line[r.lastline] = r.line[r.lastline]
      /\ k.currentline = r.currentline /\ k.lastline = r.lastline
      /\ k.recvdflag = r.recvdflag
  BY CloseLineParts
<1>3. RestartLine(r) = [k EXCEPT !.lineidx = 0]
  BY DEF RestartLine
<1> HIDE DEF k
<1>4. QED
  BY <1>1, <1>2, <1>3, IndexFacts DEF RcvType, RcvStrings

LEMMA SwapLinesParts ==
  ASSUME NEW r, RcvType(r), RcvStrings(r)
  PROVE  LET m == SwapLines(r)
         IN /\ RcvType(m) /\ RcvStrings(m) /\ m.lineidx = 0 /\ m.recvdflag
            /\ m.lastline = r.currentline
            /\ m.line[m.lastline] = [r.line[r.currentline] EXCEPT ![r.lineidx] = NUL]
<1> DEFINE k == CloseLine(r)
           q == [k EXCEPT !.currentline = OtherBuffer(r.currentline),
                          !.lastline = r.currentline,
                          !.lineidx = 0, !.recvdflag = TRUE]
<1>1. RcvType(k) /\ Terminated(k.line[r.currentline])
  BY CloseLineFacts
<1>2. k.line[r.currentline] = [r.line[r.currentline] EXCEPT ![r.lineidx] = NUL]
  BY CloseLineParts
<1>3. SwapLines(r) = q
  BY DEF SwapLines
<1>4. r.currentline \in Buffers
  BY DEF RcvType
<1>5. /\ OtherBuffer(r.currentline) \in Buffers
      /\ OtherBuffer(r.currentline) # r.currentline
  BY <1>4 DEF OtherBuffer, Buffers
<1> HIDE DEF k
<1>6. /\ q.line = k.line /\ q.lastline = r.currentline /\ q.lineidx = 0
      /\ q.recvdflag /\ q.currentline = OtherBuffer(r.currentline) /\ RcvType(q)
  BY <1>1, <1>4, <1>5, IndexFacts DEF RcvType
<1>7. QED
  BY <1>1, <1>2, <1>3, <1>5, <1>6 DEF RcvStrings

(* read() with the next character of the transmission: the line grows, or  *)
(* is complete and the buffer handed out holds the whole sentence.         *)
LEMMA ReceiveCollects ==
  ASSUME NEW r, RcvType(r), RcvStrings(r), MaxLine >= SentenceLength,
         NEW n \in 0 .. StreamLength - 1, Collected(r, n)
  PROVE  LET q == Receive(r, StreamChar(n + 1))
         IN /\ Collected(q, n + 1)
            /\ (n + 1) % SentenceLength # 0 =>
                 /\ q.recvdflag = r.recvdflag /\ q.lastline = r.lastline
                 /\ q.line[q.lastline] = r.line[r.lastline]
            /\ (n + 1) % SentenceLength = 0 =>
                 /\ q.recvdflag
                 /\ CString(q.line[q.lastline]) = Body((n + 1) \div SentenceLength)
<1> DEFINE j == n % 5
           s == n \div 5 + 1
           c == StreamChar(n + 1)
           q == Receive(r, c)
<1>1. /\ n \in Nat /\ s \in Sentences /\ j \in 0 .. 4
      /\ c = IF j = 4 THEN [tok |-> "nl", sen |-> s] ELSE Body(s)[j + 1]
  BY NextStreamChar, SizesAssumption DEF StreamLength, SentenceLength
<1>2. j # 0 => /\ r.lineidx = j
               /\ \A i \in 0 .. j - 1 : r.line[r.currentline][i] = Body(s)[i + 1]
  BY DEF Collected, SentenceLength
<1>3. c \in Char
  <2>1. n + 1 \in 1 .. StreamLength
    BY SizesAssumption DEF StreamLength, SentenceLength
  <2>2. QED
    BY <2>1, StreamCharType
<1>4. RcvType(q) /\ RcvStrings(q)
  BY <1>3, ReceiveFacts
<1>5. \A i \in 0 .. 4 : i \in Index
  BY SizesAssumption DEF Index, SentenceLength
<1>6. /\ (n + 1) % 5 = (IF j = 4 THEN 0 ELSE j + 1)
      /\ j = 4 => (n + 1) \div 5 = s
      /\ j # 4 => (n + 1) \div 5 + 1 = s
  BY <1>1
<1>7. q.lineidx \in Index /\ q.currentline \in Buffers
  BY <1>4 DEF RcvType
<1> HIDE DEF j, s, c, q
<1>8. CASE j = 0
  <2>1. c = Body(s)[1] /\ c.tok = "$"
    BY <1>1, <1>8, BodyFacts
  <2> DEFINE m == RestartLine(r)
  <2>2. q = PutChar(m, c)
    BY <2>1, ReceiveCases DEF q
  <2>3. /\ RcvType(m) /\ RcvStrings(m) /\ m.lineidx = 0
        /\ m.currentline = r.currentline /\ m.lastline = r.lastline
        /\ m.recvdflag = r.recvdflag /\ m.line[r.lastline] = r.line[r.lastline]
    BY RestartLineParts
  <2> HIDE DEF m
  <2>4. /\ q.line[m.currentline] = [m.line[m.currentline] EXCEPT ![0] = c]
        /\ q.line[m.lastline] = m.line[m.lastline]
        /\ q.currentline = m.currentline /\ q.lastline = m.lastline
        /\ q.recvdflag = m.recvdflag /\ q.lineidx = 1
    BY <1>3, <1>5, <2>2, <2>3, PutCharParts, SizesAssumption DEF SentenceLength
  <2>5. q.line[q.currentline][0] = Body(s)[1]
    BY <1>5, <2>1, <2>3, <2>4 DEF RcvType
  <2>6. Collected(q, n + 1)
    <3>1. (n + 1) % 5 = 1 /\ (n + 1) \div 5 + 1 = s
      BY <1>6, <1>8
    <3>2. \A i \in 0 .. 1 - 1 : q.line[q.currentline][i] = Body(s)[i + 1]
      BY <2>5
    <3>3. QED
      BY <2>4, <3>1, <3>2 DEF Collected, SentenceLength
  <2>7. QED
    BY <1>6, <1>8, <2>3, <2>4, <2>6 DEF SentenceLength, q, c
<1>9. CASE j \in 1 .. 3
  <2>1. c = Body(s)[j + 1] /\ c.tok \notin {"$", "nl"}
    BY <1>1, <1>9, BodyFacts
  <2>2. q = PutChar(r, c)
    BY <2>1, ReceiveCases DEF q
  <2>3. /\ r.lineidx = j
        /\ \A i \in 0 .. j - 1 : r.line[r.currentline][i] = Body(s)[i + 1]
    BY <1>2, <1>9
  <2>4. /\ q.line[r.currentline] = [r.line[r.currentline] EXCEPT ![j] = c]
        /\ q.line[r.lastline] = r.line[r.lastline]
        /\ q.currentline = r.currentline /\ q.lastline = r.lastline
        /\ q.recvdflag = r.recvdflag /\ q.lineidx = j + 1
    BY <1>3, <1>9, <2>2, <2>3, PutCharParts, SizesAssumption DEF SentenceLength
  <2>5. ASSUME NEW i \in 0 .. j PROVE q.line[q.currentline][i] = Body(s)[i + 1]
    <3>1. j \in Index /\ i \in Index /\ r.line[r.currentline] \in Buffer
      BY <1>5, <1>9 DEF RcvType, Buffer
    <3>2. CASE i = j
      BY <2>1, <2>4, <3>1, <3>2 DEF Buffer
    <3>3. CASE i # j
      BY <1>9, <2>3, <2>4, <3>1, <3>3 DEF Buffer
    <3>4. QED
      BY <3>2, <3>3
  <2>6. Collected(q, n + 1)
    <3>1. (n + 1) % 5 = j + 1 /\ (n + 1) \div 5 + 1 = s /\ (j + 1) - 1 = j
      BY <1>6, <1>9
    <3>2. QED
      BY <2>4, <2>5, <3>1 DEF Collected, SentenceLength
  <2>7. QED
    BY <1>6, <1>9, <2>4, <2>6 DEF SentenceLength, q, c
<1>10. CASE j = 4
  <2>1. c.tok = "nl"
    BY <1>1, <1>10
  <2> DEFINE m == SwapLines(r)
  <2>2. q = PutChar(m, c)
    BY <2>1, ReceiveCases DEF q
  <2>3. /\ r.lineidx = 4
        /\ \A i \in 0 .. 3 : r.line[r.currentline][i] = Body(s)[i + 1]
    BY <1>2, <1>10
  <2>4. /\ RcvType(m) /\ RcvStrings(m) /\ m.lineidx = 0 /\ m.recvdflag
        /\ m.line[m.lastline] = [r.line[r.currentline] EXCEPT ![4] = NUL]
    BY <2>3, SwapLinesParts
  <2> HIDE DEF m
  <2>5. /\ q.line[m.lastline] = m.line[m.lastline]
        /\ q.lastline = m.lastline /\ q.recvdflag = m.recvdflag
    BY <1>3, <2>2, <2>4, PutCharParts
  <2> DEFINE buf == q.line[q.lastline]
  <2>6. buf = [r.line[r.currentline] EXCEPT ![4] = NUL]
    BY <2>4, <2>5
  <2>7. buf[4] = NUL /\ \A i \in 0 .. 3 : buf[i] = Body(s)[i + 1]
    BY <1>5, <2>3, <2>6 DEF RcvType
  <2>8. buf \in Buffer
    BY <1>4 DEF RcvType, Buffer
  <2> HIDE DEF buf
  <2>9. CString(buf) = Body(s)
    BY <1>1, <2>7, <2>8, SentenceInBuffer
  <2>10. Collected(q, n + 1)
    BY <1>6, <1>10 DEF Collected, SentenceLength
  <2>11. QED
    BY <1>6, <1>10, <2>4, <2>5, <2>9, <2>10 DEF SentenceLength, q, c, buf
<1>11. QED
  BY <1>1, <1>8, <1>9, <1>10

(* The ring while nothing is dropped: at its end, and at its head.         *)
LEMMA RingGrows ==
  ASSUME rx \in Seq(Char), sent \in 0 .. StreamLength, RingInOrder,
         UartReceive, ~ lost'
  PROVE  RingInOrder' /\ Consumed' = Consumed /\ ~ lost
<1>1. /\ rx' = Append(rx, StreamChar(sent + 1)) /\ sent' = sent + 1 /\ ~ lost
  BY DEF UartReceive
<1>2. sent \in Nat /\ Len(rx) \in Nat /\ Len(rx') = Len(rx) + 1
  BY <1>1, SizesAssumption DEF StreamLength, SentenceLength
<1>3. Consumed' = Consumed /\ Len(rx') <= sent'
  BY <1>1, <1>2 DEF Consumed, RingInOrder
<1>4. ASSUME NEW i \in 1 .. Len(rx') PROVE rx'[i] = StreamChar(Consumed + i)
  <2>1. CASE i \in 1 .. Len(rx)
    BY <1>1, <2>1 DEF RingInOrder
  <2>2. CASE i = Len(rx) + 1
    <3>1. Consumed + i = sent + 1
      BY <1>2, <2>2 DEF Consumed
    <3>2. QED
      BY <1>1, <2>2, <3>1
  <2>3. QED
    BY <1>2, <2>1, <2>2
<1>5. QED
  BY <1>1, <1>3, <1>4 DEF RingInOrder

LEMMA RingShrinks ==
  ASSUME rx \in Seq(Char), sent \in 0 .. StreamLength, RingInOrder,
         rx # << >>, rx' = Tail(rx), sent' = sent
  PROVE  /\ RingInOrder' /\ Consumed' = Consumed + 1
         /\ Consumed \in 0 .. StreamLength - 1
         /\ Head(rx) = StreamChar(Consumed + 1)
<1>1. sent \in Nat /\ Len(rx) \in Nat \ {0} /\ Len(rx') = Len(rx) - 1
  BY SizesAssumption DEF StreamLength, SentenceLength
<1>2. Consumed' = Consumed + 1 /\ Consumed \in Nat /\ Len(rx') <= sent'
  BY <1>1 DEF Consumed, RingInOrder
<1>3. ASSUME NEW i \in 1 .. Len(rx') PROVE rx'[i] = StreamChar(Consumed' + i)
  <2>1. rx'[i] = rx[i + 1] /\ i + 1 \in 1 .. Len(rx)
    BY <1>1
  <2>2. Consumed' + i = Consumed + (i + 1)
    BY <1>2
  <2>3. QED
    BY <2>1, <2>2 DEF RingInOrder
<1>4. Consumed \in 0 .. StreamLength - 1
  BY <1>1, SizesAssumption DEF Consumed, RingInOrder, StreamLength, SentenceLength
<1>5. Head(rx) = StreamChar(Consumed + 1)
  BY <1>1 DEF RingInOrder
<1>6. QED
  BY <1>2, <1>3, <1>4, <1>5 DEF RingInOrder

-----------------------------------------------------------------------------
(* The members of the GPS object, and what parse() makes of a sentence.    *)
IsGps(g) == g = [latitude |-> g.latitude, longitude |-> g.longitude, fix |-> g.fix]

(* What parse() assigns before it comes to the coordinates.                *)
Header(g, str) ==
  IF LineKind(str) = "RMC" THEN [g EXCEPT !.fix = HasFix[str[2].sen]] ELSE g

LEMMA ParseSentence ==
  ASSUME NEW g, IsGps(g), NEW s \in Sentences, NEW p \in Parse(g, Body(s))
  PROVE  /\ IsGps(p.gps)
         /\ Kind[s] = "OTHER" => ~ p.ok /\ p.gps = g
         /\ Kind[s] # "OTHER" => p.ok /\ p.gps.latitude = s /\ p.gps.longitude = s
<1> DEFINE str == Body(s)
           h == Header(g, str)
           Read == [value |-> s, ok |-> TRUE]
<1>1. LineKind(str) = Kind[s] /\ str[2].sen = s
  BY BodyFacts DEF LineKind
<1>2. CharAt(str, 3) = str[3] /\ CharAt(str, 4) = str[4]
  BY BodyFacts DEF CharAt
<1>3. str[3] # NUL /\ str[4] # NUL
  BY BodyFacts, NulIsNoChar
<1>4. /\ Coordinate(CharAt(str, 3), "lat") = {Read}
      /\ Coordinate(CharAt(str, 4), "lon") = {Read}
  BY <1>2, <1>3, BodyFacts DEF Coordinate
<1>5. IsGps(h)
  BY DEF IsGps, Header
<1>6. CASE Kind[s] = "OTHER"
  <2>1. p = [gps |-> g, ok |-> FALSE]
    BY <1>1, <1>6 DEF Parse
  <2>2. QED
    BY <1>6, <2>1
<1>7. CASE Kind[s] # "OTHER"
  <2> DEFINE One(a) == {[gps |-> [h EXCEPT !.latitude = a.value], ok |-> FALSE]}
             Both(a) == {[gps |-> [h EXCEPT !.latitude = a.value, !.longitude = o.value],
                          ok |-> o.ok] : o \in Coordinate(CharAt(str, 4), "lon")}
  <2>1. Parse(g, str) = UNION {IF a.ok THEN Both(a) ELSE One(a)
                                 : a \in Coordinate(CharAt(str, 3), "lat")}
    BY <1>1, <1>7 DEF Parse, Header
  <2> HIDE DEF h
  <2>2. PICK a \in Coordinate(CharAt(str, 3), "lat") : p \in IF a.ok THEN Both(a) ELSE One(a)
    <3> HIDE DEF Both, One
    <3>1. QED
      BY <2>1
  <2>3. a = Read /\ p \in Both(a)
    <3>1. a = Read /\ a.ok
      BY <1>4
    <3> HIDE DEF Both, One
    <3>2. QED
      BY <2>2, <3>1
  <2>4. PICK o \in Coordinate(CharAt(str, 4), "lon") :
          p = [gps |-> [h EXCEPT !.latitude = a.value, !.longitude = o.value], ok |-> o.ok]
    BY <2>3
  <2>5. o = Read
    BY <1>4
  <2>6. p.gps = [h EXCEPT !.latitude = s, !.longitude = s] /\ p.ok
    BY <2>3, <2>4, <2>5
  <2>7. QED
    BY <1>5, <1>7, <2>6 DEF IsGps
<1>8. QED
  BY <1>6, <1>7

=============================================================================
