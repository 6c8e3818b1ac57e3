------------------------- MODULE SailboatMaster_proofs -------------------------
(***************************************************************************)
(* Proofs about the main program, for every logging rate, logging time,    *)
(* set of sensor values, number of log names and card capacity.            *)
(***************************************************************************)
EXTENDS SailboatMaster, SequenceTheorems, TLAPS

-----------------------------------------------------------------------------
(* The controllers                                                         *)

LEMMA FilteredAngle ==
  ASSUME NEW old \in 0 .. 359 \cup {Dummy}, NEW measured \in 0 .. 359,
         NEW grid \in SUBSET (0 .. 359), NEW x \in Filtered(old, measured, grid)
  PROVE  x \in 0 .. 359
BY DEF Filtered, Dummy

LEMMA WindAngleRange ==
  ASSUME NEW reading \in 0 .. 1023
  PROVE  WindAngle(reading) \in 0 .. 359
BY DEF WindAngle

LEMMA SailTrimRange ==
  ASSUME NEW wind \in 0 .. 359
  PROVE  SailTrim(wind) \in 65 .. 110
BY DEF SailTrim

LEMMA SailTrimSmooth ==
  ASSUME NEW v \in 0 .. 359, NEW w \in 0 .. 359, Between(w - v, -1, 1)
  PROVE  Between(SailTrim(w) - SailTrim(v), -1, 1)
BY DEF SailTrim, Between

LEMMA CourseRange == ASSUME NEW time \in Nat PROVE Course(time) \in {0, 45, 100, 160}
BY DEF Course

(* What one iteration that runs the controllers establishes.               *)
ControlInv ==
  /\ ControlTypeOK
  /\ ErrorIsShorterTurn
  /\ RudderOpposesLargeError

LEMMA ConstrainFacts ==
  ASSUME NEW x \in Int, NEW lo \in Int, NEW hi \in Int, lo <= hi
  PROVE  /\ InRange(Constrain(x, lo, hi), lo, hi)
         /\ \A y \in Int : x < y /\ lo < y => Constrain(x, lo, hi) < y
         /\ \A y \in Int : x > y /\ hi > y => Constrain(x, lo, hi) > y
BY DEF Constrain, InRange

LEMMA RudderFacts ==
  ASSUME NEW error \in -180 .. 180,
         NEW integral, InRange(integral, -25 * PWM, 25 * PWM)
  PROVE  /\ InRange(RudderCommand(error, integral), 60 * PWM, 160 * PWM)
         /\ error >= 36 => RudderCommand(error, integral) < 115 * PWM
         /\ error <= -36 => RudderCommand(error, integral) > 115 * PWM
<1> DEFINE x == 115 * PWM - (70000 * error + integral)
<1>1. x \in Int /\ 60 * PWM \in Int /\ 160 * PWM \in Int /\ 115 * PWM \in Int
  BY SMT DEF PWM, InRange
<1>2. 60 * PWM < 115 * PWM /\ 115 * PWM < 160 * PWM
  BY SMT DEF PWM
<1>3. error >= 36 => x < 115 * PWM
  BY SMT DEF PWM, InRange
<1>4. error <= -36 => x > 115 * PWM
  BY SMT DEF PWM, InRange
<1>5. RudderCommand(error, integral) = Constrain(x, 60 * PWM, 160 * PWM)
  BY SMT DEF RudderCommand
<1> HIDE DEF x
<1>6. QED
  BY SMT, <1>1, <1>2, <1>3, <1>4, <1>5, ConstrainFacts

LEMMA IntegralRange ==
  ASSUME NEW integral \in Int, NEW error \in Int, NEW deltaT \in Int
  PROVE  InRange(NextIntegral(integral, error, deltaT), -25 * PWM, 25 * PWM)
<1> DEFINE x == integral + error * deltaT
<1>1. x \in Int
  OBVIOUS
<1>2. -25 * PWM \in Int /\ 25 * PWM \in Int /\ -25 * PWM <= 25 * PWM
  BY SMT DEF PWM
<1>3. NextIntegral(integral, error, deltaT) = Constrain(x, -25 * PWM, 25 * PWM)
  BY SMT DEF NextIntegral
<1> HIDE DEF x
<1>4. QED
  BY SMT, <1>1, <1>2, <1>3, ConstrainFacts

-----------------------------------------------------------------------------
(* Types and controllers of the whole program                              *)

TypeInv == ControlInv /\ MasterTypeOK

LEMMA GetLoopRateType ==
  ASSUME now \in Nat, lStart \in Nat
  PROVE  getLoopRate \in Int
BY MasterAssumption DEF getLoopRate

-----------------------------------------------------------------------------
(* One iteration, and what every action leaves as it was.                  *)

LEMMA IterationType ==
  ASSUME MasterTypeOK, Iteration PROVE now' \in Nat
BY MasterAssumption DEF MasterTypeOK, Iteration

LEMMA WindStep ==
  ASSUME ControlTypeOK, updateWindDirection
  PROVE  relWindAngle_trim' \in 0 .. 359
<1>1. PICK reading \in VaneReadings :
        relWindAngle_trim' \in Filtered(relWindAngle_trim, WindAngle(reading), WindGrid)
  BY DEF updateWindDirection
<1>2. WindAngle(reading) \in 0 .. 359
  <2>1. reading \in 0 .. 1023
    BY ControlAssumption
  <2>2. QED
    BY Zenon, <2>1, WindAngleRange
<1>3. relWindAngle_trim \in 0 .. 359 \cup {Dummy}
  BY DEF ControlTypeOK
<1>4. WindGrid \in SUBSET (0 .. 359)
  BY ControlAssumption
<1>5. QED
  BY <1>1, <1>2, <1>3, <1>4, FilteredAngle

LEMMA HeadingStep ==
  ASSUME ControlTypeOK, updateCurrentHeading
  PROVE  currentHeading' \in 0 .. 359
<1>1. PICK measured \in Headings :
        currentHeading' \in Filtered(currentHeading, measured, Headings)
  BY DEF updateCurrentHeading
<1>2. measured \in 0 .. 359 /\ Headings \in SUBSET (0 .. 359)
  BY ControlAssumption
<1>3. currentHeading \in 0 .. 359 \cup {Dummy}
  BY DEF ControlTypeOK
<1>4. QED
  BY <1>1, <1>2, <1>3, FilteredAngle

(* The controllers establish their invariant from the sensors alone,       *)
(* whatever the integral was: this is why no history is needed.            *)
LEMMA ControlStep ==
  ASSUME ControlInv, MasterTypeOK, Control
  PROVE  ControlInv'
<1> DEFINE error == HeadingError(Course(now), currentHeading')
<1>1. relWindAngle_trim' \in 0 .. 359 /\ currentHeading' \in 0 .. 359
  BY WindStep, HeadingStep DEF Control, ControlInv
<1>2. Course(now) \in {0, 45, 100, 160}
  BY CourseRange DEF MasterTypeOK
<1>3. /\ error \in -180 .. 180
      /\ error - (Course(now) - currentHeading') \in {-360, 0, 360}
  BY <1>1, <1>2 DEF HeadingError
<1>4. /\ desiredHeading' = Course(now) /\ rudPrevError' = error
      /\ rudIntegral' = NextIntegral(rudIntegral, error, getLoopRate)
      /\ u_rudder' = RudderCommand(error, rudIntegral')
  BY Zenon DEF Control, rudderController
<1>5. InRange(rudIntegral', -25 * PWM, 25 * PWM)
  <2>1. getLoopRate \in Int
    BY GetLoopRateType DEF MasterTypeOK
  <2>2. rudIntegral \in Int /\ error \in Int
    BY <1>3 DEF ControlInv, ControlTypeOK, InRange
  <2> HIDE DEF error
  <2>3. QED
    BY <1>4, <2>1, <2>2, IntegralRange
<1>6. /\ InRange(u_rudder', 60 * PWM, 160 * PWM)
      /\ error >= 36 => u_rudder' < 115 * PWM
      /\ error <= -36 => u_rudder' > 115 * PWM
  <2> HIDE DEF error
  <2>1. QED
    BY <1>3, <1>4, <1>5, RudderFacts
<1>7. u_sailTrim' \in 65 .. 110
  BY <1>1, SailTrimRange DEF Control, sailTrimController
<1> HIDE DEF error
<1>8. ControlTypeOK'
  BY <1>1, <1>2, <1>3, <1>4, <1>5, <1>6, <1>7 DEF ControlTypeOK
<1>9. ErrorIsShorterTurn'
  BY <1>3, <1>4 DEF ErrorIsShorterTurn
<1>10. RudderOpposesLargeError'
  BY <1>4, <1>6 DEF RudderOpposesLargeError
<1>11. QED
  BY <1>8, <1>9, <1>10 DEF ControlInv

LEMMA ControlUnchanged ==
  ASSUME ControlInv, UNCHANGED control
  PROVE  ControlInv'
BY DEF ControlInv, control, sensors, rudder, ControlTypeOK, ErrorIsShorterTurn,
       RudderOpposesLargeError

LEMMA HangStep ==
  ASSUME ControlInv, CompassHang
  PROVE  ControlInv'
<1>1. relWindAngle_trim' \in 0 .. 359
  BY WindStep DEF CompassHang, ControlInv
<1>2. UNCHANGED <<currentHeading, rudder, u_sailTrim>>
  BY DEF CompassHang
<1>3. QED
  BY <1>1, <1>2 DEF ControlInv, rudder, ControlTypeOK, ErrorIsShorterTurn,
                    RudderOpposesLargeError

LEMMA ControlStart ==
  /\ ControlInit => ControlInv
  /\ ControlReset => ControlInv'
<1>1. InRange(0, -25 * PWM, 25 * PWM) /\ InRange(100 * PWM, 60 * PWM, 160 * PWM)
  BY SMT DEF InRange, PWM
<1>2. ControlInit => ControlInv
  BY <1>1 DEF ControlInit, ControlInv, ControlTypeOK, ErrorIsShorterTurn,
              RudderOpposesLargeError
<1>3. ControlReset => ControlInv'
  BY <1>1 DEF ControlReset, ControlInv, ControlTypeOK, ErrorIsShorterTurn,
              RudderOpposesLargeError
<1>4. QED
  BY <1>2, <1>3

-----------------------------------------------------------------------------
(* Types of the whole program                                              *)

LEMMA ControlInvStep ==
  ASSUME ControlInv, MasterTypeOK, [Next]_vars
  PROVE  ControlInv'
<1>1. CASE Control
  BY <1>1, ControlStep
<1>2. CASE CompassHang
  BY <1>2, HangStep
<1>3. CASE PowerCycle
  BY <1>3, ControlStart DEF PowerCycle
<1>4. CASE BeginCard \/ OpenLog \/ WriteRecord \/ WriteInside \/ WriteFails \/ FlushLog
  BY <1>4, ControlUnchanged
     DEF BeginCard, OpenLog, WriteRecord, WriteInside, WriteFails, FlushLog
<1>5. CASE CloseLog \/ LoggingDone \/ ParseFailed \/ UNCHANGED vars
  BY <1>5, ControlUnchanged DEF CloseLog, LoggingDone, ParseFailed, vars
<1>6. QED
  BY <1>1, <1>2, <1>3, <1>4, <1>5 DEF Next, Program

LEMMA OneRecordMore ==
  ASSUME NEW f \in LogOf, NEW n \in LogNames, boot \in Nat \ {0}
  PROVE  [f EXCEPT ![n] = Append(@, boot)] \in LogOf
<1>1. Append(f[n], boot) \in Seq(1 .. boot)
  BY AppendProperties DEF LogOf
<1>2. QED
  BY <1>1 DEF LogOf

LEMMA OverwrittenFacts ==
  ASSUME NEW log \in Seq(1 .. boot), NEW S, boot \in Nat \ {0}
  PROVE  /\ Overwritten(log, S) \in Seq(1 .. boot)
         /\ DOMAIN Overwritten(log, S) = DOMAIN log
         /\ \A i \in DOMAIN log : Overwritten(log, S)[i] \in {log[i], boot}
<1>1. DOMAIN log = 1 .. Len(log) /\ Len(log) \in Nat /\ \A i \in DOMAIN log : log[i] \in 1 .. boot
  BY LenProperties, ElementOfSeq
<1>2. Overwritten(log, S) \in [1 .. Len(log) -> 1 .. boot]
  BY <1>1 DEF Overwritten
<1>3. QED
  BY <1>1, <1>2, SeqDef DEF Overwritten

(* A write over other records leaves every log its length and its records  *)
(* or, in the open one, this boot's.                                       *)
LEMMA WriteInsideStep ==
  ASSUME MasterTypeOK, WriteInside
  PROVE  /\ content' \in LogOf /\ durable' \in LogOf
         /\ \A m \in LogNames :
              /\ DOMAIN content'[m] = DOMAIN content[m]
              /\ DOMAIN durable'[m] = DOMAIN durable[m]
         /\ \A m \in LogNames : \A i \in DOMAIN content[m] :
              content'[m][i] = content[m][i] \/ (m = logfile /\ content'[m][i] = boot)
         /\ \A m \in LogNames : \A i \in DOMAIN durable[m] :
              durable'[m][i] = durable[m][i] \/ (m = logfile /\ durable'[m][i] = boot)
<1>1. PICK S : content' = [content EXCEPT ![logfile] = Overwritten(content[logfile], S)]
  BY DEF WriteInside
<1>2. PICK T : durable' = [durable EXCEPT ![logfile] = Overwritten(durable[logfile], T)]
  BY DEF WriteInside
<1>3. logfile \in LogNames /\ content \in LogOf /\ durable \in LogOf /\ boot \in Nat \ {0}
  BY DEF MasterTypeOK
<1>4. /\ content' \in LogOf
      /\ \A m \in LogNames : DOMAIN content'[m] = DOMAIN content[m]
      /\ \A m \in LogNames : \A i \in DOMAIN content[m] :
           content'[m][i] = content[m][i] \/ (m = logfile /\ content'[m][i] = boot)
  <2>1. /\ content'[logfile] = Overwritten(content[logfile], S)
        /\ \A m \in LogNames \ {logfile} : content'[m] = content[m]
        /\ content[logfile] \in Seq(1 .. boot) /\ content \in [LogNames -> Seq(1 .. boot)]
    BY <1>1, <1>3 DEF LogOf
  <2>2. /\ content'[logfile] \in Seq(1 .. boot)
        /\ DOMAIN content'[logfile] = DOMAIN content[logfile]
        /\ \A i \in DOMAIN content[logfile] : content'[logfile][i] \in {content[logfile][i], boot}
    BY <1>3, <2>1, OverwrittenFacts
  <2>3. content' \in LogOf
    BY <1>1, <1>3, <2>1, <2>2 DEF LogOf
  <2>4. QED
    BY <2>1, <2>2, <2>3
<1>5. /\ durable' \in LogOf
      /\ \A m \in LogNames : DOMAIN durable'[m] = DOMAIN durable[m]
      /\ \A m \in LogNames : \A i \in DOMAIN durable[m] :
           durable'[m][i] = durable[m][i] \/ (m = logfile /\ durable'[m][i] = boot)
  <2>1. /\ durable'[logfile] = Overwritten(durable[logfile], T)
        /\ \A m \in LogNames \ {logfile} : durable'[m] = durable[m]
        /\ durable[logfile] \in Seq(1 .. boot) /\ durable \in [LogNames -> Seq(1 .. boot)]
    BY <1>2, <1>3 DEF LogOf
  <2>2. /\ durable'[logfile] \in Seq(1 .. boot)
        /\ DOMAIN durable'[logfile] = DOMAIN durable[logfile]
        /\ \A i \in DOMAIN durable[logfile] : durable'[logfile][i] \in {durable[logfile][i], boot}
    BY <1>3, <2>1, OverwrittenFacts
  <2>3. durable' \in LogOf
    BY <1>2, <1>3, <2>1, <2>2 DEF LogOf
  <2>4. QED
    BY <2>1, <2>2, <2>3
<1>6. QED
  BY <1>4, <1>5

LEMMA NextBoot ==
  ASSUME MasterTypeOK, PowerCycle
  PROVE  durable \in LogOf' /\ boot' \in Nat \ {0}
<1>1. boot' = boot + 1 /\ boot \in Nat
  BY DEF PowerCycle, MasterTypeOK
<1>2. 1 .. boot \subseteq 1 .. boot'
  BY <1>1
<1>3. Seq(1 .. boot) \subseteq Seq(1 .. boot')
  BY <1>2, SeqMonotonic
<1>4. QED
  BY <1>1, <1>3 DEF MasterTypeOK, LogOf

LEMMA MasterTypeStep ==
  ASSUME MasterTypeOK, [Next]_vars
  PROVE  MasterTypeOK'
<1> USE MasterAssumption DEF MasterTypeOK, LogOf, clock, logging, logs, power, Phases
<1>1. CASE BeginCard
  BY <1>1 DEF BeginCard
<1>2. CASE OpenLog
  <2>1. PICK n \in SearchEnds :
          \/ phase' = "run" /\ logfile' = n /\ exists' = exists \cup {n} /\ atEnd' \in BOOLEAN
          \/ phase' = "error3" /\ exists' \in {exists, exists \cup {n}}
             /\ logfile' = logfile /\ atEnd' = atEnd
    BY <1>2 DEF OpenLog
  <2>2. n \in LogNames
    BY DEF SearchEnds
  <2>3. UNCHANGED <<control, clock, isLogging, logNumber, logs, power>>
    BY <1>2 DEF OpenLog
  <2>4. QED
    BY <2>1, <2>2, <2>3
<1>3. CASE CloseLog
  BY <1>3, IterationType DEF CloseLog
<1>4. CASE LoggingDone
  BY <1>4, IterationType DEF LoggingDone
<1>5. CASE ParseFailed
  BY <1>5, IterationType DEF ParseFailed
<1>6. CASE Control
  BY <1>6, IterationType DEF Control
<1>7. CASE CompassHang
  BY <1>7, IterationType DEF CompassHang
<1>8. CASE WriteRecord
  BY <1>8, OneRecordMore DEF WriteRecord
<1>9. CASE WriteFails
  BY <1>9 DEF WriteFails
<1>14. CASE WriteInside
  <2>1. /\ content' \in [LogNames -> Seq(1 .. boot)]
        /\ durable' \in [LogNames -> Seq(1 .. boot)]
    BY <1>14, WriteInsideStep
  <2>2. phase' \in {"flush", "error4"} /\ UNCHANGED <<clock, logging, power>>
    BY <1>14 DEF WriteInside
  <2>3. QED
    BY <2>1, <2>2
<1>10. CASE FlushLog
  <2>1. durable' \in [LogNames -> Seq(1 .. boot)]
    BY <1>10 DEF FlushLog
  <2>2. 0 \in 0 .. LogRate
    OBVIOUS
  <2>3. /\ phase' = "run" /\ logNumber' = 0
        /\ UNCHANGED <<clock, isLogging, logfile, exists, atEnd, content, power>>
    BY <1>10 DEF FlushLog
  <2>4. QED
    BY <2>1, <2>2, <2>3
<1>11. CASE PowerCycle
  <2>1. /\ phase' = "card" /\ now' = 0 /\ lStart' = 0 /\ isLogging' = TRUE
        /\ logNumber' = 0 /\ logfile' = 0 /\ atEnd' = TRUE
        /\ exists' = exists /\ content' = durable /\ durable' = durable
    BY <1>11 DEF PowerCycle
  <2>2. durable \in [LogNames -> Seq(1 .. boot')] /\ boot' \in Nat \ {0}
    BY <1>11, NextBoot
  <2>3. 0 \in LogNames /\ 0 \in 0 .. LogRate
    BY DEF LogNames
  <2>4. badBoots' \subseteq 1 .. boot'
    BY <1>11 DEF PowerCycle, NewBad
  <2>5. QED
    BY <2>1, <2>2, <2>3, <2>4
<1>12. CASE UNCHANGED vars
  BY <1>12 DEF vars
<1>13. QED
  BY <1>1, <1>2, <1>3, <1>4, <1>5, <1>6, <1>7, <1>8, <1>9, <1>10, <1>11, <1>12,
     <1>14 DEF Next, Program

LEMMA InitTypes == Init => TypeInv
<1>1. SUFFICES ASSUME Init PROVE TypeInv
  OBVIOUS
<1>2. ControlInv
  BY <1>1, ControlStart DEF Init
<1>3. << >> \in Seq(1 .. boot)
  BY EmptySeq
<1>4. content \in LogOf /\ durable \in LogOf
  BY <1>1, <1>3 DEF Init, LogOf
<1>5. badBoots \subseteq 1 .. boot /\ atEnd \in BOOLEAN
  BY <1>1, MasterAssumption DEF Init, NewBad
<1>6. /\ phase \in Phases /\ now \in Nat /\ lStart \in Nat
      /\ isLogging \in BOOLEAN /\ logNumber \in 0 .. LogRate
      /\ logfile \in LogNames /\ exists \subseteq LogNames /\ boot \in Nat \ {0}
  BY <1>1, MasterAssumption DEF Init, Phases, LogNames
<1>7. MasterTypeOK
  BY <1>4, <1>5, <1>6 DEF MasterTypeOK
<1>8. QED
  BY <1>2, <1>7 DEF TypeInv

LEMMA TypesAlways == Spec => []TypeInv
<1>1. TypeInv /\ [Next]_vars => TypeInv'
  BY ControlInvStep, MasterTypeStep DEF TypeInv
<1>2. QED
  BY <1>1, InitTypes, PTL DEF Spec

(* In every state of every run the servo commands are in their calibrated  *)
(* ranges and the variables of the program have their types, whatever the  *)
(* sensors read, the card does and the power does.                         *)
THEOREM TypesCorrect == Spec => [](ControlTypeOK /\ MasterTypeOK)
<1>1. TypeInv => ControlTypeOK /\ MasterTypeOK
  BY DEF TypeInv, ControlInv
<1>2. QED
  BY <1>1, TypesAlways, PTL

(* The error the rudder controller acts on is always the shorter of the    *)
(* two turns from the filtered heading to the course.                      *)
THEOREM ErrorIsShorterTurnAlways == Spec => []ErrorIsShorterTurn
<1>1. TypeInv => ErrorIsShorterTurn
  BY DEF TypeInv, ControlInv
<1>2. QED
  BY <1>1, TypesAlways, PTL

(* However long the integral of the error was built up on one side, an     *)
(* error of 36 degrees or more is always opposed by the rudder.            *)
THEOREM RudderOpposesLargeErrorAlways == Spec => []RudderOpposesLargeError
<1>1. TypeInv => RudderOpposesLargeError
  BY DEF TypeInv, ControlInv
<1>2. QED
  BY <1>1, TypesAlways, PTL

-----------------------------------------------------------------------------
(* The logs.  Records(n) are those of the log n that a reader gets now or  *)
(* after a power loss.  Names are used from the first on; while a log is   *)
(* open no other one has records of this boot, and on a card that works    *)
(* the open log is the last one with records, and all of them are of this  *)
(* boot unless every name is used.                                         *)
LogOpen == phase \in {"run", "write", "flush", "hung", "error4"}
LastNameOnly(n) == n = NumNames - 1 /\ exists = LogNames

Records(n) == {content[n][i] : i \in DOMAIN content[n]}
                \cup {durable[n][i] : i \in DOMAIN durable[n]}

NamesFromFirst == \A n \in exists : 0 .. n - 1 \subseteq exists
RecordsHaveName == \A n \in LogNames : Records(n) # {} => n \in exists
EarlierBoots ==
  \A n \in LogNames : \A r \in Records(n) :
    r \in 1 .. boot /\ (r = boot => LogOpen /\ n = logfile)
OpenLogIsLast ==
  LogOpen =>
    /\ logfile \in exists
    /\ ~ badCard =>
         /\ \A n \in LogNames : logfile < n => Records(n) = {}
         /\ LastNameOnly(logfile) \/ Records(logfile) \subseteq {boot}
RecordsInOrder ==
  \A m, n \in LogNames : m < n =>
    \A r \in Records(m), s \in Records(n) : r \notin badBoots => r < s
RecordsMixed ==
  \A n \in LogNames : \A r, s \in Records(n) :
    r < s /\ s \notin badBoots => LastNameOnly(n)

LogInv ==
  /\ NamesFromFirst /\ RecordsHaveName /\ EarlierBoots /\ OpenLogIsLast
  /\ RecordsInOrder /\ RecordsMixed

(* A step that opens no log and adds at most records of this boot to the   *)
(* open one.                                                               *)
LEMMA RecordStep ==
  ASSUME MasterTypeOK, LogInv, UNCHANGED <<exists, boot, badBoots, logfile>>,
         LogOpen' = LogOpen,
         \A n \in LogNames : \A r \in Records(n)' :
           r \in Records(n) \/ (LogOpen /\ n = logfile /\ r = boot)
  PROVE  LogInv'
<1> USE DEF LogInv
<1>1. boot \in Nat \ {0} /\ logfile \in LogNames /\ LogNames \subseteq Nat
  BY MasterAssumption DEF MasterTypeOK, LogNames
<1>2. \A n \in LogNames \ {logfile} : Records(n)' \subseteq Records(n)
  OBVIOUS
<1>3. NamesFromFirst'
  BY DEF NamesFromFirst
<1>4. RecordsHaveName'
  BY DEF RecordsHaveName, OpenLogIsLast
<1>5. EarlierBoots'
  BY <1>1 DEF EarlierBoots
<1>6. OpenLogIsLast'
  <2>1. SUFFICES ASSUME LogOpen
                 PROVE  /\ logfile \in exists
                        /\ ~ badCard =>
                             /\ \A n \in LogNames : logfile < n => Records(n)' = {}
                             /\ LastNameOnly(logfile) \/ Records(logfile)' \subseteq {boot}
    BY DEF OpenLogIsLast, badCard, LastNameOnly
  <2>2. ASSUME NEW n \in LogNames, ~ badCard, logfile < n PROVE Records(n)' = {}
    BY <1>1, <1>2, <2>1, <2>2 DEF OpenLogIsLast
  <2>3. QED
    BY <1>1, <2>1, <2>2 DEF OpenLogIsLast
<1>7. RecordsInOrder'
  <2>1. SUFFICES ASSUME NEW m \in LogNames, NEW n \in LogNames, m < n,
                        NEW r \in Records(m)', NEW s \in Records(n)', r \notin badBoots
                 PROVE  r < s
    BY DEF RecordsInOrder
  <2>2. CASE r \in Records(m) /\ s \in Records(n)
    BY <2>1, <2>2 DEF RecordsInOrder
  <2>3. CASE r \notin Records(m)
    <3>1. LogOpen /\ m = logfile /\ r = boot
      BY <2>1, <2>3
    <3>2. Records(n) = {} /\ n # logfile
      BY <1>1, <2>1, <3>1 DEF OpenLogIsLast, badCard
    <3>3. QED
      BY <1>2, <2>1, <3>2
  <2>4. CASE r \in Records(m) /\ s \notin Records(n)
    <3>1. n = logfile /\ s = boot /\ m # logfile
      BY <1>1, <2>1, <2>4
    <3>2. QED
      BY <1>1, <2>4, <3>1 DEF EarlierBoots
  <2>5. QED
    BY <2>2, <2>3, <2>4
<1>8. RecordsMixed'
  <2>1. SUFFICES ASSUME NEW n \in LogNames, NEW r \in Records(n)', NEW s \in Records(n)',
                        r < s, s \notin badBoots
                 PROVE  LastNameOnly(n)
    BY DEF RecordsMixed, LastNameOnly
  <2>2. CASE r \in Records(n) /\ s \in Records(n)
    BY <2>1, <2>2 DEF RecordsMixed
  <2>3. CASE r \notin Records(n)
    BY <1>1, <1>5, <2>1, <2>3 DEF EarlierBoots
  <2>4. CASE r \in Records(n) /\ s \notin Records(n)
    <3>1. LogOpen /\ n = logfile /\ s = boot
      BY <2>1, <2>4
    <3>2. r # boot /\ ~ badCard
      BY <1>1, <2>1, <2>4, <3>1 DEF badCard, EarlierBoots
    <3>3. QED
      BY <2>4, <3>1, <3>2 DEF OpenLogIsLast
  <2>5. QED
    BY <2>2, <2>3, <2>4
<1>9. QED
  BY <1>3, <1>4, <1>5, <1>6, <1>7, <1>8

(* On a card that works the search ends with an unused name or, if every   *)
(* name is used, with the last; there are no records behind it.            *)
LEMMA SearchEndsWell ==
  ASSUME MasterTypeOK, LogInv, ~ badCard, NEW n \in SearchEnds
  PROVE  /\ \A k \in LogNames : n < k => Records(k) = {}
         /\ Records(n) = {} \/ (n = NumNames - 1 /\ exists \cup {n} = LogNames)
<1>1. /\ n \in LogNames /\ 0 .. n - 1 \subseteq exists
      /\ n \notin exists \/ n = NumNames - 1
      /\ exists \subseteq LogNames
  BY DEF SearchEnds, MasterTypeOK
<1>2. ASSUME NEW k \in LogNames, n < k PROVE Records(k) = {}
  <2>1. SUFFICES ASSUME Records(k) # {} PROVE FALSE
    OBVIOUS
  <2>2. k \in exists /\ 0 .. k - 1 \subseteq exists
    BY <2>1 DEF LogInv, RecordsHaveName, NamesFromFirst
  <2>3. n \in 0 .. k - 1 /\ n # NumNames - 1
    BY <1>1, <1>2, MasterAssumption DEF LogNames
  <2>4. QED
    BY <1>1, <2>2, <2>3
<1>3. CASE n \notin exists
  BY <1>1, <1>2, <1>3 DEF LogInv, RecordsHaveName
<1>4. CASE n = NumNames - 1
  <2>1. \A k \in LogNames : k = n \/ k \in 0 .. n - 1
    BY <1>4, MasterAssumption DEF LogNames
  <2>2. exists \cup {n} = LogNames
    BY <1>1, <2>1
  <2>3. QED
    BY <1>2, <1>4, <2>2
<1>5. QED
  BY <1>1, <1>2, <1>3, <1>4

LEMMA OpenLogStep ==
  ASSUME MasterTypeOK, LogInv, OpenLog
  PROVE  LogInv'
<1>1. PICK n \in SearchEnds :
        \/ phase' = "run" /\ logfile' = n /\ exists' = exists \cup {n}
        \/ phase' = "error3" /\ exists' \in {exists, exists \cup {n}} /\ logfile' = logfile
  BY DEF OpenLog
<1>2. /\ ~ LogOpen /\ content' = content /\ durable' = durable
      /\ boot' = boot /\ badBoots' = badBoots /\ badCard' = badCard
  BY DEF OpenLog, LogOpen, logs, power, badCard
<1>3. \A k \in LogNames : Records(k)' = Records(k)
  BY <1>2 DEF Records
<1>4. n \in LogNames /\ 0 .. n - 1 \subseteq exists /\ exists \subseteq LogNames
  BY DEF SearchEnds, MasterTypeOK
<1>5. NamesFromFirst'
  BY <1>1, <1>4 DEF LogInv, NamesFromFirst
<1>6. RecordsHaveName'
  BY <1>1, <1>3 DEF LogInv, RecordsHaveName
<1>7. EarlierBoots'
  BY <1>2, <1>3 DEF LogInv, EarlierBoots
<1>8. RecordsInOrder'
  BY <1>2, <1>3 DEF LogInv, RecordsInOrder
<1>9. RecordsMixed'
  <2>1. \A k \in LogNames : LastNameOnly(k) => LastNameOnly(k)'
    BY <1>1, <1>4 DEF LastNameOnly
  <2>2. QED
    BY <1>2, <1>3, <2>1 DEF LogInv, RecordsMixed
<1>10. OpenLogIsLast'
  <2>1. CASE phase' = "error3"
    BY <2>1 DEF OpenLogIsLast, LogOpen
  <2>2. CASE phase' = "run" /\ logfile' = n /\ exists' = exists \cup {n}
    <3>1. n \in exists'
      BY <2>2
    <3>2. ASSUME ~ badCard
          PROVE  /\ \A k \in LogNames : n < k => Records(k)' = {}
                 /\ LastNameOnly(n)' \/ Records(n)' = {}
      BY <1>3, <1>4, <2>2, <3>2, SearchEndsWell DEF LastNameOnly
    <3>3. QED
      BY <1>2, <2>2, <3>1, <3>2 DEF OpenLogIsLast, LastNameOnly
  <2>3. QED
    BY <1>1, <2>1, <2>2
<1>11. QED
  BY <1>5, <1>6, <1>7, <1>8, <1>9, <1>10 DEF LogInv

(* What a write adds to a log is a record of this boot.                    *)
LEMMA WriteRecordStep ==
  ASSUME MasterTypeOK, LogInv, WriteRecord
  PROVE  LogInv'
<1>1. /\ LogOpen /\ LogOpen'
      /\ content' = [content EXCEPT ![logfile] = Append(content[logfile], boot)]
      /\ UNCHANGED <<exists, boot, badBoots, logfile, durable>>
  BY DEF WriteRecord, LogOpen, logging, power
<1>2. /\ logfile \in LogNames /\ content[logfile] \in Seq(1 .. boot)
      /\ boot \in 1 .. boot /\ content \in [LogNames -> Seq(1 .. boot)]
  BY DEF MasterTypeOK, LogOf
<1>3. \A i \in DOMAIN Append(content[logfile], boot) :
        \/ i \in DOMAIN content[logfile]
           /\ Append(content[logfile], boot)[i] = content[logfile][i]
        \/ Append(content[logfile], boot)[i] = boot
  BY <1>2, AppendProperties, LenProperties
<1>4. ASSUME NEW n \in LogNames, NEW r \in Records(n)'
      PROVE  r \in Records(n) \/ (n = logfile /\ r = boot)
  <2>1. CASE n # logfile
    BY <1>1, <1>2, <2>1 DEF Records
  <2>2. CASE n = logfile
    <3>1. content'[n] = Append(content[logfile], boot)
      BY <1>1, <1>2, <2>2
    <3>2. QED
      BY <1>1, <1>3, <2>2, <3>1 DEF Records
  <2>3. QED
    BY <2>1, <2>2
<1>5. QED
  BY <1>1, <1>4, RecordStep

LEMMA WriteInsideLogStep ==
  ASSUME MasterTypeOK, LogInv, WriteInside
  PROVE  LogInv'
<1>1. LogOpen /\ LogOpen' /\ UNCHANGED <<exists, boot, badBoots, logfile>>
  BY DEF WriteInside, LogOpen, logging, power
<1>2. \A m \in LogNames :
        /\ DOMAIN content'[m] = DOMAIN content[m] /\ DOMAIN durable'[m] = DOMAIN durable[m]
        /\ \A i \in DOMAIN content[m] :
             content'[m][i] = content[m][i] \/ (m = logfile /\ content'[m][i] = boot)
        /\ \A i \in DOMAIN durable[m] :
             durable'[m][i] = durable[m][i] \/ (m = logfile /\ durable'[m][i] = boot)
  BY Zenon, WriteInsideStep
<1>3. \A n \in LogNames : \A r \in Records(n)' :
        r \in Records(n) \/ (n = logfile /\ r = boot)
  BY <1>2 DEF Records
<1>4. QED
  BY <1>1, <1>3, RecordStep

(* Saving a log, or nothing.                                               *)
LEMMA SavedStep ==
  ASSUME MasterTypeOK, LogInv, content' = content,
         durable' \in {durable, [durable EXCEPT ![logfile] = content[logfile]]},
         UNCHANGED <<exists, boot, badBoots, logfile>>, LogOpen' = LogOpen
  PROVE  LogInv'
<1>1. \A n \in LogNames : durable'[n] \in {durable[n], content[n]}
  BY DEF MasterTypeOK, LogOf
<1>2. \A n \in LogNames : Records(n)' \subseteq Records(n)
  BY <1>1 DEF Records
<1>3. QED
  BY <1>2, RecordStep

LEMMA PowerCycleLogStep ==
  ASSUME MasterTypeOK, LogInv, PowerCycle
  PROVE  LogInv'
<1>1. /\ ~ LogOpen' /\ content' = durable /\ durable' = durable
      /\ exists' = exists /\ boot' = boot + 1 /\ boot \in Nat
      /\ badBoots \subseteq badBoots'
  BY DEF PowerCycle, LogOpen, MasterTypeOK
<1>2. \A n \in LogNames : Records(n)' \subseteq Records(n)
  BY <1>1 DEF Records
<1>3. NamesFromFirst' /\ OpenLogIsLast'
  BY <1>1 DEF LogInv, NamesFromFirst, OpenLogIsLast
<1>4. RecordsHaveName'
  BY <1>1, <1>2 DEF LogInv, RecordsHaveName
<1>5. EarlierBoots'
  BY <1>1, <1>2 DEF LogInv, EarlierBoots
<1>6. RecordsInOrder'
  BY <1>1, <1>2 DEF LogInv, RecordsInOrder
<1>7. RecordsMixed'
  BY <1>1, <1>2 DEF LogInv, RecordsMixed, LastNameOnly
<1>8. QED
  BY <1>3, <1>4, <1>5, <1>6, <1>7 DEF LogInv

LEMMA LogInvStep ==
  ASSUME MasterTypeOK, LogInv, [Next]_vars
  PROVE  LogInv'
<1> USE DEF LogOpen, clock, logging, logs, power
<1>2. CASE BeginCard
  BY <1>2, SavedStep DEF BeginCard
<1>3. CASE OpenLog
  BY <1>3, OpenLogStep
<1>4. CASE CloseLog
  BY <1>4, SavedStep DEF CloseLog, Iteration
<1>5. CASE LoggingDone \/ ParseFailed
  BY <1>5, SavedStep DEF LoggingDone, ParseFailed, Iteration
<1>6. CASE Control
  BY <1>6, SavedStep DEF Control, Iteration
<1>7. CASE CompassHang
  BY <1>7, SavedStep DEF CompassHang, Iteration
<1>8. CASE WriteRecord \/ WriteInside
  BY <1>8, WriteRecordStep, WriteInsideLogStep
<1>9. CASE WriteFails
  BY <1>9, SavedStep DEF WriteFails
<1>10. CASE FlushLog
  BY <1>10, SavedStep DEF FlushLog
<1>11. CASE PowerCycle
  BY <1>11, PowerCycleLogStep
<1>12. CASE UNCHANGED vars
  BY <1>12, SavedStep DEF vars
<1>13. QED
  BY <1>2, <1>3, <1>4, <1>5, <1>6, <1>7, <1>8, <1>9, <1>10, <1>11, <1>12
     DEF Next, Program

LEMMA LogsAlways == Spec => []LogInv
<1>1. Init => LogInv
  <2>1. SUFFICES ASSUME Init PROVE LogInv
    OBVIOUS
  <2>2. \A n \in LogNames : DOMAIN content[n] = {} /\ DOMAIN durable[n] = {}
    BY <2>1 DEF Init
  <2>3. \A n \in LogNames : Records(n) = {}
    BY <2>2 DEF Records
  <2>4. exists = {} /\ ~ LogOpen
    BY <2>1 DEF Init, LogOpen
  <2>5. QED
    BY <2>3, <2>4 DEF LogInv, NamesFromFirst, RecordsHaveName, EarlierBoots,
       OpenLogIsLast, RecordsInOrder, RecordsMixed
<1>2. MasterTypeOK /\ LogInv /\ [Next]_vars => LogInv'
  BY LogInvStep
<1>3. TypeInv => MasterTypeOK
  BY DEF TypeInv
<1>4. QED
  BY <1>1, <1>2, <1>3, TypesAlways, PTL DEF Spec

(* Through any number of power cycles, and whatever the cards of other     *)
(* runs did, the records of a run on a card that works lie between those   *)
(* of the runs before it and those of the runs after it.                   *)
THEOREM LogsInOrderAlways == Spec => []LogsInOrder
<1>1. LogInv => LogsInOrder
  BY DEF LogInv, RecordsInOrder, Records, LogsInOrder
<1>2. QED
  BY <1>1, LogsAlways, PTL

(* A run on a card that works appends to the log of another run only if it *)
(* is the last one and every name is used.                                 *)
THEOREM MixedOnlyInLastLogAlways == Spec => []MixedOnlyInLastLog
<1>1. LogInv => MixedOnlyInLastLog
  BY DEF LogInv, RecordsMixed, Records, MixedOnlyInLastLog, LastNameOnly
<1>2. QED
  BY <1>1, LogsAlways, PTL

-----------------------------------------------------------------------------
(* As long as the card does not fail, a power loss costs at most the       *)
(* record that is being written.                                           *)
UnsavedOnlyInFlush ==
  /\ RecordsAreSaved
  /\ ~ badCard => atEnd
  /\ ~ badCard /\ phase # "flush" => content = durable

LEMMA SavedSpecStep ==
  ASSUME MasterTypeOK, UnsavedOnlyInFlush, [Next]_vars
  PROVE  UnsavedOnlyInFlush'
<1> USE DEF clock, logging, logs, power, badCard
<1>1. CASE WriteRecord /\ ~ badCard
  <2>1. /\ content = durable /\ phase' = "flush" /\ durable' = durable
        /\ logfile' = logfile /\ boot' = boot /\ atEnd /\ atEnd'
        /\ content' = [content EXCEPT ![logfile] = Append(content[logfile], boot)]
    BY <1>1 DEF WriteRecord, UnsavedOnlyInFlush
  <2>2. \A n \in LogNames : content'[n] = IF n = logfile THEN Append(durable[n], boot)
                                          ELSE durable[n]
    BY <2>1 DEF MasterTypeOK, LogOf
  <2>3. QED
    BY <2>1, <2>2 DEF UnsavedOnlyInFlush, RecordsAreSaved
<1>2. CASE FlushLog /\ ~ badCard
  <2>1. /\ durable' = [durable EXCEPT ![logfile] = content[logfile]]
        /\ content' = content /\ phase = "flush" /\ atEnd'
    BY <1>2 DEF FlushLog, UnsavedOnlyInFlush
  <2>2. \A n \in LogNames : content[n] = durable[n] \/ n = logfile
    BY <1>2 DEF UnsavedOnlyInFlush, RecordsAreSaved
  <2>3. content' = durable'
    BY <2>1, <2>2 DEF MasterTypeOK, LogOf
  <2>4. QED
    BY <2>1, <2>3 DEF UnsavedOnlyInFlush, RecordsAreSaved
<1>3. CASE CloseLog /\ ~ badCard
  <2>1. content = durable /\ content' = content /\ phase' = phase /\ phase = "run" /\ atEnd'
        /\ durable' = [durable EXCEPT ![logfile] = content[logfile]]
    BY <1>3 DEF CloseLog, Iteration, UnsavedOnlyInFlush
  <2>2. content' = durable'
    BY <2>1 DEF MasterTypeOK, LogOf
  <2>3. QED
    BY <2>1, <2>2 DEF UnsavedOnlyInFlush, RecordsAreSaved
<1>4. CASE PowerCycle
  BY <1>4 DEF PowerCycle, UnsavedOnlyInFlush, RecordsAreSaved
<1>5. CASE BeginCard \/ OpenLog \/ WriteFails
  BY <1>5 DEF BeginCard, OpenLog, SearchEnds, WriteFails, UnsavedOnlyInFlush, RecordsAreSaved
<1>6. CASE LoggingDone \/ ParseFailed \/ Control \/ CompassHang
  BY <1>6 DEF LoggingDone, ParseFailed, Control, CompassHang, Iteration,
              UnsavedOnlyInFlush, RecordsAreSaved
<1>7. CASE UNCHANGED vars
  BY <1>7 DEF vars, UnsavedOnlyInFlush, RecordsAreSaved
<1>8. CASE WriteInside \/ (badCard /\ (WriteRecord \/ FlushLog \/ CloseLog))
  <2>1. badCard'
    BY <1>8 DEF WriteInside, WriteRecord, FlushLog, CloseLog, UnsavedOnlyInFlush
  <2>2. QED
    BY <2>1 DEF UnsavedOnlyInFlush, RecordsAreSaved
<1>9. QED
  BY <1>1, <1>2, <1>3, <1>4, <1>5, <1>6, <1>7, <1>8 DEF Next, Program

(* As long as the card does not fail, every record survives a power loss   *)
(* once logData() has returned, whatever cards did in earlier boots.       *)
THEOREM RecordsAreSavedAlways == Spec => []RecordsAreSaved
<1>1. Init => UnsavedOnlyInFlush
  BY DEF Init, UnsavedOnlyInFlush, RecordsAreSaved
<1>2. MasterTypeOK /\ UnsavedOnlyInFlush /\ [Next]_vars => UnsavedOnlyInFlush'
  BY SavedSpecStep
<1>3. TypeInv => MasterTypeOK
  BY DEF TypeInv
<1>4. UnsavedOnlyInFlush => RecordsAreSaved
  BY DEF UnsavedOnlyInFlush
<1>5. QED
  BY <1>1, <1>2, <1>3, <1>4, TypesAlways, PTL DEF Spec

-----------------------------------------------------------------------------
(* The sail servo stands where the filtered wind angle puts it, except in  *)
(* an iteration that the compass holds up for good.                        *)
TrimInv ==
  relWindAngle_trim # Dummy /\ phase # "hung"
    => u_sailTrim = SailTrim(relWindAngle_trim)

LEMMA TrimStep ==
  ASSUME TrimInv, [Next]_vars
  PROVE  TrimInv'
<1> USE DEF TrimInv, control, sensors
<1>1. CASE Control
  BY <1>1 DEF Control, sailTrimController
<1>2. CASE CompassHang
  BY <1>2 DEF CompassHang
<1>3. CASE PowerCycle
  BY <1>3 DEF PowerCycle, ControlReset
<1>4. CASE BeginCard \/ OpenLog \/ WriteRecord \/ WriteInside \/ WriteFails \/ FlushLog
  BY <1>4 DEF BeginCard, OpenLog, WriteRecord, WriteInside, WriteFails, FlushLog
<1>5. CASE CloseLog \/ LoggingDone \/ ParseFailed \/ UNCHANGED vars
  BY <1>5 DEF CloseLog, LoggingDone, ParseFailed, Iteration, vars
<1>6. QED
  BY <1>1, <1>2, <1>3, <1>4, <1>5 DEF Next, Program

(* The sail trim has no jump.                                              *)
THEOREM SailFollowsWindAlways == Spec => SailFollowsWind
<1>1. Init => TrimInv
  BY DEF Init, ControlInit, TrimInv
<1>2. ASSUME TypeInv, TrimInv, [Next]_vars PROVE [SmoothTrim]_control
  <2>1. u_sailTrim \in Int
    BY <1>2 DEF TypeInv, ControlInv, ControlTypeOK
  <2>2. CASE u_sailTrim' = u_sailTrim
    BY <2>1, <2>2 DEF Between, SmoothTrim
  <2>3. CASE Control
    <3>1. u_sailTrim' = SailTrim(relWindAngle_trim') /\ phase = "run"
      BY <2>3 DEF Control, sailTrimController, Iteration
    <3>2. SUFFICES ASSUME relWindAngle_trim \in 0 .. 359, relWindAngle_trim' \in 0 .. 359,
                          Between(relWindAngle_trim' - relWindAngle_trim, -1, 1)
                   PROVE  Between(u_sailTrim' - u_sailTrim, -1, 1)
      BY DEF SmoothTrim
    <3>3. u_sailTrim = SailTrim(relWindAngle_trim)
      BY <1>2, <3>1, <3>2 DEF TrimInv, Dummy
    <3>4. Between(SailTrim(relWindAngle_trim') - SailTrim(relWindAngle_trim), -1, 1)
      BY <3>2, SailTrimSmooth
    <3>5. QED
      BY <3>1, <3>3, <3>4
  <2>4. CASE PowerCycle
    BY <2>4 DEF PowerCycle, ControlReset, Dummy, SmoothTrim
  <2>5. Control \/ PowerCycle \/ u_sailTrim' = u_sailTrim
    BY <1>2 DEF Next, Program, BeginCard, OpenLog, CloseLog, LoggingDone, ParseFailed,
       CompassHang, WriteRecord, WriteInside, WriteFails, FlushLog, vars, control
  <2>6. QED
    BY <2>2, <2>3, <2>4, <2>5
<1>3. Spec => [][SmoothTrim]_control
  BY <1>1, <1>2, TrimStep, TypesAlways, PTL DEF Spec
<1>4. QED
  BY <1>3, PTL DEF SailFollowsWind

-----------------------------------------------------------------------------
(* The logs of the program are files of the abstract store.                *)
LEMMA StoreStep ==
  ASSUME MasterTypeOK, [Next]_vars
  PROVE  [atEnd => Store!Next]_(Store!vars)
<1> USE DEF logs, logging
<1>1. CASE WriteRecord
  <2>1. /\ content' = [content EXCEPT ![logfile] = Append(content[logfile], boot)]
        /\ durable' = durable
    BY <1>1 DEF WriteRecord
  <2>2. /\ logfile \in LogNames /\ content \in [LogNames -> Seq(1 .. boot)]
        /\ boot \in 1 .. boot
    BY DEF MasterTypeOK, LogOf
  <2>3. content[logfile] \in Seq(1 .. boot)
    BY <2>2
  <2>4. /\ Len(Append(content[logfile], boot)) = Len(content[logfile]) + 1
        /\ Len(content[logfile]) \in Nat
        /\ SubSeq(Append(content[logfile], boot), 1, Len(content[logfile]))
             = content[logfile]
    BY <2>2, <2>3, AppendProperties, LenProperties
  <2>5. /\ content'[logfile] = Append(content[logfile], boot)
        /\ \A m \in LogNames \ {logfile} : content'[m] = content[m]
    BY <2>1, <2>2
  <2>6. Store!Extend(logfile)
    BY <2>1, <2>4, <2>5 DEF Store!Extend
  <2>7. QED
    BY <2>2, <2>6 DEF Store!Next
<1>2. CASE CloseLog \/ FlushLog
  <2>1. /\ content' = content
        /\ durable' = durable \/ durable' = [durable EXCEPT ![logfile] = content[logfile]]
    BY <1>2 DEF CloseLog, FlushLog
  <2>2. logfile \in LogNames
    BY DEF MasterTypeOK
  <2>3. QED
    BY <2>1, <2>2 DEF Store!Next, Store!Sync, Store!vars
<1>3. CASE PowerCycle
  BY <1>3 DEF PowerCycle, Store!Next, Store!PowerLoss
<1>4. CASE BeginCard \/ OpenLog \/ WriteFails
  BY <1>4 DEF BeginCard, OpenLog, WriteFails, Store!vars
<1>5. CASE LoggingDone \/ ParseFailed \/ Control \/ CompassHang \/ UNCHANGED vars
  BY <1>5 DEF LoggingDone, ParseFailed, Control, CompassHang, vars, Store!vars
<1>6. CASE WriteInside
  BY <1>6 DEF WriteInside
<1>7. QED
  BY <1>1, <1>2, <1>3, <1>4, <1>5, <1>6 DEF Next, Program

(* The main program uses the card as the abstract file store allows once   *)
(* its log is opened at its end: logs only grow, are saved, and return to  *)
(* what was saved.                                                         *)
THEOREM LogIsFileStoreAlways == Spec => LogIsFileStore
<1>1. Init => Store!Init
  BY DEF Init, Store!Init
<1>2. MasterTypeOK /\ [Next]_vars => [atEnd => Store!Next]_(Store!vars)
  BY StoreStep
<1>3. TypeInv => MasterTypeOK
  BY DEF TypeInv
<1>4. QED
  BY <1>1, <1>2, <1>3, TypesAlways, PTL DEF Spec, LogIsFileStore

=============================================================================
