---------------------------- MODULE SailboatMaster ----------------------------
(***************************************************************************)
(* Sailboat_Master_Program.ino: setup(), loop(), error() and logData() on  *)
(* a boat whose power may be cut at any time and whose card and compass    *)
(* may fail.                                                               *)
(*                                                                         *)
(* The card is what FileStore promises: content is what was written,       *)
(* durable what survives a power loss.  A log is the sequence of its       *)
(* records, each the number of the boot that wrote it.  What the GPS       *)
(* delivers in an iteration is one of the results GpsPolling can have.     *)
(***************************************************************************)
EXTENDS SailControl, Sequences, FiniteSets

CONSTANTS
  LogRate,     \* logRate: 15
  LogTime,     \* logTime: 300000 ms
  Ticks,       \* lengths of an iteration, in ms: 1 or more for the compass
  ClockWrap,   \* modulus of millis(): 2^32
  NumNames,    \* names 512L0G00.TXT, 512L0G01.TXT, ...: 100
  CardRecords, \* records that fit on the card
  MaxBoots,    \* bound of the model: power cycles
  CardMayFail,  \* may a card be one that fails
  CompassMayHang

ASSUME MasterAssumption ==
  /\ LogRate \in Nat /\ LogTime \in Nat /\ ClockWrap \in Nat \ {0}
  /\ Ticks \subseteq Nat \ {0}
  /\ NumNames \in Nat \ {0} /\ CardRecords \in Nat /\ MaxBoots \in Nat \ {0}
  /\ CardMayFail \in BOOLEAN /\ CompassMayHang \in BOOLEAN

VARIABLES
  phase,      \* where the program is
  now,        \* millis()
  lStart,     \* millis() at the last getLoopRate()
  isLogging, logNumber,
  logfile,    \* the log of this boot
  exists,     \* names in the directory
  atEnd,      \* SD.open() could seek to the end of the log
  content, durable,
  boot,       \* number of power-ons so far
  badBoots    \* history: those since which the card may fail

logs == <<content, durable>>
logging == <<isLogging, logNumber, logfile, exists, atEnd>>
clock == <<now, lStart>>
power == <<boot, badBoots>>
vars == <<control, phase, clock, logging, logs, power>>

LogNames == 0 .. NumNames - 1
badCard == boot \in badBoots

(* "card": in setup() before SD.begin(); "log": before the log is opened;  *)
(* "run": at the top of loop(); "write", "flush": in logData(); "hung": in *)
(* compass.read(); "error2" .. "error4": blinking in error().              *)
Phases == {"card", "log", "run", "write", "flush", "hung",
           "error2", "error3", "error4"}

(* The card that is in since the power-on b may be one that fails.         *)
NewBad(b) == IF CardMayFail THEN {b} ELSE {}

Init ==
  /\ ControlInit
  /\ phase = "card" /\ now = 0 /\ lStart = 0
  /\ isLogging = TRUE /\ logNumber = 0 /\ logfile = 0
  /\ exists = {} /\ atEnd = TRUE
  /\ content = [n \in LogNames |-> << >>] /\ durable = content
  /\ boot = 1
  /\ badBoots \in {{}, NewBad(boot)}

-----------------------------------------------------------------------------
(* setup(): delay(10000) and SD.begin().                                   *)
BeginCard ==
  /\ phase = "card"
  /\ now' = 10000
  /\ \/ phase' = "log"
     \/ badCard /\ phase' = "error2"
  /\ UNCHANGED <<control, lStart, logging, logs, power>>

(* Mutation: the search gives up one name early.                           *)
SearchEndsShort ==
  {n \in LogNames : /\ 0 .. n - 1 \subseteq exists
                    /\ n \notin exists \/ badCard \/ n >= NumNames - 2}

(* Mutation: the search goes down.                                         *)
SearchEndsDown ==
  {n \in LogNames : /\ n + 1 .. NumNames - 1 \subseteq exists
                    /\ n \notin exists \/ badCard \/ n = 0}

(* The names the search loop can end with: the first that SD.exists()      *)
(* denies, or the last one.  SD.exists() denies every name that is not     *)
(* there, and any name if it cannot read the directory.                    *)
SearchEnds ==
  {n \in LogNames : /\ 0 .. n - 1 \subseteq exists
                    /\ n \notin exists \/ badCard \/ n = NumNames - 1}

(* Mutation: an existing file is emptied.                                  *)
OpenLogTruncates ==
  /\ phase = "log" /\ phase' = "run"
  /\ \E n \in SearchEnds :
       /\ logfile' = n /\ exists' = exists \cup {n}
       /\ content' = [content EXCEPT ![n] = << >>]
  /\ UNCHANGED <<control, clock, isLogging, logNumber, atEnd, durable, power>>

(* The search, SD.open() and the rest of setup().  A new name may be in    *)
(* the directory although SD.open() failed.  SD.open() does not look at    *)
(* what its seek to the end of the file returns.                           *)
OpenLog ==
  /\ phase = "log"
  /\ \E n \in SearchEnds :
       \/ /\ phase' = "run"
          /\ logfile' = n /\ exists' = exists \cup {n}
          /\ atEnd' \in BOOLEAN
          /\ atEnd' \/ (badCard /\ content[n] # << >>)
       \/ /\ badCard /\ phase' = "error3"
          /\ exists' \in {exists, exists \cup {n}}
          /\ UNCHANGED <<logfile, atEnd>>
  /\ UNCHANGED <<control, clock, isLogging, logNumber, logs, power>>

-----------------------------------------------------------------------------
(* loop()                                                                  *)
Iteration ==
  /\ phase = "run"
  /\ \E t \in Ticks : now' = (now + t) % ClockWrap

Expired == now > LogTime

(* Mutation: the file is closed again and again.                           *)
CloseLogForever ==
  /\ Iteration /\ Expired /\ isLogging
  /\ durable' = [durable EXCEPT ![logfile] = content[logfile]]
  /\ UNCHANGED <<control, phase, lStart, logging, content, power>>

(* The logging time is over: the file is closed, which saves what is not   *)
(* saved yet, unless the card fails: nobody looks.                         *)
CloseLog ==
  /\ Iteration /\ Expired /\ isLogging
  /\ isLogging' = FALSE
  /\ \/ durable' = [durable EXCEPT ![logfile] = content[logfile]]
     \/ badCard /\ UNCHANGED durable
  /\ UNCHANGED <<control, phase, lStart, logNumber, logfile, exists, atEnd, content,
                 power>>

LoggingDone ==
  /\ Iteration /\ Expired /\ ~ isLogging
  /\ UNCHANGED <<control, phase, lStart, logging, logs, power>>

(* A sentence that does not parse ends the iteration.                      *)
ParseFailed ==
  /\ Iteration /\ ~ Expired
  /\ UNCHANGED <<control, phase, lStart, logging, logs, power>>

(* The time since the last call, in ms, by unsigned subtraction.           *)
getLoopRate == (now - lStart) % ClockWrap

(* No sentence, or one that parsed: sensors, controllers, log counter.     *)
Control ==
  /\ Iteration /\ ~ Expired
  /\ lStart' = now
  /\ updateWindDirection
  /\ updateCurrentHeading
  /\ rudderController(now, getLoopRate)
  /\ sailTrimController
  /\ IF logNumber = LogRate
     THEN phase' = "write" /\ UNCHANGED logNumber
     ELSE phase' = phase /\ logNumber' = logNumber + 1
  /\ UNCHANGED <<isLogging, logfile, exists, atEnd, logs, power>>

(* compass.read() waits for the sensor, with io_timeout = 0 forever.       *)
CompassHang ==
  /\ CompassMayHang
  /\ Iteration /\ ~ Expired
  /\ lStart' = now
  /\ updateWindDirection
  /\ phase' = "hung"
  /\ UNCHANGED <<currentHeading, rudder, u_sailTrim, logging, logs, power>>

-----------------------------------------------------------------------------
(* logData()                                                               *)
Recorded == UNION {{n} \X DOMAIN content[n] : n \in LogNames}
CardFull == Cardinality(Recorded) >= CardRecords

WriteRecord ==
  /\ phase = "write"
  /\ isLogging /\ ~ CardFull
  /\ content' = [content EXCEPT ![logfile] = Append(@, boot)]
  /\ phase' = "flush"
  /\ UNCHANGED <<control, clock, logging, durable, power>>

(* The records of a log at the positions S are overwritten.                *)
Overwritten(log, S) == [i \in DOMAIN log |-> IF i \in S THEN boot ELSE log[i]]

(* The log was not opened at its end: until the position gets there,       *)
(* records go over those of earlier boots, or behind the end of the file,  *)
(* where no reader looks; their blocks may reach the card before a flush.  *)
WriteInside ==
  /\ phase = "write"
  /\ isLogging /\ ~ atEnd
  /\ \E S \in SUBSET DOMAIN content[logfile] :
       content' = [content EXCEPT ![logfile] = Overwritten(@, S)]
  /\ \E S \in SUBSET {i \in DOMAIN content'[logfile] : content'[logfile][i] = boot} :
       durable' = [durable EXCEPT ![logfile] = Overwritten(@, S)]
  /\ phase' \in {"flush", "error4"}
  /\ UNCHANGED <<control, clock, logging, power>>

(* write() returns less than it was given: the file is closed, the card is *)
(* full, or it failed.                                                     *)
WriteFails ==
  /\ phase = "write"
  /\ ~ isLogging \/ CardFull \/ badCard
  /\ phase' = "error4"
  /\ UNCHANGED <<control, clock, logging, logs, power>>

(* Mutation: the record is written but not flushed.                        *)
FlushNothing ==
  /\ phase = "flush"
  /\ phase' = "run" /\ logNumber' = 0
  /\ UNCHANGED <<control, clock, isLogging, logfile, exists, atEnd, logs, power>>

(* flush() has no result; back in loop() the counter restarts.             *)
FlushLog ==
  /\ phase = "flush"
  /\ \/ durable' = [durable EXCEPT ![logfile] = content[logfile]]
     \/ badCard /\ UNCHANGED durable
  /\ phase' = "run" /\ logNumber' = 0
  /\ UNCHANGED <<control, clock, isLogging, logfile, exists, atEnd, content, power>>

-----------------------------------------------------------------------------
PowerCycle ==
  /\ boot < MaxBoots
  /\ boot' = boot + 1
  /\ badBoots' \in {badBoots, badBoots \cup NewBad(boot')}
  /\ ControlReset
  /\ phase' = "card" /\ now' = 0 /\ lStart' = 0
  /\ isLogging' = TRUE /\ logNumber' = 0 /\ logfile' = 0 /\ atEnd' = TRUE
  /\ content' = durable
  /\ UNCHANGED <<exists, durable>>

Program ==
  \/ BeginCard \/ OpenLog
  \/ CloseLog \/ LoggingDone \/ ParseFailed \/ Control \/ CompassHang
  \/ WriteRecord \/ WriteInside \/ WriteFails \/ FlushLog

Next == Program \/ PowerCycle
Spec == Init /\ [][Next]_vars
FairSpec == Spec /\ WF_vars(Program)

-----------------------------------------------------------------------------
LogOf == [LogNames -> Seq(1 .. boot)]

(* The types of the program's variables and of the logs; the counter stays *)
(* within logRate, so it cannot step over the value that triggers a record.*)
MasterTypeOK ==
  /\ phase \in Phases /\ now \in Nat /\ lStart \in Nat
  /\ isLogging \in BOOLEAN /\ logNumber \in 0 .. LogRate
  /\ logfile \in LogNames /\ exists \subseteq LogNames /\ atEnd \in BOOLEAN
  /\ boot \in Nat \ {0} /\ badBoots \subseteq 1 .. boot
  /\ content \in LogOf /\ durable \in LogOf

(* A test run on a card that works has its records in a log after those of *)
(* all runs before it and before those of all runs after it, whatever the  *)
(* cards of those did and wherever the power was cut: its name search      *)
(* starts at the first name and passes every name in use.                  *)
LogsInOrder ==
  \A m, n \in LogNames : m < n =>
    \A i \in DOMAIN content[m], j \in DOMAIN content[n] :
      content[m][i] \notin badBoots => content[m][i] < content[n][j]

(* A run on a card that works appends to another run's log only when every *)
(* name is used, and then to the last one.  A run that could not read the  *)
(* directory may append to any (SD.exists() says no name is there).        *)
MixedOnlyInLastLog ==
  \A n \in LogNames : \A i, j \in DOMAIN content[n] :
    content[n][i] < content[n][j] /\ content[n][j] \notin badBoots
      => n = NumNames - 1 /\ exists = LogNames

(* "save data statement" (line 350): as long as the card does not fail,    *)
(* every record survives a power loss once logData() has returned.         *)
RecordsAreSaved ==
  ~ badCard => \A n \in LogNames :
    content[n] = durable[n] \/ (phase = "flush" /\ n = logfile
                                /\ content[n] = Append(durable[n], boot))

(* What the program relies on from the card, and all it does to its logs   *)
(* once SD.open() has found the end of the log: they grow at their end,    *)
(* are saved, and go back to what was saved.                               *)
Store == INSTANCE FileStore WITH Names <- LogNames, Unit <- Nat
LogIsFileStore == Store!Init /\ [][atEnd => Store!Next]_(Store!vars)

(* Whatever the GPS sends, logging ends: the file gets closed, or the      *)
(* program stops in error() or in compass.read(), or the power is cycled.  *)
Stopped == phase \in {"hung", "error2", "error3", "error4", "card"}
LoggingEnds == phase = "run" ~> (~ isLogging \/ Stopped)
=============================================================================
