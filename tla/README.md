# Verification of the sailboat controller and its libraries

TLA+ models, TLC runs and TLAPS proofs for the programs of the autonomous
sailboat: the main sketch `Sailboat_Master_Program`, the GPS library it reads
its position with, the SD library it writes its logs with, and the libraries
that are kept beside it for the boat's radio, motors and fuzzy steering. Line
numbers refer to the sources of this repository.

## The system

An Arduino Mega reads a GPS unit (serial), a wind vane (analog), a compass
(I2C), steers with two servos (rudder and sail) and writes a log to an SD card.
Other sketches steer with a fuzzy controller; a CC3000 radio and a motor shield
have their libraries in `src/Arduino/libraries`.

| Part | State it keeps | Operations | Where it is hard |
|---|---|---|---|
| GPS receiver, `Adafruit_GPS.cpp` | two line buffers, which one is being filled, index, "line received" flag; last position | `read()`, `newNMEAreceived()`, `lastNMEA()`, `parse()` | characters lost in the serial ring; overlong lines; a line overtaken by the next one when `read()` runs in the timer interrupt |
| SD volume, `SdVolume.cpp` | one cached block with a dirty flag and the address of its FAT mirror; start of the search for free clusters | `cacheFlush`, `cacheRawBlock`, `cacheZeroBlock`, `fatGet`, `fatPut`, `allocContiguous`, `freeChain`, `chainSize` | the one block is shared by table, directory and every file; order of writes when the power fails; commands that fail half way |
| SD files, `SdFile.cpp`, `File.cpp`, `SD.cpp` | per open file: first and current cluster, position, size, "directory entry is stale" | `open`, `write`, `read`, `seekSet`, `sync`, `truncate`, `remove`, `close` | cluster boundaries; full blocks bypass the cache; retries; full card |
| SD directories, the same files | the directory being walked or listed, with its position and the size it had when opened | `mkdir`, `rmdir`, `exists`, `remove`, `open` along a path, `openNextFile`, `rewindDirectory` | growth of a directory; a power failure within `mkdir`; a listing whose every step searches the directory again |
| SD card driver, `Sd2Card.cpp` | type of the card, block being read, offset in it | `init`, `readData`, `partialBlockRead`, `readBlock`, `writeBlock` | a card that stays busy, does not answer or programs badly; reads that go on in an open block |
| Main program, `Sailboat_Master_Program.ino` | logging state, log counter, clock readings, name of the log | `setup()`, `loop()`, `logData()`, `error()`, `getLoopRate()` | power cycles, a bad card, a silent compass, the end of the log names, `millis()` |
| Sensors and controllers (same file) | filtered wind angle and heading, integral, servo commands | `updateWindDirection`, `updateCurrentHeading`, `rudderController`, `sailTrimController` | angles around north, integral windup, pieces of the trim function |
| CC3000 link, `ccspi.cpp`, `hci.cpp`, `evnt_handler.cpp`, `wlan.cpp` | state of the SPI transfer, the one receive buffer, what the program waits for | `wlan_start`, `wlan_stop`, commands, `SPI_IRQ`, `cc3k_int_poll`, `hci_event_handler` | the interrupt, the check for a missed one and the poll share each transfer; unsolicited events share the buffer with answers |
| CC3000 network, `Adafruit_CC3000.cpp` | flags set by the event callback, "initialised" | `begin`, `stop`, `reboot`, `disconnect`, `deleteProfiles`, `startSmartConfig`, `connectToAP` | events between any two commands; restarts of the device; waits that may never be answered |
| CC3000 sockets, `socket.cpp`, client and server classes | which sockets are active or closed, count of the device's free transmit buffers, each client's socket | `connectTCP`, `connected`, `available`, `read`, `write`, `close`, server `begin`, `accept` | reused socket numbers; the count is changed in program and interrupt; connections that die |
| Motor shield, `AFMotor.cpp` | the latch register all motors share, PWM duties, position of each stepper | `run`, `setSpeed`, `step`, `onestep`, `release` | mixed stepping styles; two ports on one latch |
| Fuzzy rudder, three sketches and eFLL | pertinence of each set, points of the composed output | `fuzzify`, `defuzzify` | degrees that stay from the last round; sets that are a single value |

How they interact: the UART interrupt puts characters in a ring; `loop()` takes
at most one of them per iteration with `GPS.read()`, parses a line once it is
complete, runs sensors and controllers, and every `logRate` iterations calls
`logData()`, which writes a record with `File::write` and saves it with
`File::flush`. A `File` holds an `SdFile`; all of them reach the card through
the one cached block of `SdVolume`, and that through the commands of `Sd2Card`.
A failed parse ends the iteration before the controllers; a failed card stops
the program in `error()`; the compass is waited for without a timeout. The
sketches `echo` and `echo_MEGA` and the example `parsing.pde` call `GPS.read()`
from the timer interrupt instead. In the CC3000 library a call becomes commands
of `hci.cpp`, each of which `ccspi.cpp` transfers while the program waits for
its answer in `hci_event_handler`; the device's interrupt brings answers and
unsolicited events, and the latter change the flags of sockets and network.

What makes each part correct:

* receiver: the line that `parse()` gets is made of characters in the order they
  were sent, without leftovers of another line; if none was lost it is exactly a
  sentence, and none is skipped or repeated;
* volume, files and directories: every file reads back what was written to it,
  clusters belong to one file or directory, both copies of the table agree, and
  after a power loss a restart finds what was saved;
* card driver: a read delivers the block asked for, a write that succeeds is on
  the card;
* main program: servo commands on the right side, logs in the order of the
  boots as far as their cards work, a record that `logData()` returned from is
  saved, logging ends;
* CC3000: each command reaches the device once and returns with its own answer;
  `checkConnected()` and `checkDHCP()` follow the device; every connection has
  one owner; the device is never sent a packet it has no buffer for;
* motor shield: a step moves one motor, in the direction asked for;
* fuzzy rudder: not away from the course when the turn asked for is 15 degrees or
  more.

## Modules

```
GpsReceiver  <-EXTENDS- GpsPolling     <- MCGpsPolling      proofs: GpsPolling_proofs
             <-EXTENDS- GpsInterrupt   <- MCGpsInterrupt            GpsInterrupt_proofs
                                           both rest on GpsReceiver_proofs
SdVolume     <-EXTENDS- SdFile         <- MCSdFile, MCBench proofs: SdFile_proofs
             <-EXTENDS- SdDirectory    <- MCBench
SailControl  <-EXTENDS- SailboatMaster <- MCSailboatMaster  proofs: SailboatMaster_proofs
FileStore       <-refined by SdFile and by the logs of SailboatMaster
Cc3000Sockets   <- MCCc3000Sockets                          proofs: Cc3000Sockets_proofs
TransmitBuffers <-refined by Cc3000Sockets                          TransmitBuffers_proofs
Cc3000Spi, Cc3000Network, Sd2Card, MotorShield <-instances- Drivers
Drivers         <-EXTENDS- MCBench                          proofs: Drivers_proofs
HciExchange     <-refined by Cc3000Spi
SdFile, SdDirectory, FuzzyRudder <-instances- MCBench
FuzzyRudder     <- MCFuzzyRudder
```

**GpsReceiver** has the static data of `Adafruit_GPS` (`rcv`, `gps`), the serial
ring (`rx`) and what the unit sends. `Receive(r, c)` is `read()` after it took
the character `c`: the `$` branch (`RestartLine`), the newline branch
(`SwapLines`) and the store (`PutChar`). `Parse` is `parse()`. A character of the
model stands for a field of a real sentence: `$`, identifier with time and
status, latitude, longitude, newline, each tagged with its sentence, so that a
property can tell whose field a position comes from. A field is lost or arrives
as a whole; a coordinate assigned from the wrong place is `Garbage`.

**GpsPolling** is `loop()` with `GPS.read()` in it: one action `Loop` per
iteration, one action `Uart` for the interrupt that fills the ring.

**GpsInterrupt** is `loop()` with `GPS.read()` in the timer interrupt. `Isr` may
come between any two reads of `loop()`, so these are actions of their own: the
flag (`Check`), clearing it and the two bytes of the pointer (`LastNMEA`), the two
searches for the identifier (`Search`) and each field (`ParseFix`,
`ParseLatitude`, `ParseLongitude`), up to where `strchr` finds no further comma
and the parse reads on outside its line (`Astray`). The data race is modelled by what the build
can produce: a pointer read while it changes may be neither buffer
(`ParseElsewhere`); a field read from the buffer being filled may be torn.

**SdVolume** writes each library function as an operator from a state to the set
of its outcomes `[s, ok, result]`. Every card command may succeed or fail and each
operator returns early where the code does; `Then` composes a call with what
follows when it succeeds, and `Repeat` is a loop: a recursive function from the
number of rounds to the outcomes so far, where a round that finds the loop ended
changes nothing (`LookAt` in `allocContiguous`, `FreeNext` in `freeChain`). A failed
write may or may not have reached the card.

**SdFile** has one action per call of the File class. `Call` picks an outcome of
the operators: the call returns, or the power fails at one of its card commands,
which leaves the blocks written up to there. The loops of `write`, `read` and
`seekSet` are `WriteRound`, `ReadRound` and `FollowLink`. Units of a block are tagged
with file and position, so that `ReadBack` and `CrashConsistent` can tell the right
data; of a read the model keeps what it does to the cache, the file's position and
its cluster.

**SdDirectory** has one action per call of the SD class that takes a path, and
the listing of a directory. `Search` and `Create` are the two halves of
`SdFile::open`, which shares the cached block with everything it calls;
`WalkPath` goes down a path with the callback of each call, `MakeDir`, `RmDir`
and `RemoveThis` are the SdFile functions. A directory is a chain of clusters
with slots for entries; blocks of files are `Data`.

**Sd2Card** has one action per command: `cardCommand` may find the card still
busy or be refused, `StartBlock` and `Programmed` are the waits with their
timeouts. The card knows which block it is sending and how far, so that a read
can be compared with what was asked.

**FileStore** is what a sketch expects: files grow at their end, a call makes a
file durable, a power loss takes every file back to what was durable.

**SailControl** has one operator per sensor and controller function. Angles are
whole degrees; the integral is in degree milliseconds and the rudder command in
PWM / 100000, so that the gains are integers and nothing is rounded. The
low-pass filter yields any value between the old and the new one, because its
weight depends on the length of the iteration.

**SailboatMaster** composes the controllers with `setup()`, `loop()` and
`logData()`: `BeginCard` and `OpenLog` (setup), `CloseLog`, `LoggingDone`,
`ParseFailed`, `Control`, `CompassHang` (the ways through `loop()`),
`WriteRecord`, `WriteFails`, `FlushLog` (logData), and `PowerCycle`. The card is
what FileStore promises; a log is the sequence of the boots that wrote its
records. `badBoots` has the boots whose card may fail, this one included
if `badCard`. The search for a name ends with any of `SearchEnds`: the first name
that `SD.exists()` denies, and on a card that fails `SD.exists()` denies any name
it cannot read, because `walkPath` returns false for a read error
(`SD.cpp:118-252`, `518-525`). An existing log is then appended to; `SD.open()`
ignores the result of its `seekSet` to the end (`SD.cpp:467`), so that `atEnd` may
be false, and records go over older ones or behind the end of the file
(`WriteInside`).

**Cc3000Spi** steps through `SpiWrite()` (`WriteBegin` ... `WriteRelease`), the
wait and the poll (`WaitEvent`, `PollPin`, `PollServe`) and `hci_event_handler`
(`Handle`, `PatchRequest`, `KeepWaiting`, `EventDone`), because the interrupt
(`Interrupt`, which is `SPI_IRQ`) comes between any two of them. Packets are
numbered, so that an answer can be compared with its command. **HciExchange** is
what a caller sees: commands one after the other, each arriving once.

**Cc3000Network** takes a command and its answer as one step and has the order
of commands of each operation; a failing command goes where `CHECK_SUCCESS` or
an ignored result takes it. The callback is an action of its own. `unreported`
remembers which flags were changed on one side without an event. `begin()` starts
with `init_spi()`, which drives the power pin low whatever the device was doing, so
a call after one that failed restarts the device (`Cc3000Spi`, one level below, has
the first start and those of `wlan_stop()` and `wlan_start()`).

**Cc3000Sockets** has the calls of clients and server, a step per command of the
device and the load and the store of the buffer count as two. Events are handled
before the next command, in the order the device sent them. **TransmitBuffers**
is the account of the device's buffers by itself.

**MotorShield** has the calls of `AF_DCMotor` and each `onestep` of a call of
`step` as a step. **FuzzyRudder** computes one `loop()` of a sketch in a step: the
sets and rules of the three sketches, the degrees in 240ths, the points of the
composed output and the centre of its area, in integers that keep every value of
the chosen inputs exact enough to tell on which side of zero it is.

**Drivers** has an instance of each of the four drivers whose models need no
recursion, `Spi`, `Net`, `Card` and `Motor`, with what is assumed of their
constants. They share no state; they are in one module so that one module of
proofs can be about them. **MCBench** adds `SdFile` on a card whose commands fail,
`SdDirectory` and `FuzzyRudder`, and puts the parts on one bench (`SdFile` as two
of them, `files` and `full`): `which` is chosen
at the start among the parts of the run (`Bench`), that part takes steps and the
others stay as they are. Each property concerns one of them.

## Runs

Every run finishes; the slowest takes about three minutes on two cores.

| Run | Instance | Checks | Shows |
|---|---|---|---|
| `gps_polling` | 3 sentences (RMC, unknown, GGA), line of 6, ring of 2; 52 809 states | `HandedOutLinesAreFragments`, `LosslessDelivery`, `PositionIsFresh` | the receiver under every loss of characters: lines are fragments of what was sent, in its order; without loss nothing is skipped, repeated or mixed |
| `gps_interrupt` | 3 sentences, line of 6, ring of 1; 804 449 states | `PromptParseStaysInside`, `PromptPositionIsFresh`, `PromptParseIsAtomic`, `EventuallyLastPosition` | a parse that no newline overtakes is as if there were no interrupts; no line is announced to nobody |
| `sd_log` | 3 clusters, 2 files, appends of 1 and 3 units, power loss anywhere; 53 090 states | `CrashConsistent`, `ImplementsFileStore` | logging calls are crash-safe and implement FileStore |
| `sd_api` | 3 clusters, 2 files, writes of 1 unit, all calls; 107 591 states | `ReadBack`, `NoCrossLink`, `ClusterOfPosition`, `FatCopiesAgree` | any order of calls, up to and at a full card |
| `sd_faults` | see below; 90 794 states | `OthersUntouched`, `LosesOnlyUnwritten`, `DirectoriesOwnTheirClusters`, `NoLostClusters`, `ListsEachOnce` | files on a card whose commands fail and on one that a single write may fill, directories with power losses |
| `sd_full_block` | writes of 2 units, a whole block | `SyncFailsOnlyOnError` (violated) | finding 1 |
| `master_control` | the code's times and rate; headings 10 and 250, wind on both sides of every branch of the trim; 705 659 states | `ErrorIsShorterTurn`, `RudderOpposesLargeError`, `SailFollowsWind` | the controllers through all four legs |
| `master_logs` | 3 names, 4 boots, good and bad cards, silent compass, wrapping clock; 676 976 states | `LogsInOrder`, `MixedOnlyInLastLog`, `RecordsAreSaved`, `LogIsFileStore`, `LoggingEnds` | the logs across boots and failures |
| `cc_host` | 3 sockets, 2 server slots and the sketch's own client, 2 transmit buffers; 865 624 states | `ConnectionsHaveOneOwner`, `ImplementsAccount`, `SendGetsBuffer` | clients and server against peers that connect, send, close and reset |
| `cc_drop` | as `cc_host` | `DropsOnlyClosed` (violated) | finding 2 |
| `drivers` | see below; 180 705 states | the eleven properties below | five drivers and the devices they talk to |
| `fuzzy_singleton` | `fuzzyrudderinputthree` as it stands: direction 0, 7 turns | `LoneSetDecides` (violated) | finding 3 |

The parts on the bench:

| Part | Instance | Properties |
|---|---|---|
| `Cc3000Spi` | 5 commands over all starts, 2 unsolicited events, 2 patches, boards that remember edges and boards that forget them | `ImplementsExchange`, `PacketIsKept`, `EveryCallReturns`, `EventsReachHost` |
| `Cc3000Network` | waits of one round, the access point lost once | `FlagsFollowDevice`, `SmartConfigPersists`, `WaitsEnd` |
| `Sd2Card` | the three kinds of card, blocks 0, 1 and 512, two writes | `ReadsAskedBlock`, `WrittenMeansProgrammed` |
| `MotorShield` | a stepper on port 1, DC motors on port 2, calls of 1 and 3 steps in all four styles | `StepTurnsOneMotor` |
| `FuzzyRudder` | the three sketches, 13 directions and 7 turns at and between the corners of the sets | `RudderTowardsCourse` |
| `SdFile` | 2 clusters, 2 files of at most 3 units, the logging calls, card commands that fail | `OthersUntouched` |
| `SdFile`, `full` | 2 clusters, 2 files, writes of 1 and of 3 units (more than a cluster), all calls | `LosesOnlyUnwritten` |
| `SdDirectory` | paths a, a/a and a/b, directory a listed, 4 clusters, power loss in `mkdir` and in creating a file | `DirectoriesOwnTheirClusters`, `NoLostClusters`, `ListsEachOnce` |

The last three are on the bench in `sd_faults`, the others in `drivers`. The two
files of `sd_faults` are interchangeable, and that run checks no liveness, so their
names are a symmetry set.

### Bounds

* `MaxLine = 6` for a sentence of five characters: a line fits, and two sentences
  whose newline and `$` were lost do not. `RxSize` 1 or 2 makes the ring overflow
  after one or two missed characters. Three sentences give a line in each buffer
  and one that reuses the first.
* Two files are what it takes to interfere; two units per block and one block per
  cluster make offsets inside a block, at its end and at a cluster's end differ;
  three clusters let one file have two, and both files run out of them. The table
  has two blocks, so looking up a cluster may replace the cached block, and two
  copies where the mirror matters. `MaxSize` is one unit more than two blocks for
  the logging run. `sd_api` writes one unit at a time; the write of several blocks that
  fails half way on a full volume is in the part `full`, whose volume has
  room for a write of three units only while the other file has no cluster.
* `Modulus` stands for 2^32 in `read()`: it is far above every size, so a wrapped
  difference is larger than any request, as in the code.
* A directory block of three slots holds `.`, `..` and one entry, so that the
  second entry makes the directory grow; four clusters let the card run full
  within `mkdir` too. `Sd2Card` has blocks 1 and 512 because a card with byte
  addresses, taken for one with block numbers, confuses exactly those two.
  `BlockSize = 2` gives a partial read a first and a last part.
* `LogRate = 2` instead of 15 in the log runs keeps the counter at 0, in between
  and at the limit. Three names and four boots use the names up and go on.
  `CardRecords = 4` fills the card within a boot. Each boot has a card that works or
  one that may fail, in every combination. `ClockWrap` lets `millis()` wrap
  after the logging time, which the code meets after 49 days.
* In `master_control` an iteration takes 20 s, so that a run passes all four legs
  (160, 100, 45 and 0 degrees, changed at 60, 120 and 180 s) and the integral
  reaches its limit; the real rate, hundreds of iterations per leg, only
  accumulates more slowly, and the theorems below hold for every length.
* Three sockets are one for listening and one for each of two clients, so that
  they run out and numbers are reused; `MaxInbox = 1` and `RxBufferSize = 2`
  give data that waits in the device and data left in a client. `MaxCalls`
  bounds remote connections and resets.
* Five commands are a start (three commands) and two calls with an answer and
  data. A read of the pin may see the level of an edge whose interrupt is taken
  right after it.
* `MaxBoots`, `NumSentences`, `MaxSize`, `MaxCommands`, `MaxEvents`, `MaxLosses`,
  `MaxWrites` and `MaxCalls` bound the length of a behaviour.

### Fairness

`GpsInterrupt` assumes weak fairness of the timer interrupt, of the unit that
keeps sending, and of `loop()`, which gets the processor between interrupts: an
interrupt once a millisecond copies one character. `SailboatMaster` assumes weak
fairness of the program as a whole, `Program`, and none of `PowerCycle`, nor of
one outcome against another: `LoggingEnds` rests on the clock alone.
`Cc3000Spi` assumes it of the program within a call, of the interrupt, and of
the device's answers, but not of its unsolicited events nor of the program's
next call. `Cc3000Network` assumes it of the program within a call and of the
callback, of no action of the device, so that `WaitsEnd` holds for a network that
never answers. `Cc3000Sockets` assumes it of the library, the interrupt and the
device's transmission of packets it has in its buffers.

Deadlock is checked in the GPS runs, `sd_log`, `sd_api` and `fuzzy_singleton`.
`CHECK_DEADLOCK FALSE` is set where the system really stops: `SailboatMaster` in
`error()` and in a compass wait, `Cc3000Sockets` in a send on a lost connection, a
bench when the bounded commands are used up, the card is off after a power loss,
or a command waits for a device that `stop()` has switched off.

### The devices at the other end

The CC3000 is external. Its model has what the driver relies on: it releases its
line when deselected, answers every command, keeps its packets in order, sends
unsolicited events only after `READ_BUFFER_SIZE`, and takes longer to boot than
the polling loop of `wlan_start()`. Connecting while it is connected changes
nothing. The event of `recv()` and the data behind it are queued one directly
behind the other, which the driver depends on: `SimpleLinkWaitData()` ends at
any packet, so an unsolicited event between the two would end the wait for the
data (the proof of `ImplementsExchange` uses this as `Front`). The SD card drops
a block it is sending when it is deselected, refuses commands while it is busy,
and may program a block badly and say so afterwards. The receive path of
`recv()` tests bytes behind the caller's answer (`evnt_handler.cpp:363`): what
they hold is a free choice (`RecvMayMark`).

### Power loss and failing cards

A power loss in a call leaves the disk as one of the call's failed outcomes has
it: any prefix of its block writes. A block is written as a whole or not at all;
torn blocks are not modelled. A power loss between calls discards cache and
handles. With `CardMayFail` a command fails while the power stays on, and the
code goes on with what it left behind. In `SdDirectory` the power may fail in
`mkdir` and in the creation of a file; a directory that was growing then may hold
a cluster with arbitrary old data, because `addDirCluster` links before it
zeroes (`SdFile.cpp:49`), and the model uses such a card no further.
`remove` and `rmdir` free clusters before the entry is gone and are not
crash-safe; the code does not claim it and the runs do not ask.

## Findings

1. `SdFile.cpp:1182`: writing a whole block that is cached and dirty sets
   `cacheBlockNumber_` to `0XFFFFFFFF` and leaves `cacheDirty_` set. From then on
   every flush, of every file, tries to write block `0XFFFFFFFF` and fails.
2. `Adafruit_CC3000.cpp:1389`: `close()` leaves the mark in `closed_sockets[]`
   that the closing peer has set. The next connection with this number is closed
   by `connected()` as soon as it has no data waiting.
3. `FuzzyComposition.cpp:104`: the area of a singleton is taken from the first of
   its two points, which has degree 0. When the only rule that fires asks for a
   singleton the output is 0: `fuzzyrudderinputthree` with direction 0 and a
   turn of -60 leaves the rudder in the middle instead of at 50.

Seen while modelling, without a run of their own:

* `Adafruit_GPS.cpp:44`: the checksum is computed and not used (`//return
  false;`), so a line that lost characters is accepted as a position, against the
  comments "check checksum". In a line without the commas it looks for, `parse()`
  goes on at the NULL that `strchr` returned, plus one (`:63-76`), outside the line:
  the model assigns `Garbage` from there.
* `SdFile.cpp:1167`: a write that fails after it went on to the next cluster
  leaves `curCluster_` ahead of `curPosition_`; a retry, which `File::write`
  allows, puts the data in the wrong cluster. `ClusterOfPosition` is therefore
  checked where cards work.
* `SdFile.cpp:675`: after a write that failed half way the position may be
  beyond the size; the unsigned difference wraps and `read()` returns more than
  the file holds. It follows the chain into its end mark, which stays in
  `curCluster_` (`:691`).
* `SdFile.cpp:1150`: a write of several blocks that finds the card full fails after
  it has linked clusters, and the size is still 0. `truncate()` of a file of size 0
  returns before it frees anything (`:1081`), so `remove()` deletes the name and
  loses the clusters, against "The directory entry and all data for the file are
  deleted" (`:771`). `LosesOnlyUnwritten` says that on a working card clusters are
  lost in no other way, as long as finding 1 has not happened.
* `Sailboat_Master_Program.ino:119`: when all hundred names exist, the search
  ends with the last one, which is opened and appended to, against the comment
  "do not open existing" (line 123). `MixedOnlyInLastLog` says that this is the
  only way for a boot on a card that works to get into the log of another.
* `SD.cpp:525`: `SD.exists()` is false when the directory cannot be read. The search
  of line 119 then stops at a name that exists, and the run appends to that older
  log; if the seek to its end fails too, which `SD.open()` does not notice
  (`SD.cpp:467`), it writes over its records. What holds for the other runs then is
  what `LogsInOrder` and `MixedOnlyInLastLog` say.
* Records are `logRate` + 1 = 16 iterations apart, where the comments say
  `logRate` (lines 56, 305); `File::flush` has no result, so a record may be lost
  on a bad card without notice (`RecordsAreSaved` speaks of a good one); a
  sentence that does not parse costs the iteration its controllers (line 203).
* `fuzzyrudderinputthree.ino:131` joins (right, right turn) into the antecedent
  of strong right and right turn instead of into its own, so that rule 12 never
  fires and rule 14 is about the wrong set (the same in the other two sketches).
* `mkdir` on a full card returns false and leaves an empty file of the name
  (`SdFile.cpp:303`); the next `mkdir` of it finds the name and returns true. A
  path through an empty file is walked as if it were a directory
  (`ThroughFiles`). A second `SD.begin()` returns false.
* `stop()` leaves `_initialised` set, so that `begin()` returns true without
  starting the device and `checkConnected()` goes on saying yes
  (`Adafruit_CC3000.cpp:231`, `464`); `startSmartConfig()` clears the connected
  flag before the loop that waits for it (741, 761); a SmartConfig event that
  comes too late ends the wait of the next call; a `begin()` that failed at the
  event mask and is called again switches the device off (`:251`,
  `ccspi.cpp:231`) and leaves the flags as they were, so that with SmartConfig data
  its wait for the connection may end at once, on the old one; `connectToAP()` with a key that
  is too long tries for ever. The properties of `Cc3000Network` name these
  exceptions (`unreported`, `smart = "running"`).
* The answer to a `send()` on a lost connection is taken in the interrupt for one
  about an earlier packet (`evnt_handler.cpp:656`), and the call waits for ever.
  `connected()` closes a socket whose last data arrives between its two tests
  (1302). `Server::begin()` leaks its socket when a later command fails
  (`Adafruit_CC3000_Server.cpp:150`).
* `bufferArray[9]` (`Sailboat_Master_Program.ino:339`), `steps * 16` above 4095
  steps (`AFMotor.cpp:489`) and `timeout*attempts*2` (`Adafruit_CC3000.cpp:1085`)
  leave their range; `parse()` of a line shorter than four characters reads
  outside it (`Adafruit_GPS.cpp:34`).

## Proofs

TLC checks the instances above; the following is proved for every value of the
constants that the `ASSUME`s allow (buffers of at least two characters, a ring
of at least one, any sentences; any log rate, times, number of names, boots and
capacity, any headings and vane readings in range, iterations of at least 1 ms;
any positive number of transmit buffers and of server slots, any finite set of
sockets; any number of patches, events and commands; any block numbers and block
size; steppers on either port or both, any step counts; volumes with any number
of clusters, blocks per cluster, units per block and table entries per block, with
one or two copies of the table, any file names and write sizes). No bound of a run
is a hypothesis, with two exceptions: the largest position, `MaxSize` of `SdFile`,
may be any number, and at most two events of a socket are under way at a
time (`MaxEvents` of `Cc3000Sockets`, a definition of that module).

*GpsPolling_proofs*:

* `HandedOutLinesAreFragmentsAlways`, whatever is lost. The property speaks of the
  lines handed out and says nothing of what is on its way. The invariant
  `FragmentInv` cuts the transmission at two places: the lines handed out come from
  before the first (`HandedHolds`), the line that `read()` is filling from between
  them (`LineHolds`), the ring from behind the second (`RingHolds`), each in the order
  sent; so a buffer that is not restarted, or closed at the wrong index, breaks it.
  No two characters of a transmission are the same (`PlaceOf`), closing a line makes
  the string of what was collected (`ClosedLine`), and a character that `read()`
  takes moves the second cut, a newline the first;
* `LosslessDeliveryAlways` and `PositionIsFreshAlways`, for buffers that hold a
  sentence (`MaxLine >= SentenceLength`; in the code `MAXLINELENGTH` is 120 and a
  sentence of the unit has at most 82 characters, and a longer one would be cut).
  Neither property is inductive: they speak of the lines handed out, and the next
  line depends on what is collected by now. The invariant `Delivered` gives
  everything as a function of the number of characters taken: the ring holds the
  next ones (`RingInOrder`), the buffer being filled holds the current sentence as
  far as it came (`Collected`), the lines handed out are the sentences completed,
  the position is that of the last of them that has one, and no line waits from
  one iteration to the next.

*GpsInterrupt_proofs*: `PromptParseStaysInsideAlways`, `PromptParseIsAtomicAlways`
and `PromptPositionIsFreshAlways`. The last has the hypothesis on `MaxLine` too;
its invariant `Fresh` is that of the polled receiver as far as it still holds:
what `read()` has collected follows from the characters it took, `lastline` is
the newest sentence, and after a parse that nothing overtook the position is
that of this sentence. For the other two, the property alone is not inductive:
one has to know how far the parse is. The invariant `Undisturbed` says that, as
long as no newline came since the pointer was read, the pointer is still
`lastline`, the string in the buffer is the one taken then, and what has been
assigned so far (`Progress`, by stage) is what the atomic `Parse` assigns.
`ReceiveKeepsLast` shows that an interrupt without a newline keeps it,
`CStringFacts` that reading the buffer field by field is reading the string, and
one lemma per step of `parse()` moves `Progress` on.

*SailboatMaster_proofs*:

* `TypesCorrect`, `ErrorIsShorterTurnAlways`, `RudderOpposesLargeErrorAlways`
  from `TypeInv`: after every iteration the error is the shorter turn, the
  integral is within its limit, and the command is inside 60..160 and on the
  opposing side, by the arithmetic of `RudderFacts`;
* `SailFollowsWindAlways` from `TrimInv` (the servo is where the filtered angle
  puts it) and the case analysis `SailTrimSmooth`;
* `LogsInOrderAlways` and `MixedOnlyInLastLogAlways` from `LogInv`: names are used
  from the first on without gaps, records are only in logs whose name exists and of
  boots so far, the open log of a run on a card that works is behind all others
  that have records and new unless all names are used, and the two properties for
  the records that a reader gets now or after a power loss (`Records`). A run on
  a failing card may add its own number to any existing log; it is larger than those
  of all earlier runs, so none of theirs gets out of order (`SearchEndsWell` for the others);
* `RecordsAreSavedAlways` from `UnsavedOnlyInFlush`: on a card that does not fail
  in this boot, a record is unsaved only between the two halves of `logData()`;
* `LogIsFileStoreAlways`: once the log was opened at its end, each step of the
  program is a step of FileStore on its logs or leaves them alone.

*TransmitBuffers_proofs*: `SenderNeverOverruns` and `AccountNeverStarves`. A
return that comes between load and store is lost, so the sum of free, used and
reported buffers may only shrink; the invariant bounds what was loaded by what is
free. It can only shrink while a buffer is being taken, which then is in use, so
it never reaches zero.

*Cc3000Sockets_proofs*:

* `ConnectionsHaveOneOwnerAlways` from `OwnersInv`: the property (`Owners`) with what
  the program knows at each point (`Places`): the socket in a local variable of the
  library is nobody's until a client gets it, the slot `accept()` is about to fill
  is empty, and only open clients read, write and close. One lemma per step shows
  that no way through `accept`, `connect`, `connected` or `close` breaks it;
* `ImplementsAccountAlways`: every step of the library and of its device is a step of
  `TransmitBuffers` or leaves the account alone. A step of the account reports one
  event, the device may report several packets in one, and `EventsInv` says what
  the numbers in the events are and that sums over the queue are well defined;
* `LibraryKeepsAccount`: with the two theorems about the account, the library never
  sends the device a packet it has no buffer for.

*Drivers_proofs*:

* `ReadsAskedBlockAlways` and `WrittenMeansProgrammedAlways` from `CardInv`. `Reading`
  says that `inBlock_`, `block_` and `offset_` tell where the card is whenever they
  are used, `Writing` what a card has taken that has not yet reported, `Addressing`
  that the driver addresses a card as the card expects. Block addresses are
  natural numbers: a byte address is assumed to fit in the 32 bits of the command,
  as it does on the cards up to 2 GB that use them;
* `FlagsFollowDeviceAlways` from `NetInv`: for each flag, the last event under way that
  concerns it tells what the device says, and if there is none the flag says so
  itself, unless one side changed without an event (`Follows`). This is preserved
  by a new event, by the callback and by a restart;
* `SmartConfigPersistsAlways` from `SmartInv`: from the moment the program learnt
  something to its last command, the device has a profile or is still listening,
  and it keeps the policy once it is set;
* `PacketIsKeptAlways` and `ImplementsExchangeAlways` from `SpiInv`, the largest of the
  invariants. It says for each place in the program who owns the transfer (`Line`,
  from the SPI state, the chip select and whether the interrupt is enabled), that
  a packet in the buffer keeps the interrupt detached (`Kept`), and, the core of it,
  which packets are still to come (`Pending`): what is in the buffer and in the
  device's queue, unsolicited events left out, is exactly the answer of the
  pending command, in order, before the device has its packet nothing at all
  (`Sends`), and between calls nothing again (`Rests`). `Empty` says that a poll
  reads an empty device only in waits that go on after it. The refinement maps a
  command to the step in which the device takes it and its return to the step that
  leaves the wait;
* `StepTurnsOneMotorAlways` from `MotorInv`: a stepper that has current points to
  `currentstep` (`Pointing`), and between calls that is a multiple of half a step
  (`HalfSteps`), because a call with microsteps goes on to the next full one.
  `FieldOfStep` is the table of the coils at all 64 positions; `PortsApart` says
  that the two ports share no coil and no PWM channel, although they share the
  latch.

*SdFile_proofs* is about the calls that the logging programs make (`LogSpec`: open,
write, flush, close and power losses), from `VolumeAssumption` and
`FileAssumption`, on a card whose commands do not fail while the power stays on
(`~CardMayFail`, a hypothesis of each theorem; with failing commands the library
does not have these properties, see *Findings*). The power may fail at every
command. `WriteSizes` is any set of numbers, so writes of whole blocks, which bypass
the cache, are included; the runs have them in `sd_log`.

* `LogInvariant`: between calls `LogInv` holds. None of the properties is inductive,
  and neither is their conjunction: they say nothing of the cluster a call is about
  to link, nor of what a restart needs of a table that is partly written. The
  invariant says that there is a layout `q`, a sequence of clusters for each file, all
  different (`Distinct`), such that
    * the blocks as the library sees them fit the layout and the open files (`Files`):
      the table links the clusters of a file in their order and ends there, they
      hold its own data up to its position and its size, and the entry is what it was
      when the file was last saved, or is as the handle has it;
    * the card fits the layout by itself (`Sound`): for each file the table on the
      card links at least the clusters that its entry's size needs;
    * `curCluster_` is the cluster of the position (`CurOk`), and a dirty block of data
      is one that holds written units (`DirtyOwned`), which is why the write of a whole
      block never finds its own block dirty here (finding 1 needs a seek back);
    * a block that is not dirty is on the card, and a mirror is owed only while the
      block is dirty (`Coherent`).
  Within a call, the same holds with `Sound` for what the library sees and for the
  card after every single command, since each may be the last before a power loss
  (`Good`). The core of the proof is the order of the writes in `allocContiguous`: the
  new cluster is marked before it is linked, so that the flush of a block in
  between leaves at worst a marked cluster that no file has, and a data block is
  flushed when the table or the directory takes its place in the cache, so that no
  entry gets to the card before what it refers to. A loop is proved by induction
  on its rounds (`Repeat`), with the existence of the recursive function
  proved from the library's theorem on well-founded orders.
* `LogReadBack`, `LogCrashConsistent`, `LogNoCrossLink` and `LogClusterOfPosition`
  follow from the invariant, by the lemma that `Chain` walks exactly the clusters of the
  layout: they are different, so by counting them (`ClusterCount` many at most) the
  walk does not stop short.
* `LogSyncsSucceed`: `SyncFailsOnlyOnError`, which `sd_full_block` refutes for all
  calls, holds for the logging calls, by `DirtyOwned`;
* `LogImplementsFileStore`: every outcome of every call moves the sizes of the files,
  seen and saved, as `FileStore` allows, which with `LogReadBack` and
  `LogCrashConsistent` are the contents.

The last section of *SdFile_proofs* is about all calls of the `File` class (`ApiSpec`:
`seek`, `read`, `truncate` and `remove` as well), for the same volumes and any write
sizes, while the power stays on (`~PowerMayFail`, a hypothesis of both theorems:
between the two writes of `cacheFlush` a power loss may leave the copies different).

* `ApiHealthy`: whether or not commands of the card fail, between calls `Healthy`
  holds: the volume and the handles have their types, a block of the table is cached
  as a table and written only through the cache, a mirror is owed exactly for a table
  block that was changed (`Owed`), and the two copies on the card are equal except,
  at most, in the block that the cache holds dirty (`Copied`). What could
  break it are the two places in `SdFile::write` that change the cache without
  `cacheRawBlock`: the new block after the end of the file, and the write of a whole
  block. A flush that fails between its two writes keeps the block dirty and the
  mirror owed, so that the next flush writes both again.
* `ApiFatCopiesAgree`: on a card whose commands do not fail the copies agree after every
  call. `FatCopiesAgree` alone is not inductive: it says nothing of the block in
  the cache.

`sd_api` checks `ReadBack`, `NoCrossLink` and `ClusterOfPosition` with all calls too;
with `seek`, `truncate` and `remove` among them they are only checked.

Only model-checked:

* of the SD library, what concerns its other calls (`LosesOnlyUnwritten`, and
  `ReadBack`, `NoCrossLink` and `ClusterOfPosition` under `ApiSpec`), failing commands
  (`OthersUntouched`, which is about the logging calls only), and directories, whose
  paths are walked by a RECURSIVE operator;
* `FuzzyRudder`, whose output is a sum over a list of points built with folds;
* liveness, which is out of the prover's reach: `EventuallyLastPosition`,
  `LoggingEnds`, `SendGetsBuffer`, `EveryCallReturns`, `EventsReachHost`, `WaitsEnd`.

## Not modelled

* `waitForSentence()`, standby and the LOCUS commands of the GPS library, which
  no sketch of the boat uses.
* `createContiguous`, `contiguousRange`, `rmRfStar`, `dirEntry`, `ls` and printing
  in the SD library, and the multiple-block write, `erase` and `readRegister` of
  the card driver: nothing in the repository calls them. `SdVolume::init` reads
  constants; the 8.3 form of a name is formatting.
* The vector arithmetic of LSM303 and PID_v1: floating point without state that a
  property could relate.
* Getters, scan results, `ping`, `getHostByName` and sntp of the CC3000 library,
  which change none of the modelled state; the layout of its packets.
* The sketches `DataLogging*`, `shield_sdlog_MEGA` and `GPS*`, whose loops are those
  of `GpsPolling` and whose use of the card is that of `SdFile`;
  `rudderfiltertest`, a copy of the controllers with other gains; the encoder and
  test sketches of a dozen lines; the eFLL examples and earlier fuzzy sketches.
* `src/Arduino/SD` and `src/Arduino/libraries/LSM303` are copies of the libraries
  under `src/libraries`; HMC6352 reads a register.

## Plan

Modelled in the order of what the boat depends on: the receiver in both uses,
the volume and files, the main program; then the card driver, directories, the
CC3000 library, the motor shield and the fuzzy controllers. What would add most
next:

1. A composition of polled receiver, main program and file store, where the
   length of a card write decides how many characters the ring loses.
2. The layout of `SdFile_proofs` under `seek`, `truncate` and `remove`, where clusters go
   back to the table, and for
   `LosesOnlyUnwritten`, where every used cluster is some file's.
3. Directories without RECURSIVE operators (a path as a sequence that a recursive
   function walks), so that the same can be proved of `mkdir` and `rmdir`.
