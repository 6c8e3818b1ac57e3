------------------------------- MODULE MCBench -------------------------------
(* The parts that share no state with each other, one at a time on the       *)
(* bench: an instance of each, the others staying in their initial state.    *)
EXTENDS Drivers, TLC

CONSTANTS
  Bench,     \* the parts of this run
  FileNames  \* of SdFile

VARIABLES
  which,  \* the one on the bench
  fileVol, handle, anomaly,
  vol, list, pass, failed,
  sketch, input, strength, fired, rudder

\* The files of the root directory are interchangeable.
FileSymmetry == Permutations(FileNames)

MCPaths == {<<"a">>, <<"a", "a">>, <<"a", "b">>}
MCDirections == {-180, -165, -75, -45, -30, -15, 0, 15, 30, 45, 75, 165, 180}
MCTurns == {-60, -20, -5, 0, 5, 20, 60}

Files == INSTANCE SdFile WITH
  vol <- fileVol, Names <- FileNames, WriteSizes <- {1, 2}, MaxSize <- 3,
  ClusterCount <- 2, BlocksPerCluster <- 1, UnitsPerBlock <- 2, FatPerBlock <- 3,
  FatCopies <- 2, CardMayFail <- TRUE, PowerMayFail <- FALSE

\* A smaller volume, that one write of three units may fill: every call of
\* the File class on it, the card never failing.
Full == INSTANCE SdFile WITH
  vol <- fileVol, Names <- FileNames, WriteSizes <- {1, 3}, MaxSize <- 3,
  ClusterCount <- 2, BlocksPerCluster <- 1, UnitsPerBlock <- 2, FatPerBlock <- 4,
  FatCopies <- 1, CardMayFail <- FALSE, PowerMayFail <- FALSE

Dir == INSTANCE SdDirectory WITH
  Paths <- MCPaths, Listed <- {<<"a">>}, ClusterCount <- 4, BlocksPerCluster <- 1,
  UnitsPerBlock <- 3, FatPerBlock <- 4, FatCopies <- 1, Names <- {},
  CrashCalls <- {"mkdir", "store"}, ThroughFiles <- FALSE

Fuzzy == INSTANCE FuzzyRudder WITH Directions <- MCDirections, Turns <- MCTurns

-----------------------------------------------------------------------------
spiVars ==
  <<spiPc, asked, cmd, sawLow, opcode, spiState, intEnabled, spiCs, rx, received,
    waitOp, waitData, spiAnswer, pinLow, edge, keepsEdges, spiDevice, queue>>
netVars ==
  <<netPc, initialised, connected, dhcp, smartFinished, waited, keyFits, netDevice,
    events, losses, unreported>>
cardVars ==
  <<cardPc, call, type, inBlock, block, offset, partial, cardCs, cardAnswer, card, writes>>
fileVars == <<fileVol, handle, anomaly>>
dirVars == <<vol, list, pass, failed>>
motorVars == <<latch, pwm, currentstep, stepping>>
fuzzyVars == <<sketch, input, strength, fired, rudder>>
vars == <<which, spiVars, netVars, cardVars, fileVars, dirVars, motorVars, fuzzyVars>>

OnBench(driver) == which = driver

Rest(own) ==
  /\ UNCHANGED which
  /\ IF own = "spi" THEN TRUE ELSE UNCHANGED spiVars
  /\ IF own = "net" THEN TRUE ELSE UNCHANGED netVars
  /\ IF own = "card" THEN TRUE ELSE UNCHANGED cardVars
  /\ IF own \in {"files", "full"} THEN TRUE ELSE UNCHANGED fileVars
  /\ IF own = "directory" THEN TRUE ELSE UNCHANGED dirVars
  /\ IF own = "motor" THEN TRUE ELSE UNCHANGED motorVars
  /\ IF own = "fuzzy" THEN TRUE ELSE UNCHANGED fuzzyVars

Init ==
  /\ which \in Bench
  /\ Spi!Init /\ (which = "spi" \/ (~pinLow /\ ~keepsEdges))
  /\ Net!Init /\ (which = "net" \/ (~netDevice.auto /\ ~netDevice.profile))
  /\ Card!Init /\ (which = "card" \/ card.kind = "SD1")
  /\ IF which = "full" THEN Full!Init ELSE Files!Init
  /\ IF which = "directory" THEN Dir!Init
     ELSE vol = "away" /\ list = "away" /\ pass = "away" /\ failed = FALSE
  /\ Motor!Init
  /\ Fuzzy!Init /\ (which = "fuzzy" \/ sketch = "fuzzyruddercontrol")

Next ==
  \/ OnBench("spi") /\ Spi!Next /\ Rest("spi")
  \/ OnBench("net") /\ Net!Next /\ Rest("net")
  \/ OnBench("card") /\ Card!Next /\ Rest("card")
  \/ OnBench("files") /\ Files!LogNext /\ Rest("files")
  \/ OnBench("full") /\ Full!ApiNext /\ Rest("full")
  \/ OnBench("directory") /\ Dir!Next /\ Rest("directory")
  \/ OnBench("motor") /\ Motor!Next /\ Rest("motor")
  \/ OnBench("fuzzy") /\ Fuzzy!Next /\ Rest("fuzzy")

Spec == Init /\ [][Next]_vars

\* The fairness of Cc3000Spi and Cc3000Network, for the one on the bench.
FairSpec ==
  /\ Spec
  /\ WF_spiVars(OnBench("spi") /\ Spi!Program)
  /\ WF_spiVars(OnBench("spi") /\ Spi!Interrupt)
  /\ WF_spiVars(OnBench("spi") /\ Spi!Device)
  /\ WF_netVars(OnBench("net") /\ netPc # "idle" /\ Net!Program)
  /\ WF_netVars(OnBench("net") /\ Net!CC3000_UsynchCallback)

-----------------------------------------------------------------------------
(* The properties of files, directories and the fuzzy controllers; those of *)
(* the others are in Drivers. The costly ones are evaluated where their     *)
(* part is on the bench.                                                    *)

\* A failed logging call on one file leaves the contents of the others alone.
OthersUntouched == [][OnBench("files") => Files!OthersKept]_fileVars

\* A full volume loses no clusters but those of a file that was never written.
LosesOnlyUnwritten == [][OnBench("full") => Full!LosesUnwritten]_fileVars

\* Directories have clusters of their own, after a power failure too.
DirectoriesOwnTheirClusters == OnBench("directory") => Dir!DirectoriesOwnTheirClusters

\* No cluster is lost with a name or a directory.
NoLostClusters == OnBench("directory") => Dir!NoLostClusters

\* A pass over a directory lists each file once.
ListsEachOnce == OnBench("directory") => Dir!ListsEachOnce

\* A fuzzy controller asked for a turn of 15 degrees or more, which the boat
\* does not make yet, never steers the other way, whatever it did before.
RudderTowardsCourse == Fuzzy!RudderTowardsCourse
=============================================================================
