------------------------------ MODULE SdDirectory ------------------------------
(***************************************************************************)
(* libraries/SD/SD.cpp and the directory half of utility/SdFile.cpp:       *)
(* mkdir, rmdir, remove, exists and open of paths, and listing a directory *)
(* with openNextFile(), on a FAT32 volume whose root is cluster 2.  A block *)
(* of a directory is a function from slots to entries.  Every call walks   *)
(* the path through the one-block cache of SdVolume and may be cut off by  *)
(* a power loss at any of its card commands.                               *)
(***************************************************************************)
EXTENDS SdVolume, SequencesExt

CONSTANTS
  Paths,         \* the paths of the model, sequences over a set of names
  Listed,        \* the directories that are listed
  CrashCalls,    \* calls during which the power may fail
  ThroughFiles   \* may a path run through a file as if it were a directory

VARIABLES
  vol,    \* the card, the static data of SdVolume and SD.root
  list,   \* the SdFile of the directory being listed
  pass,   \* ghost: what the present pass over that directory has listed
  failed  \* has the power failed

vars == <<vol, list, pass, failed>>

(* SdFile: type_, firstCluster_, curCluster_, curPosition_, fileSize_, the *)
(* place of the entry and F_FILE_DIR_DIRTY.  Positions count slots.        *)
Closed == [type |-> "closed", first |-> 0, cur |-> 0, pos |-> 0, size |-> 0,
           block |-> NoBlock, slot |-> 0, dirty |-> FALSE]
Free == [name |-> "free", kind |-> "none", first |-> 0, size |-> 0]
Deleted == [Free EXCEPT !.name = "deleted"]
ZeroBlock == [u \in 0 .. UnitsPerBlock - 1 |-> Free]
Data == [Free EXCEPT !.name = "data", !.kind = "data"]
FullBlock == [u \in 0 .. UnitsPerBlock - 1 |-> Data]
IsDir(f) == f.type \in {"root", "dir"}

NoPass == [listed |-> {}, stayed |-> {}, twice |-> FALSE, ended |-> FALSE]

RootCluster == 2
RootDisk ==
  [b \in Blocks |-> IF b = DataBlock(RootCluster, 0) THEN ZeroBlock
                    ELSE IF b \in DataBlocks THEN FullBlock
                    ELSE IF b \in {FatBlock(RootCluster), MirrorOf(FatBlock(RootCluster))}
                    THEN [Formatted[b] EXCEPT ![RootCluster] = EOC]
                    ELSE Formatted[b]]

\* s.this is the directory a call works in, s.child the SdFile it opens there.
Mounted(disk) ==
  [disk |-> disk, cacheBlock |-> NoBlock, cacheData |-> << >>, cacheDirty |-> FALSE,
   cacheMirror |-> NoBlock, searchStart |-> 2, this |-> Closed, child |-> Closed,
   root |-> Closed, mayFail |-> FALSE, fault |-> FALSE]

Swapped(s) == [s EXCEPT !.this = s.child, !.child = s.this]
OnChild(s, F(_)) == { [o EXCEPT !.s = Swapped(o.s)] : o \in F(Swapped(s)) }

-----------------------------------------------------------------------------
(* SdFile and SdVolume                                                     *)

RECURSIVE ChainSize(_, _, _)
ChainSize(s, c, n) ==
  Then(FatGet(s, c), LAMBDA o :
       IF IsEOC(o.result) THEN Success(o.s, n + ClusterUnits)
       ELSE ChainSize(o.s, o.result, n + ClusterUnits))

OpenRoot(s) ==
  Then(ChainSize(s, RootCluster, 0), LAMBDA o :
  Success(o.s, [Closed EXCEPT !.type = "root", !.first = RootCluster, !.size = o.result]))

CacheZeroBlock(s, b) ==
  Then(CacheFlush(s), LAMBDA o :
  Done([o.s EXCEPT !.cacheBlock = b, !.cacheData = ZeroBlock, !.cacheDirty = TRUE]))

AddCluster(s) ==
  Then(AllocCluster(s, s.this.cur), LAMBDA o :
  Done([o.s EXCEPT !.this.cur = o.result,
                   !.this.first = IF @ = 0 THEN o.result ELSE @,
                   !.this.dirty = @ \/ s.this.first = 0]))

AddDirCluster(s) ==
  Then(AddCluster(s), LAMBDA o :
  Then(CacheZeroBlock(o.s, DataBlock(o.s.this.cur, 0)), LAMBDA p :
  Done([p.s EXCEPT !.this.size = @ + ClusterUnits])))

\* readDirCache(): the entry at the position, which moves on.
ReadDirCache(s) ==
  LET inCluster == s.this.pos % ClusterUnits
  IN IF ~ IsDir(s.this) THEN Failed(s)
     ELSE Then(IF inCluster # 0 THEN Success(s, s.this.cur)
               ELSE IF s.this.pos = 0 THEN Success(s, s.this.first)
               ELSE FatGet(s, s.this.cur), LAMBDA o :
          Then(CacheRawBlock(o.s, DataBlock(o.result, inCluster \div UnitsPerBlock), FALSE),
               LAMBDA p :
          Success([p.s EXCEPT !.this.cur = o.result, !.this.pos = @ + 1],
                  p.s.cacheData[inCluster % UnitsPerBlock])))

\* The slot that was read last.
LastSlot(s) == (s.this.pos - 1) % UnitsPerBlock

\* sync() and close()
Sync(s) ==
  Then(IF ~ s.this.dirty THEN Done(s)
       ELSE Then(CacheRawBlock(s, s.this.block, TRUE), LAMBDA o :
            Done([o.s EXCEPT !.cacheData[s.this.slot].first = s.this.first,
                    !.cacheData[s.this.slot].size = IF IsDir(s.this) THEN @ ELSE s.this.size,
                    !.this.dirty = FALSE])), LAMBDA p :
  CacheFlush(p.s))

OpenCachedEntry(s, slot, write) ==
  LET e == s.cacheData[slot]
      f == [Closed EXCEPT !.first = e.first, !.block = s.cacheBlock, !.slot = slot]
  IN IF e.kind = "file"
     THEN Done([s EXCEPT !.child = [f EXCEPT !.type = "file", !.size = e.size]])
     ELSE IF write THEN Failed(s)
     ELSE Then(ChainSize(s, e.first, 0), LAMBDA o :
          Done([o.s EXCEPT !.child = [f EXCEPT !.type = "dir", !.size = o.result]]))

NoSlot == <<NoBlock, 0>>

(* The search of open(): goes on from the position to the entry of that    *)
(* name; result is its slot and the first unused slot before it.           *)
RECURSIVE Search(_, _, _)
Search(s, name, empty) ==
  IF s.this.pos >= s.this.size THEN Success(s, [found |-> FALSE, empty |-> empty])
  ELSE Then(ReadDirCache(s), LAMBDA o :
       LET here == IF empty = NoSlot THEN <<o.s.cacheBlock, LastSlot(o.s)>> ELSE empty
       IN CASE o.result.name = name -> Success(o.s, [found |-> TRUE, empty |-> empty])
            [] o.result.name = "free" -> Success(o.s, [found |-> FALSE, empty |-> here])
            [] o.result.name = "deleted" -> Search(o.s, name, here)
            [] OTHER -> Search(o.s, name, empty))

(* The rest of open(): a new entry in the slot found, or in a cluster that *)
(* is added to the directory - or to a file, which is not refused here.    *)
Create(s, name, slot) ==
  Then(IF slot # NoSlot THEN CacheRawBlock(s, slot[1], TRUE) ELSE AddDirCluster(s), LAMBDA o :
  Then(CacheFlush([o.s EXCEPT !.cacheData[slot[2]] = [Free EXCEPT !.name = name, !.kind = "file"]]),
       LAMBDA p :
  OpenCachedEntry(p.s, slot[2], TRUE)))

OpenIn(s, name, write, create, excl) ==
  Then(Search([s EXCEPT !.this.pos = 0, !.this.cur = 0], name, NoSlot), LAMBDA o :
       IF o.result.found
       THEN IF excl THEN Failed(o.s) ELSE OpenCachedEntry(o.s, LastSlot(o.s), write)
       ELSE IF create THEN Create(o.s, name, o.result.empty) ELSE Failed(o.s))

OpenRead(s, name) == OpenIn(s, name, FALSE, FALSE, FALSE)

\* The attribute and the entries for the directory itself and its parent.
DirEntries(s) ==
  Then(CacheRawBlock(s, s.child.block, TRUE), LAMBDA o :
  LET new == [o.s EXCEPT !.cacheData[s.child.slot].kind = "dir"]
      self == [new.cacheData[s.child.slot] EXCEPT !.name = "."]
      parent == [self EXCEPT !.name = "..",
                             !.first = IF s.this.type = "root" THEN 0 ELSE s.this.first]
  IN Then(CacheRawBlock(new, DataBlock(s.child.first, 0), TRUE), LAMBDA p :
     CacheFlush([p.s EXCEPT !.cacheData[0] = self, !.cacheData[1] = parent])))

\* Mutant: the attribute is set before the directory has its cluster.
MakeDirAttributeFirst(s, name) ==
  Then(OpenIn(s, name, TRUE, TRUE, TRUE), LAMBDA o :
  Then(CacheFlush([o.s EXCEPT !.child.type = "dir", !.cacheDirty = TRUE,
                              !.cacheData[o.s.child.slot].kind = "dir"]), LAMBDA p :
  Then(OnChild(p.s, AddDirCluster), LAMBDA q :
  Then(OnChild(q.s, Sync), LAMBDA r : DirEntries(r.s)))))

(* makeDir(): a new file becomes a directory with a zeroed cluster.        *)
MakeDir(s, name) ==
  Then(OpenIn(s, name, TRUE, TRUE, TRUE), LAMBDA o :
  Then(OnChild([o.s EXCEPT !.child.type = "dir"], AddDirCluster), LAMBDA p :
  Then(OnChild(p.s, Sync), LAMBDA q : DirEntries(q.s))))

\* remove() of s.this: free its clusters, then mark its entry deleted.
RemoveThis(s) ==
  Then(IF s.this.size = 0 THEN Done(s)
       ELSE Then(FreeChain(s, s.this.first), LAMBDA o :
            Sync([o.s EXCEPT !.this.first = 0, !.this.size = 0, !.this.dirty = TRUE])), LAMBDA p :
  Then(CacheRawBlock(p.s, s.this.block, TRUE), LAMBDA q :
  CacheFlush([q.s EXCEPT !.cacheData[s.this.slot] = Deleted])))

(* The search of rmDir() for an entry that is in use.                      *)
RECURSIVE EmptyDir(_)
EmptyDir(s) ==
  IF s.this.pos >= s.this.size THEN Done(s)
  ELSE Then(ReadDirCache(s), LAMBDA o :
       CASE o.result.name = "free" -> Done(o.s)
         [] o.result.name \in {"deleted", ".", ".."} -> EmptyDir(o.s)
         [] OTHER -> Failed(o.s))

\* Mutant: the directory is not searched for entries.
RmDirUnchecked(s) ==
  IF s.this.type = "dir" THEN RemoveThis([s EXCEPT !.this.type = "file"]) ELSE Failed(s)

RmDir(s) ==
  IF s.this.type # "dir" THEN Failed(s)
  ELSE Then(EmptyDir([s EXCEPT !.this.pos = 0, !.this.cur = 0]), LAMBDA o :
       RemoveThis([o.s EXCEPT !.this.type = "file"]))

-----------------------------------------------------------------------------
(* SD.cpp: walkPath() and its callbacks. A callback works in s.this.       *)

Callback(call, s, name, last) ==
  CASE call = "exists" -> OpenRead(s, name)
    [] call = "mkdir" ->
         UNION { IF o.ok \/ o.s.fault THEN {o} ELSE MakeDir(o.s, name) : o \in OpenRead(s, name) }
    [] ~ last -> Done(s)
    [] call = "remove" ->
         Then(OpenIn(s, name, TRUE, FALSE, FALSE), LAMBDA o : OnChild(o.s, RemoveThis))
    [] call = "rmdir" -> Then(OpenRead(s, name), LAMBDA o : OnChild(o.s, RmDir))

\* close() of a directory other than SD.root, which stays open.
CloseParent(s) ==
  IF s.this.type = "root" THEN Done([s EXCEPT !.root = s.this]) ELSE Sync(s)

\* Whatever came before, close the parent.
Closing(outcomes) ==
  UNION { IF o.s.fault THEN {o}
          ELSE {[p EXCEPT !.ok = o.ok /\ p.ok] : p \in CloseParent(o.s)} : o \in outcomes }

RECURSIVE WalkPath(_, _, _)
WalkPath(call, s, path) ==
  LET done == Callback(call, s, Head(path), Len(path) = 1)
  IN IF Len(path) = 1 THEN Closing(done)
     ELSE Closing({ o \in done : ~ o.ok })
          \cup Then({ o \in done : o.ok }, LAMBDA o :
               Then(Closing(OpenRead(o.s, Head(path))), LAMBDA p :
               WalkPath(call, [p.s EXCEPT !.this = p.s.child], Tail(path))))

\* getParentDir(), which walks with a copy of SD.root.
RECURSIVE ParentDir(_, _)
ParentDir(s, path) ==
  IF Len(path) = 1 THEN Done(s)
  ELSE Then(OpenRead(s, Head(path)), LAMBDA o :
       Then(Sync(o.s), LAMBDA p : ParentDir([p.s EXCEPT !.this = p.s.child], Tail(path))))

\* SD.open(path, mode)
OpenPath(s, path, write) ==
  IF Len(path) = 1
  THEN { [o EXCEPT !.s.root = o.s.this] : o \in OpenIn(s, path[1], write, write, FALSE) }
  ELSE Then(ParentDir(s, path), LAMBDA o :
       Then(OpenIn(o.s, Last(path), write, write, FALSE), LAMBDA p : Sync(p.s)))

\* print() of the first byte to a file without data: SdFile models write().
FirstWrite(s) ==
  Then(IF s.this.first = 0 THEN AddCluster(s) ELSE Done([s EXCEPT !.this.cur = s.this.first]),
       LAMBDA o :
  Then(CacheFlush(o.s), LAMBDA p :
  Done([p.s EXCEPT !.cacheBlock = DataBlock(p.s.this.cur, 0), !.cacheDirty = TRUE,
                   !.cacheData = FullBlock, !.this.size = 1, !.this.dirty = TRUE])))

\* SD.open(path, FILE_WRITE), perhaps a write, and close().
StoreFile(s, path, write) ==
  Then(OpenPath(s, path, TRUE), LAMBDA o :
  LET f == Swapped(o.s)
  IN IF write /\ f.this.size = 0
     THEN UNION { IF p.s.fault THEN {p} ELSE Sync(p.s) : p \in FirstWrite(f) }
     ELSE Sync(f))

\* readDir(): the next entry that is a file or a directory.
RECURSIVE ReadDir(_)
ReadDir(s) ==
  IF s.this.pos >= s.this.size THEN Success(s, Free)
  ELSE Then(ReadDirCache(s), LAMBDA o :
       IF o.result.name \in {"deleted", ".", ".."} THEN ReadDir(o.s) ELSE Success(o.s, o.result))

-----------------------------------------------------------------------------
(* The tree as a sequence of names leads through it.                       *)

SlotsOf(blocks, c) ==
  UNION { Range(blocks[DataBlock(d, b)]) : d \in Range(Chain(FatOf(blocks), c)),
                                            b \in 0 .. BlocksPerCluster - 1 }
EntriesOf(blocks, c) ==
  { e \in SlotsOf(blocks, c) : e.kind \in {"file", "dir"} }
NamesOf(blocks, c) == { e.name : e \in EntriesOf(blocks, c) } \ {".", ".."}

RootEntry == [Free EXCEPT !.name = "/", !.kind = "dir", !.first = RootCluster]

RECURSIVE LookUp(_, _, _)
LookUp(blocks, e, path) ==
  IF path = << >> THEN e
  ELSE LET found == { f \in EntriesOf(blocks, e.first) : f.name = Head(path) }
       IN IF e.kind # "dir" \/ found = {} THEN Free
          ELSE LookUp(blocks, CHOOSE f \in found : TRUE, Tail(path))

EntryAt(blocks, path) == LookUp(blocks, RootEntry, path)
AllPaths == Paths \cup {<< >>}
ClustersOf(blocks, path) == Range(Chain(FatOf(blocks), EntryAt(blocks, path).first))
FileOnTheWay(path) ==
  \E n \in 1 .. Len(path) - 1 : EntryAt(Seen(vol), SubSeq(path, 1, n)).kind = "file"

-----------------------------------------------------------------------------
\* The power may fail once, within some of the calls.
Start(name) ==
  [vol EXCEPT !.this = vol.root, !.mayFail = ~ failed /\ name \in CrashCalls]

\* What a call leaves behind: a clean cache is forgotten, and so is what free
\* clusters hold.
Kept(s) ==
  LET free == { c \in Clusters : s.disk[FatBlock(c)][c] = 0 }
      unused == { DataBlock(c, i) : c \in free, i \in 0 .. BlocksPerCluster - 1 }
  IN [s EXCEPT !.this = Closed, !.child = Closed, !.mayFail = FALSE,
        !.cacheBlock = IF s.cacheDirty THEN @ ELSE NoBlock,
        !.cacheData = IF s.cacheDirty THEN @ ELSE << >>,
        !.disk = [b \in Blocks |-> IF b \in unused THEN FullBlock ELSE s.disk[b]]]

\* The pass goes on with the names that are still there.
StillThere == pass' = [pass EXCEPT !.stayed = @ \cap NamesOf(Seen(vol'), list.first)]

\* The call returns, or the power fails at one of its card commands; then
\* SD.begin() mounts what is on the card.
Call(outcomes) ==
  \E o \in outcomes :
    \/ /\ ~ o.s.fault /\ vol' = Kept(o.s)
       /\ StillThere /\ UNCHANGED <<list, failed>>
    \/ /\ o.s.fault /\ failed' = TRUE
       /\ vol' = Mounted(o.s.disk) /\ list' = Closed /\ pass' = NoPass

Begun == vol.root.type = "root"
MayWalk(path) == Begun /\ (ThroughFiles \/ ~ FileOnTheWay(path))
IsListed(path) == list.type # "closed" /\ EntryAt(Seen(vol), path).first = list.first

(* SD.begin() after a start. A directory that was growing when the power   *)
(* failed may hold a cluster of arbitrary data: such a card is not used    *)
(* any further.                                                            *)
Begin ==
  /\ vol.root.type = "closed"
  /\ \A path \in AllPaths : EntryAt(vol.disk, path).kind = "dir" =>
        Data \notin SlotsOf(vol.disk, EntryAt(vol.disk, path).first)
  /\ \E o \in OpenRoot(vol) : vol' = Kept([o.s EXCEPT !.root = o.result])
  /\ UNCHANGED <<list, pass, failed>>

Walk(call, path) == MayWalk(path) /\ Call(WalkPath(call, Start(call), path))

exists(path) == Walk("exists", path)
mkdir(path) == Walk("mkdir", path)
remove(path) == Walk("remove", path)

\* A directory that is being listed is not removed.
rmdir(path) == ~ IsListed(path) /\ Walk("rmdir", path)

store(path, write) == MayWalk(path) /\ Call(StoreFile(Start("store"), path, write))

\* What a pass from the start of the directory will have to list. A File
\* knows the size its directory had when it was opened.
NewPass(s, dir) ==
  IF dir.pos = 0 /\ Len(Chain(FatOf(Seen(s)), dir.first)) * ClusterUnits = dir.size
  THEN [listed |-> {}, twice |-> FALSE, ended |-> FALSE,
        stayed |-> NamesOf(Seen(s), dir.first)]
  ELSE NoPass

\* SD.open(path) of a directory; the File of the root is a copy of SD.root.
openDirectory(path) ==
  /\ list.type = "closed" /\ MayWalk(path)
  /\ EntryAt(Seen(vol), path).kind = "dir"
  /\ IF path = << >>
       THEN vol' = vol /\ list' = vol.root
       ELSE \E o \in OpenPath(Start("open"), path, FALSE) :
              o.ok /\ vol' = Kept(o.s) /\ list' = o.s.child
  /\ pass' = NewPass(vol', list') /\ UNCHANGED failed

rewindDirectory ==
  /\ Begun /\ list.type # "closed"
  /\ list' = [list EXCEPT !.pos = 0, !.cur = 0]
  /\ pass' = NewPass(vol, list') /\ UNCHANGED <<vol, failed>>

\* Mutant: the entry that was read is opened without regard to the position.
OpenEntryRewinds(s, entry) ==
  { [o EXCEPT !.s.this.pos = 0, !.s.this.cur = 0] : o \in OpenRead(s, entry.name) }

\* open() by the name of the entry searches the directory from its start again.
OpenEntry(s, entry) == OpenRead(s, entry.name)

openNextFile ==
  /\ Begun /\ list.type # "closed" /\ ~ pass.ended
  /\ \E o \in ReadDir([vol EXCEPT !.this = list]) :
       /\ IF o.result = Free
            THEN /\ vol' = Kept(o.s) /\ list' = o.s.this
                 /\ pass' = [pass EXCEPT !.ended = TRUE]
            ELSE \E p \in OpenEntry(o.s, o.result) :
                   /\ vol' = Kept(p.s) /\ list' = p.s.this
                   /\ pass' = [pass EXCEPT !.listed = @ \cup {o.result.name},
                                !.twice = @ \/ o.result.name \in pass.listed \cap pass.stayed]
  /\ UNCHANGED failed

closeDirectory ==
  /\ Begun /\ list.type # "closed"
  /\ \E o \in Sync([vol EXCEPT !.this = list]) : vol' = Kept(o.s)
  /\ list' = Closed /\ pass' = NoPass /\ UNCHANGED failed

Init == vol = Mounted(RootDisk) /\ list = Closed /\ pass = NoPass /\ failed = FALSE

Next ==
  \/ Begin
  \/ \E path \in Paths : exists(path) \/ mkdir(path) \/ rmdir(path) \/ remove(path)
  \/ \E path \in Paths, write \in BOOLEAN : store(path, write)
  \/ \E path \in Listed : openDirectory(path)
  \/ rewindDirectory \/ openNextFile \/ closeDirectory

Spec == Init /\ [][Next]_vars

-----------------------------------------------------------------------------
(* Properties *)

(* On the card, also where the power failed within mkdir() or the creation *)
(* of a file, every directory has a chain of clusters that ends, and no    *)
(* cluster is in the chains of two entries or marked free.                 *)
DirectoriesOwnTheirClusters ==
  LET fat == FatOf(vol.disk)
      isDir == { path \in AllPaths : EntryAt(vol.disk, path).kind = "dir" }
      owned == { <<path, ClustersOf(vol.disk, path)>> : path \in AllPaths }
  IN /\ \A o \in owned : o[1] \in isDir => o[2] # {}
     /\ \A o \in owned : \A c \in o[2] : fat[c] # 0
     /\ \A o, p \in owned : o # p => o[2] \cap p[2] = {}

(* Without a power failure every cluster marked as used is in the chain of *)
(* an entry of the tree: nothing is lost with a directory or a name.       *)
NoLostClusters ==
  LET blocks == Seen(vol)
  IN failed \/ { c \in Clusters : FatOf(blocks)[c] # 0 }
       \subseteq UNION { ClustersOf(blocks, path) : path \in AllPaths }

(* A pass of openNextFile() from the start of a directory lists the files  *)
(* that are there all the time, each once, whatever is created or removed  *)
(* meanwhile and although every step searches the directory again.         *)
ListsEachOnce == ~ pass.twice /\ (pass.ended => pass.stayed \subseteq pass.listed)
=============================================================================
