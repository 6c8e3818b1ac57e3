-------------------------------- MODULE SdFile --------------------------------
(***************************************************************************)
(* libraries/SD/utility/SdFile.cpp and the File class over it: files in    *)
(* the root directory of a FAT volume, opened with FILE_WRITE as every     *)
(* sketch does.  Several files may be open; they share the volume's cache. *)
(* A call runs to its end, with the card failing or not, or is cut off by  *)
(* a power loss at one of its card commands.                               *)
(*                                                                         *)
(* The unit that is written at position p of the file n is <<n, p>>, so    *)
(* that the properties can tell whose unit a block holds, and of which     *)
(* place.                                                                  *)
(***************************************************************************)
EXTENDS SdVolume, Integers

CONSTANTS
  WriteSizes,  \* sizes of the writes, in units
  MaxSize,     \* bound of the model: no write beyond this position
  CardMayFail,   \* may a card command fail while the power stays on
  PowerMayFail   \* may the power fail

ASSUME FileAssumption ==
  /\ WriteSizes \subseteq Nat /\ MaxSize \in Nat
  /\ CardMayFail \in BOOLEAN /\ PowerMayFail \in BOOLEAN

VARIABLES
  vol,     \* the card and the static data of SdVolume
  handle,  \* the SdFile of each file
  anomaly  \* what was wrong with the result of the last call (history)

vars == <<vol, handle, anomaly>>

(* firstCluster_, curCluster_, curPosition_, fileSize_, F_FILE_DIR_DIRTY.  *)
Closed == [open |-> FALSE, first |-> 0, cur |-> 0, pos |-> 0, size |-> 0,
           dirDirty |-> FALSE]

(* The volume after SD.begin() on a card with these contents.              *)
Mounted(disk) ==
  [disk |-> disk, cacheBlock |-> NoBlock, cacheData |-> << >>,
   cacheDirty |-> FALSE, cacheMirror |-> NoBlock, searchStart |-> 2,
   this |-> Closed, mayFail |-> CardMayFail \/ PowerMayFail, fault |-> FALSE]

Init ==
  /\ vol = Mounted(Formatted)
  /\ handle = [n \in Names |-> Closed]
  /\ anomaly = {}

Units(name, from, n) == [i \in 1 .. n |-> <<name, from + i - 1>>]

-----------------------------------------------------------------------------
(* addCluster                                                              *)
AddCluster(s) ==
  Then(AllocCluster(s, s.this.cur), LAMBDA o :
  LET t == [o.s EXCEPT !.this.cur = o.result]
  IN Done(IF t.this.first # 0 THEN t
          ELSE [t EXCEPT !.this.first = o.result, !.this.dirDirty = TRUE]))

(* Mutation: a position inside the chain does not follow the chain.        *)
NextClusterAlwaysAdds(s) == AddCluster(s)

(* write() at the start of a cluster: make curCluster_ the cluster of      *)
(* curPosition_, adding one to the file at the end of its chain.           *)
NextCluster(s) ==
  IF s.this.cur = 0
  THEN IF s.this.first = 0 THEN AddCluster(s)
       ELSE Done([s EXCEPT !.this.cur = s.this.first])
  ELSE Then(FatGet(s, s.this.cur), LAMBDA o :
       IF IsEOC(o.result) THEN AddCluster(o.s)
       ELSE Done([o.s EXCEPT !.this.cur = o.result]))

Min2(a, b) == IF a < b THEN a ELSE b

(* Mutation: the start of any block is written without reading the block.  *)
PutUnitsNoRead(s, name, b, off, n) ==
  LET new == Units(name, s.this.pos, n)
      Over(data) == [u \in 0 .. UnitsPerBlock - 1 |->
                       IF u \in off .. off + n - 1 THEN new[u - off + 1] ELSE data[u]]
      noData == [u \in 0 .. UnitsPerBlock - 1 |-> Junk]
  IN IF off = 0
     THEN Then(CacheFlush(s), LAMBDA o :
          Done([o.s EXCEPT !.cacheBlock = b, !.cacheDirty = TRUE,
                           !.cacheData = Over(noData)]))
     ELSE Then(CacheRawBlock(s, b, TRUE), LAMBDA o :
          Done([o.s EXCEPT !.cacheData = Over(@)]))

(* The part of write() that puts n units, all in one block b, at offset    *)
(* off.  A full block bypasses the cache; a block beyond the end of the    *)
(* file is not read first, so the rest of it is what the buffer held.      *)
PutUnits(s, name, b, off, n) ==
  LET new == Units(name, s.this.pos, n)
      Over(data) == [u \in 0 .. UnitsPerBlock - 1 |->
                       IF u \in off .. off + n - 1 THEN new[u - off + 1] ELSE data[u]]
      noData == [u \in 0 .. UnitsPerBlock - 1 |-> Junk]
  IN IF n = UnitsPerBlock
     THEN WriteBlock(IF s.cacheBlock = b THEN [s EXCEPT !.cacheBlock = NoBlock]
                     ELSE s, b, Over(noData))
     ELSE IF off = 0 /\ s.this.pos >= s.this.size
     THEN Then(CacheFlush(s), LAMBDA o :
          Done([o.s EXCEPT !.cacheBlock = b, !.cacheDirty = TRUE,
                           !.cacheData = Over(noData)]))
     ELSE Then(CacheRawBlock(s, b, TRUE), LAMBDA o :
          Done([o.s EXCEPT !.cacheData = Over(@)]))

(* The offset of the position in its block and that block in its cluster.  *)
Offset(s) == s.this.pos % UnitsPerBlock
BlockOfCluster(s) == (s.this.pos \div UnitsPerBlock) % BlocksPerCluster

(* The loop of write() over the blocks it touches.                         *)
WriteRound(o, name) ==
  LET off == Offset(o.s)
      blk == BlockOfCluster(o.s)
      m == Min2(UnitsPerBlock - off, o.result)
  IN IF o.result = 0 THEN {o}
     ELSE Then(IF off = 0 /\ blk = 0 THEN NextCluster(o.s) ELSE Done(o.s), LAMBDA p :
          Then(PutUnits(p.s, name, DataBlock(p.s.this.cur, blk), off, m), LAMBDA q :
               Success([q.s EXCEPT !.this.pos = @ + m], o.result - m)))

WriteUnits(s, name, n) == Repeat(Success(s, n), LAMBDA o : WriteRound(o, name), n)

(* Mutation: the directory entry is not marked for update.                 *)
FileWriteNotDirty(s, name, n) ==
  Then(WriteUnits(s, name, n), LAMBDA o :
       Done(IF o.s.this.pos > o.s.this.size
            THEN [o.s EXCEPT !.this.size = o.s.this.pos] ELSE o.s))

(* write()                                                                 *)
FileWrite(s, name, n) ==
  Then(WriteUnits(s, name, n), LAMBDA o :
       Done(IF o.s.this.pos > o.s.this.size
            THEN [o.s EXCEPT !.this.size = o.s.this.pos, !.this.dirDirty = TRUE]
            ELSE o.s))

(* seekSet(): follow the FAT from the first cluster or from the current    *)
(* one; curCluster_ moves with every step, curPosition_ only at the end.   *)
FollowLink(o) ==
  Then(FatGet(o.s, o.s.this.cur), LAMBDA p :
       Done([p.s EXCEPT !.this.cur = p.result]))
Follow(s, steps) == Repeat(Done(s), FollowLink, steps)

SeekSet(s, pos) ==
  IF pos > s.this.size THEN Failed(s)
  ELSE IF pos = 0 THEN Done([s EXCEPT !.this.cur = 0, !.this.pos = 0])
  ELSE LET nCur == (s.this.pos - 1) \div ClusterUnits
           nNew == (pos - 1) \div ClusterUnits
           restart == s.this.pos = 0 \/ nNew < nCur
           from == IF restart THEN [s EXCEPT !.this.cur = s.this.first] ELSE s
       IN Then(Follow(from, IF restart THEN nNew ELSE nNew - nCur), LAMBDA o :
               Done([o.s EXCEPT !.this.pos = pos]))

(* sync(): the directory entry goes through the cache, which first flushes *)
(* what is dirty there; then the entry itself is flushed.                  *)
FileSync(s, name) ==
  Then(IF ~ s.this.dirDirty THEN Done(s)
       ELSE Then(CacheRawBlock(s, DirBlock, TRUE), LAMBDA o :
            Done([o.s EXCEPT !.cacheData[name].size = s.this.size,
                             !.cacheData[name].first = s.this.first,
                             !.this.dirDirty = FALSE])),
       LAMBDA p : CacheFlush(p.s))

(* Mutation: the clusters cut off are freed, the new last one still links  *)
(* to them.                                                                *)
CutChainNoEnd(s, len) ==
  IF len = 0
  THEN Then(FreeChain(s, s.this.first), LAMBDA o :
            Done([o.s EXCEPT !.this.first = 0]))
  ELSE Then(FatGet(s, s.this.cur), LAMBDA o :
       IF IsEOC(o.result) THEN Done(o.s) ELSE FreeChain(o.s, o.result))

(* Mutation: the clusters cut off are not freed.                           *)
CutChainKeeps(s, len) ==
  IF len = 0 THEN Done([s EXCEPT !.this.first = 0])
  ELSE FatPut(s, s.this.cur, EOC)

(* The middle of truncate(): free what lies beyond the last cluster.       *)
CutChain(s, len) ==
  IF len = 0
  THEN Then(FreeChain(s, s.this.first), LAMBDA o :
            Done([o.s EXCEPT !.this.first = 0]))
  ELSE Then(FatGet(s, s.this.cur), LAMBDA o :
       IF IsEOC(o.result) THEN Done(o.s)
       ELSE Then(FreeChain(o.s, o.result), LAMBDA p : FatPut(p.s, p.s.this.cur, EOC)))

(* truncate()                                                              *)
FileTruncate(s, name, len) ==
  IF len > s.this.size THEN Failed(s)
  ELSE IF s.this.size = 0 THEN Done(s)
  ELSE Then(SeekSet(s, len), LAMBDA o :
       Then(CutChain(o.s, len), LAMBDA p :
       Then(FileSync([p.s EXCEPT !.this.size = len, !.this.dirDirty = TRUE], name),
            LAMBDA q : SeekSet(q.s, Min2(s.this.pos, len)))))

(* The loop of read().  The amount is cut to what is left of the file by   *)
(* an unsigned subtraction.  No property looks at the units that arrive in *)
(* the caller's buffer: ReadBack says what they are.                       *)
ReadRound(o) ==
  LET off == Offset(o.s)
      blk == BlockOfCluster(o.s)
      m == Min2(UnitsPerBlock - off, o.result)
  IN IF o.result = 0 THEN {o}
     ELSE Then(IF ~ (off = 0 /\ blk = 0) THEN Done(o.s)
               ELSE IF o.s.this.pos = 0 THEN Done([o.s EXCEPT !.this.cur = o.s.this.first])
               ELSE FollowLink(o), LAMBDA p :
          LET b == DataBlock(p.s.this.cur, blk)
          IN Then(IF m = UnitsPerBlock /\ b # p.s.cacheBlock
                  THEN ReadBlock(p.s, b) ELSE CacheRawBlock(p.s, b, FALSE), LAMBDA q :
                  Success([q.s EXCEPT !.this.pos = @ + m], o.result - m)))

(* The modulus of the unsigned subtraction: 2^32 in the code; any modulus   *)
(* far above MaxSize behaves alike.                                        *)
Modulus == 65536

FileRead(s, n) ==
  LET nbyte == Min2(n, (s.this.size - s.this.pos) % Modulus)
  IN Repeat(Success(s, nbyte), ReadRound, nbyte)

(* open() with FILE_WRITE: find the entry or create it, then seek to the   *)
(* end; SDClass::open ignores whether the seek succeeded.                  *)
FileOpen(s, name) ==
  Then(CacheRawBlock(s, DirBlock, FALSE), LAMBDA o :
  Then(IF o.s.cacheData[name].used THEN Done(o.s)
       ELSE CacheFlush([o.s EXCEPT !.cacheDirty = TRUE, !.cacheData[name] =
                          [used |-> TRUE, first |-> 0, size |-> 0]]), LAMBDA p :
  LET e == p.s.cacheData[name]
  IN { [q EXCEPT !.ok = TRUE] :
       q \in SeekSet([p.s EXCEPT !.this = [Closed EXCEPT !.open = TRUE,
                        !.first = e.first, !.size = e.size]], e.size) }))

(* SdFile::remove(): truncate to nothing, then mark the entry deleted.     *)
FileRemove(s, name) ==
  Then(FileTruncate(s, name, 0), LAMBDA o :
  Then(CacheRawBlock(o.s, DirBlock, TRUE), LAMBDA p :
       CacheFlush([p.s EXCEPT !.cacheData[name].used = FALSE, !.this = Closed])))

-----------------------------------------------------------------------------
(* What the result of a call may disagree about with its documentation: a  *)
(* sync that fails although the card did not.                              *)
Anomalies(op, o) ==
  IF op = "sync" /\ ~ o.ok /\ ~ o.s.fault THEN {"sync refused"} ELSE {}

(* The call returns outcome o.                                             *)
Return(op, name, o) ==
  /\ CardMayFail \/ ~ o.s.fault
  /\ vol' = [o.s EXCEPT !.this = Closed, !.fault = FALSE]
  /\ handle' = [handle EXCEPT ![name] = o.s.this]
  /\ anomaly' = Anomalies(op, o)

(* Power loss and restart: what is not on the card is gone.                *)
Restart(disk) ==
  /\ PowerMayFail
  /\ vol' = Mounted(disk)
  /\ handle' = [n \in Names |-> Closed]
  /\ anomaly' = {}

(* A call with these outcomes: it returns, or the power fails at one of    *)
(* the card commands, leaving the blocks written up to there.              *)
Call(op, name, outcomes) ==
  \E o \in outcomes : \/ Return(op, name, o)
                      \/ o.s.fault /\ Restart(o.s.disk)

This(name) == [vol EXCEPT !.this = handle[name]]
IsOpen(name) == handle[name].open
Entry(name) == Seen(vol)[DirBlock][name]

(* SD.open(name, FILE_WRITE); a failed open leaves a closed File.          *)
Open(name) ==
  /\ ~ IsOpen(name)
  /\ Call("open", name, { IF o.ok THEN o ELSE [o EXCEPT !.s.this = Closed]
                        : o \in FileOpen(This(name), name) })

Write(name) ==
  /\ IsOpen(name)
  /\ \E n \in WriteSizes :
       /\ handle[name].pos + n <= MaxSize
       /\ Call("write", name, FileWrite(This(name), name, n))

(* File::flush()                                                           *)
Flush(name) == IsOpen(name) /\ Call("sync", name, FileSync(This(name), name))

(* File::close(): the SdFile is freed whether or not its sync succeeded.   *)
Close(name) ==
  /\ IsOpen(name)
  /\ Call("sync", name, {[o EXCEPT !.s.this = Closed] :
                            o \in FileSync(This(name), name)})

Seek(name) ==
  /\ IsOpen(name)
  /\ \E p \in 0 .. MaxSize : Call("seek", name, SeekSet(This(name), p))

Read(name) ==
  /\ IsOpen(name)
  /\ \E n \in WriteSizes : Call("read", name, FileRead(This(name), n))

Truncate(name) ==
  /\ IsOpen(name)
  /\ \E len \in 0 .. handle[name].size :
       Call("truncate", name, FileTruncate(This(name), name, len))

(* SD.remove(name) of a file that is not open.                             *)
Remove(name) ==
  /\ ~ IsOpen(name) /\ Entry(name).used
  /\ Call("remove", name,
          Then(CacheRawBlock(vol, DirBlock, FALSE), LAMBDA o :
               LET e == o.s.cacheData[name]
               IN { [q EXCEPT !.s.this = Closed] :
                    q \in FileRemove([o.s EXCEPT !.this =
                            [Closed EXCEPT !.open = TRUE, !.first = e.first,
                                           !.size = e.size]], name) }))

PowerLoss == Restart(vol.disk)

(* What the logging sketches do: open, append, flush, close.               *)
LogCall(name) == Open(name) \/ Write(name) \/ Flush(name) \/ Close(name)
LogNext == PowerLoss \/ \E name \in Names : LogCall(name)
LogSpec == Init /\ [][LogNext]_vars

(* Every call of the File class.                                           *)
ApiCall(name) ==
  LogCall(name) \/ Seek(name) \/ Read(name) \/ Truncate(name) \/ Remove(name)
ApiNext == PowerLoss \/ \E name \in Names : ApiCall(name)
ApiSpec == Init /\ [][ApiNext]_vars

-----------------------------------------------------------------------------
(* The first cluster and the size of a file as its user sees them: the     *)
(* open handle's if there is one, else those of the directory entry.       *)
FirstOf(n) == IF IsOpen(n) THEN handle[n].first ELSE Entry(n).first
SizeOf(n) == IF IsOpen(n) THEN handle[n].size ELSE Entry(n).size

VisibleContents(n) == Contents(Seen(vol), FirstOf(n), SizeOf(n))

(* ... and as a restart would find them on the card.                       *)
CardEntry(n) == vol.disk[DirBlock][n]
DurableContents(n) == Contents(vol.disk, CardEntry(n).first, CardEntry(n).size)

(* Whatever the order of appends, flushes, seeks and truncations of the    *)
(* open files, and whichever block the shared cache holds, every position  *)
(* of every file reads back the unit that was written there.               *)
ReadBack == \A n \in Names : VisibleContents(n) = Units(n, 0, SizeOf(n))

(* At every instant, also in the middle of a call, a restart finds files   *)
(* whose whole length is backed by clusters holding their own data: the    *)
(* directory entry reaches the card after the FAT and the data it needs.   *)
CrashConsistent ==
  \A n \in Names : DurableContents(n) = Units(n, 0, CardEntry(n).size)

(* No cluster belongs to two files, nor twice to one file, neither as the  *)
(* library sees the table nor as a restart would find it.                  *)
Disjoint(fat, First(_)) ==
  /\ LinksInjective(fat)
  /\ \A m, n \in Names :
       LET inM == {Chain(fat, First(m))[i] : i \in 1 .. Len(Chain(fat, First(m)))}
           inN == {Chain(fat, First(n))[i] : i \in 1 .. Len(Chain(fat, First(n)))}
       IN m # n => inM \cap inN = {}
NoCrossLink ==
  /\ Disjoint(FatOf(Seen(vol)), FirstOf)
  /\ Disjoint(FatOf(vol.disk), LAMBDA n : CardEntry(n).first)

(* "cluster for current file position": curCluster_ is the cluster of the  *)
(* chain that holds the last unit before the position.                     *)
ClusterOfPosition ==
  \A n \in Names : IsOpen(n) =>
    LET h == handle[n]
        chain == Chain(FatOf(Seen(vol)), h.first)
    IN IF h.pos = 0 THEN h.cur = 0
       ELSE /\ (h.pos - 1) \div ClusterUnits < Len(chain)
            /\ h.cur = chain[(h.pos - 1) \div ClusterUnits + 1]

(* Without power loss both copies of the FAT on the card agree after every *)
(* call.                                                                   *)
FatCopiesAgree ==
  FatCopies > 1 => \A b \in FatBlocks : vol.disk[b] = vol.disk[MirrorOf(b)]

(* The clusters of a file that exists, those that the table has in use     *)
(* although no file reaches them, and the state from which every call that *)
(* needs the cache fails (a full block was written over the dirty cached   *)
(* one, see SyncFailsOnlyOnError).                                         *)
Reached(fat, n) ==
  LET chain == Chain(fat, FirstOf(n))
  IN {chain[i] : i \in {j \in 1 .. Len(chain) : Entry(n).used}}
Lost ==
  LET fat == FatOf(Seen(vol))
  IN {c \in Clusters : fat[c] # 0} \ UNION {Reached(fat, n) : n \in Names}
Wedged == vol.cacheDirty /\ vol.cacheBlock = NoBlock

(* Without power loss or card failure, whatever the order of calls and     *)
(* however they fail on a full volume, a cluster is lost in one way only:  *)
(* a write that found the volume full left clusters in the chain of a file *)
(* of no length, and remove(), which frees the chain of a file with a      *)
(* length only, deletes its name.                                          *)
Unwritten == {n \in Names : Entry(n).used /\ SizeOf(n) = 0}
LosesUnwritten ==
  ~ Wedged' =>
    \A c \in Lost' \ Lost :
      \E n \in Unwritten : c \in Reached(FatOf(Seen(vol)), n) /\ ~ Entry(n)'.used
LosesOnlyUnwritten == [][LosesUnwritten]_vars

(* A logging call on one file (open, write, flush, close), also one that   *)
(* the card makes fail half way, leaves what every other file reads back   *)
(* as it was, although all of them share the one cached block and the      *)
(* search for free clusters.                                               *)
OthersKept ==
  \A n \in Names : handle'[n] = handle[n] => VisibleContents(n)' = VisibleContents(n)
OthersUntouched == [][OthersKept]_vars

(* The only reasons the documentation of sync() gives for a failure on an  *)
(* open file: "an I/O error".                                              *)
SyncFailsOnlyOnError == "sync refused" \notin anomaly

Token == {Junk} \cup (Names \X Nat)

(* The abstract file store that the calls implement.                       *)
Store == INSTANCE FileStore WITH
           Unit <- Token,
           content <- [n \in Names |-> VisibleContents(n)],
           durable <- [n \in Names |-> DurableContents(n)]
ImplementsFileStore == Store!Spec

=============================================================================
