------------------------------- MODULE SdVolume -------------------------------
(***************************************************************************)
(* libraries/SD/utility/SdVolume.cpp: the one-block cache through which    *)
(* the library reaches the card, and the file allocation table.            *)
(*                                                                         *)
(* The functions of the library are operators on a state s, a record:      *)
(*   disk          contents of every block on the card                     *)
(*   cacheBlock    cacheBlockNumber_      cacheData   cacheBuffer_         *)
(*   cacheDirty    cacheDirty_            cacheMirror cacheMirrorBlock_    *)
(*   searchStart   allocSearchStart_                                       *)
(*   this          the SdFile a member function of SdFile works on         *)
(*   mayFail       may a card command fail, or the power, during this call *)
(*   fault         the card failed a command during this call              *)
(* Each returns the set of its outcomes [s, ok, result]: a card command    *)
(* may succeed or fail, and the code decides what a failure leaves behind. *)
(* A power loss during a call leaves the disk some failed outcome has.     *)
(***************************************************************************)
EXTENDS Naturals, Sequences, FiniteSets

CONSTANTS
  ClusterCount,      \* clusterCount_: clusters 2 .. ClusterCount + 1
  BlocksPerCluster,  \* blocksPerCluster_
  UnitsPerBlock,     \* bytes of a block, in units of the model
  FatPerBlock,       \* entries in one block of the FAT
  FatCopies,         \* fatCount_
  Names              \* names of the files in the root directory

ASSUME VolumeAssumption ==
  /\ ClusterCount \in Nat \ {0} /\ BlocksPerCluster \in Nat \ {0}
  /\ UnitsPerBlock \in Nat \ {0} /\ FatPerBlock \in Nat \ {0}
  /\ FatCopies \in {1, 2}

LastCluster == ClusterCount + 1          \* fatEnd
Clusters == 2 .. LastCluster
EOC == LastCluster + 1                   \* any end-of-chain value
IsEOC(c) == c >= EOC
ClusterUnits == BlocksPerCluster * UnitsPerBlock

(* Block numbers.  NoBlock is 0XFFFFFFFF, no block of any card.            *)
NoBlock == <<"none", 0>>
FatBlock(c) == <<"fat", c \div FatPerBlock>>
MirrorOf(b) == <<"mirror", b[2]>>
DirBlock == <<"dir", 0>>
DataBlock(c, b) == <<"data", (c - 2) * BlocksPerCluster + b>>

FatBlocks == {FatBlock(c) : c \in 0 .. LastCluster}
DataBlocks == {DataBlock(c, b) : c \in Clusters, b \in 0 .. BlocksPerCluster - 1}
Blocks == FatBlocks \cup {MirrorOf(b) : b \in FatBlocks} \cup {DirBlock}
            \cup DataBlocks

(* What a freshly formatted card holds: two reserved entries at the start  *)
(* of the table, no directory entry, arbitrary data.                       *)
Junk == <<"junk", 0>>
EmptyFatBlock(n) ==
  [c \in {d \in 0 .. LastCluster : d \div FatPerBlock = n} |->
      IF c < 2 THEN EOC ELSE 0]
FreeEntry == [used |-> FALSE, first |-> 0, size |-> 0]
Formatted ==
  [b \in Blocks |->
     CASE b[1] \in {"fat", "mirror"} -> EmptyFatBlock(b[2])
       [] b[1] = "dir" -> [n \in Names |-> FreeEntry]
       [] b[1] = "data" -> [u \in 0 .. UnitsPerBlock - 1 |-> Junk]]

-----------------------------------------------------------------------------
(* Outcomes and their composition: go on after a call that succeeded,      *)
(* return after one that failed.                                           *)
Success(s, x) == {[s |-> s, ok |-> TRUE, result |-> x]}
Done(s) == Success(s, 0)
Failed(s) == {[s |-> s, ok |-> FALSE, result |-> 0]}
Then(outcomes, Continue(_)) ==
  UNION {IF o.ok THEN Continue(o) ELSE {o} : o \in outcomes}

(* A loop of at most n rounds.  A round starts from an outcome of the one  *)
(* before it; it leaves the outcome as it is once the loop has ended.      *)
Repeat(outcomes, Round(_), n) ==
  LET after[k \in Nat] ==
        IF k = 0 THEN outcomes ELSE Then(after[k - 1], Round)
  IN after[n]

(* Sd2Card::writeBlock and readBlock.  A write that is reported as failed  *)
(* may have reached the card (the card is still busy, or does not answer   *)
(* the status command); a failed read changes no byte of the buffer.  The  *)
(* card refuses a block number it does not have.                           *)
CardFault(s) == IF s.mayFail THEN Failed([s EXCEPT !.fault = TRUE]) ELSE {}
WriteBlock(s, b, data) ==
  LET t == [s EXCEPT !.disk[b] = data]
  IN IF b \in Blocks THEN Done(t) \cup CardFault(t) \cup CardFault(s)
     ELSE Failed(s)
ReadBlock(s, b) ==
  IF b \in Blocks THEN Success(s, s.disk[b]) \cup CardFault(s) ELSE Failed(s)

(* Mutation: the second copy of the FAT is not written.                    *)
CacheFlushNoMirror(s) ==
  IF ~ s.cacheDirty THEN Done(s)
  ELSE Then(WriteBlock(s, s.cacheBlock, s.cacheData),
            LAMBDA o : Done([o.s EXCEPT !.cacheMirror = NoBlock,
                                        !.cacheDirty = FALSE]))

(* The block first, then its mirror if it is a block of the FAT; it stays  *)
(* dirty until both are written.                                           *)
CacheFlush(s) ==
  IF ~ s.cacheDirty THEN Done(s)
  ELSE Then(WriteBlock(s, s.cacheBlock, s.cacheData), LAMBDA o :
       Then(IF o.s.cacheMirror = NoBlock THEN Done(o.s)
            ELSE WriteBlock(o.s, o.s.cacheMirror, o.s.cacheData), LAMBDA p :
            Done([p.s EXCEPT !.cacheMirror = NoBlock, !.cacheDirty = FALSE])))

(* Mutation: a dirty block is dropped, not flushed, to make room.          *)
CacheRawBlockNoFlush(s, b, write) ==
  IF s.cacheBlock = b THEN Done([s EXCEPT !.cacheDirty = @ \/ write])
  ELSE Then(ReadBlock(s, b), LAMBDA q :
       Done([q.s EXCEPT !.cacheBlock = b, !.cacheData = q.result,
                        !.cacheDirty = write]))

(* cacheRawBlock: bring block b into the cache, for writing if asked.      *)
CacheRawBlock(s, b, write) ==
  IF s.cacheBlock = b THEN Done([s EXCEPT !.cacheDirty = @ \/ write])
  ELSE Then(CacheFlush(s), LAMBDA o :
       Then(ReadBlock(o.s, b), LAMBDA p :
       Done([p.s EXCEPT !.cacheBlock = b, !.cacheData = p.result,
                        !.cacheDirty = @ \/ write])))

FatGet(s, c) ==
  IF c > LastCluster THEN Failed(s)
  ELSE Then(CacheRawBlock(s, FatBlock(c), FALSE), LAMBDA o :
            Success(o.s, o.s.cacheData[c]))

(* fatPut: the entry changes in the cache; a mirror is owed from then on.  *)
FatPut(s, c, x) ==
  IF c < 2 \/ c > LastCluster THEN Failed(s)
  ELSE Then(CacheRawBlock(s, FatBlock(c), FALSE), LAMBDA o :
       Done([o.s EXCEPT !.cacheData[c] = x, !.cacheDirty = TRUE,
                        !.cacheMirror = IF FatCopies > 1
                                        THEN MirrorOf(FatBlock(c)) ELSE @]))

(* The search loop of allocContiguous for one cluster looks at every entry *)
(* once; from the end of the FAT it goes on at cluster 2.                  *)
LookAt(o) ==
  LET c == IF o.result.end > LastCluster THEN 2 ELSE o.result.end
  IN IF o.result.found THEN {o}
     ELSE Then(FatGet(o.s, c), LAMBDA p :
               Success(p.s, IF p.result = 0 THEN [found |-> TRUE, end |-> c]
                            ELSE [found |-> FALSE, end |-> c + 1]))

FindFree(s, start) ==
  Then(Repeat(Success(s, [found |-> FALSE, end |-> start]), LookAt, ClusterCount),
       LAMBDA o : IF o.result.found THEN Success(o.s, o.result.end) ELSE Failed(o.s))

(* Mutation: the new cluster is linked before it is marked.                *)
AllocClusterLinkFirst(s, cur) ==
  Then(FindFree(s, IF cur = 0 THEN s.searchStart ELSE cur + 1), LAMBDA o :
  Then(IF cur = 0 THEN Done(o.s) ELSE FatPut(o.s, cur, o.result), LAMBDA p :
  Then(FatPut(p.s, o.result, EOC), LAMBDA q :
       Success([q.s EXCEPT !.searchStart = IF cur = 0 THEN o.result + 1 ELSE @],
               o.result))))

(* allocContiguous(1, &cur): mark the new cluster as the end of a chain,   *)
(* then link it after cur; the search start moves for a first cluster.     *)
AllocCluster(s, cur) ==
  Then(FindFree(s, IF cur = 0 THEN s.searchStart ELSE cur + 1), LAMBDA o :
  Then(FatPut(o.s, o.result, EOC), LAMBDA p :
  Then(IF cur = 0 THEN Done(p.s) ELSE FatPut(p.s, cur, o.result), LAMBDA q :
       Success([q.s EXCEPT !.searchStart = IF cur = 0 THEN o.result + 1 ELSE @],
               o.result))))

(* freeChain: free the clusters from c to the end of its chain.  In a      *)
(* chain without end the walk comes to a free entry and fails after it.    *)
FreeNext(o) ==
  IF IsEOC(o.result) THEN {o}
  ELSE Then(FatGet(o.s, o.result), LAMBDA p :
       Then(FatPut(p.s, o.result, 0), LAMBDA q : Success(q.s, p.result)))

FreeChain(s, c) ==
  Then(Repeat(Success([s EXCEPT !.searchStart = 2], c), FreeNext, ClusterCount + 2),
       LAMBDA o : Done(o.s))

-----------------------------------------------------------------------------
(* What the volume holds, seen through the cache (RAM and card together)   *)
(* or on the card alone: the state a power loss leaves.                    *)
Seen(s) == [b \in Blocks |-> IF b = s.cacheBlock THEN s.cacheData ELSE s.disk[b]]

FatOf(blocks) == [c \in 0 .. LastCluster |-> blocks[FatBlock(c)][c]]

(* The clusters of the chain that starts at c: it stops at an end mark, at *)
(* a free entry, outside the table and when no cluster is left.  from[n][d] *)
(* is what there is from d on, n clusters at most.                          *)
Chain(fat, c) ==
  LET from[n \in Nat] ==
        [d \in 0 .. EOC |-> IF n = 0 \/ d \notin Clusters THEN << >>
                            ELSE <<d>> \o from[n - 1][fat[d]]]
  IN from[ClusterCount][c]

(* The units of a file that starts at cluster c; Junk beyond its chain.    *)
Contents(blocks, c, size) ==
  LET chain == Chain(FatOf(blocks), c)
  IN [i \in 1 .. size |->
        LET k == (i - 1) \div ClusterUnits + 1
            b == ((i - 1) \div UnitsPerBlock) % BlocksPerCluster
        IN IF k > Len(chain) THEN Junk
           ELSE blocks[DataBlock(chain[k], b)][(i - 1) % UnitsPerBlock]]

(* No cluster is the successor of two clusters.                            *)
LinksInjective(fat) ==
  \A c, d \in Clusters : fat[c] = fat[d] /\ fat[c] \in Clusters => c = d

=============================================================================
