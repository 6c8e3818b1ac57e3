----------------------------- MODULE SdFile_proofs -----------------------------
(***************************************************************************)
(* Proofs about the logging calls of the SD library (LogSpec), for every   *)
(* geometry of the volume, any number of files and any write sizes, on a   *)
(* card whose commands do not fail while the power stays on: what the      *)
(* files read back, what a restart finds after a power loss at any command *)
(* of any call, that no cluster has two owners, and that the library       *)
(* implements FileStore.  The last section is about all calls (ApiSpec),   *)
(* on a card that may fail at any command: the two copies of the table.    *)
(*                                                                         *)
(* The chains of the table are described by a layout q, which gives each   *)
(* file a sequence of clusters.  Files(v, h, q) says that the blocks v fit *)
(* the layout and the open files h, Sound(v, q) that they fit it without   *)
(* any open file.  Between calls the first holds of what the library sees, *)
(* the second of that and of the card, and within a call the second holds  *)
(* after every command, since the power may fail there.  The sections      *)
(* follow the code from the loops and the card commands up to the calls.   *)
(***************************************************************************)
EXTENDS SdFile, WellFoundedInduction, FiniteSetTheorems, SequenceTheorems, TLAPS

-----------------------------------------------------------------------------
(* Loops.                                                                  *)

(* A set of numbers has a least element.                                   *)
LEMMA LeastNumber ==
  ASSUME NEW T \in SUBSET Nat, T # {}
  PROVE  \E m \in T : \A k \in T : m <= k
<1> DEFINE R == OpToRel(<, Nat)
<1>1. PICK m \in T : \A k \in T : <<k, m>> \notin R
  <2>1. IsWellFoundedOn(R, Nat)
    BY NatLessThanWellFounded
  <2> HIDE DEF R
  <2>2. QED
    BY <2>1, WFMin
<1>2. \A k \in T : ~ (k < m)
  BY <1>1 DEF OpToRel
<1>3. QED
  BY <1>2

(* Induction: a set with 0 and with every successor has all numbers.       *)
LEMMA Induction ==
  ASSUME NEW S, 0 \in S, \A k \in Nat : k \in S => k + 1 \in S
  PROVE  \A k \in Nat : k \in S
<1>1. SUFFICES ASSUME NEW j \in Nat, j \notin S PROVE FALSE
  OBVIOUS
<1> DEFINE T == {k \in Nat : k \notin S}
<1>2. PICK m \in T : \A k \in T : m <= k
  BY <1>1, LeastNumber
<1>3. m # 0 /\ m - 1 \in Nat
  BY <1>2
<1>4. m - 1 \in S
  BY <1>2, <1>3
<1>5. QED
  BY <1>2, <1>3, <1>4

(* A recursive function over the numbers exists.                           *)
LEMMA IterationExists ==
  ASSUME NEW X, NEW x \in X, NEW F \in [X -> X]
  PROVE  \E f \in [Nat -> X] : f = [k \in Nat |-> IF k = 0 THEN x ELSE F[f[k - 1]]]
<1> DEFINE Upto(n, g) == /\ g \in [0 .. n -> X] /\ g[0] = x
                         /\ \A k \in 1 .. n : g[k] = F[g[k - 1]]
<1> DEFINE S == {n \in Nat : \E g : Upto(n, g)}
<1>1. 0 \in S
  <2>1. Upto(0, [k \in 0 .. 0 |-> x])
    OBVIOUS
  <2>2. QED
    BY <2>1
<1>2. ASSUME NEW n \in Nat, n \in S PROVE n + 1 \in S
  <2>1. PICK g : Upto(n, g)
    BY <1>2
  <2> DEFINE h == [k \in 0 .. n + 1 |-> IF k = n + 1 THEN F[g[n]] ELSE g[k]]
  <2>2. h \in [0 .. n + 1 -> X] /\ h[0] = x
    BY <2>1
  <2>3. ASSUME NEW k \in 1 .. n + 1 PROVE h[k] = F[h[k - 1]]
    BY <2>1
  <2>4. Upto(n + 1, h)
    BY <2>2, <2>3
  <2>5. QED
    <3> HIDE DEF h
    <3>1. QED
      BY <2>4
<1>3. \A n \in Nat : n \in S
  <2> HIDE DEF S
  <2>1. QED
    BY <1>1, <1>2, Induction
<1> DEFINE G(n) == CHOOSE g : Upto(n, g)
<1>4. ASSUME NEW n \in Nat PROVE Upto(n, G(n))
  BY <1>3
<1>5. ASSUME NEW n \in Nat, NEW m \in Nat, m >= n PROVE G(m)[n] = G(n)[n]
  <2> DEFINE E == {k \in Nat : k <= n => G(m)[k] = G(n)[k]}
  <2> HIDE DEF G
  <2>1. 0 \in E
    BY <1>4
  <2>2. ASSUME NEW k \in Nat, k \in E PROVE k + 1 \in E
    BY <1>4, <2>2, <1>5
  <2>3. n \in E
    <3> HIDE DEF E
    <3>1. QED
      BY <2>1, <2>2, Induction
  <2>4. QED
    BY <2>3
<1> DEFINE f == [n \in Nat |-> G(n)[n]]
<1>6. f \in [Nat -> X] /\ f[0] = x
  <2> HIDE DEF G
  <2>1. QED
    BY <1>4
<1>7. ASSUME NEW k \in Nat, k # 0 PROVE f[k] = F[f[k - 1]]
  <2>1. k - 1 \in Nat /\ k >= k - 1
    BY <1>7
  <2> HIDE DEF G
  <2>2. G(k)[k] = F[G(k)[k - 1]]
    BY <1>4, <1>7
  <2>3. G(k)[k - 1] = G(k - 1)[k - 1]
    BY <2>1, <1>5
  <2>4. QED
    BY <2>1, <2>2, <2>3
<1>8. f = [k \in Nat |-> IF k = 0 THEN x ELSE F[f[k - 1]]]
  <2> HIDE DEF f, G
  <2>1. ASSUME NEW k \in Nat PROVE f[k] = IF k = 0 THEN x ELSE F[f[k - 1]]
    BY <1>6, <1>7
  <2>2. QED
    BY <1>6, <2>1
<1>9. QED
  BY <1>6, <1>8

(* The rounds of Repeat.  Y is what they start from, Next[o] what a round  *)
(* makes of o.                                                             *)
Rounds(Y, start, Round) ==
  {f \in [Nat -> SUBSET Y] :
     \A k \in Nat : f[k] = IF k = 0 THEN start ELSE UNION {Round[o] : o \in f[k - 1]}}

LEMMA RoundsExist ==
  ASSUME NEW Y, NEW start \in SUBSET Y, NEW Round \in [Y -> SUBSET Y]
  PROVE  \E f : f \in Rounds(Y, start, Round)
<1> DEFINE X == SUBSET Y
           F == [Q \in X |-> UNION {Round[o] : o \in Q}]
<1>1. F \in [X -> X]
  OBVIOUS
<1>2. PICK f \in [Nat -> X] : f = [k \in Nat |-> IF k = 0 THEN start ELSE F[f[k - 1]]]
  <2> HIDE DEF F
  <2>1. start \in X
    OBVIOUS
  <2> HIDE DEF X
  <2>2. QED
    BY <1>1, <2>1, IterationExists
<1>3. ASSUME NEW k \in Nat, k # 0 PROVE f[k] = UNION {Round[o] : o \in f[k - 1]}
  <2>1. k - 1 \in Nat /\ f[k - 1] \in X
    <3>1. k - 1 \in Nat
      BY <1>3
    <3> HIDE DEF X, F
    <3>2. QED
      BY <3>1
  <2>2. f[k] = F[f[k - 1]]
    BY <1>2, <1>3
  <2>3. QED
    BY <2>1, <2>2
<1>4. f[0] = start
  BY <1>2
<1>5. QED
  BY <1>3, <1>4 DEF Rounds

-----------------------------------------------------------------------------
(* States.  Primary are the blocks but the second copies of the FAT.       *)
Primary == FatBlocks \cup {DirBlock} \cup DataBlocks
Mirrors == {MirrorOf(b) : b \in FatBlocks}

EntryType == [used : BOOLEAN, first : 0 .. EOC, size : Nat]
FatData(n) == [{d \in 0 .. LastCluster : d \div FatPerBlock = n} -> 0 .. EOC]
DirData == [Names -> EntryType]
UnitData == [0 .. UnitsPerBlock - 1 -> Token]
Data == (UNION {FatData(b[2]) : b \in FatBlocks}) \cup DirData \cup UnitData

Handle == [open : BOOLEAN, first : 0 .. EOC, cur : 0 .. EOC, pos : Nat,
           size : Nat, dirDirty : BOOLEAN]
State == [disk : [Blocks -> Data], cacheBlock : Primary \cup {NoBlock},
          cacheData : Data \cup {<< >>}, cacheDirty : BOOLEAN,
          cacheMirror : Mirrors \cup {NoBlock}, searchStart : 2 .. EOC,
          this : Handle, mayFail : BOOLEAN, fault : BOOLEAN]
OutcomeOf(R) == [s : State, ok : BOOLEAN, result : R]

(* The primary blocks as the library sees them, and as they are on the     *)
(* card.                                                                   *)
View(s) == [b \in Primary |-> IF b = s.cacheBlock THEN s.cacheData ELSE s.disk[b]]
OnCard(d) == [b \in Primary |-> d[b]]
Views == {v \in [Primary -> Data] :
            /\ \A b \in FatBlocks : v[b] \in FatData(b[2])
            /\ v[DirBlock] \in DirData
            /\ \A b \in DataBlocks : v[b] \in UnitData}

(* The cache is coherent with the card.                                    *)
Coherent(s) ==
  /\ ~ s.cacheDirty /\ s.cacheBlock # NoBlock => s.disk[s.cacheBlock] = s.cacheData
  /\ s.cacheDirty => s.cacheBlock # NoBlock
  /\ s.cacheMirror # NoBlock => s.cacheDirty

(* A state between two card commands, in which the library sees and the    *)
(* card holds a volume of D.                                               *)
Good(s, D) == /\ s \in State /\ Coherent(s) /\ ~ s.fault
              /\ View(s) \in D /\ OnCard(s.disk) \in D

(* Numbers of blocks of different kinds differ.                            *)
LEMMA BlockKinds ==
  /\ NoBlock \notin Blocks /\ Primary \subseteq Blocks
  /\ Mirrors \subseteq Blocks /\ Mirrors \cap Primary = {}
  /\ DirBlock \in Primary /\ DirBlock \notin FatBlocks /\ DirBlock \notin DataBlocks
  /\ FatBlocks \cap DataBlocks = {}
<1>1. \A b \in FatBlocks : b[1] = "fat" /\ b = <<b[1], b[2]>>
  BY DEF FatBlocks, FatBlock
<1>2. \A b \in Mirrors : b[1] = "mirror"
  BY DEF Mirrors, MirrorOf
<1>3. \A b \in DataBlocks : b[1] = "data"
  BY DEF DataBlocks, DataBlock
<1>4. NoBlock[1] = "none" /\ DirBlock[1] = "dir"
  BY DEF NoBlock, DirBlock
<1>5. QED
  BY <1>1, <1>2, <1>3, <1>4 DEF Blocks, Primary, Mirrors

-----------------------------------------------------------------------------
(* The outcomes of the card commands.                                      *)
LEMMA OfSuccess ==
  ASSUME NEW s, NEW x, NEW o \in Success(s, x)
  PROVE  o.ok /\ o.s = s /\ o.result = x
BY DEF Success

LEMMA OfDone ==
  ASSUME NEW s, NEW o \in Done(s)
  PROVE  o.ok /\ o.s = s /\ o.result = 0
BY OfSuccess DEF Done

LEMMA OfFailed ==
  ASSUME NEW s, NEW o \in Failed(s)
  PROVE  ~ o.ok /\ o.s = s /\ o.result = 0
BY DEF Failed

LEMMA OfCardFault ==
  ASSUME NEW s, NEW o \in CardFault(s)
  PROVE  s.mayFail /\ ~ o.ok /\ o.result = 0
           /\ o.s = [s EXCEPT !.fault = TRUE]
<1>1. s.mayFail
  BY Zenon DEF CardFault
<1>2. QED
  BY <1>1, OfFailed DEF CardFault

LEMMA OutcomeTypes ==
  ASSUME NEW s \in State
  PROVE  /\ \A R : \A x \in R : Success(s, x) \subseteq OutcomeOf(R)
         /\ Done(s) \subseteq OutcomeOf({0}) /\ Failed(s) \subseteq OutcomeOf({0})
         /\ CardFault(s) \subseteq OutcomeOf({0})
<1>1. [s EXCEPT !.fault = TRUE] \in State
  BY DEF State
<1>2. \A R : \A x \in R : Success(s, x) \subseteq OutcomeOf(R)
  BY DEF Success, OutcomeOf
<1>3. Done(s) \subseteq OutcomeOf({0})
  BY DEF Success, Done, OutcomeOf
<1>4. \A t \in State : Failed(t) \subseteq OutcomeOf({0})
  BY DEF Failed, OutcomeOf
<1>5. CardFault(s) \subseteq OutcomeOf({0})
  BY <1>1, <1>4, Zenon DEF CardFault
<1>6. QED
  BY <1>2, <1>3, <1>4, <1>5

(* The fields that only file operations and the allocation change.         *)
Same(s, t) ==
  t.this = s.this /\ t.mayFail = s.mayFail /\ t.searchStart = s.searchStart
(* t is s with another disk. *)
OnlyDisk(s, t) ==
  /\ t \in State /\ Same(s, t) /\ t.fault = s.fault
  /\ t.cacheBlock = s.cacheBlock /\ t.cacheData = s.cacheData
  /\ t.cacheDirty = s.cacheDirty /\ t.cacheMirror = s.cacheMirror

LEMMA OfReadBlock ==
  ASSUME NEW s \in State, NEW b \in Primary, NEW o \in ReadBlock(s, b)
  PROVE  /\ o.ok => o.s = s /\ o.result = s.disk[b]
         /\ ~ o.ok => o \in OutcomeOf({0}) /\ o.s.fault /\ o.s.disk = s.disk
<1>1. o \in Success(s, s.disk[b]) \cup CardFault(s)
  BY BlockKinds DEF ReadBlock
<1>2. CASE o \in Success(s, s.disk[b])
  BY <1>2, OfSuccess
<1>3. CASE o \in CardFault(s)
  <2>1. ~ o.ok /\ o.s = [s EXCEPT !.fault = TRUE]
    BY <1>3, OfCardFault
  <2>2. o.s.fault /\ o.s.disk = s.disk
    BY <2>1 DEF State
  <2>3. QED
    BY <1>3, <2>1, <2>2, OutcomeTypes
<1>4. QED
  BY <1>1, <1>2, <1>3

LEMMA OfWriteBlock ==
  ASSUME NEW s \in State, NEW b \in Blocks, NEW data \in Data,
         NEW o \in WriteBlock(s, b, data)
  PROVE  LET disk == [s.disk EXCEPT ![b] = data]
         IN /\ o \in OutcomeOf({0})
            /\ o.ok => OnlyDisk(s, o.s) /\ o.s.disk = disk
            /\ ~ o.ok => o.s.fault /\ o.s.disk \in {s.disk, disk}
<1> DEFINE disk == [s.disk EXCEPT ![b] = data]
           t == [s EXCEPT !.disk = disk]
<1>1. disk \in [Blocks -> Data]
  BY DEF State
<1>2. o \in Done(t) \cup CardFault(t) \cup CardFault(s)
  BY DEF WriteBlock
<1> HIDE DEF disk
<1>3. t \in State /\ t.disk = disk /\ OnlyDisk(s, t)
  BY <1>1 DEF State, OnlyDisk, Same
<1> HIDE DEF t
<1>4. CASE o \in Done(t)
  BY <1>3, <1>4, OfDone, OutcomeTypes DEF disk
<1>5. ASSUME NEW u \in {s, t}, o \in CardFault(u)
      PROVE  o \in OutcomeOf({0}) /\ ~ o.ok /\ o.s.fault /\ o.s.disk = u.disk
  <2>1. ~ o.ok /\ o.s = [u EXCEPT !.fault = TRUE]
    BY <1>5, OfCardFault
  <2>2. u \in State
    BY <1>3
  <2>3. o.s.fault /\ o.s.disk = u.disk
    BY <2>1, <2>2 DEF State
  <2>4. QED
    BY <1>5, <2>1, <2>2, <2>3, OutcomeTypes
<1>6. QED
  BY <1>2, <1>3, <1>4, <1>5 DEF disk

(* A call that a card command cut short: what is on the card is in D.      *)
Faulted(o, D) == /\ o \in OutcomeOf({0}) /\ ~ o.ok
                 /\ o.s.fault /\ OnCard(o.s.disk) \in D

(* The second write of cacheFlush, and what it leaves in the cache.        *)
WriteMirror(s) == IF s.cacheMirror = NoBlock THEN Done(s)
                  ELSE WriteBlock(s, s.cacheMirror, s.cacheData)
Clean(s) == [s EXCEPT !.cacheMirror = NoBlock, !.cacheDirty = FALSE]

LEMMA CacheFlushSteps ==
  ASSUME NEW s, s.cacheDirty, NEW o \in CacheFlush(s)
  PROVE  \E p \in WriteBlock(s, s.cacheBlock, s.cacheData) :
           /\ ~ p.ok => o = p
           /\ p.ok => \E q \in WriteMirror(p.s) : /\ ~ q.ok => o = q
                                                  /\ q.ok => o \in Done(Clean(q.s))
<1> DEFINE N(p) == UNION {IF q.ok THEN Done(Clean(q.s)) ELSE {q} : q \in WriteMirror(p.s)}
<1>1. o \in UNION {IF p.ok THEN N(p) ELSE {p} :
                   p \in WriteBlock(s, s.cacheBlock, s.cacheData)}
  BY DEF CacheFlush, Then, WriteMirror, Clean
<1>2. PICK p \in WriteBlock(s, s.cacheBlock, s.cacheData) :
        o \in IF p.ok THEN N(p) ELSE {p}
  BY <1>1
<1>3. QED
  BY <1>2

(* One block written: the card then holds what the library sees, if it is  *)
(* the block in the cache, and what it held, if it is no primary block.    *)
LEMMA OnCardWrite ==
  ASSUME NEW disk \in [Blocks -> Data], NEW b \in Blocks, NEW data
  PROVE  OnCard([disk EXCEPT ![b] = data]) =
           IF b \in Primary THEN [OnCard(disk) EXCEPT ![b] = data] ELSE OnCard(disk)
BY BlockKinds DEF OnCard

LEMMA CachedData ==
  ASSUME NEW s \in State, View(s) \in Views, s.cacheBlock \in Primary
  PROVE  s.cacheData = View(s)[s.cacheBlock] /\ s.cacheData \in Data
BY DEF View, Views

LEMMA OfCacheFlush ==
  ASSUME NEW D \in SUBSET Views, NEW s, Good(s, D), NEW o \in CacheFlush(s)
  PROVE  /\ o \in OutcomeOf({0})
         /\ o.ok => /\ Good(o.s, D) /\ Same(s, o.s) /\ View(o.s) = View(s)
                    /\ OnCard(o.s.disk) = View(s)
                    /\ ~ o.s.cacheDirty /\ o.s.cacheMirror = NoBlock
                    /\ o.s.cacheBlock = s.cacheBlock /\ o.s.cacheData = s.cacheData
         /\ ~ o.ok => Faulted(o, D)
<1>1. s \in State /\ Coherent(s) /\ ~ s.fault /\ View(s) \in D /\ OnCard(s.disk) \in D
  BY DEF Good
<1>2. CASE ~ s.cacheDirty
  <2>1. o \in Done(s)
    BY <1>2, Zenon DEF CacheFlush
  <2>2. o.ok /\ o.s = s /\ o \in OutcomeOf({0})
    BY <1>1, <2>1, OfDone, OutcomeTypes
  <2>3. OnCard(s.disk) = View(s)
    BY <1>1, <1>2, BlockKinds DEF Coherent, OnCard, View, State
  <2>4. s.cacheMirror = NoBlock
    BY <1>1, <1>2 DEF Coherent
  <2>5. QED
    BY <1>1, <1>2, <2>2, <2>3, <2>4 DEF Good, Same
<1>3. CASE s.cacheDirty
  <2>1. /\ s.cacheBlock \in Primary /\ s.cacheBlock \in Blocks /\ s.cacheData \in Data
        /\ s.cacheMirror \in Mirrors \cup {NoBlock} /\ s.disk \in [Blocks -> Data]
    BY <1>1, <1>3, BlockKinds, CachedData DEF Coherent, State
  <2>2. PICK p \in WriteBlock(s, s.cacheBlock, s.cacheData) :
           /\ ~ p.ok => o = p
           /\ p.ok => \E q \in WriteMirror(p.s) : /\ ~ q.ok => o = q
                                                  /\ q.ok => o \in Done(Clean(q.s))
    BY <1>3, CacheFlushSteps
  <2> DEFINE d == [s.disk EXCEPT ![s.cacheBlock] = s.cacheData]
  <2>3. /\ p \in OutcomeOf({0})
        /\ p.ok => OnlyDisk(s, p.s) /\ p.s.disk = d
        /\ ~ p.ok => p.s.fault /\ p.s.disk \in {s.disk, d}
    BY <1>1, <2>1, OfWriteBlock
  <2>4. OnCard(d) = View(s) /\ d \in [Blocks -> Data] /\ d[s.cacheBlock] = s.cacheData
    BY <1>1, <2>1, BlockKinds DEF OnCard, View
  <2> HIDE DEF d
  <2>5. CASE ~ p.ok
    BY <1>1, <2>2, <2>3, <2>4, <2>5 DEF Faulted
  <2>6. CASE p.ok
    <3>1. PICK q \in WriteMirror(p.s) : /\ ~ q.ok => o = q
                                        /\ q.ok => o \in Done(Clean(q.s))
      BY <2>2, <2>6
    <3>2. p.s \in State /\ p.s.disk = d /\ OnlyDisk(s, p.s)
      BY <2>3, <2>6 DEF OnlyDisk
    <3>3. /\ q \in OutcomeOf({0})
          /\ q.ok => OnlyDisk(s, q.s) /\ OnCard(q.s.disk) = View(s)
                       /\ q.s.disk[s.cacheBlock] = s.cacheData
          /\ ~ q.ok => q.s.fault /\ OnCard(q.s.disk) = View(s)
      <4>1. CASE s.cacheMirror = NoBlock
        <5>1. q \in Done(p.s)
          BY <3>2, <4>1, Zenon DEF WriteMirror, OnlyDisk
        <5>2. QED
          BY <5>1, <2>4, <3>2, OfDone, OutcomeTypes
      <4>2. CASE s.cacheMirror # NoBlock
        <5>1. q \in WriteBlock(p.s, s.cacheMirror, s.cacheData)
          BY <3>2, <4>2, Zenon DEF WriteMirror, OnlyDisk
        <5>2. s.cacheMirror \in Blocks /\ s.cacheMirror \notin Primary
          BY <2>1, <4>2, BlockKinds
        <5> DEFINE e == [d EXCEPT ![s.cacheMirror] = s.cacheData]
        <5>3. OnCard(e) = View(s) /\ e[s.cacheBlock] = s.cacheData
          BY <2>1, <2>4, <5>2, OnCardWrite
        <5>4. /\ q \in OutcomeOf({0})
              /\ q.ok => OnlyDisk(p.s, q.s) /\ q.s.disk = e
              /\ ~ q.ok => q.s.fault /\ q.s.disk \in {d, e}
          BY <2>1, <3>2, <5>1, <5>2, OfWriteBlock
        <5> HIDE DEF e
        <5>5. QED
          BY <2>4, <3>2, <5>3, <5>4 DEF OnlyDisk, Same
      <4>3. QED
        BY <4>1, <4>2
    <3>4. CASE ~ q.ok
      BY <1>1, <3>1, <3>3, <3>4 DEF Faulted
    <3>5. CASE q.ok
      <4> DEFINE t == Clean(q.s)
      <4>1. o \in Done(t)
        BY <3>1, <3>5
      <4>2. q.s \in State /\ OnlyDisk(s, q.s)
        BY <3>3, <3>5 DEF OnlyDisk
      <4>3. /\ t \in State /\ ~ t.cacheDirty /\ t.cacheMirror = NoBlock /\ ~ t.fault
            /\ Same(s, t) /\ t.disk = q.s.disk
            /\ t.cacheBlock = s.cacheBlock /\ t.cacheData = s.cacheData
        BY <1>1, <4>2 DEF Clean, State, OnlyDisk, Same
      <4> HIDE DEF t
      <4>4. View(t) = View(s) /\ OnCard(t.disk) = View(s) /\ t.disk[t.cacheBlock] = t.cacheData
        <5>1. OnCard(t.disk) = View(s) /\ t.disk[t.cacheBlock] = t.cacheData
          BY <3>3, <3>5, <4>3
        <5>2. View(t) = OnCard(t.disk)
          BY <4>3, <5>1 DEF View, OnCard
        <5>3. QED
          BY <5>1, <5>2
      <4>5. Good(t, D)
        BY <1>1, <4>3, <4>4 DEF Good, Coherent
      <4>6. QED
        BY <4>1, <4>3, <4>4, <4>5, OfDone, OutcomeTypes
    <3>6. QED
      BY <3>4, <3>5
  <2>7. QED
    BY <2>5, <2>6
<1>4. QED
  BY <1>2, <1>3

(* What cacheRawBlock leaves in the cache.                                 *)
Loaded(s, b, data, write) ==
  [s EXCEPT !.cacheBlock = b, !.cacheData = data, !.cacheDirty = @ \/ write]

LEMMA CacheRawBlockSteps ==
  ASSUME NEW s, NEW b, NEW write, s.cacheBlock # b, NEW o \in CacheRawBlock(s, b, write)
  PROVE  \E p \in CacheFlush(s) :
           /\ ~ p.ok => o = p
           /\ p.ok => \E q \in ReadBlock(p.s, b) :
                        /\ ~ q.ok => o = q
                        /\ q.ok => o \in Done(Loaded(q.s, b, q.result, write))
<1> DEFINE N(p) == UNION {IF q.ok THEN Done(Loaded(q.s, b, q.result, write)) ELSE {q} :
                         q \in ReadBlock(p.s, b)}
<1>1. o \in UNION {IF p.ok THEN N(p) ELSE {p} : p \in CacheFlush(s)}
  BY DEF CacheRawBlock, Then, Loaded
<1>2. PICK p \in CacheFlush(s) : o \in IF p.ok THEN N(p) ELSE {p}
  BY <1>1
<1>3. QED
  BY <1>2

(* The block is in the cache as the library saw it; the block that was     *)
(* there before, if it was dirty, is on the card.                          *)
LEMMA OfCacheRawBlock ==
  ASSUME NEW D \in SUBSET Views, NEW s, Good(s, D), NEW b \in Primary,
         NEW write \in BOOLEAN, NEW o \in CacheRawBlock(s, b, write)
  PROVE  /\ o \in OutcomeOf({0})
         /\ o.ok => /\ Good(o.s, D) /\ Same(s, o.s) /\ View(o.s) = View(s)
                    /\ OnCard(o.s.disk) \in {OnCard(s.disk), View(s)}
                    /\ o.s.cacheBlock = b /\ o.s.cacheData = View(s)[b]
                    /\ o.s.cacheDirty <=> (write \/ (s.cacheDirty /\ s.cacheBlock = b))
         /\ ~ o.ok => Faulted(o, D)
<1>1. s \in State /\ Coherent(s) /\ ~ s.fault /\ View(s) \in D /\ OnCard(s.disk) \in D
  BY DEF Good
<1>2. b # NoBlock
  BY BlockKinds
<1>3. CASE s.cacheBlock = b
  <2> DEFINE t == [s EXCEPT !.cacheDirty = @ \/ write]
  <2>1. o \in Done(t)
    BY <1>3 DEF CacheRawBlock
  <2>2. /\ t \in State /\ Same(s, t) /\ t.disk = s.disk /\ t.fault = s.fault
        /\ t.cacheBlock = b /\ t.cacheData = s.cacheData
        /\ t.cacheMirror = s.cacheMirror
        /\ t.cacheDirty <=> (s.cacheDirty \/ write)
    BY <1>1, <1>3 DEF State, Same
  <2> HIDE DEF t
  <2>3. View(t) = View(s) /\ t.cacheData = View(s)[b]
    BY <1>3, <2>2 DEF View
  <2>4. Good(t, D)
    BY <1>1, <1>2, <1>3, <2>2, <2>3 DEF Good, Coherent
  <2>5. o.ok /\ o.s = t /\ o \in OutcomeOf({0})
    BY <2>1, <2>2, OfDone, OutcomeTypes
  <2>6. QED
    BY <1>3, <2>2, <2>3, <2>4, <2>5
<1>4. CASE s.cacheBlock # b
  <2>1. PICK p \in CacheFlush(s) :
           /\ ~ p.ok => o = p
           /\ p.ok => \E q \in ReadBlock(p.s, b) :
                        /\ ~ q.ok => o = q
                        /\ q.ok => o \in Done(Loaded(q.s, b, q.result, write))
    BY <1>4, CacheRawBlockSteps
  <2>2. /\ p \in OutcomeOf({0})
        /\ p.ok => /\ Good(p.s, D) /\ Same(s, p.s) /\ View(p.s) = View(s)
                    /\ OnCard(p.s.disk) = View(s)
                    /\ ~ p.s.cacheDirty /\ p.s.cacheMirror = NoBlock
        /\ ~ p.ok => Faulted(p, D)
    BY OfCacheFlush
  <2>3. CASE ~ p.ok
    BY <2>1, <2>2, <2>3
  <2>4. CASE p.ok
    <3>1. PICK q \in ReadBlock(p.s, b) :
                        /\ ~ q.ok => o = q
                        /\ q.ok => o \in Done(Loaded(q.s, b, q.result, write))
      BY <2>1, <2>4
    <3>2. p.s \in State /\ OnCard(p.s.disk) = View(s) /\ ~ p.s.cacheDirty
            /\ p.s.cacheMirror = NoBlock /\ Same(s, p.s) /\ ~ p.s.fault
      BY <2>2, <2>4 DEF Good
    <3>3. /\ q.ok => q.s = p.s /\ q.result = p.s.disk[b]
          /\ ~ q.ok => q \in OutcomeOf({0}) /\ q.s.fault /\ q.s.disk = p.s.disk
      BY <3>2, OfReadBlock
    <3>4. CASE ~ q.ok
      BY <1>1, <3>1, <3>2, <3>3, <3>4 DEF Faulted
    <3>5. CASE q.ok
      <4> DEFINE t == Loaded(q.s, b, q.result, write)
      <4>1. q.s = p.s /\ q.result \in Data /\ q.result = View(s)[b]
              /\ q.result = p.s.disk[b]
        <5>1. q.s = p.s /\ q.result = p.s.disk[b]
          BY <3>3, <3>5
        <5>2. q.result = OnCard(p.s.disk)[b]
          BY <5>1 DEF OnCard
        <5>3. View(s)[b] \in Data
          BY <1>1 DEF Views
        <5>4. QED
          BY <5>1, <5>2, <5>3, <3>2
      <4>2. o.s = t /\ o.ok
        BY <3>1, <3>5, OfDone
      <4>3. /\ t \in State /\ Same(s, t) /\ t.disk = p.s.disk /\ ~ t.fault
            /\ t.cacheBlock = b /\ t.cacheData = q.result
            /\ t.cacheMirror = NoBlock
            /\ t.cacheDirty <=> write
        BY <3>2, <4>1 DEF State, Same, Loaded
      <4>4. o \in OutcomeOf({0})
        BY <3>1, <3>5, <4>3, OutcomeTypes
      <4> HIDE DEF t
      <4>5. View(t) = View(s)
        <5>1. View(t) = OnCard(t.disk)
          BY <4>1, <4>3 DEF View, OnCard
        <5>2. QED
          BY <3>2, <4>3, <5>1
      <4>6. Good(t, D)
        BY <1>1, <1>2, <3>2, <4>1, <4>3, <4>5 DEF Good, Coherent
      <4>7. QED
        BY <1>4, <3>2, <4>1, <4>2, <4>3, <4>4, <4>5, <4>6
    <3>6. QED
      BY <3>4, <3>5
  <2>5. QED
    BY <2>3, <2>4
<1>5. QED
  BY <1>3, <1>4

(* For reading and for writing.                                            *)
CacheForReading(s, b) == CacheRawBlock(s, b, FALSE)
CacheForWriting(s, b) == CacheRawBlock(s, b, TRUE)

LEMMA OfCacheForReading ==
  ASSUME NEW D \in SUBSET Views, NEW s, Good(s, D), NEW b \in Primary,
         NEW o \in CacheForReading(s, b)
  PROVE  /\ o \in OutcomeOf({0})
         /\ o.ok => /\ Good(o.s, D) /\ Same(s, o.s) /\ View(o.s) = View(s)
                    /\ OnCard(o.s.disk) \in {OnCard(s.disk), View(s)}
                    /\ o.s.cacheBlock = b /\ o.s.cacheData = View(s)[b]
                    /\ o.s.cacheDirty => s.cacheDirty /\ s.cacheBlock = b
         /\ ~ o.ok => Faulted(o, D)
<1>1. PICK write \in BOOLEAN : ~ write /\ o \in CacheRawBlock(s, b, write)
  BY Zenon DEF CacheForReading
<1>2. o \in CacheRawBlock(s, b, write)
  BY <1>1
<1>3. /\ o \in OutcomeOf({0})
      /\ o.ok => /\ Good(o.s, D) /\ Same(s, o.s) /\ View(o.s) = View(s)
                 /\ OnCard(o.s.disk) \in {OnCard(s.disk), View(s)}
                 /\ o.s.cacheBlock = b /\ o.s.cacheData = View(s)[b]
                 /\ o.s.cacheDirty <=> (write \/ (s.cacheDirty /\ s.cacheBlock = b))
      /\ ~ o.ok => Faulted(o, D)
  BY <1>2, OfCacheRawBlock
<1>4. QED
  BY <1>1, <1>3

LEMMA OfCacheForWriting ==
  ASSUME NEW D \in SUBSET Views, NEW s, Good(s, D), NEW b \in Primary,
         NEW o \in CacheForWriting(s, b)
  PROVE  /\ o \in OutcomeOf({0})
         /\ o.ok => /\ Good(o.s, D) /\ Same(s, o.s) /\ View(o.s) = View(s)
                    /\ OnCard(o.s.disk) \in {OnCard(s.disk), View(s)}
                    /\ o.s.cacheBlock = b /\ o.s.cacheData = View(s)[b]
                    /\ o.s.cacheDirty
         /\ ~ o.ok => Faulted(o, D)
<1>1. PICK write \in BOOLEAN : write /\ o \in CacheRawBlock(s, b, write)
  BY Zenon DEF CacheForWriting
<1>2. o \in CacheRawBlock(s, b, write)
  BY <1>1
<1>3. /\ o \in OutcomeOf({0})
      /\ o.ok => /\ Good(o.s, D) /\ Same(s, o.s) /\ View(o.s) = View(s)
                 /\ OnCard(o.s.disk) \in {OnCard(s.disk), View(s)}
                 /\ o.s.cacheBlock = b /\ o.s.cacheData = View(s)[b]
                 /\ o.s.cacheDirty <=> (write \/ (s.cacheDirty /\ s.cacheBlock = b))
      /\ ~ o.ok => Faulted(o, D)
  BY <1>2, OfCacheRawBlock
<1>4. QED
  BY <1>1, <1>3

-----------------------------------------------------------------------------
(* The file allocation table.                                              *)
FatIn(v, c) == v[FatBlock(c)][c]
SetFat(v, c, x) == [v EXCEPT ![FatBlock(c)] = [@ EXCEPT ![c] = x]]

LEMMA FatTyped ==
  ASSUME NEW v \in Views, NEW c \in 0 .. LastCluster
  PROVE  /\ FatBlock(c) \in FatBlocks /\ FatBlock(c) \in Primary
         /\ v[FatBlock(c)] \in Data /\ c \in DOMAIN v[FatBlock(c)]
         /\ v[FatBlock(c)] \in [DOMAIN v[FatBlock(c)] -> 0 .. EOC]
         /\ FatIn(v, c) \in 0 .. EOC
<1>1. FatBlock(c) \in FatBlocks /\ FatBlock(c) \in Primary /\ FatBlock(c)[2] = c \div FatPerBlock
  BY DEF FatBlocks, FatBlock, Primary
<1>2. v[FatBlock(c)] \in FatData(c \div FatPerBlock) /\ v[FatBlock(c)] \in Data
  BY <1>1 DEF Views
<1>3. QED
  BY <1>1, <1>2 DEF FatData, FatIn

(* Only the entry changes.                                                 *)
LEMMA SetFatEntry ==
  ASSUME NEW v \in Views, NEW c \in 0 .. LastCluster, NEW x \in 0 .. EOC
  PROVE  /\ SetFat(v, c, x) \in Views
         /\ SetFat(v, c, x)[DirBlock] = v[DirBlock]
         /\ \A b \in DataBlocks : SetFat(v, c, x)[b] = v[b]
         /\ \A d \in 0 .. LastCluster :
              FatIn(SetFat(v, c, x), d) = IF d = c THEN x ELSE FatIn(v, d)
<1> DEFINE b == FatBlock(c)
           data == [v[b] EXCEPT ![c] = x]
           w == [v EXCEPT ![b] = data]
<1>1. b \in FatBlocks /\ b \in Primary /\ b[2] = c \div FatPerBlock /\ c \in DOMAIN v[b]
  BY FatTyped DEF FatBlock
<1>2. v \in [Primary -> Data] /\ v[b] \in FatData(b[2])
  BY <1>1 DEF Views
<1>3. data \in FatData(b[2]) /\ data \in Data
  <2>1. data \in FatData(b[2])
    BY <1>2 DEF FatData
  <2>2. QED
    BY <1>1, <2>1 DEF Data
<1>4. \A d \in 0 .. LastCluster : d \in DOMAIN v[FatBlock(d)]
  BY FatTyped
<1>5. \A d \in DOMAIN v[b] : data[d] = IF d = c THEN x ELSE v[b][d]
  BY <1>2 DEF FatData
<1> HIDE DEF data
<1>6. w \in [Primary -> Data] /\ w[b] = data /\ \A a \in Primary \ {b} : w[a] = v[a]
  BY <1>1, <1>2, <1>3
<1>7. w \in Views
  BY <1>1, <1>3, <1>6, BlockKinds DEF Views, Primary
<1>8. ASSUME NEW d \in 0 .. LastCluster
      PROVE  FatIn(w, d) = IF d = c THEN x ELSE FatIn(v, d)
  <2>1. FatBlock(d) \in Primary
    BY FatTyped
  <2>2. CASE FatBlock(d) = b
    BY <1>4, <1>5, <1>6, <2>2 DEF FatIn
  <2>3. CASE FatBlock(d) # b
    BY <1>6, <2>1, <2>3 DEF FatIn
  <2>4. QED
    BY <2>2, <2>3
<1>9. w = SetFat(v, c, x)
  BY DEF SetFat, data
<1> HIDE DEF w
<1>10. QED
  BY <1>1, <1>6, <1>7, <1>8, <1>9, BlockKinds DEF Primary

(* A state that differs from s in what is cached only; the dirty block, if *)
(* there still is one, is the same.                                        *)
Kept(s, t) ==
  /\ Same(s, t) /\ View(t) = View(s)
  /\ t.cacheDirty => s.cacheDirty /\ t.cacheBlock = s.cacheBlock

LEMMA OfFatGet ==
  ASSUME NEW D \in SUBSET Views, NEW s, Good(s, D), NEW c \in Clusters,
         NEW o \in FatGet(s, c)
  PROVE  /\ o.ok => /\ o \in OutcomeOf(0 .. EOC) /\ Good(o.s, D) /\ Kept(s, o.s)
                    /\ o.result = FatIn(View(s), c)
         /\ ~ o.ok => Faulted(o, D)
<1>1. c \in 0 .. LastCluster /\ View(s) \in Views
  BY DEF Clusters, Good
<1>2. FatBlock(c) \in Primary
  BY <1>1, FatTyped
<1>3. PICK p \in CacheForReading(s, FatBlock(c)) :
        o \in IF p.ok THEN Success(p.s, p.s.cacheData[c]) ELSE {p}
  <2>1. ~ c > LastCluster
    BY <1>1, VolumeAssumption DEF LastCluster
  <2>2. QED
    BY <2>1, Zenon DEF FatGet, Then, CacheForReading
<1>4. /\ p \in OutcomeOf({0})
      /\ p.ok => /\ Good(p.s, D) /\ Same(s, p.s) /\ View(p.s) = View(s)
                 /\ p.s.cacheBlock = FatBlock(c) /\ p.s.cacheData = View(s)[FatBlock(c)]
                 /\ p.s.cacheDirty => s.cacheDirty /\ s.cacheBlock = FatBlock(c)
      /\ ~ p.ok => Faulted(p, D)
  BY <1>2, OfCacheForReading
<1>5. CASE p.ok
  <2>1. o \in Success(p.s, FatIn(View(s), c))
    BY <1>3, <1>4, <1>5 DEF FatIn
  <2>2. FatIn(View(s), c) \in 0 .. EOC
    BY <1>1, FatTyped
  <2>3. p.s \in State
    BY <1>4, <1>5 DEF Good
  <2>4. o.ok /\ o.s = p.s /\ o.result = FatIn(View(s), c)
    BY <2>1, OfSuccess
  <2>5. o \in OutcomeOf(0 .. EOC)
    BY <2>1, <2>2, <2>3, OutcomeTypes
  <2>6. QED
    BY <1>4, <1>5, <2>4, <2>5 DEF Kept
<1>6. CASE ~ p.ok
  BY <1>3, <1>4, <1>6
<1>7. QED
  BY <1>5, <1>6

LEMMA OfFatPut ==
  ASSUME NEW D \in SUBSET Views, NEW s, Good(s, D), NEW c \in Clusters,
         NEW x \in 0 .. EOC, SetFat(View(s), c, x) \in D, NEW o \in FatPut(s, c, x)
  PROVE  /\ o \in OutcomeOf({0})
         /\ o.ok => /\ Good(o.s, D) /\ Same(s, o.s)
                    /\ View(o.s) = SetFat(View(s), c, x)
                    /\ o.s.cacheBlock = FatBlock(c)
         /\ ~ o.ok => Faulted(o, D)
<1> DEFINE b == FatBlock(c)
           N(p) == [p.s EXCEPT !.cacheData[c] = x, !.cacheDirty = TRUE,
                        !.cacheMirror = IF FatCopies > 1 THEN MirrorOf(b) ELSE @]
<1>1. c \in 0 .. LastCluster /\ View(s) \in Views
  BY DEF Clusters, Good
<1>2. b \in Primary /\ b \in FatBlocks /\ MirrorOf(b) \in Mirrors /\ b # NoBlock
  BY <1>1, FatTyped, BlockKinds DEF Mirrors
<1>3. PICK p \in CacheForReading(s, b) : o \in IF p.ok THEN Done(N(p)) ELSE {p}
  <2>1. ~ (c < 2 \/ c > LastCluster)
    BY VolumeAssumption DEF LastCluster, Clusters
  <2>2. QED
    BY <2>1, Zenon DEF FatPut, Then, CacheForReading
<1>4. /\ p \in OutcomeOf({0})
      /\ p.ok => /\ Good(p.s, D) /\ Same(s, p.s) /\ View(p.s) = View(s)
                 /\ p.s.cacheBlock = b /\ p.s.cacheData = View(s)[b]
      /\ ~ p.ok => Faulted(p, D)
  BY <1>2, OfCacheForReading
<1>5. CASE p.ok
  <2> DEFINE t == N(p)
             data == [View(s)[b] EXCEPT ![c] = x]
             w == SetFat(View(s), c, x)
  <2>1. p.s \in State /\ ~ p.s.fault /\ OnCard(p.s.disk) \in D
    BY <1>4, <1>5 DEF Good
  <2>2. w[b] = data /\ \A a \in Primary \ {b} : w[a] = View(s)[a]
    BY <1>1, <1>2 DEF SetFat, Views
  <2>3. w \in Views
    BY <1>1, SetFatEntry
  <2>4. data \in Data
    BY <1>2, <2>2, <2>3 DEF Views
  <2>5. /\ t \in State /\ Same(p.s, t) /\ ~ t.fault /\ t.disk = p.s.disk
        /\ t.cacheBlock = b /\ t.cacheData = data /\ t.cacheDirty = TRUE
    <3>1. [p.s.cacheData EXCEPT ![c] = x] = data
      BY <1>4, <1>5
    <3> HIDE DEF data, b
    <3>2. t = [p.s EXCEPT !.cacheData = data, !.cacheDirty = TRUE,
                 !.cacheMirror = IF FatCopies > 1 THEN MirrorOf(b) ELSE p.s.cacheMirror]
      BY <2>1, <3>1 DEF State
    <3> HIDE DEF t
    <3>3. QED
      BY <1>2, <1>4, <1>5, <2>1, <2>4, <3>2 DEF State, Same
  <2>6. o.ok /\ o.s = t /\ o \in OutcomeOf({0})
    BY <1>3, <1>5, <2>5, OfDone, OutcomeTypes
  <2> HIDE DEF t, data, w
  <2>7. View(t) = w
    <3>1. View(p.s) \in Views /\ \A a \in Primary \ {b} : View(t)[a] = View(p.s)[a]
      BY <1>1, <1>4, <1>5, <2>5 DEF View
    <3>2. View(t)[b] = data
      BY <1>2, <2>5 DEF View
    <3>3. DOMAIN w = Primary /\ w = [a \in Primary |-> w[a]]
      BY <2>3 DEF Views
    <3>4. View(t) = [a \in Primary |-> View(t)[a]]
      BY DEF View
    <3>5. \A a \in Primary : View(t)[a] = w[a]
      BY <1>4, <1>5, <2>2, <3>1, <3>2
    <3>6. QED
      BY <3>3, <3>4, <3>5
  <2>8. Good(t, D)
    BY <1>2, <2>1, <2>5, <2>7 DEF Good, Coherent, w
  <2>9. QED
    BY <1>4, <1>5, <2>5, <2>6, <2>7, <2>8 DEF Same, w
<1>6. CASE ~ p.ok
  BY <1>3, <1>4, <1>6
<1>7. QED
  BY <1>5, <1>6

(* The search for a free cluster.                                          *)
SearchResult == [found : BOOLEAN, end : 2 .. EOC]

Searched(s, D) ==
  {o \in OutcomeOf(SearchResult \cup {0}) :
     /\ o.ok => /\ o.result \in SearchResult /\ Good(o.s, D) /\ Kept(s, o.s)
                /\ o.result.found =>
                     o.result.end \in Clusters /\ FatIn(View(s), o.result.end) = 0
     /\ ~ o.ok => Faulted(o, D)}

LEMMA OfLookAt ==
  ASSUME NEW D \in SUBSET Views, NEW s, NEW o \in Searched(s, D), o.ok
  PROVE  LookAt(o) \subseteq Searched(s, D)
<1> DEFINE c == IF o.result.end > LastCluster THEN 2 ELSE o.result.end
           N(p) == IF p.result = 0 THEN [found |-> TRUE, end |-> c]
                   ELSE [found |-> FALSE, end |-> c + 1]
<1>1. SUFFICES ASSUME NEW q \in LookAt(o) PROVE q \in Searched(s, D)
  OBVIOUS
<1>2. CASE o.result.found
  BY <1>2, Zenon DEF LookAt
<1>3. CASE ~ o.result.found
  <2>1. o.result \in SearchResult /\ Good(o.s, D) /\ Kept(s, o.s)
    BY DEF Searched
  <2>2. c \in Clusters /\ c \in 2 .. EOC /\ c + 1 \in 2 .. EOC
    BY <2>1, VolumeAssumption DEF SearchResult, Clusters, LastCluster, EOC
  <2>3. PICK p \in FatGet(o.s, c) : q \in IF p.ok THEN Success(p.s, N(p)) ELSE {p}
    BY <1>3, Zenon DEF LookAt, Then
  <2> HIDE DEF c
  <2>4. /\ p.ok => /\ p \in OutcomeOf(0 .. EOC) /\ Good(p.s, D) /\ Kept(o.s, p.s)
                   /\ p.result = FatIn(View(o.s), c)
        /\ ~ p.ok => Faulted(p, D)
    BY <2>1, <2>2, OfFatGet
  <2>5. CASE p.ok
    <3>1. q \in Success(p.s, N(p)) /\ p.s \in State
      BY <2>3, <2>4, <2>5 DEF Good
    <3>2. N(p) \in SearchResult
      BY <2>2 DEF SearchResult
    <3>3. q.ok /\ q.s = p.s /\ q.result = N(p) /\ q \in OutcomeOf(SearchResult)
      <4> HIDE DEF N
      <4>1. QED
        BY <3>1, <3>2, OfSuccess, OutcomeTypes
    <3>4. q \in OutcomeOf(SearchResult \cup {0})
      BY <3>3 DEF OutcomeOf
    <3>5. Kept(s, p.s) /\ View(o.s) = View(s)
      BY <2>1, <2>4, <2>5 DEF Kept, Same
    <3>6. q.result.found => p.result = 0 /\ q.result.end = c
      BY <3>3
    <3>7. QED
      BY <2>2, <2>4, <2>5, <3>2, <3>3, <3>4, <3>5, <3>6 DEF Searched
  <2>6. CASE ~ p.ok
    BY <2>3, <2>4, <2>6 DEF Searched, Faulted, OutcomeOf
  <2>7. QED
    BY <2>5, <2>6
<1>4. QED
  BY <1>2, <1>3

LEMMA OfSearch ==
  ASSUME NEW D \in SUBSET Views, NEW s, NEW start \in SUBSET Searched(s, D),
         NEW n \in Nat
  PROVE  Repeat(start, LookAt, n) \subseteq Searched(s, D)
<1> DEFINE Y == Searched(s, D)
           G(o) == IF o.ok THEN LookAt(o) ELSE {o}
           Round == [o \in Y |-> G(o)]
           f == CHOOSE f : f = [k \in Nat |-> IF k = 0 THEN start
                                              ELSE UNION {G(o) : o \in f[k - 1]}]
<1>1. Repeat(start, LookAt, n) = f[n]
  BY DEF Repeat, Then
<1>2. \A o \in Y : G(o) \in SUBSET Y
  BY OfLookAt
<1> HIDE DEF Y, G
<1>3. Round \in [Y -> SUBSET Y]
  BY <1>2
<1>4. PICK g : g \in Rounds(Y, start, Round)
  <2> HIDE DEF Round
  <2>1. start \in SUBSET Y
    BY DEF Y
  <2>2. QED
    BY <1>3, <2>1, RoundsExist
<1>5. g = [k \in Nat |-> IF k = 0 THEN start ELSE UNION {G(o) : o \in g[k - 1]}]
  <2> USE <1>4 DEF Rounds
  <2>1. ASSUME NEW k \in Nat
        PROVE  g[k] = IF k = 0 THEN start ELSE UNION {G(o) : o \in g[k - 1]}
    <3>1. CASE k = 0
      BY <1>4, <3>1
    <3>2. CASE k # 0
      <4>1. k - 1 \in Nat
        BY <3>2
      <4>2. g[k - 1] \in SUBSET Y
        BY <4>1
      <4>3. \A o \in g[k - 1] : Round[o] = G(o)
        BY <4>2
      <4>4. g[k] = UNION {Round[o] : o \in g[k - 1]}
        BY <3>2
      <4> HIDE DEF Round
      <4>5. QED
        BY <3>2, <4>3, <4>4
    <3>3. QED
      BY <3>1, <3>2
  <2>2. QED
    BY <2>1
<1>6. f = [k \in Nat |-> IF k = 0 THEN start ELSE UNION {G(o) : o \in f[k - 1]}]
  BY <1>5
<1> HIDE DEF f
<1> DEFINE S == {k \in Nat : f[k] \subseteq Y}
<1>7. 0 \in S
  BY <1>6 DEF Y
<1>8. ASSUME NEW k \in Nat, k \in S PROVE k + 1 \in S
  <2>1. k + 1 \in Nat /\ k + 1 # 0 /\ (k + 1) - 1 = k
    OBVIOUS
  <2>2. f[k + 1] = UNION {G(o) : o \in f[k]}
    BY <1>6, <2>1
  <2>3. QED
    BY <1>2, <1>8, <2>2
<1>9. n \in S
  <2> HIDE DEF S
  <2>1. QED
    BY <1>7, <1>8, Induction
<1>10. QED
  BY <1>1, <1>9 DEF Y

(* A free cluster is found or there is none to be found.                   *)
LEMMA OfFindFree ==
  ASSUME NEW D \in SUBSET Views, NEW s, Good(s, D), NEW start \in 2 .. EOC,
         NEW o \in FindFree(s, start)
  PROVE  /\ o \in OutcomeOf(Clusters \cup {0})
         /\ ~ o.s.fault => Good(o.s, D) /\ Kept(s, o.s)
         /\ o.ok => ~ o.s.fault /\ o.result \in Clusters /\ FatIn(View(s), o.result) = 0
         /\ o.s.fault => Faulted(o, D)
<1> DEFINE first == [found |-> FALSE, end |-> start]
           N(p) == IF p.result.found THEN Success(p.s, p.result.end) ELSE Failed(p.s)
<1>1. Success(s, first) \subseteq Searched(s, D)
  <2>1. first \in SearchResult /\ ~ first.found
    BY DEF SearchResult
  <2> HIDE DEF first
  <2>2. ASSUME NEW p \in Success(s, first) PROVE p \in Searched(s, D)
    <3>1. p.ok /\ p.s = s /\ p.result = first
      BY OfSuccess
    <3>2. p \in OutcomeOf(SearchResult)
      BY <2>1, OutcomeTypes DEF Good
    <3>3. p \in OutcomeOf(SearchResult \cup {0})
      BY <3>2 DEF OutcomeOf
    <3>4. QED
      BY <2>1, <3>1, <3>3 DEF Searched, Kept, Same
  <2>3. QED
    BY <2>2
<1>2. PICK p \in Repeat(Success(s, first), LookAt, ClusterCount) :
        o \in IF p.ok THEN N(p) ELSE {p}
  BY Zenon DEF FindFree, Then
<1>3. p \in Searched(s, D)
  <2> HIDE DEF first
  <2>1. ClusterCount \in Nat
    BY VolumeAssumption
  <2>2. QED
    BY <1>1, <2>1, OfSearch, Zenon
<1>4. CASE ~ p.ok
  BY <1>2, <1>3, <1>4 DEF Searched, Faulted, OutcomeOf
<1>5. CASE p.ok
  <2>1. p.result \in SearchResult /\ Good(p.s, D) /\ Kept(s, p.s)
    BY <1>3, <1>5 DEF Searched
  <2>2. p.s \in State /\ ~ p.s.fault
    BY <2>1 DEF Good
  <2>3. CASE p.result.found
    <3>1. o \in Success(p.s, p.result.end)
      BY <1>2, <1>5, <2>3
    <3>2. p.result.end \in Clusters /\ FatIn(View(s), p.result.end) = 0
      BY <1>3, <1>5, <2>3 DEF Searched
    <3> DEFINE x == p.result.end
    <3> HIDE DEF x
    <3>3. o.ok /\ o.s = p.s /\ o.result = x /\ o \in OutcomeOf(Clusters)
      BY <2>2, <3>1, <3>2, OfSuccess, OutcomeTypes DEF x
    <3>4. QED
      BY <2>1, <2>2, <3>2, <3>3 DEF x, OutcomeOf
  <2>4. CASE ~ p.result.found
    <3>1. o \in Failed(p.s)
      BY <1>2, <1>5, <2>4
    <3>2. ~ o.ok /\ o.s = p.s /\ o \in OutcomeOf({0})
      BY <2>2, <3>1, OfFailed, OutcomeTypes
    <3>3. QED
      BY <2>1, <2>2, <3>2 DEF OutcomeOf
  <2>5. QED
    BY <2>3, <2>4
<1>6. QED
  BY <1>4, <1>5

-----------------------------------------------------------------------------
(* Positions in a file and blocks of the card.                             *)
LEMMA Division ==
  ASSUME NEW i \in Nat, NEW d \in Nat \ {0}
  PROVE  /\ i \div d \in Nat /\ i % d \in 0 .. d - 1
         /\ i = (d * (i \div d)) + (i % d)
OBVIOUS

LEMMA DivisionUnique ==
  ASSUME NEW d \in Nat \ {0}, NEW a \in Int, NEW b \in Int,
         NEW x \in 0 .. d - 1, NEW y \in 0 .. d - 1, a * d + x = b * d + y
  PROVE  a = b /\ x = y
<1>1. CASE a < b
  <2>1. a + 1 <= b /\ b = (a + 1) + (b - (a + 1)) /\ b - (a + 1) \in Nat
    BY <1>1
  <2>2. b * d = (a + 1) * d + (b - (a + 1)) * d
    BY <2>1
  <2>3. (b - (a + 1)) * d >= 0
    BY <2>1
  <2>4. (a + 1) * d = a * d + d
    OBVIOUS
  <2>5. QED
    BY <2>2, <2>3, <2>4
<1>2. CASE b < a
  <2>1. b + 1 <= a /\ a - (b + 1) \in Nat /\ a = (b + 1) + (a - (b + 1))
    BY <1>2
  <2>2. a * d = (b + 1) * d + (a - (b + 1)) * d
    BY <2>1
  <2>3. (a - (b + 1)) * d >= 0
    BY <2>1
  <2>4. (b + 1) * d = b * d + d
    OBVIOUS
  <2>5. QED
    BY <2>2, <2>3, <2>4
<1>3. QED
  BY <1>1, <1>2

(* The block of the file that holds position i, the number of the cluster  *)
(* in the chain of the file, and of the block in the cluster.              *)
Seg(i) == i \div UnitsPerBlock
ClusterIx(i) == Seg(i) \div BlocksPerCluster + 1
BlockIx(i) == Seg(i) % BlocksPerCluster
PlaceOf(q, i) == DataBlock(q[ClusterIx(i)], BlockIx(i))

LEMMA Positions ==
  ASSUME NEW i \in Nat
  PROVE  /\ Seg(i) \in Nat /\ ClusterIx(i) \in Nat \ {0}
         /\ BlockIx(i) \in 0 .. BlocksPerCluster - 1
         /\ i % UnitsPerBlock \in 0 .. UnitsPerBlock - 1
         /\ i = UnitsPerBlock * Seg(i) + (i % UnitsPerBlock)
         /\ Seg(i) = BlocksPerCluster * (ClusterIx(i) - 1) + BlockIx(i)
<1>1. UnitsPerBlock \in Nat \ {0} /\ BlocksPerCluster \in Nat \ {0}
  BY VolumeAssumption
<1>2. /\ Seg(i) \in Nat /\ i % UnitsPerBlock \in 0 .. UnitsPerBlock - 1
      /\ i = UnitsPerBlock * Seg(i) + (i % UnitsPerBlock)
  BY <1>1, Division DEF Seg
<1>3. /\ Seg(i) \div BlocksPerCluster \in Nat /\ BlockIx(i) \in 0 .. BlocksPerCluster - 1
      /\ Seg(i) = BlocksPerCluster * (Seg(i) \div BlocksPerCluster) + BlockIx(i)
  BY <1>1, <1>2, Division DEF BlockIx
<1>4. ClusterIx(i) = Seg(i) \div BlocksPerCluster + 1
  BY DEF ClusterIx
<1>5. QED
  BY <1>2, <1>3, <1>4

(* Positions in the same block, one after the other, and the last one      *)
(* before a position.                                                      *)
LEMMA SegMonotone ==
  ASSUME NEW i \in Nat, NEW j \in Nat, i <= j
  PROVE  Seg(i) <= Seg(j) /\ ClusterIx(i) <= ClusterIx(j)
<1>1. UnitsPerBlock \in Nat \ {0} /\ BlocksPerCluster \in Nat \ {0}
  BY VolumeAssumption
<1>2. Seg(i) <= Seg(j)
  BY <1>1 DEF Seg
<1>3. Seg(i) \in Nat /\ Seg(j) \in Nat
  BY Positions
<1>4. Seg(i) \div BlocksPerCluster <= Seg(j) \div BlocksPerCluster
  BY <1>1, <1>2, <1>3
<1>5. QED
  BY <1>1, <1>2, <1>3, <1>4, Division DEF ClusterIx

LEMMA SameSeg ==
  ASSUME NEW p \in Nat, NEW i \in Nat, p <= i,
         i < p + UnitsPerBlock - (p % UnitsPerBlock)
  PROVE  Seg(i) = Seg(p) /\ i % UnitsPerBlock = (p % UnitsPerBlock) + (i - p)
<1> DEFINE U == UnitsPerBlock
           off == p % U
<1>1. U \in Nat \ {0}
  BY VolumeAssumption
<1>2. off \in 0 .. U - 1 /\ Seg(p) \in Nat /\ p = U * Seg(p) + off
  BY <1>1, Positions
<1>3. i % U \in 0 .. U - 1 /\ Seg(i) \in Nat /\ i = U * Seg(i) + (i % U)
  BY <1>1, Positions
<1> DEFINE r == i % U
           x == off + (i - p)
           a == Seg(i)
           b == Seg(p)
<1> HIDE DEF off, r, a, b
<1>4. x \in 0 .. U - 1
  BY <1>1, <1>2 DEF off
<1>5. a \in Int /\ b \in Int /\ r \in 0 .. U - 1 /\ i = U * a + r /\ p = U * b + off
  BY <1>2, <1>3 DEF r, a, b, off
<1>6. off \in Int /\ U \in Int /\ U * a = a * U /\ U * b = b * U /\ a * U \in Int /\ b * U \in Int
  BY <1>1, <1>2, <1>5 DEF off
<1>7. a * U + r = b * U + x
  BY <1>5, <1>6
<1> HIDE DEF x
<1>8. a = b /\ r = x
  BY <1>1, <1>4, <1>5, <1>7, DivisionUnique, SMTT(30)
<1>9. QED
  BY <1>8 DEF a, b, r, x, off

LEMMA BlockStart ==
  ASSUME NEW p \in Nat, p % UnitsPerBlock = 0, NEW i \in Nat, i < p
  PROVE  Seg(i) < Seg(p)
<1> DEFINE U == UnitsPerBlock
           a == Seg(i)
           b == Seg(p)
           r == i % U
<1>1. U \in Nat \ {0}
  BY VolumeAssumption
<1>2. b \in Nat /\ p = U * b + 0
  BY <1>1, Positions
<1>3. a \in Nat /\ r \in 0 .. U - 1 /\ i = U * a + r
  BY <1>1, Positions
<1> HIDE DEF a, b, r
<1>4. ASSUME a >= b PROVE FALSE
  <2>1. a = b + (a - b) /\ a - b \in Nat
    BY <1>2, <1>3, <1>4
  <2>2. U * a = U * b + U * (a - b)
    BY <1>1, <1>2, <2>1
  <2> DEFINE x == U * a
             y == U * b
             z == U * (a - b)
  <2>3. x \in Int /\ y \in Int /\ z \in Nat
    BY <1>1, <1>2, <1>3, <2>1
  <2>4. x = y + z /\ i = x + r /\ p = y /\ r \in Nat
    BY <1>1, <1>2, <1>3, <2>2
  <2> HIDE DEF x, y, z
  <2>5. QED
    BY <2>3, <2>4
<1>5. QED
  BY <1>2, <1>3, <1>4 DEF a, b

(* A new cluster starts at the first unit of its first block.              *)
LEMMA ClusterStart ==
  ASSUME NEW p \in Nat \ {0}
  PROVE  ClusterIx(p) = IF p % UnitsPerBlock = 0 /\ BlockIx(p) = 0
                        THEN ClusterIx(p - 1) + 1 ELSE ClusterIx(p - 1)
<1> DEFINE U == UnitsPerBlock
           B == BlocksPerCluster
           s == Seg(p)
           t == Seg(p - 1)
           x == ClusterIx(p)
           y == ClusterIx(p - 1)
<1>1. U \in Nat \ {0} /\ B \in Nat \ {0} /\ p - 1 \in Nat
  BY VolumeAssumption
<1>2. /\ s \in Nat /\ x \in Nat \ {0} /\ BlockIx(p) \in 0 .. B - 1
      /\ p % U \in 0 .. U - 1 /\ p = U * s + (p % U) /\ s = B * (x - 1) + BlockIx(p)
  BY <1>1, Positions
<1>3. /\ t \in Nat /\ y \in Nat \ {0} /\ BlockIx(p - 1) \in 0 .. B - 1
      /\ (p - 1) % U \in 0 .. U - 1 /\ p - 1 = U * t + ((p - 1) % U)
      /\ t = B * (y - 1) + BlockIx(p - 1)
  BY <1>1, Positions
<1>4. CASE p % U # 0
  <2>1. p < (p - 1) + U - ((p - 1) % U)
    <3> DEFINE off == p % U
               of2 == (p - 1) % U
    <3> HIDE DEF off, of2, s, t
    <3>1. off \in 1 .. U - 1 /\ of2 \in 0 .. U - 1 /\ p = U * s + off /\ p - 1 = U * t + of2
      BY <1>1, <1>2, <1>3, <1>4 DEF off, of2
    <3>2. s * U = U * s /\ t * U = U * t /\ s * U \in Int /\ t * U \in Int
      BY <1>1, <1>2, <1>3
    <3>3. s * U + (off - 1) = t * U + of2 /\ off - 1 \in 0 .. U - 1
      BY <1>1, <3>1, <3>2
    <3>4. s \in Int /\ t \in Int /\ U \in Nat \ {0}
      BY <1>1, <1>2, <1>3
    <3> HIDE DEF U
    <3>5. off - 1 = of2
      BY <3>1, <3>3, <3>4, DivisionUnique
    <3>6. QED
      BY <1>1, <3>1, <3>5 DEF of2, U
  <2>2. s = t
    BY <1>1, <2>1, SameSeg
  <2>3. QED
    BY <1>4, <2>2 DEF ClusterIx
<1>5. CASE p % U = 0
  <2>1. s = t + 1
    <3> DEFINE of2 == (p - 1) % U
    <3> HIDE DEF of2, s, t
    <3>1. of2 \in 0 .. U - 1 /\ p = U * s /\ p - 1 = U * t + of2
      BY <1>1, <1>2, <1>3, <1>5 DEF of2
    <3>2. s * U = U * s /\ t * U = U * t /\ s * U \in Int /\ t * U \in Int
            /\ (s - 1) * U = s * U - U
      BY <1>1, <1>2, <1>3
    <3>3. s - 1 \in Int /\ t \in Int /\ U \in Nat \ {0} /\ U - 1 \in 0 .. U - 1
      BY <1>1, <1>2, <1>3
    <3> DEFINE m == s * U
               n == t * U
    <3>4. m \in Int /\ n \in Int /\ p = m /\ p - 1 = n + of2 /\ (s - 1) * U = m - U
      BY <3>1, <3>2
    <3> HIDE DEF U, m, n
    <3>5. (m - U) + (U - 1) = n + of2
      BY <1>1, <3>1, <3>3, <3>4
    <3>6. (s - 1) * U + (U - 1) = t * U + of2
      BY <3>4, <3>5 DEF n
    <3> DEFINE a == s - 1
               z == U - 1
    <3>7. a = t
      <4>1. a * U + z = t * U + of2 /\ a \in Int /\ z \in 0 .. U - 1
        BY <3>3, <3>6
      <4> HIDE DEF a, z
      <4>2. QED
        BY <3>1, <3>3, <4>1, DivisionUnique
    <3>8. QED
      BY <1>2, <1>3, <3>7
  <2> DEFINE bx == BlockIx(p)
             by == BlockIx(p - 1)
  <2> HIDE DEF bx, by, x, y, s, t
  <2>2. /\ x \in Nat /\ y \in Nat /\ bx \in 0 .. B - 1 /\ by \in 0 .. B - 1
        /\ B * (x - 1) + bx = B * (y - 1) + by + 1
    BY <1>1, <1>2, <1>3, <2>1 DEF bx, by
  <2>3. /\ B * (x - 1) = (x - 1) * B /\ B * (y - 1) = (y - 1) * B
        /\ (x - 1) * B \in Int /\ (y - 1) * B \in Int /\ y * B = (y - 1) * B + B
    BY <1>1, <2>2
  <2>4. CASE by = B - 1
    <3>1. (x - 1) * B + bx = y * B + 0 /\ 0 \in 0 .. B - 1
      BY <1>1, <2>2, <2>3, <2>4
    <3>2. x - 1 = y /\ bx = 0
      BY <1>1, <2>2, <3>1, DivisionUnique
    <3>3. QED
      BY <1>5, <2>2, <3>2 DEF bx, x, y
  <2>5. CASE by # B - 1
    <3>1. (x - 1) * B + bx = (y - 1) * B + (by + 1) /\ by + 1 \in 0 .. B - 1
      BY <1>1, <2>2, <2>3, <2>5
    <3>2. x - 1 = y - 1 /\ bx = by + 1
      BY <1>1, <2>2, <3>1, DivisionUnique
    <3>3. QED
      BY <1>5, <2>2, <3>2 DEF bx, x, y
  <2>6. QED
    BY <2>4, <2>5
<1>6. QED
  BY <1>4, <1>5

LEMMA ZeroPosition == ClusterIx(0) = 1 /\ BlockIx(0) = 0 /\ 0 % UnitsPerBlock = 0
<1>1. UnitsPerBlock \in Nat \ {0} /\ BlocksPerCluster \in Nat \ {0}
  BY VolumeAssumption
<1>2. 0 \div UnitsPerBlock = 0 /\ 0 % UnitsPerBlock = 0
  BY <1>1
<1>3. 0 \div BlocksPerCluster = 0 /\ 0 % BlocksPerCluster = 0
  BY <1>1
<1>4. QED
  BY <1>2, <1>3 DEF ClusterIx, BlockIx, Seg

(* The division by the size of a cluster in one step or in two.            *)
LEMMA ClusterOfUnit ==
  ASSUME NEW i \in Nat
  PROVE  ClusterUnits \in Nat \ {0} /\ i \div ClusterUnits + 1 = ClusterIx(i)
<1> DEFINE U == UnitsPerBlock
           B == BlocksPerCluster
           C == B * U
           r == i % U
           s == Seg(i)
           x == ClusterIx(i)
           b == BlockIx(i)
<1>1. U \in Nat \ {0} /\ B \in Nat \ {0}
  BY VolumeAssumption
<1>2. C \in Nat \ {0}
  BY <1>1
<1>3. /\ s \in Nat /\ x \in Nat \ {0} /\ b \in 0 .. B - 1 /\ r \in 0 .. U - 1
      /\ i = U * s + r /\ s = B * (x - 1) + b
  BY <1>1, Positions
<1> DEFINE z == i \div C
           e == i % C
<1>4. z \in Nat /\ e \in 0 .. C - 1 /\ i = C * z + e
  BY <1>2, Division
<1> HIDE DEF r, s, x, b, z, e
<1>5. U * s = U * (B * (x - 1)) + U * b
  BY <1>1, <1>3
<1>6. U * (B * (x - 1)) = (x - 1) * C
  BY <1>1, <1>3
<1>7. i = (x - 1) * C + (U * b + r)
  BY <1>1, <1>3, <1>5, <1>6
<1>8. U * b + r \in 0 .. C - 1
  <2>1. U * b <= U * (B - 1)
    BY <1>1, <1>3
  <2>2. U * (B - 1) = C - U
    BY <1>1
  <2>3. U * b \in Nat
    BY <1>1, <1>3
  <2>4. QED
    BY <1>1, <1>2, <1>3, <2>1, <2>2, <2>3
<1>9. C * z = z * C
  BY <1>2, <1>4
<1> DEFINE f == U * b + r
<1> HIDE DEF C, f
<1>10. z * C + e = (x - 1) * C + f
  BY <1>4, <1>7, <1>9 DEF f
<1>11. f \in 0 .. C - 1
  BY <1>8 DEF f
<1>12. z = x - 1
  BY <1>2, <1>3, <1>4, <1>10, <1>11, DivisionUnique
<1>13. QED
  BY <1>2, <1>3, <1>12 DEF z, x, C, ClusterUnits

-----------------------------------------------------------------------------
(* Files on a volume.  A layout says which clusters a file has, in order.  *)
Layouts == [Names -> Seq(Clusters)]
Distinct(q) ==
  \A m, n \in Names : \A i \in 1 .. Len(q[m]), j \in 1 .. Len(q[n]) :
     q[m][i] = q[n][j] => m = n /\ i = j

(* The first k clusters of c are a chain of v from first; they hold the    *)
(* first len units of the file n.                                          *)
ChainOk(v, first, c, k) ==
  /\ first = IF k = 0 THEN 0 ELSE c[1]
  /\ \A i \in 1 .. k : FatIn(v, c[i]) = IF i < k THEN c[i + 1] ELSE EOC
Holds(v, n, c, k, len) ==
  \A i \in 0 .. len - 1 :
     ClusterIx(i) <= k /\ v[PlaceOf(c, i)][i % UnitsPerBlock] = <<n, i>>

(* No cluster is linked to by two, no free one by any.                     *)
Linked(v) ==
  \A c, d \in Clusters : FatIn(v, c) \in Clusters =>
     /\ FatIn(v, c) = FatIn(v, d) => c = d
     /\ FatIn(v, c) = d => FatIn(v, d) # 0

(* A volume that a restart may find: the files have a first part of their  *)
(* clusters, and their entries say no more than these hold.                *)
CardOk(v, n, c) ==
  \E k \in 0 .. Len(c) :
    /\ ChainOk(v, v[DirBlock][n].first, c, k)
    /\ Holds(v, n, c, k, v[DirBlock][n].size)
    /\ ~ v[DirBlock][n].used => v[DirBlock][n].first = 0 /\ v[DirBlock][n].size = 0
Sound(v, q) == Distinct(q) /\ Linked(v) /\ \A n \in Names : CardOk(v, n, q[n])

(* A volume as it is seen while files are open: their clusters hold all    *)
(* that was written, which the entry may not say yet.                      *)
OpenOk(v, h, n, c) ==
  /\ ChainOk(v, h.first, c, Len(c))
  /\ Holds(v, n, c, Len(c), h.pos) /\ Holds(v, n, c, Len(c), h.size)
  /\ v[DirBlock][n].used /\ v[DirBlock][n].size <= h.size
  /\ \/ v[DirBlock][n].first = h.first
     \/ v[DirBlock][n].first = 0 /\ v[DirBlock][n].size = 0
  /\ ~ h.dirDirty => /\ v[DirBlock][n].first = h.first
                     /\ v[DirBlock][n].size = h.size
ClosedOk(v, h, n, c) ==
  /\ h = Closed /\ ChainOk(v, v[DirBlock][n].first, c, Len(c))
  /\ Holds(v, n, c, Len(c), v[DirBlock][n].size)
  /\ ~ v[DirBlock][n].used => v[DirBlock][n].first = 0 /\ v[DirBlock][n].size = 0
FileOk(v, h, n, c) ==
  IF h.open THEN OpenOk(v, h, n, c) ELSE ClosedOk(v, h, n, c)
Files(v, h, q) ==
  Distinct(q) /\ Linked(v) /\ \A n \in Names : FileOk(v, h[n], n, q[n])

LEMMA BlockInjective ==
  ASSUME NEW c \in Clusters, NEW d \in Clusters,
         NEW a \in 0 .. BlocksPerCluster - 1, NEW b \in 0 .. BlocksPerCluster - 1,
         DataBlock(c, a) = DataBlock(d, b)
  PROVE  c = d /\ a = b
<1> DEFINE B == BlocksPerCluster
           x == c - 2
           y == d - 2
<1>1. B \in Nat \ {0} /\ x \in Int /\ y \in Int
  BY VolumeAssumption DEF Clusters
<1>2. x * B + a = y * B + b
  BY DEF DataBlock
<1> HIDE DEF B, x, y
<1>3. a \in 0 .. B - 1 /\ b \in 0 .. B - 1
  BY DEF B
<1>4. x = y /\ a = b
  BY <1>1, <1>2, <1>3, DivisionUnique
<1>5. QED
  BY <1>4 DEF x, y, Clusters

LEMMA PlaceTyped ==
  ASSUME NEW c \in Seq(Clusters), NEW i \in Nat, ClusterIx(i) <= Len(c)
  PROVE  /\ PlaceOf(c, i) \in DataBlocks /\ PlaceOf(c, i) \in Primary
         /\ c[ClusterIx(i)] \in Clusters
<1>1. ClusterIx(i) \in 1 .. Len(c) /\ BlockIx(i) \in 0 .. BlocksPerCluster - 1
  <2>1. ClusterIx(i) \in Nat \ {0} /\ BlockIx(i) \in 0 .. BlocksPerCluster - 1
    BY Positions, Zenon
  <2>2. Len(c) \in Nat
    OBVIOUS
  <2>3. QED
    BY <2>1, <2>2
<1>2. c[ClusterIx(i)] \in Clusters
  BY <1>1
<1>3. QED
  BY <1>1, <1>2 DEF PlaceOf, DataBlocks, Primary

(* Two positions are in one block only if they are in the same file and in *)
(* the same block of it.                                                   *)
LEMMA PlaceInjective ==
  ASSUME NEW q \in Layouts, Distinct(q), NEW m \in Names, NEW n \in Names,
         NEW i \in Nat, NEW j \in Nat,
         ClusterIx(i) <= Len(q[m]), ClusterIx(j) <= Len(q[n]),
         PlaceOf(q[m], i) = PlaceOf(q[n], j)
  PROVE  m = n /\ Seg(i) = Seg(j)
<1> DEFINE x == ClusterIx(i)
           y == ClusterIx(j)
           a == BlockIx(i)
           b == BlockIx(j)
<1>1. q[m] \in Seq(Clusters) /\ q[n] \in Seq(Clusters)
  BY DEF Layouts
<1>2. /\ x \in Nat \ {0} /\ a \in 0 .. BlocksPerCluster - 1
      /\ Seg(i) = BlocksPerCluster * (x - 1) + a
  BY Positions
<1>3. /\ y \in Nat \ {0} /\ b \in 0 .. BlocksPerCluster - 1
      /\ Seg(j) = BlocksPerCluster * (y - 1) + b
  BY Positions
<1>4. q[m][x] \in Clusters /\ q[n][y] \in Clusters
  BY <1>1, PlaceTyped
<1>5. DataBlock(q[m][x], a) = DataBlock(q[n][y], b)
  BY DEF PlaceOf
<1>6. x \in 1 .. Len(q[m]) /\ y \in 1 .. Len(q[n])
  BY <1>1, <1>2, <1>3
<1> HIDE DEF x, y, a, b
<1>7. q[m][x] = q[n][y] /\ a = b
  <2> DEFINE c == q[m][x]
             d == q[n][y]
  <2> HIDE DEF c, d
  <2>1. c \in Clusters /\ d \in Clusters /\ DataBlock(c, a) = DataBlock(d, b)
    BY <1>4, <1>5 DEF c, d
  <2>2. QED
    BY <1>2, <1>3, <2>1, BlockInjective DEF c, d
<1>8. m = n /\ x = y
  BY <1>6, <1>7 DEF Distinct
<1>9. QED
  BY <1>2, <1>3, <1>7, <1>8

(* A volume seen while files are open is one that a restart may find.      *)
LEMMA FilesSound ==
  ASSUME NEW v \in Views, NEW h \in [Names -> Handle], NEW q \in Layouts, Files(v, h, q)
  PROVE  Sound(v, q)
<1>1. SUFFICES ASSUME NEW n \in Names PROVE CardOk(v, n, q[n])
  BY DEF Sound, Files
<1> DEFINE c == q[n]
           e == v[DirBlock][n]
<1>2. FileOk(v, h[n], n, c)
  BY DEF Files
<1>3. c \in Seq(Clusters) /\ Len(c) \in Nat /\ e \in EntryType /\ h[n] \in Handle
  BY DEF Layouts, Views, DirData
<1>4. CASE ~ h[n].open
  <2>1. ClosedOk(v, h[n], n, c)
    BY <1>2, <1>4 DEF FileOk
  <2>2. Len(c) \in 0 .. Len(c)
    BY <1>3
  <2>3. QED
    BY <2>1, <2>2 DEF ClosedOk, CardOk
<1>5. CASE h[n].open
  <2>1. OpenOk(v, h[n], n, c)
    BY <1>2, <1>5 DEF FileOk
  <2>2. CASE e.first = h[n].first
    <3>1. Holds(v, n, c, Len(c), e.size)
      <4>1. e.size \in Nat /\ h[n].size \in Nat
        BY <1>3 DEF EntryType, Handle
      <4>2. Holds(v, n, c, Len(c), h[n].size) /\ e.size <= h[n].size
        BY <2>1 DEF OpenOk
      <4>3. 0 .. e.size - 1 \subseteq 0 .. h[n].size - 1
        BY <4>1, <4>2
      <4>4. QED
        BY <4>2, <4>3, Zenon DEF Holds
    <3>2. ChainOk(v, e.first, c, Len(c)) /\ e.used
      BY <2>1, <2>2 DEF OpenOk
    <3>3. Len(c) \in 0 .. Len(c)
      BY <1>3
    <3>4. QED
      BY <3>1, <3>2, <3>3 DEF CardOk
  <2>3. CASE e.first = 0 /\ e.size = 0
    <3>1. ChainOk(v, e.first, c, 0) /\ Holds(v, n, c, 0, e.size)
      BY <2>3 DEF ChainOk, Holds
    <3>2. 0 \in 0 .. Len(c) /\ e.used
      BY <1>3, <2>1 DEF OpenOk
    <3>3. QED
      BY <3>1, <3>2 DEF CardOk
  <2>4. QED
    BY <2>1, <2>2, <2>3 DEF OpenOk
<1>6. QED
  BY <1>4, <1>5

(* A file is as it was where the entry, its data and the table entries of  *)
(* its clusters are.                                                       *)
LEMMA FileKept ==
  ASSUME NEW v \in Views, NEW w \in Views, NEW n \in Names, NEW c \in Seq(Clusters),
         w[DirBlock] = v[DirBlock], \A b \in DataBlocks : w[b] = v[b],
         \A i \in 1 .. Len(c) : FatIn(w, c[i]) = FatIn(v, c[i])
  PROVE  /\ \A first : \A k \in 0 .. Len(c) :
              ChainOk(v, first, c, k) => ChainOk(w, first, c, k)
         /\ \A len \in Nat : \A k \in 0 .. Len(c) : Holds(v, n, c, k, len) => Holds(w, n, c, k, len)
         /\ \A h \in Handle : FileOk(v, h, n, c) => FileOk(w, h, n, c)
<1>1. Len(c) \in Nat /\ Len(c) \in 0 .. Len(c)
  OBVIOUS
<1>2. ASSUME NEW first, NEW k \in 0 .. Len(c), ChainOk(v, first, c, k)
      PROVE  ChainOk(w, first, c, k)
  BY <1>1, <1>2 DEF ChainOk
<1>3. ASSUME NEW len \in Nat, NEW k \in 0 .. Len(c), Holds(v, n, c, k, len)
      PROVE  Holds(w, n, c, k, len)
  <2>1. SUFFICES ASSUME NEW i \in 0 .. len - 1
                 PROVE  ClusterIx(i) <= k /\ w[PlaceOf(c, i)][i % UnitsPerBlock] = <<n, i>>
    BY DEF Holds
  <2>2. ClusterIx(i) <= k /\ v[PlaceOf(c, i)][i % UnitsPerBlock] = <<n, i>>
    BY <1>3 DEF Holds
  <2>3. i \in Nat
    OBVIOUS
  <2>4. ClusterIx(i) <= Len(c)
    <3>1. ClusterIx(i) \in Nat
      BY <2>3, Positions
    <3>2. QED
      BY <1>1, <2>2, <3>1
  <2>5. PlaceOf(c, i) \in DataBlocks
    BY <2>3, <2>4, PlaceTyped
  <2>6. QED
    BY <2>2, <2>5
<1>4. ASSUME NEW h \in Handle, FileOk(v, h, n, c) PROVE FileOk(w, h, n, c)
  <2>1. v[DirBlock][n].size \in Nat /\ h.pos \in Nat /\ h.size \in Nat
    BY DEF Views, DirData, EntryType, Handle
  <2>2. CASE h.open
    BY <1>1, <1>2, <1>3, <1>4, <2>1, <2>2 DEF FileOk, OpenOk
  <2>3. CASE ~ h.open
    BY <1>1, <1>2, <1>3, <1>4, <2>1, <2>3 DEF FileOk, ClosedOk
  <2>4. QED
    BY <2>2, <2>3
<1>5. QED
  BY <1>2, <1>3, <1>4

(* The allocation of a cluster, seen in the table.                         *)
Unused(q, c) == \A n \in Names : \A i \in 1 .. Len(q[n]) : q[n][i] # c
LinkedToNone(v, c) == \A d \in Clusters : FatIn(v, d) # c

LEMMA FreeIsUnused ==
  ASSUME NEW v \in Views, NEW h \in [Names -> Handle], NEW q \in Layouts, Files(v, h, q),
         NEW c \in Clusters, FatIn(v, c) = 0
  PROVE  Unused(q, c) /\ LinkedToNone(v, c)
<1>1. ASSUME NEW n \in Names, NEW i \in 1 .. Len(q[n]) PROVE FatIn(v, q[n][i]) # 0
  <2>1. FileOk(v, h[n], n, q[n])
    BY DEF Files
  <2>2. \E first : ChainOk(v, first, q[n], Len(q[n]))
    BY <2>1 DEF FileOk, OpenOk, ClosedOk
  <2>3. FatIn(v, q[n][i]) = IF i < Len(q[n]) THEN q[n][i + 1] ELSE EOC
    BY <2>2 DEF ChainOk
  <2>4. q[n] \in Seq(Clusters) /\ Len(q[n]) \in Nat
    BY DEF Layouts
  <2>5. CASE i < Len(q[n])
    <3>1. q[n][i + 1] \in Clusters
      BY <2>4, <2>5
    <3>2. QED
      BY <2>3, <2>5, <3>1 DEF Clusters
  <2>6. CASE ~ i < Len(q[n])
    BY <2>3, <2>6, VolumeAssumption DEF EOC, LastCluster
  <2>7. QED
    BY <2>5, <2>6
<1>2. Unused(q, c)
  BY <1>1 DEF Unused
<1>3. LinkedToNone(v, c)
  BY DEF Files, Linked, LinkedToNone
<1>4. QED
  BY <1>2, <1>3

(* Marking a free cluster as the end of a chain changes no file.           *)
LEMMA MarkKeepsFiles ==
  ASSUME NEW v \in Views, NEW h \in [Names -> Handle], NEW q \in Layouts, Files(v, h, q),
         NEW c \in Clusters, FatIn(v, c) = 0
  PROVE  LET w == SetFat(v, c, EOC)
         IN /\ w \in Views /\ Files(w, h, q) /\ w[DirBlock] = v[DirBlock]
            /\ FatIn(w, c) = EOC /\ LinkedToNone(w, c)
<1> DEFINE w == SetFat(v, c, EOC)
<1>1. EOC \in 0 .. EOC /\ EOC \notin Clusters /\ c \in 0 .. LastCluster /\ EOC # 0
        /\ Clusters \subseteq 0 .. LastCluster
  BY VolumeAssumption DEF EOC, Clusters, LastCluster
<1>2. /\ w \in Views /\ w[DirBlock] = v[DirBlock] /\ \A b \in DataBlocks : w[b] = v[b]
      /\ \A d \in 0 .. LastCluster : FatIn(w, d) = IF d = c THEN EOC ELSE FatIn(v, d)
  BY <1>1, SetFatEntry
<1> HIDE DEF w
<1>3. Unused(q, c) /\ LinkedToNone(v, c)
  BY FreeIsUnused
<1>4. LinkedToNone(w, c) /\ FatIn(w, c) = EOC
  BY <1>1, <1>2, <1>3 DEF LinkedToNone
<1>5. Linked(w)
  <2>1. Linked(v)
    BY DEF Files
  <2>2. QED
    BY <1>1, <1>2, <1>3, <2>1 DEF Linked, LinkedToNone
<1>6. ASSUME NEW n \in Names PROVE FileOk(w, h[n], n, q[n])
  <2>1. FileOk(v, h[n], n, q[n]) /\ q[n] \in Seq(Clusters) /\ h[n] \in Handle
    BY DEF Files, Layouts
  <2>2. \A i \in 1 .. Len(q[n]) : FatIn(w, q[n][i]) = FatIn(v, q[n][i])
    BY <1>1, <1>2, <1>3, <2>1 DEF Unused
  <2>3. QED
    BY <1>2, <2>1, <2>2, FileKept
<1>7. Distinct(q)
  BY DEF Files
<1>8. QED
  BY <1>2, <1>4, <1>5, <1>6, <1>7 DEF Files, w

(* One more cluster at the end of the file n.                              *)
Grown(q, n, c) == [q EXCEPT ![n] = Append(@, c)]

LEMMA GrownTyped ==
  ASSUME NEW q \in Layouts, Distinct(q), NEW n \in Names, NEW c \in Clusters, Unused(q, c)
  PROVE  /\ Grown(q, n, c) \in Layouts /\ Distinct(Grown(q, n, c))
         /\ Grown(q, n, c)[n] = Append(q[n], c)
         /\ Len(Grown(q, n, c)[n]) = Len(q[n]) + 1
         /\ Grown(q, n, c)[n][Len(q[n]) + 1] = c
         /\ \A i \in 1 .. Len(q[n]) : Grown(q, n, c)[n][i] = q[n][i]
         /\ \A m \in Names \ {n} : Grown(q, n, c)[m] = q[m]
<1> DEFINE r == Grown(q, n, c)
<1>1. q \in [Names -> Seq(Clusters)] /\ q[n] \in Seq(Clusters) /\ Len(q[n]) \in Nat
  BY DEF Layouts
<1>2. /\ r \in [Names -> Seq(Clusters)] /\ r[n] = Append(q[n], c)
      /\ \A m \in Names \ {n} : r[m] = q[m]
  BY <1>1 DEF Grown
<1>3. /\ Len(r[n]) = Len(q[n]) + 1 /\ r[n][Len(q[n]) + 1] = c
      /\ \A i \in 1 .. Len(q[n]) : r[n][i] = q[n][i]
  BY <1>1, <1>2
<1> HIDE DEF r
<1>4. ASSUME NEW m \in Names, NEW i \in 1 .. Len(r[m])
      PROVE  \/ m = n /\ i = Len(q[n]) + 1 /\ r[m][i] = c
             \/ i \in 1 .. Len(q[m]) /\ r[m][i] = q[m][i] /\ r[m][i] # c
  <2>1. CASE m = n
    BY <1>1, <1>3, <2>1 DEF Unused
  <2>2. CASE m # n
    BY <1>2, <2>2 DEF Unused
  <2>3. QED
    BY <2>1, <2>2
<1>5. Distinct(r)
  BY <1>4 DEF Distinct
<1>6. QED
  BY <1>2, <1>3, <1>5 DEF r, Layouts

(* What a longer layout keeps.                                             *)
LEMMA GrownKeeps ==
  ASSUME NEW q \in Layouts, Distinct(q), NEW n \in Names, NEW c \in Clusters, Unused(q, c),
         NEW v \in Views, NEW m \in Names
  PROVE  LET r == Grown(q, n, c)
         IN /\ \A i \in Nat : ClusterIx(i) <= Len(q[m]) =>
                 /\ ClusterIx(i) <= Len(r[m])
                 /\ r[m][ClusterIx(i)] = q[m][ClusterIx(i)]
                 /\ PlaceOf(r[m], i) = PlaceOf(q[m], i)
            /\ \A first : \A k \in 0 .. Len(q[m]) :
                 ChainOk(v, first, q[m], k) => ChainOk(v, first, r[m], k)
            /\ \A len \in Nat : \A k \in 0 .. Len(q[m]) :
                 Holds(v, m, q[m], k, len) => Holds(v, m, r[m], k, len)
            /\ CardOk(v, m, q[m]) => CardOk(v, m, r[m])
<1> DEFINE r == Grown(q, n, c)
<1>1. /\ Len(q[m]) \in Nat /\ Len(r[m]) \in Nat /\ Len(q[m]) <= Len(r[m])
      /\ \A i \in 1 .. Len(q[m]) : r[m][i] = q[m][i]
  <2>1. q[m] \in Seq(Clusters) /\ r[m] \in Seq(Clusters)
    BY GrownTyped DEF Layouts
  <2>2. QED
    BY <2>1, GrownTyped
<1> HIDE DEF r
<1>2. ASSUME NEW i \in Nat, ClusterIx(i) <= Len(q[m])
      PROVE  /\ ClusterIx(i) <= Len(r[m]) /\ r[m][ClusterIx(i)] = q[m][ClusterIx(i)]
             /\ PlaceOf(r[m], i) = PlaceOf(q[m], i)
  <2>1. ClusterIx(i) \in Nat \ {0}
    BY Positions
  <2>2. QED
    BY <1>1, <1>2, <2>1 DEF PlaceOf
<1>3. ASSUME NEW first, NEW k \in 0 .. Len(q[m]), ChainOk(v, first, q[m], k)
      PROVE  ChainOk(v, first, r[m], k)
  <2>1. first = IF k = 0 THEN 0 ELSE r[m][1]
    BY <1>1, <1>3 DEF ChainOk
  <2>2. ASSUME NEW i \in 1 .. k
        PROVE  FatIn(v, r[m][i]) = IF i < k THEN r[m][i + 1] ELSE EOC
    <3>1. i \in 1 .. Len(q[m]) /\ (i < k => i + 1 \in 1 .. Len(q[m]))
      BY <1>1
    <3>2. FatIn(v, q[m][i]) = IF i < k THEN q[m][i + 1] ELSE EOC
      BY <1>3 DEF ChainOk
    <3>3. r[m][i] = q[m][i] /\ (i < k => r[m][i + 1] = q[m][i + 1])
      BY <1>1, <3>1
    <3>4. QED
      BY <3>2, <3>3
  <2>3. QED
    BY <2>1, <2>2 DEF ChainOk
<1>4. ASSUME NEW len \in Nat, NEW k \in 0 .. Len(q[m]), Holds(v, m, q[m], k, len)
      PROVE  Holds(v, m, r[m], k, len)
  <2>1. SUFFICES ASSUME NEW i \in 0 .. len - 1
                 PROVE  ClusterIx(i) <= k /\ v[PlaceOf(r[m], i)][i % UnitsPerBlock] = <<m, i>>
    BY DEF Holds
  <2>2. ClusterIx(i) <= k /\ v[PlaceOf(q[m], i)][i % UnitsPerBlock] = <<m, i>>
    BY <1>4 DEF Holds
  <2>3. i \in Nat
    OBVIOUS
  <2>4. ClusterIx(i) \in Nat
    BY <2>3, Positions
  <2>5. ClusterIx(i) <= Len(q[m])
    BY <1>1, <2>2, <2>4
  <2>6. QED
    BY <1>2, <2>2, <2>3, <2>5
<1>5. ASSUME CardOk(v, m, q[m]) PROVE CardOk(v, m, r[m])
  <2>1. PICK k \in 0 .. Len(q[m]) :
           /\ ChainOk(v, v[DirBlock][m].first, q[m], k)
           /\ Holds(v, m, q[m], k, v[DirBlock][m].size)
           /\ ~ v[DirBlock][m].used => v[DirBlock][m].first = 0 /\ v[DirBlock][m].size = 0
    BY <1>5 DEF CardOk
  <2>2. v[DirBlock][m].size \in Nat
    BY DEF Views, DirData, EntryType
  <2>3. k \in 0 .. Len(r[m])
    BY <1>1
  <2>4. QED
    BY <1>3, <1>4, <2>1, <2>2, <2>3 DEF CardOk
<1>6. QED
  BY <1>2, <1>3, <1>4, <1>5 DEF r

LEMMA GrownSound ==
  ASSUME NEW q \in Layouts, Distinct(q), NEW n \in Names, NEW c \in Clusters, Unused(q, c),
         NEW v \in Views, Sound(v, q)
  PROVE  Sound(v, Grown(q, n, c))
<1>1. ASSUME NEW m \in Names PROVE CardOk(v, m, Grown(q, n, c)[m])
  <2>1. CardOk(v, m, q[m])
    BY DEF Sound
  <2>2. QED
    BY <2>1, GrownKeeps
<1>2. Distinct(Grown(q, n, c))
  BY GrownTyped
<1>3. QED
  BY <1>1, <1>2 DEF Sound

(* The marked cluster becomes the last one of the file n, which has some.  *)
LEMMA LinkKeepsFiles ==
  ASSUME NEW v \in Views, NEW h \in [Names -> Handle], NEW q \in Layouts, Files(v, h, q),
         NEW c \in Clusters, Unused(q, c), LinkedToNone(v, c), FatIn(v, c) = EOC,
         NEW n \in Names, h[n].open, Len(q[n]) # 0
  PROVE  LET last == q[n][Len(q[n])]
             w == SetFat(v, last, c)
         IN /\ last \in Clusters /\ w \in Views /\ Files(w, h, Grown(q, n, c))
            /\ w[DirBlock] = v[DirBlock]
<1> DEFINE L == Len(q[n])
           last == q[n][L]
           w == SetFat(v, last, c)
           r == Grown(q, n, c)
<1>1. /\ EOC \notin Clusters /\ Clusters \subseteq 0 .. LastCluster
      /\ Clusters \subseteq 0 .. EOC /\ 0 \notin Clusters /\ EOC # 0
  BY VolumeAssumption DEF EOC, Clusters, LastCluster
<1>2. q[n] \in Seq(Clusters) /\ L \in Nat \ {0} /\ last \in Clusters /\ last # c
  BY DEF Layouts, Unused
<1>3. last \in 0 .. LastCluster /\ c \in 0 .. EOC
  BY <1>1, <1>2
<1>4. /\ w \in Views /\ w[DirBlock] = v[DirBlock] /\ \A b \in DataBlocks : w[b] = v[b]
      /\ \A d \in 0 .. LastCluster : FatIn(w, d) = IF d = last THEN c ELSE FatIn(v, d)
  <2> HIDE DEF last
  <2>1. QED
    BY <1>3, SetFatEntry
<1>5. Distinct(q) /\ Linked(v)
  BY DEF Files
<1>6. /\ r \in Layouts /\ Distinct(r) /\ Len(r[n]) = L + 1 /\ r[n][L + 1] = c
      /\ \A i \in 1 .. L : r[n][i] = q[n][i]
      /\ \A m \in Names \ {n} : r[m] = q[m]
  BY <1>5, GrownTyped
<1>7. OpenOk(v, h[n], n, q[n])
  BY DEF Files, FileOk
<1>8. FatIn(v, last) = EOC
  <2>1. ChainOk(v, h[n].first, q[n], L)
    BY <1>7 DEF OpenOk
  <2> HIDE DEF L
  <2>2. L \in 1 .. L /\ ~ L < L
    BY <1>2
  <2>3. FatIn(v, q[n][L]) = IF L < L THEN q[n][L + 1] ELSE EOC
    BY <2>1, <2>2 DEF ChainOk
  <2>4. QED
    BY <2>2, <2>3
<1> HIDE DEF last, w, r, L
<1>9. Linked(w)
  <2>1. ASSUME NEW a \in Clusters, NEW d \in Clusters, FatIn(w, a) \in Clusters,
               FatIn(w, a) = FatIn(w, d)
        PROVE  a = d
    <3>1. CASE a = last
      BY <1>1, <1>4, <2>1, <3>1 DEF LinkedToNone
    <3>2. CASE a # last
      BY <1>1, <1>4, <1>5, <2>1, <3>2 DEF LinkedToNone, Linked
    <3>3. QED
      BY <3>1, <3>2
  <2>2. ASSUME NEW a \in Clusters, NEW d \in Clusters, FatIn(w, a) \in Clusters,
               FatIn(w, a) = d
        PROVE  FatIn(w, d) # 0
    <3>1. CASE a = last
      BY <1>1, <1>2, <1>4, <2>2, <3>1
    <3>2. CASE a # last
      <4>1. FatIn(v, a) = d /\ FatIn(v, d) # 0
        BY <1>1, <1>4, <1>5, <2>2, <3>2 DEF Linked
      <4>2. QED
        BY <1>1, <1>4, <4>1
    <3>3. QED
      BY <3>1, <3>2
  <2>3. QED
    BY <2>1, <2>2 DEF Linked
<1>10. ASSUME NEW m \in Names, m # n PROVE FileOk(w, h[m], m, r[m])
  <2>1. FileOk(v, h[m], m, q[m]) /\ q[m] \in Seq(Clusters) /\ h[m] \in Handle /\ r[m] = q[m]
    BY <1>6, <1>10 DEF Files, Layouts
  <2>2. ASSUME NEW i \in 1 .. Len(q[m]) PROVE FatIn(w, q[m][i]) = FatIn(v, q[m][i])
    <3>1. q[m][i] \in Clusters
      BY <2>1
    <3>2. L \in 1 .. Len(q[n])
      BY <1>2 DEF L
    <3>3. q[m][i] # last
      BY <1>5, <1>10, <3>2 DEF Distinct, last
    <3>4. QED
      BY <1>1, <1>4, <3>1, <3>3
  <2>3. QED
    BY <1>4, <2>1, <2>2, FileKept
<1>11. FileOk(w, h[n], n, r[n])
  <2>1. ChainOk(w, h[n].first, r[n], L + 1)
    <3>1. ChainOk(v, h[n].first, q[n], L)
      BY <1>7 DEF OpenOk, L
    <3>2. h[n].first = r[n][1]
      BY <1>2, <1>6, <3>1 DEF ChainOk
    <3>3. ASSUME NEW i \in 1 .. L + 1
          PROVE  FatIn(w, r[n][i]) = IF i < L + 1 THEN r[n][i + 1] ELSE EOC
      <4>1. CASE i = L + 1
        BY <1>1, <1>2, <1>4, <1>6, <4>1
      <4>2. CASE i = L
        <5>1. r[n][i] = last
          BY <1>2, <1>6, <4>2 DEF last
        <5>2. QED
          BY <1>2, <1>3, <1>4, <1>6, <4>2, <5>1
      <4>3. CASE i < L
        <5>1. i \in 1 .. L /\ i + 1 \in 1 .. L /\ L \in 1 .. L
          BY <1>2, <4>3
        <5>2. r[n][i] = q[n][i] /\ r[n][i + 1] = q[n][i + 1] /\ q[n][i] \in Clusters
          BY <1>2, <1>6, <5>1 DEF L
        <5>3. q[n][i] # last
          BY <1>2, <1>5, <4>3, <5>1 DEF Distinct, last, L
        <5>4. FatIn(v, q[n][i]) = q[n][i + 1]
          BY <3>1, <4>3, <5>1 DEF ChainOk
        <5>5. QED
          BY <1>1, <1>2, <1>4, <4>3, <5>2, <5>3, <5>4
      <4>4. QED
        BY <1>2, <4>1, <4>2, <4>3
    <3>4. QED
      BY <1>2, <3>2, <3>3 DEF ChainOk
  <2>2. ASSUME NEW len \in Nat, Holds(v, n, q[n], L, len) PROVE Holds(w, n, r[n], L + 1, len)
    <3>1. SUFFICES ASSUME NEW i \in 0 .. len - 1
                   PROVE  /\ ClusterIx(i) <= L + 1
                          /\ w[PlaceOf(r[n], i)][i % UnitsPerBlock] = <<n, i>>
      BY DEF Holds
    <3>2. ClusterIx(i) <= L /\ v[PlaceOf(q[n], i)][i % UnitsPerBlock] = <<n, i>>
      BY <2>2 DEF Holds
    <3>3. i \in Nat
      OBVIOUS
    <3>4. ClusterIx(i) \in Nat
      BY <3>3, Positions
    <3>5. PlaceOf(q[n], i) \in DataBlocks
      BY <1>2, <3>2, <3>3, PlaceTyped DEF L
    <3>6. PlaceOf(r[n], i) = PlaceOf(q[n], i)
      BY <1>5, <3>2, <3>3, GrownKeeps DEF r, L
    <3>7. QED
      BY <1>2, <1>4, <3>2, <3>4, <3>5, <3>6
  <2>3. h[n].pos \in Nat /\ h[n].size \in Nat
    BY DEF Handle
  <2>4. Holds(w, n, r[n], L + 1, h[n].pos) /\ Holds(w, n, r[n], L + 1, h[n].size)
    BY <1>7, <2>2, <2>3 DEF OpenOk, L
  <2>5. OpenOk(w, h[n], n, r[n])
    BY <1>4, <1>6, <1>7, <2>1, <2>4 DEF OpenOk
  <2>6. QED
    BY <2>5 DEF FileOk
<1>12. QED
  BY <1>2, <1>4, <1>6, <1>9, <1>10, <1>11 DEF Files, last, w, r, L

(* A first cluster for the file n.                                         *)
LEMMA FirstKeepsFiles ==
  ASSUME NEW v \in Views, NEW h \in [Names -> Handle], NEW q \in Layouts, Files(v, h, q),
         NEW c \in Clusters, Unused(q, c), FatIn(v, c) = EOC,
         NEW n \in Names, h[n].open, Len(q[n]) = 0,
         NEW g \in [Names -> Handle], \A m \in Names \ {n} : g[m] = h[m],
         g[n].open, g[n].first = c, g[n].dirDirty,
         g[n].pos = h[n].pos, g[n].size = h[n].size
  PROVE  Files(v, g, Grown(q, n, c))
<1> DEFINE r == Grown(q, n, c)
<1>1. Distinct(q) /\ Linked(v) /\ OpenOk(v, h[n], n, q[n]) /\ q[n] \in Seq(Clusters)
  BY DEF Files, FileOk, Layouts
<1>2. /\ r \in Layouts /\ Distinct(r) /\ Len(r[n]) = 1 /\ r[n][1] = c
      /\ \A m \in Names \ {n} : r[m] = q[m]
  <2>1. /\ r \in Layouts /\ Distinct(r) /\ Len(r[n]) = Len(q[n]) + 1
        /\ r[n][Len(q[n]) + 1] = c /\ \A m \in Names \ {n} : r[m] = q[m]
    <3>1. r \in Layouts
      BY <1>1, GrownTyped
    <3>2. Distinct(r)
      BY <1>1, GrownTyped
    <3>3. Len(r[n]) = Len(q[n]) + 1
      <4>1. r[n] = Append(q[n], c)
        BY <1>1, GrownTyped
      <4> HIDE DEF r
      <4>2. QED
        BY <1>1, <4>1
    <3>4. \A m \in Names \ {n} : r[m] = q[m]
      BY <1>1, GrownTyped
    <3>5. r[n][Len(q[n]) + 1] = c
      BY <1>1, GrownTyped
    <3>6. QED
      BY <3>1, <3>2, <3>3, <3>4, <3>5
  <2> HIDE DEF r
  <2>2. QED
    BY <2>1
<1>3. h[n].first = 0 /\ ClusterIx(0) \in Nat \ {0}
  BY <1>1, Positions DEF OpenOk, ChainOk
<1>4. h[n].pos = 0 /\ h[n].size = 0
  <2>1. ASSUME NEW len \in Nat, Holds(v, n, q[n], Len(q[n]), len) PROVE len = 0
    <3>1. CASE len # 0
      <4>1. 0 \in 0 .. len - 1
        BY <3>1
      <4>2. ClusterIx(0) <= 0
        BY <2>1, <4>1 DEF Holds
      <4>3. QED
        BY <1>3, <4>2
    <3>2. QED
      BY <3>1
  <2>2. h[n].pos \in Nat /\ h[n].size \in Nat
    BY DEF Handle
  <2>3. QED
    BY <1>1, <2>1, <2>2 DEF OpenOk
<1> HIDE DEF r
<1>5. OpenOk(v, g[n], n, r[n])
  <2>1. ChainOk(v, c, r[n], 1)
    BY <1>2 DEF ChainOk
  <2>2. Holds(v, n, r[n], 1, 0)
    BY DEF Holds
  <2>3. v[DirBlock][n].used /\ v[DirBlock][n].size <= 0
    BY <1>1, <1>4 DEF OpenOk
  <2>4. v[DirBlock][n].first = 0 /\ v[DirBlock][n].size = 0
    <3>1. v[DirBlock][n].size \in Nat
      BY DEF Views, DirData, EntryType
    <3>2. QED
      BY <1>1, <1>3, <2>3, <3>1 DEF OpenOk
  <2>5. QED
    BY <1>2, <1>4, <2>1, <2>2, <2>3, <2>4 DEF OpenOk
<1>6. ASSUME NEW m \in Names PROVE FileOk(v, g[m], m, r[m])
  BY <1>2, <1>5, <1>6 DEF Files, FileOk
<1>7. QED
  BY <1>1, <1>2, <1>6 DEF Files, r

-----------------------------------------------------------------------------
(* A call on the file n, between two of its steps.  h has the handles of   *)
(* the other files, q says which clusters the files have.                  *)
Handles(h, n, s) == [h EXCEPT ![n] = s.this]

(* "cluster for current file position" *)
CurOk(f, c) == f.cur = IF f.pos = 0 THEN 0 ELSE c[ClusterIx(f.pos - 1)]

(* A dirty block of data is a block that is written already: the next      *)
(* block to be written may bypass the cache without losing one.            *)
DirtyOwned(s, h, q) ==
  s.cacheDirty /\ s.cacheBlock \in DataBlocks =>
    \E m \in Names : \E i \in 0 .. h[m].pos - 1 :
       ClusterIx(i) <= Len(q[m]) /\ s.cacheBlock = PlaceOf(q[m], i)

(* The volumes that a restart may find with one of these directories.      *)
Cards(q, Dirs) == {v \in Views : Sound(v, q) /\ v[DirBlock] \in Dirs}
Recoverable(Dirs) == {v \in Views : v[DirBlock] \in Dirs /\ \E q \in Layouts : Sound(v, q)}

Mid(s, h, n, q, Dirs) ==
  /\ Good(s, Cards(q, Dirs)) /\ s.this.open
  /\ Files(View(s), Handles(h, n, s), q)
  /\ \A m \in Names \ {n} : CurOk(h[m], q[m])
  /\ DirtyOwned(s, Handles(h, n, s), q)

LEMMA HandlesTyped ==
  ASSUME NEW h \in [Names -> Handle], NEW n \in Names, NEW s \in State
  PROVE  /\ Handles(h, n, s) \in [Names -> Handle] /\ Handles(h, n, s)[n] = s.this
         /\ \A m \in Names \ {n} : Handles(h, n, s)[m] = h[m]
<1>1. s.this \in Handle
  BY DEF State
<1>2. QED
  BY <1>1 DEF Handles

LEMMA CardsRecoverable ==
  ASSUME NEW q \in Layouts, NEW Dirs
  PROVE  /\ Cards(q, Dirs) \in SUBSET Views
         /\ \A o : Faulted(o, Cards(q, Dirs)) => Faulted(o, Recoverable(Dirs))
BY DEF Cards, Recoverable, Faulted

(* A step that only moves blocks between the cache and the card.           *)
LEMMA KeptMid ==
  ASSUME NEW h \in [Names -> Handle], NEW n \in Names, NEW q \in Layouts, NEW Dirs,
         NEW s, Mid(s, h, n, q, Dirs), NEW t, Good(t, Cards(q, Dirs)), Kept(s, t)
  PROVE  Mid(t, h, n, q, Dirs)
<1>1. t.this = s.this /\ View(t) = View(s) /\ Handles(h, n, t) = Handles(h, n, s)
  BY DEF Kept, Same, Handles
<1>2. DirtyOwned(t, Handles(h, n, s), q)
  BY DEF Mid, DirtyOwned, Kept
<1>3. QED
  BY <1>1, <1>2 DEF Mid

-----------------------------------------------------------------------------
(* The allocation of a cluster.                                            *)
LEMMA GoodInMore ==
  ASSUME NEW D, NEW E, D \subseteq E, NEW s, Good(s, D)
  PROVE  Good(s, E)
BY DEF Good

LEMMA FilesInCards ==
  ASSUME NEW v \in Views, NEW h \in [Names -> Handle], NEW q \in Layouts, Files(v, h, q),
         NEW Dirs, v[DirBlock] \in Dirs
  PROVE  v \in Cards(q, Dirs)
BY FilesSound DEF Cards

LEMMA CardsGrow ==
  ASSUME NEW q \in Layouts, Distinct(q), NEW n \in Names, NEW c \in Clusters, Unused(q, c),
         NEW Dirs
  PROVE  Cards(q, Dirs) \subseteq Cards(Grown(q, n, c), Dirs)
BY GrownSound DEF Cards

Link(s, cur, c) == IF cur = 0 THEN Done(s) ELSE FatPut(s, cur, c)
Allocated(s, cur, c) == [s EXCEPT !.searchStart = IF cur = 0 THEN c + 1 ELSE @]

LEMMA AllocClusterSteps ==
  ASSUME NEW s, NEW cur, NEW o \in AllocCluster(s, cur)
  PROVE  \E f \in FindFree(s, IF cur = 0 THEN s.searchStart ELSE cur + 1) :
           /\ ~ f.ok => o = f
           /\ f.ok => \E m \in FatPut(f.s, f.result, EOC) :
                /\ ~ m.ok => o = m
                /\ m.ok => \E k \in Link(m.s, cur, f.result) :
                     /\ ~ k.ok => o = k
                     /\ k.ok => o \in Success(Allocated(k.s, cur, f.result), f.result)
<1> DEFINE K(f, m) == UNION {IF k.ok THEN Success(Allocated(k.s, cur, f.result), f.result)
                             ELSE {k} : k \in Link(m.s, cur, f.result)}
           M(f) == UNION {IF m.ok THEN K(f, m) ELSE {m} :
                          m \in FatPut(f.s, f.result, EOC)}
           start == IF cur = 0 THEN s.searchStart ELSE cur + 1
<1>1. o \in UNION {IF f.ok THEN M(f) ELSE {f} : f \in FindFree(s, start)}
  BY DEF AllocCluster, Then, Link, Allocated
<1> HIDE DEF M
<1>2. PICK f \in FindFree(s, start) : o \in IF f.ok THEN M(f) ELSE {f}
  BY <1>1
<1>3. CASE ~ f.ok
  BY <1>2, <1>3
<1>4. CASE f.ok
  <2>1. PICK m \in FatPut(f.s, f.result, EOC) : o \in IF m.ok THEN K(f, m) ELSE {m}
    BY <1>2, <1>4 DEF M
  <2>2. QED
    BY <1>2, <1>4, <2>1
<1>5. QED
  BY <1>3, <1>4

(* The last cluster of a file, 0 if it has none.                           *)
LastOf(c) == IF Len(c) = 0 THEN 0 ELSE c[Len(c)]
Marked(v, h, q, c) == Files(v, h, q) /\ FatIn(v, c) = EOC

LEMMA OfAllocCluster ==
  ASSUME NEW h \in [Names -> Handle], NEW n \in Names, NEW q \in Layouts, NEW Dirs,
         NEW s, Mid(s, h, n, q, Dirs), NEW cur, cur = LastOf(q[n]),
         NEW o \in AllocCluster(s, cur)
  PROVE  /\ o \in OutcomeOf(Clusters \cup {0})
         /\ o.s.fault => Faulted(o, Recoverable(Dirs))
         /\ ~ o.ok /\ ~ o.s.fault => Mid(o.s, h, n, q, Dirs) /\ o.s.this = s.this
         /\ o.ok => /\ ~ o.s.fault /\ o.result \in Clusters /\ Unused(q, o.result)
                    /\ Good(o.s, Cards(Grown(q, n, o.result), Dirs))
                    /\ o.s.this = s.this /\ o.s.cacheBlock \in FatBlocks
                    /\ cur = 0 => Marked(View(o.s), Handles(h, n, s), q, o.result)
                    /\ cur # 0 => Files(View(o.s), Handles(h, n, s), Grown(q, n, o.result))
<1> DEFINE g == Handles(h, n, s)
           D == Cards(q, Dirs)
           start == IF cur = 0 THEN s.searchStart ELSE cur + 1
<1>1. /\ Good(s, D) /\ s \in State /\ View(s) \in Views /\ View(s)[DirBlock] \in Dirs
      /\ Files(View(s), g, q) /\ Distinct(q) /\ s.this.open
  BY DEF Mid, Good, Cards, Files
<1>2. g \in [Names -> Handle] /\ g[n] = s.this
  BY <1>1, HandlesTyped
<1>3. D \in SUBSET Views
  BY DEF Cards
<1>4. q[n] \in Seq(Clusters) /\ Len(q[n]) \in Nat /\ 0 \notin Clusters
        /\ Clusters \subseteq 0 .. LastCluster /\ EOC \in 0 .. EOC
        /\ Clusters \subseteq 2 .. EOC /\ \A c \in Clusters : c + 1 \in 2 .. EOC
  BY VolumeAssumption DEF Layouts, Clusters, LastCluster, EOC
<1>5. /\ cur = 0 => Len(q[n]) = 0
      /\ cur # 0 => Len(q[n]) # 0 /\ cur = q[n][Len(q[n])] /\ cur \in Clusters
  BY <1>4 DEF LastOf
<1>6. start \in 2 .. EOC
  BY <1>1, <1>4, <1>5 DEF State
<1>7. PICK f \in FindFree(s, start) :
           /\ ~ f.ok => o = f
           /\ f.ok => \E m \in FatPut(f.s, f.result, EOC) :
                /\ ~ m.ok => o = m
                /\ m.ok => \E k \in Link(m.s, cur, f.result) :
                     /\ ~ k.ok => o = k
                     /\ k.ok => o \in Success(Allocated(k.s, cur, f.result), f.result)
  BY AllocClusterSteps
<1> HIDE DEF start, g, D
<1>8. /\ f \in OutcomeOf(Clusters \cup {0})
      /\ ~ f.s.fault => Good(f.s, D) /\ Kept(s, f.s)
      /\ f.ok => ~ f.s.fault /\ f.result \in Clusters /\ FatIn(View(s), f.result) = 0
      /\ f.s.fault => Faulted(f, D)
  BY <1>1, <1>3, <1>6, OfFindFree
<1>9. CASE ~ f.ok
  <2>1. o = f
    BY <1>7, <1>9
  <2>2. CASE f.s.fault
    BY <1>8, <1>9, <2>1, <2>2, CardsRecoverable DEF D
  <2>3. CASE ~ f.s.fault
    <3>1. Mid(f.s, h, n, q, Dirs)
      BY <1>8, <2>3, KeptMid DEF D
    <3>2. QED
      BY <1>8, <1>9, <2>1, <2>3, <3>1 DEF Kept, Same
  <2>4. QED
    BY <2>2, <2>3
<1>10. CASE f.ok
  <2> DEFINE c == f.result
             v == View(s)
             w == SetFat(v, c, EOC)
             r == Grown(q, n, c)
             E == Cards(r, Dirs)
  <2>1. c \in Clusters /\ FatIn(v, c) = 0 /\ Good(f.s, D) /\ View(f.s) = v /\ f.s.this = s.this
    BY <1>8, <1>10 DEF Kept, Same
  <2> HIDE DEF c
  <2>2. Unused(q, c)
    BY <1>1, <1>2, <2>1, FreeIsUnused
  <2>3. /\ w \in Views /\ Files(w, g, q) /\ w[DirBlock] = v[DirBlock]
        /\ FatIn(w, c) = EOC /\ LinkedToNone(w, c)
    BY <1>1, <1>2, <2>1, MarkKeepsFiles
  <2> HIDE DEF w, v
  <2>4. w \in D
    BY <1>1, <1>2, <2>3, FilesInCards DEF D, v
  <2>5. PICK m \in FatPut(f.s, c, EOC) :
                /\ ~ m.ok => o = m
                /\ m.ok => \E k \in Link(m.s, cur, c) :
                     /\ ~ k.ok => o = k
                     /\ k.ok => o \in Success(Allocated(k.s, cur, c), c)
    BY <1>7, <1>10 DEF c
  <2>6. /\ m \in OutcomeOf({0})
        /\ m.ok => /\ Good(m.s, D) /\ Same(f.s, m.s) /\ View(m.s) = w
                   /\ m.s.cacheBlock = FatBlock(c)
        /\ ~ m.ok => Faulted(m, D)
    BY <1>3, <1>4, <2>1, <2>4, OfFatPut DEF w
  <2>7. CASE ~ m.ok
    <3>1. o = m /\ m \in OutcomeOf(Clusters \cup {0}) /\ m.s.fault
      BY <2>5, <2>6, <2>7 DEF OutcomeOf, Faulted
    <3>2. Faulted(m, Recoverable(Dirs))
      BY <2>6, <2>7, CardsRecoverable DEF D
    <3>3. QED
      BY <2>7, <3>1, <3>2
  <2>8. CASE m.ok
    <3>1. PICK k \in Link(m.s, cur, c) :
                     /\ ~ k.ok => o = k
                     /\ k.ok => o \in Success(Allocated(k.s, cur, c), c)
      BY <2>5, <2>8
    <3>2. Good(m.s, E) /\ E \in SUBSET Views /\ r \in Layouts
      <4>1. D \subseteq E
        BY <1>1, <2>1, <2>2, CardsGrow DEF D
      <4>2. E \in SUBSET Views /\ r \in Layouts
        BY <1>1, <2>1, <2>2, GrownTyped DEF Cards
      <4> HIDE DEF E
      <4>3. QED
        BY <2>6, <2>8, <4>1, <4>2, GoodInMore
    <3>3. m.s \in State /\ m.s.this = s.this /\ FatBlock(c) \in FatBlocks
      BY <1>4, <2>1, <2>6, <2>8, <3>2, FatTyped, <1>1 DEF Good, Same, FatBlocks
    <3>4. /\ k \in OutcomeOf({0})
          /\ k.ok => /\ Good(k.s, E) /\ k.s.this = s.this /\ k.s.cacheBlock \in FatBlocks
                     /\ cur = 0 => Marked(View(k.s), g, q, c)
                     /\ cur # 0 => Files(View(k.s), g, r)
          /\ ~ k.ok => Faulted(k, E)
      <4>1. CASE cur = 0
        <5>1. k \in Done(m.s)
          BY <3>1, <4>1, Zenon DEF Link
        <5>2. k.ok /\ k.s = m.s /\ k \in OutcomeOf({0})
          BY <3>3, <5>1, OfDone, OutcomeTypes
        <5> HIDE DEF E
        <5>3. QED
          BY <2>3, <2>6, <2>8, <3>2, <3>3, <4>1, <5>2 DEF Marked
      <4>2. CASE cur # 0
        <5> DEFINE u == SetFat(w, cur, c)
        <5>1. k \in FatPut(m.s, cur, c)
          BY <3>1, <4>2, Zenon DEF Link
        <5>2. u \in Views /\ Files(u, g, r) /\ u[DirBlock] = w[DirBlock]
          BY <1>1, <1>2, <1>5, <2>1, <2>2, <2>3, <4>2, LinkKeepsFiles
        <5> HIDE DEF r, u
        <5>3. u \in E
          BY <1>1, <1>2, <2>3, <3>2, <5>2, FilesInCards DEF v
        <5>4. c \in 0 .. EOC /\ cur \in Clusters
          <6>1. cur \in Clusters
            BY <1>5, <4>2
          <6>2. \A i \in 2 .. EOC : i \in 0 .. EOC
            OBVIOUS
          <6>3. c \in 2 .. EOC
            BY <1>4, <2>1
          <6>4. QED
            BY <6>1, <6>2, <6>3
        <5> HIDE DEF E
        <5>5. /\ k \in OutcomeOf({0})
              /\ k.ok => /\ Good(k.s, E) /\ Same(m.s, k.s) /\ View(k.s) = u
                         /\ k.s.cacheBlock = FatBlock(cur)
              /\ ~ k.ok => Faulted(k, E)
          BY <2>6, <2>8, <3>2, <5>1, <5>3, <5>4, OfFatPut DEF u
        <5>6. cur \in 0 .. LastCluster
          BY <1>4, <5>4
        <5>7. FatBlock(cur) \in FatBlocks
          BY <5>6 DEF FatBlocks
        <5>8. QED
          BY <3>3, <4>2, <5>2, <5>5, <5>7 DEF Same
      <4>3. QED
        BY <4>1, <4>2
    <3>5. CASE ~ k.ok
      <4>1. o = k /\ k \in OutcomeOf(Clusters \cup {0}) /\ k.s.fault
        BY <3>1, <3>4, <3>5 DEF OutcomeOf, Faulted
      <4>2. Faulted(k, Recoverable(Dirs))
        BY <3>2, <3>4, <3>5, CardsRecoverable
      <4>3. QED
        BY <3>5, <4>1, <4>2
    <3>6. CASE k.ok
      <4> DEFINE t == Allocated(k.s, cur, c)
      <4>1. o \in Success(t, c)
        BY <3>1, <3>6
      <4>2. k.s \in State /\ c + 1 \in 2 .. EOC /\ ~ k.s.fault
        BY <1>4, <2>1, <3>4, <3>6 DEF Good
      <4>3. /\ t \in State /\ t.this = k.s.this /\ t.fault = k.s.fault
            /\ t.disk = k.s.disk /\ t.cacheBlock = k.s.cacheBlock
            /\ t.cacheData = k.s.cacheData /\ t.cacheDirty = k.s.cacheDirty
            /\ t.cacheMirror = k.s.cacheMirror
        BY <4>2 DEF State, Allocated
      <4> HIDE DEF t, E, r
      <4>4. View(t) = View(k.s)
        BY <4>3 DEF View
      <4>5. Good(t, E)
        BY <3>4, <3>6, <4>3, <4>4 DEF Good, Coherent
      <4>6. o.ok /\ o.s = t /\ o.result = c /\ o \in OutcomeOf(Clusters)
        BY <2>1, <4>1, <4>3, OfSuccess, OutcomeTypes
      <4>7. o \in OutcomeOf(Clusters \cup {0})
        BY <4>6 DEF OutcomeOf
      <4>8. QED
        BY <2>1, <2>2, <3>4, <3>6, <4>2, <4>3, <4>4, <4>5, <4>6, <4>7 DEF g, E, r
    <3>7. QED
      BY <3>5, <3>6
  <2>9. QED
    BY <2>7, <2>8
<1>11. QED
  BY <1>9, <1>10

(* addCluster: the cluster is the new last one of the file.                *)
Adding(s, c) ==
  LET t == [s EXCEPT !.this.cur = c]
  IN IF t.this.first # 0 THEN t
     ELSE [t EXCEPT !.this.first = c, !.this.dirDirty = TRUE]

LEMMA AddingTyped ==
  ASSUME NEW s \in State, NEW c \in Clusters, NEW t, t = Adding(s, c)
  PROVE  /\ t \in State /\ t.this.cur = c /\ t.this.pos = s.this.pos
         /\ t.this.size = s.this.size /\ t.this.open = s.this.open
         /\ IF s.this.first # 0
            THEN t.this.first = s.this.first /\ t.this.dirDirty = s.this.dirDirty
            ELSE t.this.first = c /\ t.this.dirDirty
         /\ t.disk = s.disk /\ t.cacheBlock = s.cacheBlock
         /\ t.cacheData = s.cacheData /\ t.cacheDirty = s.cacheDirty
         /\ t.cacheMirror = s.cacheMirror /\ t.fault = s.fault
<1>1. c \in 0 .. EOC
  BY VolumeAssumption DEF Clusters, EOC, LastCluster
<1>2. CASE s.this.first # 0
  BY <1>1, <1>2 DEF Adding, State, Handle
<1>3. CASE s.this.first = 0
  BY <1>1, <1>3 DEF Adding, State, Handle
<1>4. QED
  BY <1>2, <1>3

LEMMA OfAddCluster ==
  ASSUME NEW h \in [Names -> Handle], NEW n \in Names, NEW q \in Layouts, NEW Dirs,
         NEW s, Mid(s, h, n, q, Dirs), s.this.cur = LastOf(q[n]),
         NEW o \in AddCluster(s)
  PROVE  /\ o \in OutcomeOf(Clusters \cup {0})
         /\ o.s.fault => Faulted(o, Recoverable(Dirs))
         /\ ~ o.ok /\ ~ o.s.fault => Mid(o.s, h, n, q, Dirs) /\ o.s.this = s.this
         /\ o.ok => /\ ~ o.s.fault
                    /\ o.s.this.pos = s.this.pos /\ o.s.this.size = s.this.size
                    /\ \E r \in Layouts :
                         /\ Mid(o.s, h, n, r, Dirs) /\ Len(r[n]) = Len(q[n]) + 1
                         /\ o.s.this.cur = r[n][Len(q[n]) + 1]
<1> DEFINE cur == s.this.cur
           g == Handles(h, n, s)
<1>1. /\ Good(s, Cards(q, Dirs)) /\ s \in State
      /\ Files(View(s), g, q) /\ Distinct(q) /\ s.this.open
      /\ \A m \in Names \ {n} : CurOk(h[m], q[m])
  BY DEF Mid, Good, Files
<1>2. g \in [Names -> Handle] /\ g[n] = s.this /\ \A m \in Names \ {n} : g[m] = h[m]
  BY <1>1, HandlesTyped
<1>3. PICK a \in AllocCluster(s, cur) :
        o \in IF a.ok THEN Done(Adding(a.s, a.result)) ELSE {a}
  BY Zenon DEF AddCluster, Then, Adding
<1> DEFINE c == a.result
           r == Grown(q, n, c)
<1>4. /\ a \in OutcomeOf(Clusters \cup {0})
      /\ a.s.fault => Faulted(a, Recoverable(Dirs))
      /\ ~ a.ok /\ ~ a.s.fault => Mid(a.s, h, n, q, Dirs) /\ a.s.this = s.this
      /\ a.ok => /\ ~ a.s.fault /\ c \in Clusters /\ Unused(q, c)
                 /\ Good(a.s, Cards(r, Dirs)) /\ a.s.this = s.this
                 /\ a.s.cacheBlock \in FatBlocks
                 /\ cur = 0 => Marked(View(a.s), g, q, c)
                 /\ cur # 0 => Files(View(a.s), g, r)
  <2> HIDE DEF cur, g
  <2>1. cur = LastOf(q[n])
    BY DEF cur
  <2>2. QED
    <3>1. a \in OutcomeOf(Clusters \cup {0})
      BY <2>1, OfAllocCluster
    <3>6. a.s.fault => Faulted(a, Recoverable(Dirs))
      BY <2>1, OfAllocCluster
    <3>7. ~ a.ok /\ ~ a.s.fault => Mid(a.s, h, n, q, Dirs) /\ a.s.this = s.this
      BY <2>1, OfAllocCluster
    <3>2. a.ok => /\ ~ a.s.fault /\ c \in Clusters /\ Unused(q, c)
                  /\ Good(a.s, Cards(r, Dirs)) /\ a.s.this = s.this
                  /\ a.s.cacheBlock \in FatBlocks
      BY <2>1, OfAllocCluster
    <3>3. ASSUME a.ok, cur = 0 PROVE Marked(View(a.s), g, q, c)
      BY <2>1, <3>3, OfAllocCluster DEF g
    <3>4. ASSUME a.ok, cur # 0 PROVE Files(View(a.s), g, r)
      BY <2>1, <3>4, OfAllocCluster DEF g
    <3>5. QED
      BY <3>1, <3>2, <3>3, <3>4, <3>6, <3>7
<1>5. CASE ~ a.ok
  BY <1>3, <1>4, <1>5
<1>6. CASE a.ok
  <2> DEFINE t == Adding(a.s, c)
             k == Handles(h, n, t)
  <2>1. c \in Clusters /\ Unused(q, c) /\ Good(a.s, Cards(r, Dirs)) /\ a.s \in State
    BY <1>4, <1>6 DEF Good
  <2>2. o \in Done(t)
    BY <1>3, <1>6
  <2> HIDE DEF t
  <2>3. /\ t \in State /\ t.this.cur = c /\ t.this.pos = s.this.pos
        /\ t.this.size = s.this.size /\ t.this.open = s.this.open
        /\ IF s.this.first # 0
           THEN t.this.first = s.this.first /\ t.this.dirDirty = s.this.dirDirty
           ELSE t.this.first = c /\ t.this.dirDirty
        /\ t.disk = a.s.disk /\ t.cacheBlock = a.s.cacheBlock
        /\ t.cacheData = a.s.cacheData /\ t.cacheDirty = a.s.cacheDirty
        /\ t.cacheMirror = a.s.cacheMirror /\ t.fault = a.s.fault
    BY <1>4, <1>6, <2>1, AddingTyped DEF t
  <2>4. View(t) = View(a.s)
    BY <2>3 DEF View
  <2>5. o.ok /\ o.s = t /\ o \in OutcomeOf({0})
    BY <2>2, <2>3, OfDone, OutcomeTypes
  <2>6. Good(t, Cards(r, Dirs))
    BY <2>1, <2>3, <2>4 DEF Good, Coherent
  <2>7. k \in [Names -> Handle] /\ k[n] = t.this /\ \A m \in Names \ {n} : k[m] = h[m]
    BY <2>3, HandlesTyped
  <2>8. /\ r \in Layouts /\ Len(r[n]) = Len(q[n]) + 1 /\ r[n][Len(q[n]) + 1] = c
        /\ \A m \in Names \ {n} : r[m] = q[m]
    BY <1>1, <2>1, GrownTyped
  <2>9. q[n] \in Seq(Clusters) /\ Len(q[n]) \in Nat /\ 0 \notin Clusters
    BY DEF Layouts, Clusters
  <2>10. OpenOk(View(s), s.this, n, q[n])
    BY <1>1, <1>2 DEF Files, FileOk
  <2>11. Files(View(t), k, r)
    <3>1. View(t) \in Views
      BY <2>6 DEF Good, Cards
    <3>2. CASE Len(q[n]) = 0
      <4>1. cur = 0 /\ s.this.first = 0
        BY <2>10, <3>2 DEF LastOf, OpenOk, ChainOk
      <4>2. Files(View(t), g, q) /\ FatIn(View(t), c) = EOC
        BY <1>4, <1>6, <2>4, <4>1 DEF Marked
      <4>3. /\ k[n].open /\ k[n].first = c /\ k[n].dirDirty
            /\ k[n].pos = g[n].pos /\ k[n].size = g[n].size /\ g[n].open
            /\ \A m \in Names \ {n} : k[m] = g[m]
        <5> HIDE DEF k, g
        <5>1. QED
          BY <1>1, <1>2, <2>3, <2>7, <4>1
      <4> HIDE DEF k, g, t, r, c
      <4>4. Files(View(t), k, Grown(q, n, c))
        BY <1>2, <2>1, <2>7, <3>1, <3>2, <4>2, <4>3, FirstKeepsFiles
      <4>5. QED
        BY <4>4 DEF r
    <3>3. CASE Len(q[n]) # 0
      <4>1. cur # 0 /\ s.this.first # 0
        <5>1. q[n][1] \in Clusters /\ q[n][Len(q[n])] \in Clusters
          BY <2>9, <3>3
        <5>2. s.this.first = q[n][1] /\ cur = q[n][Len(q[n])]
          BY <2>10, <3>3 DEF LastOf, OpenOk, ChainOk
        <5>3. QED
          BY <2>9, <5>1, <5>2
      <4>2. Files(View(t), g, r)
        BY <1>4, <1>6, <2>4, <4>1
      <4>3. /\ k[n].open = g[n].open /\ k[n].first = g[n].first
            /\ k[n].dirDirty = g[n].dirDirty
            /\ k[n].pos = g[n].pos /\ k[n].size = g[n].size
            /\ \A m \in Names \ {n} : k[m] = g[m]
        <5> HIDE DEF k, g
        <5>1. QED
          BY <1>1, <1>2, <2>3, <2>7, <4>1
      <4> HIDE DEF k, g, t, r, c
      <4>4. ASSUME NEW m \in Names PROVE FileOk(View(t), k[m], m, r[m])
        <5>1. FileOk(View(t), g[m], m, r[m])
          BY <4>2 DEF Files
        <5>2. CASE m # n
          BY <4>3, <5>1, <5>2
        <5>3. CASE m = n
          <6>1. g[n].open
            BY <1>1, <1>2
          <6>2. OpenOk(View(t), g[n], n, r[n])
            BY <5>1, <5>3, <6>1 DEF FileOk
          <6>3. OpenOk(View(t), k[n], n, r[n])
            BY <4>3, <6>2 DEF OpenOk
          <6>4. QED
            BY <4>3, <5>3, <6>1, <6>3 DEF FileOk
        <5>4. QED
          BY <5>2, <5>3
      <4>5. QED
        BY <4>2, <4>4 DEF Files
    <3>4. QED
      BY <3>2, <3>3
  <2>12. Mid(t, h, n, r, Dirs)
    <3>1. t.cacheBlock \notin DataBlocks
      BY <1>4, <1>6, <2>3, BlockKinds
    <3>2. DirtyOwned(t, k, r)
      BY <3>1 DEF DirtyOwned
    <3>3. \A m \in Names \ {n} : CurOk(h[m], r[m])
      BY <1>1, <2>8
    <3> HIDE DEF t, r, c
    <3>4. QED
      BY <1>1, <2>3, <2>6, <2>11, <3>2, <3>3 DEF Mid
  <2> HIDE DEF r, c
  <2>13. o \in OutcomeOf(Clusters \cup {0})
    BY <2>5 DEF OutcomeOf
  <2>14. ~ t.fault
    BY <2>6 DEF Good
  <2>15. \E x \in Layouts : /\ Mid(o.s, h, n, x, Dirs) /\ Len(x[n]) = Len(q[n]) + 1
                            /\ o.s.this.cur = x[n][Len(q[n]) + 1]
    BY <2>3, <2>5, <2>8, <2>12
  <2>16. QED
    BY <2>3, <2>5, <2>13, <2>14, <2>15
<1>7. QED
  BY <1>5, <1>6

-----------------------------------------------------------------------------
(* write() at the start of a cluster.                                      *)
InCluster(f, c) == ClusterIx(f.pos) <= Len(c) /\ f.cur = c[ClusterIx(f.pos)]

(* The cluster of the position is found, or the position stays where it    *)
(* was because the volume is full.                                         *)
Placed(s, h, n, Dirs) ==
  {o \in OutcomeOf(Nat) :
     /\ o.s.fault => Faulted(o, Recoverable(Dirs))
     /\ ~ o.s.fault =>
          /\ o.s.this.pos = s.this.pos /\ o.s.this.size = s.this.size
          /\ \E r \in Layouts : /\ Mid(o.s, h, n, r, Dirs)
                                /\ o.ok => InCluster(o.s.this, r[n])
                                /\ ~ o.ok => CurOk(o.s.this, r[n])}

LEMMA MidFacts ==
  ASSUME NEW h \in [Names -> Handle], NEW n \in Names, NEW q \in Layouts, NEW Dirs,
         NEW s, Mid(s, h, n, q, Dirs)
  PROVE  /\ Good(s, Cards(q, Dirs)) /\ s \in State /\ View(s) \in Views
         /\ View(s)[DirBlock] \in Dirs /\ ~ s.fault /\ s.this \in Handle
         /\ Cards(q, Dirs) \in SUBSET Views
         /\ Files(View(s), Handles(h, n, s), q) /\ Distinct(q)
         /\ Handles(h, n, s) \in [Names -> Handle] /\ Handles(h, n, s)[n] = s.this
         /\ OpenOk(View(s), s.this, n, q[n]) /\ s.this.open
         /\ q[n] \in Seq(Clusters) /\ Len(q[n]) \in Nat
<1>1. /\ Good(s, Cards(q, Dirs)) /\ s \in State /\ View(s) \in Views
      /\ View(s)[DirBlock] \in Dirs /\ s.this.open /\ ~ s.fault
      /\ Files(View(s), Handles(h, n, s), q) /\ Distinct(q)
  BY DEF Mid, Good, Cards, Files
<1>2. s.this \in Handle /\ Cards(q, Dirs) \in SUBSET Views
  BY <1>1 DEF State, Cards
<1>3. Handles(h, n, s) \in [Names -> Handle] /\ Handles(h, n, s)[n] = s.this
  BY <1>1, HandlesTyped
<1>4. OpenOk(View(s), s.this, n, q[n])
  BY <1>1, <1>3 DEF Files, FileOk
<1>5. q[n] \in Seq(Clusters) /\ Len(q[n]) \in Nat
  BY DEF Layouts
<1>6. QED
  BY <1>1, <1>2, <1>3, <1>4, <1>5

(* A step that only moves curCluster_.                                     *)
AtCluster(s, c) == [s EXCEPT !.this.cur = c]

LEMMA CurMoves ==
  ASSUME NEW h \in [Names -> Handle], NEW n \in Names, NEW q \in Layouts, NEW Dirs,
         NEW s, Mid(s, h, n, q, Dirs), NEW c \in 0 .. EOC,
         NEW t, t = AtCluster(s, c)
  PROVE  /\ Mid(t, h, n, q, Dirs) /\ t.this.cur = c
         /\ t.this.pos = s.this.pos /\ t.this.size = s.this.size
         /\ t.this.first = s.this.first
<1>1. s \in State /\ s.this \in Handle /\ Good(s, Cards(q, Dirs)) /\ OpenOk(View(s), s.this, n, q[n])
        /\ Files(View(s), Handles(h, n, s), q)
        /\ Handles(h, n, s) \in [Names -> Handle] /\ Handles(h, n, s)[n] = s.this
  BY MidFacts
<1>2. /\ t \in State /\ t.this.cur = c /\ t.this.pos = s.this.pos
      /\ t.this.size = s.this.size /\ t.this.open = s.this.open
      /\ t.this.first = s.this.first /\ t.this.dirDirty = s.this.dirDirty
      /\ t.disk = s.disk /\ t.cacheBlock = s.cacheBlock
      /\ t.cacheData = s.cacheData /\ t.cacheDirty = s.cacheDirty
      /\ t.cacheMirror = s.cacheMirror /\ t.fault = s.fault
  BY <1>1 DEF State, Handle, AtCluster
<1>3. View(t) = View(s)
  BY <1>2 DEF View
<1>4. Good(t, Cards(q, Dirs))
  BY <1>1, <1>2, <1>3 DEF Good, Coherent
<1> DEFINE g == Handles(h, n, s)
           k == Handles(h, n, t)
<1>5. k[n] = t.this /\ g[n] = s.this /\ \A m \in Names \ {n} : k[m] = g[m]
  <2>1. k[n] = t.this /\ \A m \in Names \ {n} : k[m] = h[m]
    BY <1>2, HandlesTyped
  <2>2. g[n] = s.this /\ \A m \in Names \ {n} : g[m] = h[m]
    BY <1>1, HandlesTyped
  <2>3. QED
    BY <2>1, <2>2
<1>6. \A m \in Names : k[m].pos = g[m].pos
  BY <1>2, <1>5
<1> HIDE DEF g, k
<1>7. DirtyOwned(t, k, q)
  <2>1. DirtyOwned(s, g, q)
    BY DEF Mid, g
  <2>2. QED
    BY <1>2, <1>6, <2>1 DEF DirtyOwned
<1>8. ASSUME NEW m \in Names PROVE FileOk(View(t), k[m], m, q[m])
  <2>1. FileOk(View(s), g[m], m, q[m])
    BY <1>1 DEF Files, g
  <2>2. CASE m # n
    BY <1>3, <1>5, <2>1, <2>2
  <2>3. CASE m = n
    <3>1. OpenOk(View(t), t.this, n, q[n])
      BY <1>1, <1>2, <1>3 DEF OpenOk
    <3>2. t.this.open
      BY <1>2 DEF Mid
    <3>3. QED
      BY <1>5, <2>3, <3>1, <3>2 DEF FileOk
  <2>4. QED
    BY <2>2, <2>3
<1>9. Files(View(t), k, q)
  BY <1>1, <1>3, <1>8 DEF Files
<1>10. QED
  BY <1>2, <1>4, <1>7, <1>9 DEF Mid, k

(* The position of an open file.                                           *)
LEMMA CurIsCluster ==
  ASSUME NEW h \in [Names -> Handle], NEW n \in Names, NEW q \in Layouts, NEW Dirs,
         NEW s, Mid(s, h, n, q, Dirs), CurOk(s.this, q[n])
  PROVE  /\ s.this.pos = 0 <=> s.this.cur = 0
         /\ s.this.pos # 0 =>
              /\ ClusterIx(s.this.pos - 1) \in 1 .. Len(q[n])
              /\ s.this.cur = q[n][ClusterIx(s.this.pos - 1)] /\ s.this.cur \in Clusters
<1>1. OpenOk(View(s), s.this, n, q[n]) /\ q[n] \in Seq(Clusters) /\ s.this.pos \in Nat
        /\ 0 \notin Clusters /\ Len(q[n]) \in Nat
  <2>1. /\ OpenOk(View(s), s.this, n, q[n]) /\ q[n] \in Seq(Clusters)
        /\ s.this \in Handle /\ Len(q[n]) \in Nat
    BY MidFacts, SMTT(30)
  <2>2. s.this.pos \in Nat
    BY <2>1 DEF Handle
  <2>3. 0 \notin Clusters
    BY DEF Clusters
  <2>4. QED
    BY <2>1, <2>2, <2>3
<1>2. ASSUME s.this.pos # 0
      PROVE  /\ ClusterIx(s.this.pos - 1) \in 1 .. Len(q[n])
             /\ s.this.cur = q[n][ClusterIx(s.this.pos - 1)] /\ s.this.cur \in Clusters
  <2> DEFINE i == s.this.pos - 1
             x == ClusterIx(i)
  <2>1. i \in Nat /\ i \in 0 .. s.this.pos - 1
    BY <1>1, <1>2
  <2> HIDE DEF i
  <2>2. x \in Nat \ {0}
    BY <2>1, Positions
  <2>3. x <= Len(q[n])
    BY <1>1, <2>1 DEF OpenOk, Holds
  <2>4. s.this.cur = q[n][x]
    BY <1>2 DEF CurOk, i
  <2> HIDE DEF x
  <2>5. x \in 1 .. Len(q[n])
    BY <1>1, <2>2, <2>3
  <2>6. QED
    BY <1>1, <2>4, <2>5 DEF x, i
<1>3. s.this.pos = 0 => s.this.cur = 0
  BY DEF CurOk
<1>4. QED
  BY <1>1, <1>2, <1>3

LEMMA AfterAddCluster ==
  ASSUME NEW h \in [Names -> Handle], NEW n \in Names, NEW q \in Layouts, NEW Dirs,
         NEW s, Mid(s, h, n, q, Dirs), s.this.cur = LastOf(q[n]), CurOk(s.this, q[n]),
         ClusterIx(s.this.pos) = Len(q[n]) + 1,
         NEW o \in AddCluster(s)
  PROVE  o \in Placed(s, h, n, Dirs)
<1>1. o \in OutcomeOf(Clusters \cup {0})
  BY OfAddCluster
<1>2. o \in OutcomeOf(Nat)
  BY <1>1 DEF OutcomeOf, Clusters
<1>3. o.s.fault => Faulted(o, Recoverable(Dirs))
  BY OfAddCluster
<1>4. CASE ~ o.ok /\ ~ o.s.fault
  <2>1. Mid(o.s, h, n, q, Dirs) /\ o.s.this = s.this
    BY <1>4, OfAddCluster
  <2>2. QED
    BY <1>2, <1>4, <2>1 DEF Placed
<1>5. CASE o.ok
  <2>1. ~ o.s.fault /\ o.s.this.pos = s.this.pos /\ o.s.this.size = s.this.size
    BY <1>5, OfAddCluster
  <2>2. PICK r \in Layouts : /\ Mid(o.s, h, n, r, Dirs) /\ Len(r[n]) = Len(q[n]) + 1
                             /\ o.s.this.cur = r[n][Len(q[n]) + 1]
    BY <1>5, OfAddCluster
  <2>3. Len(q[n]) \in Nat
    BY MidFacts
  <2>4. InCluster(o.s.this, r[n])
    BY <2>1, <2>2, <2>3 DEF InCluster
  <2>5. QED
    BY <1>2, <1>5, <2>1, <2>2, <2>4 DEF Placed
<1>6. QED
  BY <1>2, <1>3, <1>4, <1>5 DEF Placed

NextLink(p) == IF IsEOC(p.result) THEN AddCluster(p.s)
               ELSE Done(AtCluster(p.s, p.result))

LEMMA OfNextCluster ==
  ASSUME NEW h \in [Names -> Handle], NEW n \in Names, NEW q \in Layouts, NEW Dirs,
         NEW s, Mid(s, h, n, q, Dirs), CurOk(s.this, q[n]),
         Offset(s) = 0, BlockOfCluster(s) = 0, NEW o \in NextCluster(s)
  PROVE  o \in Placed(s, h, n, Dirs)
<1> DEFINE pos == s.this.pos
           f == s.this
           c == q[n]
<1>1. /\ s \in State /\ f \in Handle /\ pos \in Nat /\ c \in Seq(Clusters) /\ Len(c) \in Nat
      /\ OpenOk(View(s), f, n, c) /\ 0 \notin Clusters /\ Clusters \subseteq 0 .. EOC
      /\ \A d \in Clusters : ~ IsEOC(d)
  BY MidFacts, VolumeAssumption DEF Handle, Clusters, EOC, LastCluster, IsEOC
<1>2. pos % UnitsPerBlock = 0 /\ BlockIx(pos) = 0
  BY DEF Offset, BlockOfCluster, BlockIx, Seg
<1>3. ChainOk(View(s), f.first, c, Len(c))
  BY <1>1 DEF OpenOk
<1>4. CASE f.cur = 0
  <2>1. pos = 0 /\ ClusterIx(pos) = 1
    BY <1>4, CurIsCluster, ZeroPosition
  <2>2. CASE f.first = 0
    <3>1. o \in AddCluster(s)
      BY <1>4, <2>2, Zenon DEF NextCluster
    <3>2. Len(c) = 0
      <4>1. CASE Len(c) # 0
        <5>1. c[1] \in Clusters /\ f.first = c[1]
          BY <1>1, <1>3, <4>1 DEF ChainOk
        <5>2. QED
          BY <1>1, <2>2, <5>1
      <4>2. QED
        BY <4>1
    <3>3. s.this.cur = LastOf(q[n]) /\ ClusterIx(s.this.pos) = Len(q[n]) + 1
      BY <1>4, <2>1, <3>2 DEF LastOf
    <3>4. QED
      BY <3>1, <3>3, AfterAddCluster
  <2>3. CASE f.first # 0
    <3> DEFINE t == AtCluster(s, f.first)
    <3>1. o \in Done(t)
      BY <1>4, <2>3, Zenon DEF NextCluster, AtCluster
    <3>2. f.first \in 0 .. EOC
      BY <1>1 DEF Handle
    <3>3. 1 <= Len(c) /\ f.first = c[1]
      BY <1>1, <1>3, <2>3 DEF ChainOk
    <3> HIDE DEF pos, f, c
    <3>4. /\ Mid(t, h, n, q, Dirs) /\ t.this.cur = f.first
          /\ t.this.pos = s.this.pos /\ t.this.size = s.this.size
      BY <3>2, CurMoves
    <3> HIDE DEF t
    <3>5. InCluster(t.this, q[n])
      BY <2>1, <3>3, <3>4 DEF InCluster, pos, c
    <3>6. t \in State /\ ~ t.fault
      BY <3>4, MidFacts
    <3>7. o.ok /\ o.s = t /\ o \in OutcomeOf({0})
      BY <3>1, <3>6, OfDone, OutcomeTypes
    <3>8. o \in OutcomeOf(Nat)
      BY <3>7 DEF OutcomeOf
    <3>9. QED
      BY <3>4, <3>5, <3>6, <3>7, <3>8 DEF Placed
  <2>4. QED
    BY <2>2, <2>3
<1>5. CASE f.cur # 0
  <2> DEFINE x == ClusterIx(pos - 1)
             D == Cards(q, Dirs)
  <2>1. pos # 0 /\ x \in 1 .. Len(c) /\ f.cur = c[x] /\ f.cur \in Clusters
    BY <1>5, CurIsCluster
  <2>2. ClusterIx(pos) = x + 1
    BY <1>1, <1>2, <2>1, ClusterStart
  <2> HIDE DEF x
  <2>3. PICK p \in FatGet(s, f.cur) : o \in IF p.ok THEN NextLink(p) ELSE {p}
    BY <1>5, Zenon DEF NextCluster, Then, NextLink, AtCluster
  <2>4. /\ p.ok => /\ p \in OutcomeOf(0 .. EOC) /\ Good(p.s, D) /\ Kept(s, p.s)
                   /\ p.result = FatIn(View(s), f.cur)
        /\ ~ p.ok => Faulted(p, D)
    <3>1. Good(s, D) /\ D \in SUBSET Views
      BY MidFacts
    <3> HIDE DEF D, f
    <3>2. QED
      BY <2>1, <3>1, OfFatGet
  <2>5. CASE ~ p.ok
    <3>1. o = p
      BY <2>3, <2>5
    <3>2. Faulted(p, Recoverable(Dirs))
      BY <2>4, <2>5, CardsRecoverable
    <3>3. p \in OutcomeOf(Nat) /\ p.s.fault
      BY <3>2 DEF Faulted, OutcomeOf
    <3>4. QED
      BY <3>1, <3>2, <3>3 DEF Placed
  <2>6. CASE p.ok
    <3>1. Mid(p.s, h, n, q, Dirs) /\ p.s.this = f
      BY <2>4, <2>6, KeptMid DEF Kept, Same
    <3>2. p.result = IF x < Len(c) THEN c[x + 1] ELSE EOC
      BY <1>3, <2>1, <2>4, <2>6 DEF ChainOk
    <3>3. CASE x = Len(c)
      <4>1. IsEOC(p.result)
        BY <1>1, <3>2, <3>3, VolumeAssumption DEF IsEOC, EOC, LastCluster
      <4>2. o \in AddCluster(p.s)
        BY <2>3, <2>6, <4>1, Zenon DEF NextLink
      <4>3. p.s.this.cur = LastOf(q[n]) /\ ClusterIx(p.s.this.pos) = Len(q[n]) + 1
              /\ CurOk(p.s.this, q[n])
        BY <1>1, <2>1, <2>2, <3>1, <3>3 DEF LastOf
      <4>4. o \in Placed(p.s, h, n, Dirs)
        BY <3>1, <4>2, <4>3, AfterAddCluster
      <4>5. QED
        BY <3>1, <4>4 DEF Placed
    <3>4. CASE x # Len(c)
      <4>1. x + 1 \in 1 .. Len(c) /\ p.result = c[x + 1] /\ p.result \in Clusters
        BY <1>1, <2>1, <3>2, <3>4
      <4>2. ~ IsEOC(p.result) /\ p.result \in 0 .. EOC
        BY <1>1, <4>1
      <4> DEFINE t == AtCluster(p.s, p.result)
      <4>3. o \in Done(t)
        BY <2>3, <2>6, <4>2, Zenon DEF NextLink
      <4>4. /\ Mid(t, h, n, q, Dirs) /\ t.this.cur = p.result
            /\ t.this.pos = p.s.this.pos /\ t.this.size = p.s.this.size
        BY <3>1, <4>2, CurMoves
      <4> HIDE DEF t
      <4>5. t.this.pos = pos /\ t.this.size = s.this.size
        BY <3>1, <4>4
      <4>6. InCluster(t.this, q[n])
        BY <2>2, <4>1, <4>4, <4>5 DEF InCluster
      <4>7. t \in State /\ ~ t.fault
        BY <4>4, MidFacts
      <4>8. o.ok /\ o.s = t /\ o \in OutcomeOf({0})
        BY <4>3, <4>7, OfDone, OutcomeTypes
      <4>9. o \in OutcomeOf(Nat)
        BY <4>8 DEF OutcomeOf
      <4>10. QED
        BY <4>4, <4>5, <4>6, <4>7, <4>8, <4>9 DEF Placed
    <3>5. QED
      BY <3>3, <3>4
  <2>7. QED
    BY <2>5, <2>6
<1>6. QED
  BY <1>4, <1>5

-----------------------------------------------------------------------------
(* The part of write() that puts units into one block.  What was in the    *)
(* block is there still, the new units are after it.                       *)
Put(v, b, data) == [v EXCEPT ![b] = data]

(* data is right for the block of position p of the file n, of which the   *)
(* first len units count, and for the m units from p on.                   *)
Fits(data, n, p, m, len) ==
  /\ \A i \in p .. p + m - 1 : data[i % UnitsPerBlock] = <<n, i>>
  /\ \A i \in Nat : Seg(i) = Seg(p) /\ (i < p \/ i < len) =>
       data[i % UnitsPerBlock] = <<n, i>>

LEMMA PutTyped ==
  ASSUME NEW v \in Views, NEW b \in DataBlocks, NEW data \in UnitData
  PROVE  /\ Put(v, b, data) \in Views /\ Put(v, b, data)[DirBlock] = v[DirBlock]
         /\ \A c \in 0 .. LastCluster : FatIn(Put(v, b, data), c) = FatIn(v, c)
         /\ Put(v, b, data)[b] = data
         /\ \A a \in Primary \ {b} : Put(v, b, data)[a] = v[a]
<1> DEFINE w == Put(v, b, data)
<1>1. b \in Primary /\ b # DirBlock /\ b \notin FatBlocks
  BY BlockKinds DEF Primary
<1>2. v \in [Primary -> Data] /\ data \in Data
  BY DEF Views, Data
<1>3. /\ w \in [Primary -> Data] /\ w[b] = data
      /\ \A a \in Primary \ {b} : w[a] = v[a]
  BY <1>1, <1>2 DEF Put
<1> HIDE DEF w
<1>4. DirBlock \in Primary /\ FatBlocks \subseteq Primary /\ DataBlocks \subseteq Primary
  BY DEF Primary
<1>5. w \in Views
  BY <1>1, <1>3, <1>4 DEF Views
<1>6. ASSUME NEW c \in 0 .. LastCluster PROVE FatIn(w, c) = FatIn(v, c)
  <2>1. FatBlock(c) \in Primary /\ FatBlock(c) # b
    BY <1>1, FatTyped
  <2>2. QED
    BY <1>3, <2>1 DEF FatIn
<1>7. QED
  BY <1>1, <1>3, <1>4, <1>5, <1>6 DEF w

LEMMA PutHolds ==
  ASSUME NEW v \in Views, NEW q \in Layouts, Distinct(q), NEW n \in Names, NEW p \in Nat,
         ClusterIx(p) <= Len(q[n]), NEW b, b = PlaceOf(q[n], p), NEW data \in UnitData,
         NEW m \in Names, NEW k \in 0 .. Len(q[m]), NEW len \in Nat,
         Holds(v, m, q[m], k, len),
         m = n => \A i \in 0 .. len - 1 : Seg(i) = Seg(p) =>
                    data[i % UnitsPerBlock] = <<n, i>>
  PROVE  Holds(Put(v, b, data), m, q[m], k, len)
<1>1. SUFFICES ASSUME NEW i \in 0 .. len - 1
               PROVE  /\ ClusterIx(i) <= k
                      /\ Put(v, b, data)[PlaceOf(q[m], i)][i % UnitsPerBlock] = <<m, i>>
  BY DEF Holds
<1>2. i \in Nat /\ q[m] \in Seq(Clusters) /\ q[n] \in Seq(Clusters) /\ Len(q[m]) \in Nat
  BY DEF Layouts
<1>3. ClusterIx(i) <= k /\ v[PlaceOf(q[m], i)][i % UnitsPerBlock] = <<m, i>>
  BY DEF Holds
<1>4. ClusterIx(i) \in Nat
  BY <1>2, Positions
<1>5. ClusterIx(i) <= Len(q[m])
  BY <1>2, <1>3, <1>4
<1>6. PlaceOf(q[m], i) \in Primary
  BY <1>2, <1>5, PlaceTyped
<1>7. b \in DataBlocks
  BY <1>2, PlaceTyped
<1>8. CASE PlaceOf(q[m], i) = b
  <2>1. m = n /\ Seg(i) = Seg(p)
    BY <1>2, <1>5, <1>8, PlaceInjective
  <2>2. Put(v, b, data)[b] = data
    BY <1>7, PutTyped
  <2>3. QED
    BY <1>3, <1>8, <2>1, <2>2
<1>9. CASE PlaceOf(q[m], i) # b
  <2>1. Put(v, b, data)[PlaceOf(q[m], i)] = v[PlaceOf(q[m], i)]
    BY <1>6, <1>7, <1>9, PutTyped
  <2>2. QED
    BY <1>3, <2>1
<1>10. QED
  BY <1>8, <1>9

LEMMA PutChain ==
  ASSUME NEW v \in Views, NEW b \in DataBlocks, NEW data \in UnitData,
         NEW c \in Seq(Clusters), NEW k \in 0 .. Len(c), NEW first,
         ChainOk(v, first, c, k)
  PROVE  ChainOk(Put(v, b, data), first, c, k)
<1>1. ASSUME NEW i \in 1 .. k PROVE FatIn(Put(v, b, data), c[i]) = FatIn(v, c[i])
  <2>1. c[i] \in Clusters
    OBVIOUS
  <2>2. c[i] \in 0 .. LastCluster
    BY <2>1 DEF Clusters
  <2>3. QED
    BY <2>2, PutTyped
<1>2. QED
  BY <1>1 DEF ChainOk

LEMMA PutLinked ==
  ASSUME NEW v \in Views, NEW b \in DataBlocks, NEW data \in UnitData, Linked(v)
  PROVE  Linked(Put(v, b, data))
<1>1. \A c \in Clusters : FatIn(Put(v, b, data), c) = FatIn(v, c)
  BY PutTyped DEF Clusters
<1>2. QED
  BY <1>1 DEF Linked

(* On the card, whose entry may say that the file is shorter.              *)
LEMMA PutSound ==
  ASSUME NEW v \in Views, NEW q \in Layouts, Sound(v, q), NEW n \in Names, NEW p \in Nat,
         ClusterIx(p) <= Len(q[n]), NEW b, b = PlaceOf(q[n], p), NEW data \in UnitData,
         NEW m, NEW len \in Nat, Fits(data, n, p, m, len), v[DirBlock][n].size <= len
  PROVE  Sound(Put(v, b, data), q)
<1> DEFINE w == Put(v, b, data)
<1>1. Distinct(q) /\ Linked(v) /\ b \in DataBlocks
  BY PlaceTyped DEF Sound, Layouts
<1>2. w[DirBlock] = v[DirBlock]
  BY <1>1, PutTyped
<1>3. ASSUME NEW a \in Names PROVE CardOk(w, a, q[a])
  <2>1. q[a] \in Seq(Clusters) /\ v[DirBlock][a].size \in Nat
    BY DEF Layouts, Views, DirData, EntryType
  <2>2. PICK k \in 0 .. Len(q[a]) :
           /\ ChainOk(v, v[DirBlock][a].first, q[a], k)
           /\ Holds(v, a, q[a], k, v[DirBlock][a].size)
           /\ ~ v[DirBlock][a].used => v[DirBlock][a].first = 0 /\ v[DirBlock][a].size = 0
    BY DEF Sound, CardOk
  <2>3. ChainOk(w, v[DirBlock][a].first, q[a], k)
    BY <1>1, <2>1, <2>2, PutChain
  <2>4. ASSUME a = n, NEW i \in 0 .. v[DirBlock][a].size - 1, Seg(i) = Seg(p)
        PROVE  data[i % UnitsPerBlock] = <<n, i>>
    <3>1. i \in Nat /\ i < len
      BY <2>1, <2>4
    <3>2. QED
      BY <2>4, <3>1 DEF Fits
  <2> HIDE DEF w
  <2>5. Holds(w, a, q[a], k, v[DirBlock][a].size)
    BY <1>1, <2>1, <2>2, <2>4, PutHolds DEF w
  <2>6. QED
    BY <1>2, <2>2, <2>3, <2>5 DEF CardOk
<1>4. Linked(w)
  BY <1>1, PutLinked
<1>5. QED
  BY <1>1, <1>3, <1>4 DEF Sound

(* Seen by the library, where the position moves on by the m units.        *)
LEMMA PutFiles ==
  ASSUME NEW v \in Views, NEW h \in [Names -> Handle], NEW q \in Layouts, Files(v, h, q),
         NEW n \in Names, h[n].open, NEW p \in Nat, p = h[n].pos,
         ClusterIx(p) <= Len(q[n]), NEW b, b = PlaceOf(q[n], p), NEW data \in UnitData,
         NEW m \in Nat, m <= UnitsPerBlock - (p % UnitsPerBlock),
         Fits(data, n, p, m, h[n].size),
         NEW g \in [Names -> Handle], \A a \in Names \ {n} : g[a] = h[a],
         g[n] = [h[n] EXCEPT !.pos = p + m]
  PROVE  Files(Put(v, b, data), g, q)
<1> DEFINE w == Put(v, b, data)
           c == q[n]
<1>1. /\ Distinct(q) /\ Linked(v) /\ b \in DataBlocks
      /\ c \in Seq(Clusters) /\ Len(c) \in Nat
  BY PlaceTyped DEF Files, Layouts
<1>2. w[DirBlock] = v[DirBlock] /\ w[b] = data
  BY <1>1, PutTyped
<1>3. Linked(w)
  BY <1>1, PutLinked
<1> HIDE DEF w
<1>4. ASSUME NEW a \in Names, a # n PROVE FileOk(w, g[a], a, q[a])
  <2>1. FileOk(v, h[a], a, q[a]) /\ g[a] = h[a] /\ q[a] \in Seq(Clusters) /\ Len(q[a]) \in Nat
          /\ h[a] \in Handle
    BY <1>4 DEF Files, Layouts
  <2>2. ASSUME NEW len \in Nat, Holds(v, a, q[a], Len(q[a]), len)
        PROVE  Holds(w, a, q[a], Len(q[a]), len)
    <3>1. Len(q[a]) \in 0 .. Len(q[a])
      BY <2>1
    <3>2. QED
      BY <1>1, <1>4, <2>2, <3>1, PutHolds DEF w
  <2>3. ASSUME NEW first, ChainOk(v, first, q[a], Len(q[a]))
        PROVE  ChainOk(w, first, q[a], Len(q[a]))
    <3>1. Len(q[a]) \in 0 .. Len(q[a])
      BY <2>1
    <3>2. QED
      BY <1>1, <2>1, <2>3, <3>1, PutChain DEF w
  <2>4. h[a].pos \in Nat /\ h[a].size \in Nat /\ v[DirBlock][a].size \in Nat
    BY <2>1 DEF Handle, Views, DirData, EntryType
  <2>5. CASE h[a].open
    BY <1>2, <2>1, <2>2, <2>3, <2>4, <2>5 DEF FileOk, OpenOk
  <2>6. CASE ~ h[a].open
    BY <1>2, <2>1, <2>2, <2>3, <2>4, <2>6 DEF FileOk, ClosedOk
  <2>7. QED
    BY <2>5, <2>6
<1>5. FileOk(w, g[n], n, c)
  <2>1. OpenOk(v, h[n], n, c) /\ h[n] \in Handle /\ h[n].size \in Nat
    BY DEF Files, FileOk, Handle
  <2>2. /\ g[n].open /\ g[n].first = h[n].first /\ g[n].pos = p + m
        /\ g[n].size = h[n].size /\ g[n].dirDirty = h[n].dirDirty
    BY <2>1 DEF Handle
  <2>3. Len(c) \in 0 .. Len(c)
    BY <1>1
  <2>4. ChainOk(w, h[n].first, c, Len(c))
    BY <1>1, <2>1, <2>3, PutChain DEF OpenOk, w
  <2>5. ASSUME NEW len \in Nat, len = p \/ len = h[n].size
        PROVE  Holds(w, n, c, Len(c), len)
    <3>1. Holds(v, n, c, Len(c), len)
      BY <2>1, <2>5 DEF OpenOk
    <3>2. ASSUME NEW i \in 0 .. len - 1, Seg(i) = Seg(p)
          PROVE  data[i % UnitsPerBlock] = <<n, i>>
      <4>1. i \in Nat /\ (i < p \/ i < h[n].size)
        BY <2>5
      <4>2. QED
        BY <3>2, <4>1 DEF Fits
    <3> HIDE DEF c
    <3>3. QED
      BY <1>1, <2>3, <3>1, <3>2, PutHolds DEF w, c
  <2>6. Holds(w, n, c, Len(c), p + m)
    <3>1. SUFFICES ASSUME NEW i \in 0 .. p + m - 1
                   PROVE  ClusterIx(i) <= Len(c) /\ w[PlaceOf(c, i)][i % UnitsPerBlock] = <<n, i>>
      BY DEF Holds
    <3>2. CASE i < p
      <4>1. i \in 0 .. p - 1 /\ Holds(w, n, c, Len(c), p)
        BY <2>5, <3>2
      <4>2. QED
        BY <4>1 DEF Holds
    <3>3. CASE i >= p
      <4>1. i \in p .. p + m - 1 /\ i \in Nat
        BY <3>3
      <4>2. i < p + UnitsPerBlock - (p % UnitsPerBlock)
        <5>1. UnitsPerBlock \in Nat \ {0} /\ p % UnitsPerBlock \in Nat
          BY VolumeAssumption, Positions
        <5>2. QED
          BY <4>1, <5>1
      <4>3. Seg(i) = Seg(p)
        BY <3>3, <4>1, <4>2, SameSeg
      <4>4. ClusterIx(i) = ClusterIx(p) /\ PlaceOf(c, i) = b
        BY <4>3 DEF ClusterIx, BlockIx, PlaceOf
      <4>5. data[i % UnitsPerBlock] = <<n, i>>
        BY <4>1 DEF Fits
      <4>6. QED
        BY <1>2, <4>4, <4>5
    <3>4. QED
      BY <3>2, <3>3
  <2>7. OpenOk(w, g[n], n, c)
    BY <1>2, <2>1, <2>2, <2>4, <2>5, <2>6 DEF OpenOk
  <2>8. QED
    BY <2>2, <2>7 DEF FileOk
<1>6. QED
  BY <1>1, <1>3, <1>4, <1>5 DEF Files, w

(* The contents of the block after the m units from off on are put into it. *)
Overlaid(old, n, p, off, m) ==
  [u \in 0 .. UnitsPerBlock - 1 |->
     IF u \in off .. off + m - 1 THEN Units(n, p, m)[u - off + 1] ELSE old[u]]

LEMMA OverlaidUnits ==
  ASSUME NEW old \in UnitData, NEW n \in Names, NEW p \in Nat, NEW off,
         off = p % UnitsPerBlock, NEW m \in Nat, m <= UnitsPerBlock - off
  PROVE  LET data == Overlaid(old, n, p, off, m)
         IN /\ data \in UnitData
            /\ \A i \in p .. p + m - 1 : data[i % UnitsPerBlock] = <<n, i>>
            /\ \A u \in 0 .. UnitsPerBlock - 1 : u \notin off .. off + m - 1 =>
                 data[u] = old[u]
<1> DEFINE U == UnitsPerBlock
           data == Overlaid(old, n, p, off, m)
<1>1. U \in Nat \ {0} /\ off \in 0 .. U - 1
  BY VolumeAssumption, Positions
<1>2. ASSUME NEW u \in 0 .. U - 1, u \in off .. off + m - 1
      PROVE  u - off + 1 \in 1 .. m /\ Units(n, p, m)[u - off + 1] = <<n, p + (u - off)>>
  <2>1. u - off + 1 \in 1 .. m
    BY <1>1, <1>2
  <2> DEFINE j == u - off + 1
  <2>2. Units(n, p, m)[j] = <<n, p + j - 1>>
    <3> HIDE DEF j
    <3>1. QED
      BY <2>1 DEF Units, j
  <2>3. p + j - 1 = p + (u - off)
    BY <1>1
  <2>4. QED
    BY <2>1, <2>2, <2>3
<1>3. ASSUME NEW u \in 0 .. U - 1
      PROVE  /\ data[u] \in Token
             /\ u \in off .. off + m - 1 => data[u] = <<n, p + (u - off)>>
             /\ u \notin off .. off + m - 1 => data[u] = old[u]
  <2>1. CASE u \in off .. off + m - 1
    <3>1. data[u] = <<n, p + (u - off)>>
      BY <1>2, <2>1 DEF Overlaid
    <3>2. p + (u - off) \in Nat
      BY <1>1, <2>1
    <3>3. <<n, p + (u - off)>> \in Token
      BY <3>2 DEF Token
    <3> HIDE DEF data
    <3>4. QED
      BY <2>1, <3>1, <3>3
  <2>2. CASE u \notin off .. off + m - 1
    BY <2>2 DEF Overlaid, UnitData
  <2>3. QED
    BY <2>1, <2>2
<1>4. data \in UnitData
  <2>1. data = [u \in 0 .. U - 1 |-> data[u]]
    BY DEF Overlaid
  <2> HIDE DEF data
  <2>2. QED
    BY <1>3, <2>1 DEF UnitData
<1>5. ASSUME NEW i \in p .. p + m - 1 PROVE data[i % U] = <<n, i>>
  <2>1. i \in Nat /\ p <= i /\ i < p + U - off
    BY <1>1
  <2>2. i % U = off + (i - p)
    BY <2>1, SameSeg
  <2> HIDE DEF data
  <2>3. i % U \in 0 .. U - 1 /\ i % U \in off .. off + m - 1 /\ p + ((i % U) - off) = i
    <3>1. i - p \in 0 .. m - 1
      OBVIOUS
    <3> DEFINE x == i % U
    <3> HIDE DEF x
    <3>2. x = off + (i - p)
      BY <2>2 DEF x
    <3>3. x \in 0 .. U - 1 /\ x \in off .. off + m - 1 /\ p + (x - off) = i
      <4> DEFINE k == i - p
      <4>1. k \in 0 .. m - 1 /\ x = off + k /\ i = p + k /\ off \in Nat /\ m <= U - off /\ U \in Nat
        BY <1>1, <2>1, <3>1, <3>2
      <4> HIDE DEF k, U
      <4>2. x \in 0 .. U - 1
        BY <4>1
      <4>3. x \in off .. off + m - 1
        BY <4>1
      <4>4. p + (x - off) = i
        BY <4>1
      <4>5. QED
        BY <4>2, <4>3, <4>4
    <3>4. QED
      BY <3>3 DEF x
  <2>4. QED
    BY <1>3, <2>3
<1>6. QED
  BY <1>3, <1>4, <1>5 DEF data

(* The three ways to put them there leave a block that is right.           *)
LEMMA OverlaidFits ==
  ASSUME NEW old \in UnitData, NEW n \in Names, NEW p \in Nat, NEW off,
         off = p % UnitsPerBlock, NEW m \in Nat, m <= UnitsPerBlock - off,
         NEW len \in Nat,
         \/ m = UnitsPerBlock
         \/ off = 0 /\ len <= p
         \/ \A i \in Nat : Seg(i) = Seg(p) /\ (i < p \/ i < len) =>
              old[i % UnitsPerBlock] = <<n, i>>
  PROVE  /\ Overlaid(old, n, p, off, m) \in UnitData
         /\ Fits(Overlaid(old, n, p, off, m), n, p, m, len)
<1> DEFINE U == UnitsPerBlock
           data == Overlaid(old, n, p, off, m)
<1>1. U \in Nat \ {0} /\ off \in 0 .. U - 1
  BY VolumeAssumption, Positions
<1>2. /\ data \in UnitData
      /\ \A i \in p .. p + m - 1 : data[i % U] = <<n, i>>
      /\ \A u \in 0 .. U - 1 : u \notin off .. off + m - 1 => data[u] = old[u]
  BY OverlaidUnits
<1> HIDE DEF data
<1>3. ASSUME NEW i \in Nat, Seg(i) = Seg(p), i < p \/ i < len
      PROVE  data[i % U] = <<n, i>>
  <2> DEFINE x == i % U
             b == Seg(p)
  <2>1. x \in 0 .. U - 1 /\ b \in Nat /\ i = U * b + x /\ p = U * b + off
    BY <1>3, Positions
  <2> HIDE DEF x, b
  <2> DEFINE z == U * b
  <2>2. z \in Int /\ i = z + x /\ p = z + off
    BY <1>1, <2>1
  <2> HIDE DEF z
  <2>3. ASSUME x \in off .. off + m - 1 PROVE i \in p .. p + m - 1
    BY <1>1, <2>1, <2>2, <2>3
  <2>4. CASE m = U
    <3>1. off = 0
      BY <1>1, <2>4
    <3>2. x \in off .. off + m - 1
      BY <1>1, <2>1, <2>4, <3>1
    <3>3. QED
      BY <1>2, <2>3, <3>2 DEF x
  <2>5. CASE off = 0 /\ len <= p
    <3>1. i < p
      BY <1>3, <2>5
    <3>2. QED
      BY <2>1, <2>2, <2>5, <3>1
  <2>6. CASE \A j \in Nat : Seg(j) = Seg(p) /\ (j < p \/ j < len) => old[j % U] = <<n, j>>
    <3>1. CASE x \in off .. off + m - 1
      BY <1>2, <2>3, <3>1 DEF x
    <3>2. CASE x \notin off .. off + m - 1
      <4>1. data[x] = old[x]
        BY <1>2, <2>1, <3>2
      <4>2. old[x] = <<n, i>>
        BY <1>3, <2>6 DEF x
      <4>3. QED
        BY <4>1, <4>2 DEF x
    <3>3. QED
      BY <3>1, <3>2
  <2>7. QED
    BY <2>4, <2>5, <2>6
<1>4. QED
  BY <1>2, <1>3 DEF Fits, data

(* The block is put in s; it is the dirty one or what was dirty still is.  *)
PutInto(s, h, n, q, Dirs, b, m) ==
  {o \in OutcomeOf({0}) :
     /\ ~ o.ok => Faulted(o, Recoverable(Dirs))
     /\ o.ok => /\ Good(o.s, Cards(q, Dirs)) /\ o.s.this = s.this
                /\ o.s.cacheDirty => o.s.cacheBlock = b \/ (s.cacheDirty /\ o.s.cacheBlock = s.cacheBlock)
                /\ \E data \in UnitData : /\ Fits(data, n, s.this.pos, m, s.this.size)
                                          /\ View(o.s) = Put(View(s), b, data)}

(* The entries of these directories say no more than the open file has.    *)
Within(Dirs, n, f) == Dirs \subseteq DirData /\ \A d \in Dirs : d[n].size <= f.size

LEMMA PutInCards ==
  ASSUME NEW h \in [Names -> Handle], NEW n \in Names, NEW q \in Layouts, NEW Dirs,
         NEW s, Mid(s, h, n, q, Dirs), Within(Dirs, n, s.this), InCluster(s.this, q[n]),
         NEW b, b = PlaceOf(q[n], s.this.pos), NEW data \in UnitData,
         NEW m, Fits(data, n, s.this.pos, m, s.this.size)
  PROVE  /\ b \in DataBlocks /\ b \in Primary /\ b \in Blocks /\ b # NoBlock /\ data \in Data
         /\ \A v \in Cards(q, Dirs) : Put(v, b, data) \in Cards(q, Dirs)
<1>1. s.this.pos \in Nat /\ s.this.size \in Nat /\ ClusterIx(s.this.pos) <= Len(q[n])
        /\ q[n] \in Seq(Clusters)
  BY MidFacts DEF Handle, InCluster
<1>2. b \in DataBlocks /\ b \in Primary /\ b \in Blocks /\ b # NoBlock /\ data \in Data
  BY <1>1, PlaceTyped, BlockKinds DEF Data
<1>3. ASSUME NEW v \in Cards(q, Dirs) PROVE Put(v, b, data) \in Cards(q, Dirs)
  <2>1. v \in Views /\ Sound(v, q) /\ v[DirBlock] \in Dirs
    BY DEF Cards
  <2>2. v[DirBlock][n].size <= s.this.size
    BY <2>1 DEF Within
  <2>3. Sound(Put(v, b, data), q)
    BY <1>1, <2>1, <2>2, PutSound
  <2>4. Put(v, b, data) \in Views /\ Put(v, b, data)[DirBlock] = v[DirBlock]
    BY <1>2, <2>1, PutTyped
  <2>5. QED
    BY <2>1, <2>3, <2>4 DEF Cards
<1>4. QED
  BY <1>2, <1>3

(* A whole block is written past the cache.  It is not the dirty one: that *)
(* one has been written before.                                            *)
Uncached(s, b) == IF s.cacheBlock = b THEN [s EXCEPT !.cacheBlock = NoBlock] ELSE s

LEMMA NotDirty ==
  ASSUME NEW h \in [Names -> Handle], NEW n \in Names, NEW q \in Layouts, NEW Dirs,
         NEW s, Mid(s, h, n, q, Dirs), InCluster(s.this, q[n]),
         s.this.pos % UnitsPerBlock = 0,
         s.cacheBlock = PlaceOf(q[n], s.this.pos)
  PROVE  ~ s.cacheDirty
<1> DEFINE g == Handles(h, n, s)
           p == s.this.pos
<1>1. /\ p \in Nat /\ ClusterIx(p) <= Len(q[n]) /\ q[n] \in Seq(Clusters) /\ Distinct(q)
      /\ g \in [Names -> Handle] /\ g[n].pos = p
  BY MidFacts DEF Handle, InCluster
<1>2. s.cacheBlock \in DataBlocks
  BY <1>1, PlaceTyped
<1>3. SUFFICES ASSUME s.cacheDirty PROVE FALSE
  OBVIOUS
<1>4. PICK a \in Names : \E i \in 0 .. g[a].pos - 1 :
         ClusterIx(i) <= Len(q[a]) /\ s.cacheBlock = PlaceOf(q[a], i)
  BY <1>2, <1>3 DEF Mid, DirtyOwned
<1>5. PICK i \in 0 .. g[a].pos - 1 :
         ClusterIx(i) <= Len(q[a]) /\ s.cacheBlock = PlaceOf(q[a], i)
  BY <1>4
<1> HIDE DEF g, p
<1>6. g[a].pos \in Nat
  BY <1>1 DEF Handle
<1>7. i \in Nat
  BY <1>6
<1>8. a = n /\ Seg(i) = Seg(p)
  <2>1. PlaceOf(q[a], i) = PlaceOf(q[n], p) /\ ClusterIx(i) <= Len(q[a])
    BY <1>5 DEF p
  <2> HIDE <1>5
  <2>2. QED
    BY <1>1, <1>7, <2>1, PlaceInjective
<1>9. i < p
  BY <1>1, <1>6, <1>8
<1>10. Seg(i) < Seg(p)
  BY <1>1, <1>7, <1>9, BlockStart DEF p
<1>11. Seg(i) \in Nat /\ Seg(p) \in Nat
  BY <1>1, <1>7, Positions
<1>12. QED
  BY <1>8, <1>10, <1>11

LEMMA PutWhole ==
  ASSUME NEW h \in [Names -> Handle], NEW n \in Names, NEW q \in Layouts, NEW Dirs,
         NEW s, Mid(s, h, n, q, Dirs), Within(Dirs, n, s.this), InCluster(s.this, q[n]),
         s.this.pos % UnitsPerBlock = 0,
         NEW b, b = PlaceOf(q[n], s.this.pos), NEW data \in UnitData,
         NEW m, Fits(data, n, s.this.pos, m, s.this.size),
         NEW o \in WriteBlock(Uncached(s, b), b, data)
  PROVE  o \in PutInto(s, h, n, q, Dirs, b, m)
<1> DEFINE D == Cards(q, Dirs)
           t == Uncached(s, b)
<1>1. /\ Good(s, D) /\ s \in State /\ View(s) \in D /\ OnCard(s.disk) \in D
      /\ ~ s.fault /\ Coherent(s)
  BY MidFacts DEF Good
<1>2. /\ b \in DataBlocks /\ b \in Primary /\ b \in Blocks /\ b # NoBlock /\ data \in Data
      /\ \A v \in D : Put(v, b, data) \in D
  BY PutInCards
<1>3. s.cacheBlock = b => ~ s.cacheDirty
  BY NotDirty
<1>4. /\ t \in State /\ t.this = s.this /\ t.fault = s.fault /\ t.disk = s.disk
      /\ t.cacheData = s.cacheData /\ t.cacheDirty = s.cacheDirty
      /\ t.cacheMirror = s.cacheMirror
      /\ t.cacheBlock = IF s.cacheBlock = b THEN NoBlock ELSE s.cacheBlock
  <2>1. CASE s.cacheBlock = b
    BY <1>1, <2>1 DEF Uncached, State
  <2>2. CASE s.cacheBlock # b
    BY <1>1, <2>2 DEF Uncached
  <2>3. QED
    BY <2>1, <2>2
<1> HIDE DEF t
<1>5. View(t) = View(s)
  <2>1. NoBlock \notin Primary /\ (s.cacheBlock = b => s.disk[b] = s.cacheData)
    BY <1>1, <1>2, <1>3, BlockKinds DEF Coherent
  <2>2. QED
    BY <1>2, <1>4, <2>1 DEF View
<1> DEFINE disk == [t.disk EXCEPT ![b] = data]
<1>6. /\ o \in OutcomeOf({0})
      /\ o.ok => OnlyDisk(t, o.s) /\ o.s.disk = disk
      /\ ~ o.ok => o.s.fault /\ o.s.disk \in {t.disk, disk}
  BY <1>2, <1>4, OfWriteBlock DEF t
<1>7. disk \in [Blocks -> Data] /\ OnCard(disk) = Put(OnCard(s.disk), b, data)
        /\ disk[b] = data /\ \A a \in Blocks \ {b} : disk[a] = s.disk[a]
  BY <1>1, <1>2, <1>4, OnCardWrite DEF Put, State
<1> HIDE DEF disk
<1>8. CASE ~ o.ok
  <2>1. Faulted(o, D)
    BY <1>1, <1>2, <1>4, <1>6, <1>7, <1>8 DEF Faulted
  <2>2. QED
    BY <1>6, <1>8, <2>1, CardsRecoverable DEF PutInto
<1>9. CASE o.ok
  <2>1. /\ o.s \in State /\ o.s.this = s.this /\ o.s.fault = s.fault /\ o.s.disk = disk
        /\ o.s.cacheBlock = t.cacheBlock /\ o.s.cacheData = s.cacheData
        /\ o.s.cacheDirty = s.cacheDirty /\ o.s.cacheMirror = s.cacheMirror
    BY <1>4, <1>6, <1>9 DEF OnlyDisk, Same
  <2>2. t.cacheBlock # b /\ (t.cacheBlock # s.cacheBlock => t.cacheBlock = NoBlock /\ ~ s.cacheDirty)
    BY <1>2, <1>3, <1>4
  <2> DEFINE v == View(s)
             w == View(o.s)
  <2>3. w = Put(v, b, data)
    <3>1. w[b] = data /\ \A a \in Primary \ {b} : w[a] = View(t)[a]
      BY <1>2, <1>4, <1>7, <2>1, <2>2, BlockKinds DEF View
    <3>2. w = [a \in Primary |-> w[a]] /\ v = [a \in Primary |-> v[a]]
      BY DEF View
    <3> HIDE DEF w, v
    <3>3. QED
      BY <1>2, <1>5, <3>1, <3>2 DEF Put, v
  <2>4. Coherent(o.s)
    BY <1>1, <1>4, <1>7, <2>1, <2>2, BlockKinds DEF Coherent, State
  <2>5. Good(o.s, D)
    <3> HIDE DEF D, w
    <3>1. Put(v, b, data) \in D /\ Put(OnCard(s.disk), b, data) \in D
      BY <1>1, <1>2
    <3>2. QED
      BY <1>1, <1>7, <2>1, <2>3, <2>4, <3>1 DEF Good, w
  <2>6. o.s.cacheDirty => s.cacheDirty /\ o.s.cacheBlock = s.cacheBlock
    BY <2>1, <2>2
  <2> HIDE DEF v, w
  <2>7. QED
    BY <1>6, <1>9, <2>1, <2>3, <2>5, <2>6 DEF PutInto, v, w
<1>10. QED
  BY <1>8, <1>9

(* The block is put into the cache of u, where no other block is dirty.    *)
LEMMA PutCached ==
  ASSUME NEW h \in [Names -> Handle], NEW n \in Names, NEW q \in Layouts, NEW Dirs,
         NEW s, Mid(s, h, n, q, Dirs), Within(Dirs, n, s.this), InCluster(s.this, q[n]),
         NEW b, b = PlaceOf(q[n], s.this.pos), NEW data \in UnitData,
         NEW m, Fits(data, n, s.this.pos, m, s.this.size),
         NEW u, Good(u, Cards(q, Dirs)), View(u) = View(s), u.this = s.this,
         u.cacheDirty => u.cacheBlock = b,
         NEW t \in State, t.cacheBlock = b, t.cacheData = data, t.cacheDirty,
         t.disk = u.disk, t.this = u.this, t.fault = u.fault,
         NEW o \in Done(t)
  PROVE  o \in PutInto(s, h, n, q, Dirs, b, m)
<1> DEFINE D == Cards(q, Dirs)
<1>1. View(s) \in D /\ OnCard(u.disk) \in D /\ ~ u.fault /\ Coherent(u) /\ u \in State
  BY MidFacts DEF Good
<1>2. /\ b \in DataBlocks /\ b \in Primary /\ b # NoBlock
      /\ Put(View(s), b, data) \in D
  <2>1. b \in DataBlocks /\ b \in Primary /\ b # NoBlock
    BY PutInCards
  <2>2. \A v \in D : Put(v, b, data) \in D
    BY PutInCards
  <2>3. QED
    BY <1>1, <2>1, <2>2
<1>3. View(t) = Put(View(s), b, data)
  <2> DEFINE v == View(u)
             w == View(t)
  <2>1. w[b] = data /\ \A a \in Primary \ {b} : w[a] = v[a]
    <3>1. w[b] = data /\ \A a \in Primary \ {b} : w[a] = u.disk[a]
      BY <1>2 DEF View
    <3>2. \A a \in Primary \ {b} : v[a] = u.disk[a]
      BY <1>1, BlockKinds DEF View, Coherent
    <3>3. QED
      BY <3>1, <3>2
  <2>2. w = [a \in Primary |-> w[a]] /\ v = [a \in Primary |-> v[a]]
    BY DEF View
  <2>3. v = View(s)
    OBVIOUS
  <2> HIDE DEF w, v
  <2>4. w = Put(v, b, data)
    BY <1>2, <2>1, <2>2 DEF Put
  <2>5. QED
    BY <2>3, <2>4 DEF w
<1>4. Coherent(t)
  BY <1>2 DEF Coherent
<1>5. o.ok /\ o.s = t /\ o \in OutcomeOf({0})
  BY OfDone, OutcomeTypes
<1> HIDE DEF D
<1>6. Good(t, D)
  BY <1>1, <1>2, <1>3, <1>4 DEF Good
<1>7. QED
  BY <1>3, <1>5, <1>6 DEF PutInto, D

(* A block beyond the end of the file is not read.                         *)
Fresh(s, b, data) == [s EXCEPT !.cacheBlock = b, !.cacheDirty = TRUE, !.cacheData = data]

LEMMA PutFresh ==
  ASSUME NEW h \in [Names -> Handle], NEW n \in Names, NEW q \in Layouts, NEW Dirs,
         NEW s, Mid(s, h, n, q, Dirs), Within(Dirs, n, s.this), InCluster(s.this, q[n]),
         NEW b, b = PlaceOf(q[n], s.this.pos), NEW data \in UnitData,
         NEW m, Fits(data, n, s.this.pos, m, s.this.size),
         NEW o, \E p \in CacheFlush(s) : /\ ~ p.ok => o = p
                                         /\ p.ok => o \in Done(Fresh(p.s, b, data))
  PROVE  o \in PutInto(s, h, n, q, Dirs, b, m)
<1> DEFINE D == Cards(q, Dirs)
<1>1. PICK p \in CacheFlush(s) : /\ ~ p.ok => o = p
                                 /\ p.ok => o \in Done(Fresh(p.s, b, data))
  OBVIOUS
<1>2. Good(s, D) /\ D \in SUBSET Views
  BY MidFacts
<1>3. /\ p.ok => Good(p.s, D) /\ Same(s, p.s) /\ View(p.s) = View(s) /\ ~ p.s.cacheDirty
      /\ ~ p.ok => Faulted(p, D)
  BY <1>2, OfCacheFlush
<1>4. CASE ~ p.ok
  <2>1. Faulted(o, D)
    BY <1>1, <1>3, <1>4
  <2>2. Faulted(o, Recoverable(Dirs)) /\ ~ o.ok /\ o \in OutcomeOf({0})
    BY <2>1, CardsRecoverable DEF Faulted
  <2>3. QED
    BY <2>2 DEF PutInto
<1>5. CASE p.ok
  <2> DEFINE t == Fresh(p.s, b, data)
  <2>1. b \in Primary /\ data \in Data
    BY PutInCards
  <2>2. p.s \in State /\ p.s.this = s.this
    BY <1>3, <1>5 DEF Good, Same
  <2>3. t \in State /\ t.cacheBlock = b /\ t.cacheData = data /\ t.cacheDirty
          /\ t.disk = p.s.disk /\ t.this = p.s.this /\ t.fault = p.s.fault
    BY <2>1, <2>2 DEF Fresh, State
  <2>4. o \in Done(t)
    BY <1>1, <1>5
  <2> HIDE DEF t
  <2>5. QED
    BY <1>3, <1>5, <2>2, <2>3, <2>4, PutCached
<1>6. QED
  BY <1>4, <1>5

(* A block that has units of the file is read first.                       *)
Overwritten(s, data) == [s EXCEPT !.cacheData = data]

LEMMA PutOver ==
  ASSUME NEW h \in [Names -> Handle], NEW n \in Names, NEW q \in Layouts, NEW Dirs,
         NEW s, Mid(s, h, n, q, Dirs), Within(Dirs, n, s.this), InCluster(s.this, q[n]),
         NEW b, b = PlaceOf(q[n], s.this.pos), NEW data \in UnitData,
         NEW m, Fits(data, n, s.this.pos, m, s.this.size),
         NEW p \in CacheForWriting(s, b), NEW o,
         ~ p.ok => o = p, p.ok => o \in Done(Overwritten(p.s, data))
  PROVE  o \in PutInto(s, h, n, q, Dirs, b, m)
<1> DEFINE D == Cards(q, Dirs)
<1>1. b \in Primary /\ data \in Data
  BY PutInCards
<1>2. Good(s, D) /\ D \in SUBSET Views
  BY MidFacts
<1>3. /\ p.ok => /\ Good(p.s, D) /\ Same(s, p.s) /\ View(p.s) = View(s)
                 /\ p.s.cacheBlock = b /\ p.s.cacheDirty
      /\ ~ p.ok => Faulted(p, D)
  BY <1>1, <1>2, OfCacheForWriting
<1>4. CASE ~ p.ok
  <2>1. Faulted(o, D)
    BY <1>3, <1>4
  <2>2. Faulted(o, Recoverable(Dirs)) /\ ~ o.ok /\ o \in OutcomeOf({0})
    BY <2>1, CardsRecoverable DEF Faulted
  <2>3. QED
    BY <2>2 DEF PutInto
<1>5. CASE p.ok
  <2> DEFINE t == Overwritten(p.s, data)
  <2>1. p.s \in State /\ p.s.this = s.this
    BY <1>3, <1>5 DEF Good, Same
  <2>2. t \in State /\ t.cacheBlock = b /\ t.cacheData = data /\ t.cacheDirty
          /\ t.disk = p.s.disk /\ t.this = p.s.this /\ t.fault = p.s.fault
    BY <1>1, <1>3, <1>5, <2>1 DEF Overwritten, State
  <2>3. o \in Done(t)
    BY <1>5
  <2> HIDE DEF t
  <2>4. QED
    BY <1>3, <1>5, <2>1, <2>2, <2>3, PutCached
<1>6. QED
  BY <1>4, <1>5

Blank == [u \in 0 .. UnitsPerBlock - 1 |-> Junk]

LEMMA PutUnitsSteps ==
  ASSUME NEW s, NEW n, NEW b, NEW off, NEW m, NEW o \in PutUnits(s, n, b, off, m)
  PROVE  LET Data0(old) == Overlaid(old, n, s.this.pos, off, m)
         IN \/ m = UnitsPerBlock /\ o \in WriteBlock(Uncached(s, b), b, Data0(Blank))
            \/ /\ m # UnitsPerBlock /\ off = 0 /\ s.this.pos >= s.this.size
               /\ \E p \in CacheFlush(s) : /\ ~ p.ok => o = p
                                           /\ p.ok => o \in Done(Fresh(p.s, b, Data0(Blank)))
            \/ /\ m # UnitsPerBlock
               /\ \E p \in CacheForWriting(s, b) :
                    /\ ~ p.ok => o = p
                    /\ p.ok => o \in Done(Overwritten(p.s, Data0(p.s.cacheData)))
<1>1. CASE m = UnitsPerBlock
  BY <1>1, Zenon DEF PutUnits, Uncached, Overlaid, Blank
<1>2. CASE m # UnitsPerBlock /\ off = 0 /\ s.this.pos >= s.this.size
  <2>1. o \in Then(CacheFlush(s), LAMBDA p :
                   Done(Fresh(p.s, b, Overlaid(Blank, n, s.this.pos, off, m))))
    BY <1>2, Zenon DEF PutUnits, Fresh, Overlaid, Blank
  <2>2. PICK p \in CacheFlush(s) :
          o \in IF p.ok THEN Done(Fresh(p.s, b, Overlaid(Blank, n, s.this.pos, off, m)))
                ELSE {p}
    BY <2>1, Zenon DEF Then
  <2>3. QED
    BY <1>2, <2>2
<1>3. CASE m # UnitsPerBlock /\ ~ (off = 0 /\ s.this.pos >= s.this.size)
  <2>1. o \in Then(CacheForWriting(s, b), LAMBDA p :
                   Done(Overwritten(p.s, Overlaid(p.s.cacheData, n, s.this.pos, off, m))))
    BY <1>3, Zenon DEF PutUnits, Overwritten, Overlaid, CacheForWriting
  <2>2. PICK p \in CacheForWriting(s, b) :
          o \in IF p.ok
                THEN Done(Overwritten(p.s, Overlaid(p.s.cacheData, n, s.this.pos, off, m)))
                ELSE {p}
    BY <2>1, Zenon DEF Then
  <2>3. QED
    BY <1>3, <2>2
<1>4. QED
  BY <1>1, <1>2, <1>3

LEMMA OfPutUnits ==
  ASSUME NEW h \in [Names -> Handle], NEW n \in Names, NEW q \in Layouts, NEW Dirs,
         NEW s, Mid(s, h, n, q, Dirs), Within(Dirs, n, s.this), InCluster(s.this, q[n]),
         NEW b, b = PlaceOf(q[n], s.this.pos), NEW m \in Nat,
         m <= UnitsPerBlock - (s.this.pos % UnitsPerBlock),
         NEW o \in PutUnits(s, n, b, s.this.pos % UnitsPerBlock, m)
  PROVE  o \in PutInto(s, h, n, q, Dirs, b, m)
<1> DEFINE p == s.this.pos
           off == p % UnitsPerBlock
           len == s.this.size
           New(old) == Overlaid(old, n, p, off, m)
<1>1. p \in Nat /\ len \in Nat /\ View(s) \in Views /\ q[n] \in Seq(Clusters)
        /\ ClusterIx(p) <= Len(q[n]) /\ OpenOk(View(s), s.this, n, q[n])
  BY MidFacts DEF Handle, InCluster
<1>2. b \in DataBlocks /\ b \in Primary
  BY PutInCards, <1>1, PlaceTyped
<1>3. Blank \in UnitData
  BY DEF Blank, UnitData, Token
<1>4. off \in 0 .. UnitsPerBlock - 1
  BY <1>1, Positions
<1> HIDE DEF p, off, len
<1>5. \/ m = UnitsPerBlock /\ o \in WriteBlock(Uncached(s, b), b, New(Blank))
      \/ /\ m # UnitsPerBlock /\ off = 0 /\ p >= len
         /\ \E u \in CacheFlush(s) : /\ ~ u.ok => o = u
                                     /\ u.ok => o \in Done(Fresh(u.s, b, New(Blank)))
      \/ /\ m # UnitsPerBlock
         /\ \E u \in CacheForWriting(s, b) :
              /\ ~ u.ok => o = u
              /\ u.ok => o \in Done(Overwritten(u.s, New(u.s.cacheData)))
  BY PutUnitsSteps DEF p, off, len
<1>6. off = p % UnitsPerBlock /\ m <= UnitsPerBlock - off
  BY DEF off, p
<1>7. CASE m = UnitsPerBlock /\ o \in WriteBlock(Uncached(s, b), b, New(Blank))
  <2> DEFINE data == New(Blank)
  <2>1. data \in UnitData /\ Fits(data, n, p, m, len)
    BY <1>1, <1>3, <1>6, <1>7, OverlaidFits
  <2>2. s.this.pos % UnitsPerBlock = 0
    BY <1>4, <1>6, <1>7, VolumeAssumption DEF p
  <2> HIDE DEF data
  <2>3. o \in WriteBlock(Uncached(s, b), b, data)
    BY <1>7 DEF data
  <2>4. Fits(data, n, s.this.pos, m, s.this.size)
    BY <2>1 DEF p, len
  <2>5. QED
    BY <2>1, <2>2, <2>3, <2>4, PutWhole
<1>8. CASE /\ m # UnitsPerBlock /\ off = 0 /\ p >= len
           /\ \E u \in CacheFlush(s) : /\ ~ u.ok => o = u
                                       /\ u.ok => o \in Done(Fresh(u.s, b, New(Blank)))
  <2> DEFINE data == New(Blank)
  <2>1. data \in UnitData /\ Fits(data, n, p, m, len)
    BY <1>1, <1>3, <1>6, <1>8, OverlaidFits
  <2> HIDE DEF data
  <2>2. \E u \in CacheFlush(s) : /\ ~ u.ok => o = u
                                 /\ u.ok => o \in Done(Fresh(u.s, b, data))
    BY <1>8 DEF data
  <2>3. Fits(data, n, s.this.pos, m, s.this.size)
    BY <2>1 DEF p, len
  <2>4. QED
    BY <2>1, <2>2, <2>3, PutFresh
<1>9. CASE /\ m # UnitsPerBlock
           /\ \E u \in CacheForWriting(s, b) :
                /\ ~ u.ok => o = u
                /\ u.ok => o \in Done(Overwritten(u.s, New(u.s.cacheData)))
  <2>1. PICK u \in CacheForWriting(s, b) :
                /\ ~ u.ok => o = u
                /\ u.ok => o \in Done(Overwritten(u.s, New(u.s.cacheData)))
    BY <1>9
  <2>2. Good(s, Cards(q, Dirs)) /\ Cards(q, Dirs) \in SUBSET Views
    BY MidFacts
  <2>3. u.ok => u.s.cacheData = View(s)[b]
    BY <1>2, <2>2, OfCacheForWriting
  <2> DEFINE old == View(s)[b]
             data == New(old)
  <2>4. old \in UnitData
    BY <1>1, <1>2 DEF Views
  <2>5. \A i \in Nat : Seg(i) = Seg(p) /\ (i < p \/ i < len) =>
          old[i % UnitsPerBlock] = <<n, i>>
    <3>1. Holds(View(s), n, q[n], Len(q[n]), p) /\ Holds(View(s), n, q[n], Len(q[n]), len)
      BY <1>1 DEF OpenOk, p, len
    <3>2. ASSUME NEW i \in Nat, Seg(i) = Seg(p), i < p \/ i < len
          PROVE  View(s)[PlaceOf(q[n], i)][i % UnitsPerBlock] = <<n, i>>
      BY <1>1, <3>1, <3>2 DEF Holds
    <3>3. ASSUME NEW i \in Nat, Seg(i) = Seg(p)
          PROVE  PlaceOf(q[n], i) = b
      BY <3>3 DEF PlaceOf, ClusterIx, BlockIx, p
    <3>4. QED
      BY <3>2, <3>3
  <2> HIDE DEF old
  <2>6. data \in UnitData /\ Fits(data, n, p, m, len)
    BY <1>1, <1>6, <2>4, <2>5, OverlaidFits
  <2>7. u.ok => o \in Done(Overwritten(u.s, data))
    BY <2>1, <2>3 DEF old
  <2> HIDE DEF data
  <2>8. Fits(data, n, s.this.pos, m, s.this.size)
    BY <2>6 DEF p, len
  <2>9. QED
    BY <2>1, <2>6, <2>7, <2>8, PutOver
<1>10. QED
  BY <1>5, <1>7, <1>8, <1>9

-----------------------------------------------------------------------------
(* One round of write(), and all of them.                                  *)
Moved(s, m) == [s EXCEPT !.this.pos = @ + m]

LEMMA MovedTyped ==
  ASSUME NEW s \in State, NEW m \in Nat, NEW t, t = Moved(s, m)
  PROVE  /\ t \in State /\ t.this = [s.this EXCEPT !.pos = @ + m]
         /\ t.this \in Handle /\ t.this.pos = s.this.pos + m /\ t.this.cur = s.this.cur
         /\ t.this.size = s.this.size /\ t.this.open = s.this.open
         /\ t.disk = s.disk /\ t.cacheBlock = s.cacheBlock
         /\ t.cacheData = s.cacheData /\ t.cacheDirty = s.cacheDirty
         /\ t.cacheMirror = s.cacheMirror /\ t.fault = s.fault
<1>1. s.this \in Handle /\ s.this.pos \in Nat
  BY DEF State, Handle
<1>2. [s.this EXCEPT !.pos = @ + m] \in Handle
  BY <1>1 DEF Handle
<1>3. t = [s EXCEPT !.this = [s.this EXCEPT !.pos = @ + m]]
  BY DEF Moved
<1>4. t \in State
  BY <1>2, <1>3 DEF State
<1>5. t.this = [s.this EXCEPT !.pos = @ + m]
  BY <1>3 DEF State
<1>6. /\ t.this.pos = s.this.pos + m /\ t.this.cur = s.this.cur
      /\ t.this.size = s.this.size /\ t.this.open = s.this.open
  BY <1>1, <1>5 DEF Handle
<1>7. QED
  BY <1>2, <1>3, <1>4, <1>5, <1>6 DEF State

LEMMA MovedMid ==
  ASSUME NEW h \in [Names -> Handle], NEW n \in Names, NEW q \in Layouts, NEW Dirs,
         NEW s, Mid(s, h, n, q, Dirs), InCluster(s.this, q[n]),
         NEW b, b = PlaceOf(q[n], s.this.pos), NEW m \in Nat \ {0},
         m <= UnitsPerBlock - (s.this.pos % UnitsPerBlock),
         NEW u \in PutInto(s, h, n, q, Dirs, b, m), u.ok,
         NEW t, t = Moved(u.s, m)
  PROVE  /\ Mid(t, h, n, q, Dirs) /\ CurOk(t.this, q[n])
         /\ t.this.size = s.this.size /\ ~ t.fault
<1> DEFINE p == s.this.pos
           D == Cards(q, Dirs)
           g == Handles(h, n, t)
           f == Handles(h, n, s)
<1>1. /\ p \in Nat /\ s.this.size \in Nat /\ View(s) \in Views /\ q[n] \in Seq(Clusters)
      /\ ClusterIx(p) <= Len(q[n]) /\ s.this.open /\ s.this \in Handle
      /\ Files(View(s), f, q) /\ f \in [Names -> Handle] /\ f[n] = s.this
      /\ s.this.cur = q[n][ClusterIx(p)]
  <2>1. /\ s.this \in Handle /\ View(s) \in Views /\ q[n] \in Seq(Clusters)
        /\ s.this.open /\ Files(View(s), f, q) /\ f \in [Names -> Handle] /\ f[n] = s.this
    BY MidFacts, SMTT(30)
  <2>2. p \in Nat /\ s.this.size \in Nat
    BY <2>1 DEF Handle
  <2>3. QED
    BY <2>1, <2>2, Zenon DEF InCluster
<1>2. /\ Good(u.s, D) /\ u.s.this = s.this
      /\ u.s.cacheDirty =>
           u.s.cacheBlock = b \/ (s.cacheDirty /\ u.s.cacheBlock = s.cacheBlock)
      /\ \E data \in UnitData : Fits(data, n, p, m, s.this.size)
                                  /\ View(u.s) = Put(View(s), b, data)
  BY DEF PutInto
<1>3. u.s \in State
  BY <1>2 DEF Good
<1>4. /\ t \in State /\ t.this = [s.this EXCEPT !.pos = @ + m]
      /\ t.this \in Handle /\ t.this.pos = p + m /\ t.this.cur = s.this.cur
      /\ t.this.size = s.this.size /\ t.this.open
      /\ t.disk = u.s.disk /\ t.cacheBlock = u.s.cacheBlock
      /\ t.cacheData = u.s.cacheData /\ t.cacheDirty = u.s.cacheDirty
      /\ t.cacheMirror = u.s.cacheMirror /\ t.fault = u.s.fault
  <2>1. m \in Nat
    OBVIOUS
  <2> HIDE DEF D, g, f
  <2>2. /\ t \in State /\ t.this = [u.s.this EXCEPT !.pos = @ + m]
        /\ t.this \in Handle /\ t.this.pos = u.s.this.pos + m
        /\ t.this.cur = u.s.this.cur
        /\ t.this.size = u.s.this.size /\ t.this.open = u.s.this.open
        /\ t.disk = u.s.disk /\ t.cacheBlock = u.s.cacheBlock
        /\ t.cacheData = u.s.cacheData /\ t.cacheDirty = u.s.cacheDirty
        /\ t.cacheMirror = u.s.cacheMirror /\ t.fault = u.s.fault
    BY <1>3, <2>1, MovedTyped, SMTT(30)
  <2>3. u.s.this = s.this /\ s.this.open
    BY <1>1, <1>2
  <2>4. QED
    BY <2>2, <2>3
<1>5. View(t) = View(u.s)
  BY <1>4 DEF View
<1>6. Good(t, D)
  BY <1>2, <1>4, <1>5 DEF Good, Coherent
<1>7. g \in [Names -> Handle] /\ g[n] = t.this /\ \A a \in Names \ {n} : g[a] = h[a]
  BY <1>4, HandlesTyped
<1>8. \A a \in Names \ {n} : f[a] = h[a]
  BY <1>1 DEF Handles
<1> HIDE DEF p, D, g, f
<1>9. Files(View(t), g, q)
  <2>1. PICK data \in UnitData : Fits(data, n, p, m, s.this.size)
                                  /\ View(u.s) = Put(View(s), b, data)
    BY <1>2
  <2>2. g[n] = [f[n] EXCEPT !.pos = p + m]
    BY <1>1, <1>4, <1>7 DEF p
  <2>3. m <= UnitsPerBlock - (p % UnitsPerBlock) /\ b = PlaceOf(q[n], p) /\ p = f[n].pos
    BY <1>1 DEF p
  <2>4. f[n].open /\ Fits(data, n, p, m, f[n].size) /\ m \in Nat
    BY <1>1, <2>1
  <2>5. \A a \in Names \ {n} : g[a] = f[a]
    BY <1>7, <1>8
  <2>6. Files(Put(View(s), b, data), g, q)
    BY <1>1, <1>7, <2>2, <2>3, <2>4, <2>5, PutFiles, SMTT(60)
  <2>7. QED
    BY <1>5, <2>1, <2>6
<1>10. DirtyOwned(t, g, q)
  <2>1. SUFFICES ASSUME t.cacheDirty, t.cacheBlock \in DataBlocks
                 PROVE  \E a \in Names : \E i \in 0 .. g[a].pos - 1 :
                          ClusterIx(i) <= Len(q[a]) /\ t.cacheBlock = PlaceOf(q[a], i)
    BY DEF DirtyOwned
  <2>2. CASE t.cacheBlock = b
    <3>1. p \in 0 .. g[n].pos - 1
      BY <1>1, <1>4, <1>7
    <3>2. ClusterIx(p) <= Len(q[n]) /\ t.cacheBlock = PlaceOf(q[n], p)
      BY <1>1, <2>2 DEF p
    <3>3. QED
      BY <3>1, <3>2
  <2>3. CASE s.cacheDirty /\ t.cacheBlock = s.cacheBlock
    <3>1. DirtyOwned(s, f, q)
      BY DEF Mid, f
    <3>2. \E a \in Names : \E i \in 0 .. f[a].pos - 1 :
            ClusterIx(i) <= Len(q[a]) /\ t.cacheBlock = PlaceOf(q[a], i)
      BY <2>1, <2>3, <3>1 DEF DirtyOwned
    <3>3. PICK a \in Names : \E i \in 0 .. f[a].pos - 1 :
            ClusterIx(i) <= Len(q[a]) /\ t.cacheBlock = PlaceOf(q[a], i)
      BY <3>2
    <3>4. PICK i \in 0 .. f[a].pos - 1 :
            ClusterIx(i) <= Len(q[a]) /\ t.cacheBlock = PlaceOf(q[a], i)
      BY <3>3
    <3>5. f[a].pos \in Nat /\ g[a].pos \in Nat /\ f[a].pos <= g[a].pos
      <4>1. f[a].pos \in Nat /\ g[a].pos \in Nat
        BY <1>1, <1>7 DEF Handle
      <4>2. CASE a = n
        <5>1. f[a].pos = p /\ g[a].pos = p + m
          BY <1>1, <1>4, <1>7, <4>2 DEF p
        <5>2. QED
          BY <1>1, <4>1, <5>1
      <4>3. CASE a # n
        BY <1>7, <1>8, <4>1, <4>3
      <4>4. QED
        BY <4>1, <4>2, <4>3
    <3>6. i \in 0 .. g[a].pos - 1
      BY <3>5
    <3>7. QED
      BY <3>4, <3>6
  <2>4. QED
    BY <1>2, <1>4, <2>1, <2>2, <2>3
<1>11. CurOk(t.this, q[n])
  <2>1. Seg(p + m - 1) = Seg(p)
    <3>1. p + m - 1 \in Nat /\ p <= p + m - 1
            /\ p + m - 1 < p + UnitsPerBlock - (p % UnitsPerBlock)
      <4>1. p % UnitsPerBlock \in Nat /\ m <= UnitsPerBlock - (p % UnitsPerBlock)
        <5>1. p % UnitsPerBlock \in 0 .. UnitsPerBlock - 1
          BY <1>1, Positions
        <5>2. m <= UnitsPerBlock - (p % UnitsPerBlock)
          BY DEF p
        <5>3. QED
          BY <5>1, <5>2
      <4> DEFINE x == p % UnitsPerBlock
      <4> HIDE DEF x
      <4>2. QED
        BY <1>1, <4>1, VolumeAssumption DEF x
    <3>2. QED
      BY <1>1, <3>1, SameSeg
  <2>2. ClusterIx(p + m - 1) = ClusterIx(p) /\ p + m # 0
    BY <1>1, <2>1 DEF ClusterIx
  <2>3. QED
    BY <1>1, <1>4, <2>2 DEF CurOk
<1>12. \A a \in Names \ {n} : CurOk(h[a], q[a])
  BY DEF Mid
<1>13. QED
  BY <1>4, <1>6, <1>9, <1>10, <1>11, <1>12 DEF Mid, D, g, Good

(* The first step of a round: the cluster of the position.                 *)
Place(s) == IF Offset(s) = 0 /\ BlockOfCluster(s) = 0 THEN NextCluster(s) ELSE Done(s)

LEMMA OfPlace ==
  ASSUME NEW h \in [Names -> Handle], NEW n \in Names, NEW q \in Layouts, NEW Dirs,
         NEW s, Mid(s, h, n, q, Dirs), CurOk(s.this, q[n]), NEW o \in Place(s)
  PROVE  o \in Placed(s, h, n, Dirs)
<1>1. CASE Offset(s) = 0 /\ BlockOfCluster(s) = 0
  <2>1. o \in NextCluster(s)
    BY <1>1 DEF Place
  <2>2. QED
    BY <1>1, <2>1, OfNextCluster
<1>2. CASE ~ (Offset(s) = 0 /\ BlockOfCluster(s) = 0)
  <2> DEFINE p == s.this.pos
  <2>1. p \in Nat /\ s \in State /\ ~ s.fault /\ q[n] \in Seq(Clusters)
    BY MidFacts DEF Handle
  <2>2. o.ok /\ o.s = s /\ o \in OutcomeOf(Nat)
    <3>1. o \in Done(s)
      BY <1>2 DEF Place
    <3>2. o.ok /\ o.s = s /\ o \in OutcomeOf({0})
      BY <2>1, <3>1, OfDone, OutcomeTypes
    <3>3. QED
      BY <3>2 DEF OutcomeOf
  <2>3. ~ (p % UnitsPerBlock = 0 /\ BlockIx(p) = 0)
    BY <1>2 DEF Offset, BlockOfCluster, BlockIx, Seg
  <2> HIDE DEF p
  <2>4. p # 0 /\ ClusterIx(p) = ClusterIx(p - 1)
    <3>1. p # 0
      BY <2>3, ZeroPosition
    <3>2. p \in Nat \ {0}
      BY <2>1, <3>1
    <3>3. QED
      BY <2>3, <3>2, ClusterStart
  <2>5. InCluster(s.this, q[n])
    <3>1. ClusterIx(p - 1) \in 1 .. Len(q[n]) /\ s.this.cur = q[n][ClusterIx(p - 1)]
      BY <2>4, CurIsCluster DEF p
    <3>2. QED
      BY <2>4, <3>1 DEF InCluster, p
  <2>6. QED
    BY <2>1, <2>2, <2>5 DEF Placed
<1>3. QED
  BY <1>1, <1>2

(* What write() is at between two rounds.                                  *)
Writing(h, n, size, Dirs) ==
  {o \in OutcomeOf(Nat) :
     /\ o.s.fault => Faulted(o, Recoverable(Dirs))
     /\ ~ o.s.fault =>
          /\ o.s.this.size = size
          /\ \E q \in Layouts : Mid(o.s, h, n, q, Dirs) /\ CurOk(o.s.this, q[n])}

RoundUnits(o) == Min2(UnitsPerBlock - Offset(o.s), o.result)
PutPart(o, n, p) ==
  PutUnits(p.s, n, DataBlock(p.s.this.cur, BlockOfCluster(o.s)), Offset(o.s), RoundUnits(o))

LEMMA WriteRoundSteps ==
  ASSUME NEW o, NEW n, o.result # 0, NEW r \in WriteRound(o, n)
  PROVE  \E p \in Place(o.s) :
           /\ ~ p.ok => r = p
           /\ p.ok => \E u \in PutPart(o, n, p) :
                /\ ~ u.ok => r = u
                /\ u.ok => r \in Success(Moved(u.s, RoundUnits(o)), o.result - RoundUnits(o))
<1> DEFINE Put2(p) == Then(PutPart(o, n, p), LAMBDA u :
                        Success(Moved(u.s, RoundUnits(o)), o.result - RoundUnits(o)))
<1>1. r \in Then(Place(o.s), Put2)
  BY Zenon DEF WriteRound, PutPart, RoundUnits, Place, Moved
<1>2. PICK p \in Place(o.s) : r \in IF p.ok THEN Put2(p) ELSE {p}
  BY <1>1, Zenon DEF Then
<1>3. CASE ~ p.ok
  BY <1>2, <1>3
<1>4. CASE p.ok
  <2>1. PICK u \in PutPart(o, n, p) :
          r \in IF u.ok THEN Success(Moved(u.s, RoundUnits(o)), o.result - RoundUnits(o))
                ELSE {u}
    BY <1>2, <1>4, Zenon DEF Then
  <2>2. QED
    BY <1>4, <2>1
<1>5. QED
  BY <1>3, <1>4

LEMMA OfWriteRound ==
  ASSUME NEW h \in [Names -> Handle], NEW n \in Names, NEW size \in Nat, NEW Dirs,
         Dirs \subseteq DirData, \A d \in Dirs : d[n].size <= size,
         NEW o \in Writing(h, n, size, Dirs), o.ok, NEW r \in WriteRound(o, n)
  PROVE  r \in Writing(h, n, size, Dirs)
<1>1. CASE o.result = 0
  BY <1>1 DEF WriteRound
<1>2. CASE o.result # 0
  <2> DEFINE s == o.s
             m == RoundUnits(o)
             left == o.result - m
  <2>1. /\ ~ s.fault /\ s.this.size = size /\ o.result \in Nat /\ s \in State
        /\ \E q \in Layouts : Mid(s, h, n, q, Dirs) /\ CurOk(s.this, q[n])
    BY DEF Writing, Faulted, OutcomeOf
  <2>2. PICK q \in Layouts : Mid(s, h, n, q, Dirs) /\ CurOk(s.this, q[n])
    BY <2>1
  <2>3. s.this.pos \in Nat
    BY <2>1 DEF State, Handle
  <2>4. /\ m \in Nat \ {0} /\ m <= UnitsPerBlock - (s.this.pos % UnitsPerBlock)
        /\ left \in Nat
    <3> DEFINE off == s.this.pos % UnitsPerBlock
    <3>1. off \in 0 .. UnitsPerBlock - 1
      BY <2>3, Positions
    <3>2. m = IF UnitsPerBlock - off < o.result THEN UnitsPerBlock - off ELSE o.result
      BY DEF RoundUnits, Offset, Min2
    <3> HIDE DEF off, m
    <3>3. m \in Nat \ {0} /\ m <= UnitsPerBlock - off /\ left \in Nat
      BY <1>2, <2>1, <3>1, <3>2, VolumeAssumption
    <3>4. QED
      BY <3>3 DEF off
  <2> HIDE DEF s, left
  <2>5. PICK p \in Place(s) :
           /\ ~ p.ok => r = p
           /\ p.ok => \E u \in PutPart(o, n, p) :
                /\ ~ u.ok => r = u
                /\ u.ok => r \in Success(Moved(u.s, m), left)
    <3> HIDE DEF m
    <3>1. QED
      BY <1>2, WriteRoundSteps, Zenon DEF s, left, m
  <2> HIDE DEF m
  <2>6. p \in Placed(s, h, n, Dirs)
    BY <2>2, OfPlace
  <2>7. CASE ~ p.ok
    <3>1. r = p
      BY <2>5, <2>7
    <3>2. QED
      BY <2>1, <2>6, <2>7, <3>1 DEF Placed, Writing
  <2>8. CASE p.ok
    <3>1. /\ ~ p.s.fault /\ p.s.this.pos = s.this.pos /\ p.s.this.size = s.this.size
          /\ \E c \in Layouts : Mid(p.s, h, n, c, Dirs) /\ InCluster(p.s.this, c[n])
      BY <2>6, <2>8 DEF Placed, Faulted
    <3>2. PICK c \in Layouts : Mid(p.s, h, n, c, Dirs) /\ InCluster(p.s.this, c[n])
      BY <3>1
    <3> DEFINE b == PlaceOf(c[n], p.s.this.pos)
    <3>3. DataBlock(p.s.this.cur, BlockOfCluster(s)) = b
      BY <3>1, <3>2 DEF InCluster, PlaceOf, BlockOfCluster, BlockIx, Seg
    <3>4. PICK u \in PutPart(o, n, p) : /\ ~ u.ok => r = u
                                        /\ u.ok => r \in Success(Moved(u.s, m), left)
      BY <2>5, <2>8
    <3>5. u \in PutUnits(p.s, n, b, p.s.this.pos % UnitsPerBlock, m)
      BY <3>1, <3>3 DEF PutPart, m, s, Offset
    <3>6. Within(Dirs, n, p.s.this)
      BY <2>1, <3>1 DEF Within
    <3> HIDE DEF b
    <3>7. m \in Nat /\ m <= UnitsPerBlock - (p.s.this.pos % UnitsPerBlock)
      BY <2>4, <3>1
    <3>8. b = PlaceOf(c[n], p.s.this.pos)
      BY DEF b
    <3>9. u \in PutInto(p.s, h, n, c, Dirs, b, m)
      BY <3>2, <3>5, <3>6, <3>7, <3>8, OfPutUnits
    <3>10. CASE ~ u.ok
      <4>1. r = u /\ u \in OutcomeOf({0}) /\ Faulted(u, Recoverable(Dirs))
        BY <3>4, <3>9, <3>10 DEF PutInto
      <4>2. r \in OutcomeOf(Nat) /\ r.s.fault
        BY <4>1 DEF OutcomeOf, Faulted
      <4>3. QED
        BY <4>1, <4>2 DEF Writing
    <3>11. CASE u.ok
      <4> DEFINE t == Moved(u.s, m)
      <4>1. r \in Success(t, left)
        BY <3>4, <3>11
      <4>2. t = Moved(u.s, m)
        OBVIOUS
      <4> HIDE DEF t
      <4>3. /\ Mid(t, h, n, c, Dirs) /\ CurOk(t.this, c[n])
            /\ t.this.size = p.s.this.size /\ ~ t.fault
        BY <2>4, <3>2, <3>7, <3>8, <3>9, <3>11, <4>2, MovedMid
      <4>4. t \in State
        BY <4>3, MidFacts
      <4>5. r.s = t /\ r \in OutcomeOf(Nat)
        BY <2>4, <4>1, <4>4, OfSuccess, OutcomeTypes
      <4>6. QED
        BY <2>1, <3>1, <4>3, <4>5 DEF Writing
    <3>12. QED
      BY <3>10, <3>11
  <2>9. QED
    BY <2>7, <2>8
<1>3. QED
  BY <1>1, <1>2

LEMMA OfWriteUnits ==
  ASSUME NEW h \in [Names -> Handle], NEW name \in Names, NEW size \in Nat, NEW Dirs,
         Dirs \subseteq DirData, \A d \in Dirs : d[name].size <= size,
         NEW s, s.this.size = size, ~ s.fault, NEW q \in Layouts,
         Mid(s, h, name, q, Dirs), CurOk(s.this, q[name]),
         NEW n \in Nat, NEW r \in WriteUnits(s, name, n)
  PROVE  r \in Writing(h, name, size, Dirs)
<1> DEFINE Y == Writing(h, name, size, Dirs)
           start == Success(s, n)
           G(o) == IF o.ok THEN WriteRound(o, name) ELSE {o}
           Round == [o \in Y |-> G(o)]
           f == CHOOSE f : f = [k \in Nat |-> IF k = 0 THEN start
                                              ELSE UNION {G(o) : o \in f[k - 1]}]
<1>1. WriteUnits(s, name, n) = f[n]
  BY DEF WriteUnits, Repeat, Then
<1>2. \A o \in Y : G(o) \in SUBSET Y
  BY OfWriteRound
<1>3. start \subseteq Y
  <2>1. s \in State
    BY MidFacts
  <2>2. ASSUME NEW o \in start PROVE o \in Y
    <3>1. o.s = s /\ o \in OutcomeOf(Nat)
      BY <2>1, OfSuccess, OutcomeTypes
    <3>2. QED
      BY <3>1 DEF Writing
  <2>3. QED
    BY <2>2
<1> HIDE DEF Y, G, start
<1>4. Round \in [Y -> SUBSET Y]
  BY <1>2
<1>5. PICK g : g \in Rounds(Y, start, Round)
  <2> HIDE DEF Round
  <2>1. QED
    BY <1>3, <1>4, RoundsExist
<1>6. g = [k \in Nat |-> IF k = 0 THEN start ELSE UNION {G(o) : o \in g[k - 1]}]
  <2> USE <1>5 DEF Rounds
  <2>1. ASSUME NEW k \in Nat
        PROVE  g[k] = IF k = 0 THEN start ELSE UNION {G(o) : o \in g[k - 1]}
    <3>1. CASE k = 0
      BY <1>5, <3>1
    <3>2. CASE k # 0
      <4>1. k - 1 \in Nat
        BY <3>2
      <4>2. g[k - 1] \in SUBSET Y
        BY <4>1
      <4>3. \A o \in g[k - 1] : Round[o] = G(o)
        BY <4>2
      <4>4. g[k] = UNION {Round[o] : o \in g[k - 1]}
        BY <3>2
      <4> HIDE DEF Round
      <4>5. QED
        BY <3>2, <4>3, <4>4
    <3>3. QED
      BY <3>1, <3>2
  <2>2. QED
    BY <2>1
<1>7. f = [k \in Nat |-> IF k = 0 THEN start ELSE UNION {G(o) : o \in f[k - 1]}]
  BY <1>6
<1> HIDE DEF f
<1> DEFINE S == {k \in Nat : f[k] \subseteq Y}
<1>8. 0 \in S
  BY <1>3, <1>7
<1>9. ASSUME NEW k \in Nat, k \in S PROVE k + 1 \in S
  <2>1. k + 1 \in Nat /\ k + 1 # 0 /\ (k + 1) - 1 = k
    OBVIOUS
  <2>2. f[k + 1] = UNION {G(o) : o \in f[k]}
    BY <1>7, <2>1
  <2>3. QED
    BY <1>2, <1>9, <2>2
<1>10. n \in S
  <2> HIDE DEF S
  <2>1. QED
    BY <1>8, <1>9, Induction
<1>11. QED
  BY <1>1, <1>10 DEF Y

(* The end of write(): the file is as long as its position is far.         *)
Sized(s) == IF s.this.pos > s.this.size
            THEN [s EXCEPT !.this.size = s.this.pos, !.this.dirDirty = TRUE] ELSE s

LEMMA SizedMid ==
  ASSUME NEW h \in [Names -> Handle], NEW n \in Names, NEW q \in Layouts, NEW Dirs,
         NEW s, Mid(s, h, n, q, Dirs), CurOk(s.this, q[n]), NEW t, t = Sized(s)
  PROVE  /\ Mid(t, h, n, q, Dirs) /\ CurOk(t.this, q[n]) /\ t.this.size >= s.this.size
         /\ ~ t.fault /\ t \in State
<1>1. CASE ~ (s.this.pos > s.this.size)
  <2>1. t = s /\ s \in State /\ ~ s.fault /\ s.this.size \in Nat
    BY <1>1, MidFacts DEF Sized, Handle
  <2>2. QED
    BY <2>1
<1>2. CASE s.this.pos > s.this.size
  <2> DEFINE D == Cards(q, Dirs)
             g == Handles(h, n, t)
             f == Handles(h, n, s)
  <2>1. /\ s \in State /\ s.this \in Handle /\ s.this.pos \in Nat /\ s.this.size \in Nat
        /\ s.this.open /\ Files(View(s), f, q) /\ OpenOk(View(s), s.this, n, q[n])
        /\ Good(s, D) /\ f \in [Names -> Handle] /\ View(s) \in Views
    BY MidFacts DEF Handle
  <2> DEFINE u == [s.this EXCEPT !.size = s.this.pos, !.dirDirty = TRUE]
  <2>2. /\ u \in Handle /\ u.pos = s.this.pos /\ u.size = s.this.pos /\ u.open
        /\ u.first = s.this.first /\ u.dirDirty /\ u.cur = s.this.cur
    BY <2>1 DEF Handle
  <2>3. t = [s EXCEPT !.this = u]
    BY <1>2, <2>1 DEF Sized, State
  <2> HIDE DEF u
  <2>4. /\ t \in State /\ t.this = u /\ t.disk = s.disk /\ t.cacheBlock = s.cacheBlock
        /\ t.cacheData = s.cacheData /\ t.cacheDirty = s.cacheDirty
        /\ t.cacheMirror = s.cacheMirror /\ t.fault = s.fault
    BY <2>1, <2>2, <2>3 DEF State
  <2>5. View(t) = View(s)
    BY <2>4 DEF View
  <2>6. Good(t, D) /\ ~ t.fault
    BY <2>1, <2>4, <2>5 DEF Good, Coherent
  <2>7. g \in [Names -> Handle] /\ g[n] = u /\ \A a \in Names \ {n} : g[a] = h[a]
    BY <2>4, HandlesTyped
  <2>8. f[n] = s.this /\ \A a \in Names \ {n} : f[a] = h[a]
    BY <2>1, HandlesTyped
  <2> HIDE DEF D, f, g
  <2>9. Files(View(t), g, q)
    <3> DEFINE v == View(s)
    <3>1. OpenOk(v, u, n, q[n])
      <4>1. /\ v[DirBlock][n].size <= u.size
            /\ \/ v[DirBlock][n].first = u.first
               \/ v[DirBlock][n].first = 0 /\ v[DirBlock][n].size = 0
        <5>1. v[DirBlock][n].size \in Nat /\ v[DirBlock][n].size <= s.this.size
          <6>1. v[DirBlock] \in DirData
            BY <2>1 DEF Views
          <6>2. v[DirBlock][n].size \in Nat
            BY <6>1 DEF DirData, EntryType
          <6>3. QED
            BY <2>1, <6>2 DEF OpenOk
        <5> HIDE DEF v
        <5>2. v[DirBlock][n].size <= u.size
          BY <1>2, <2>1, <2>2, <5>1
        <5>3. QED
          BY <2>1, <2>2, <5>2 DEF OpenOk, v
      <4> HIDE DEF v
      <4>2. QED
        BY <2>1, <2>2, <4>1 DEF OpenOk, v
    <3>2. FileOk(v, g[n], n, q[n])
      BY <2>2, <2>7, <3>1 DEF FileOk
    <3>3. \A m \in Names \ {n} : FileOk(v, g[m], m, q[m])
      BY <2>1, <2>7, <2>8 DEF Files
    <3>4. QED
      BY <2>1, <2>5, <3>2, <3>3 DEF Files
  <2>10. DirtyOwned(t, g, q)
    <3>1. \A m \in Names : g[m].pos = f[m].pos
      BY <2>2, <2>7, <2>8
    <3>2. DirtyOwned(s, f, q)
      BY DEF Mid, f
    <3>3. QED
      BY <2>4, <3>1, <3>2 DEF DirtyOwned
  <2>11. CurOk(t.this, q[n]) /\ \A m \in Names \ {n} : CurOk(h[m], q[m])
    BY <2>2, <2>4 DEF Mid, CurOk
  <2>12. QED
    BY <1>2, <2>1, <2>2, <2>4, <2>6, <2>9, <2>10, <2>11 DEF Mid, D, g
<1>3. QED
  BY <1>1, <1>2

(* A call of the library on the open file n.  With the power off it leaves *)
(* a card of Dirs; with the power on, the file no shorter than size.       *)
Called(h, n, size, Dirs) ==
  {o \in OutcomeOf(Nat) :
     /\ o.s.fault => Faulted(o, Recoverable(Dirs))
     /\ ~ o.s.fault =>
          /\ o.s.this.size >= size
          /\ \E q \in Layouts : Mid(o.s, h, n, q, Dirs) /\ CurOk(o.s.this, q[n])}

LEMMA OfFileWrite ==
  ASSUME NEW h \in [Names -> Handle], NEW name \in Names, NEW size \in Nat, NEW Dirs,
         Dirs \subseteq DirData, \A d \in Dirs : d[name].size <= size,
         NEW s, s.this.size = size, NEW q \in Layouts,
         Mid(s, h, name, q, Dirs), CurOk(s.this, q[name]),
         NEW n \in Nat, NEW o \in FileWrite(s, name, n)
  PROVE  o \in Called(h, name, size, Dirs)
<1>1. ~ s.fault
  BY MidFacts
<1>2. PICK u \in WriteUnits(s, name, n) : o \in IF u.ok THEN Done(Sized(u.s)) ELSE {u}
  BY Zenon DEF FileWrite, Then, Sized
<1>3. u \in Writing(h, name, size, Dirs)
  BY <1>1, OfWriteUnits
<1>4. CASE ~ u.ok
  <2>1. o = u
    BY <1>2, <1>4
  <2>2. QED
    BY <1>3, <2>1 DEF Writing, Called
<1>5. CASE u.ok
  <2>1. /\ ~ u.s.fault /\ u.s.this.size = size
        /\ \E r \in Layouts : Mid(u.s, h, name, r, Dirs) /\ CurOk(u.s.this, r[name])
    BY <1>3, <1>5 DEF Writing, Faulted
  <2>2. PICK r \in Layouts : Mid(u.s, h, name, r, Dirs) /\ CurOk(u.s.this, r[name])
    BY <2>1
  <2> DEFINE t == Sized(u.s)
  <2>3. o \in Done(t)
    BY <1>2, <1>5
  <2>4. t = Sized(u.s)
    OBVIOUS
  <2> HIDE DEF t
  <2>5. /\ Mid(t, h, name, r, Dirs) /\ CurOk(t.this, r[name]) /\ t.this.size >= size
        /\ ~ t.fault /\ t \in State
    BY <2>1, <2>2, <2>4, SizedMid
  <2>6. o.s = t /\ o \in OutcomeOf({0})
    BY <2>3, <2>5, OfDone, OutcomeTypes
  <2>7. o \in OutcomeOf(Nat)
    BY <2>6 DEF OutcomeOf
  <2>8. QED
    BY <2>5, <2>6, <2>7 DEF Called
<1>6. QED
  BY <1>4, <1>5

-----------------------------------------------------------------------------
(* A directory entry changes in the cache.                                 *)
LEMMA PutDir ==
  ASSUME NEW v \in Views, NEW d \in DirData, NEW w, w = Put(v, DirBlock, d)
  PROVE  /\ w \in Views /\ w[DirBlock] = d
         /\ \A b \in Primary \ {DirBlock} : w[b] = v[b]
         /\ Linked(v) => Linked(w)
         /\ \A c \in Seq(Clusters) : \A first : \A k \in 0 .. Len(c) :
              ChainOk(v, first, c, k) => ChainOk(w, first, c, k)
         /\ \A m \in Names : \A c \in Seq(Clusters) : \A len \in Nat :
              Holds(v, m, c, Len(c), len) => Holds(w, m, c, Len(c), len)
<1>1. DirBlock \in Primary /\ DirBlock \notin FatBlocks /\ DirBlock \notin DataBlocks
        /\ FatBlocks \subseteq Primary /\ DataBlocks \subseteq Primary /\ d \in Data
  BY BlockKinds DEF Data, Primary
<1>2. v \in [Primary -> Data] /\ w \in [Primary -> Data] /\ w[DirBlock] = d
        /\ \A b \in Primary \ {DirBlock} : w[b] = v[b]
  BY <1>1 DEF Views, Put
<1>3. w \in Views
  BY <1>1, <1>2 DEF Views
<1>4. \A c \in 0 .. LastCluster : FatIn(w, c) = FatIn(v, c)
  <2>1. ASSUME NEW c \in 0 .. LastCluster PROVE FatIn(w, c) = FatIn(v, c)
    <3>1. FatBlock(c) \in FatBlocks
      BY FatTyped
    <3>2. QED
      BY <1>1, <1>2, <3>1 DEF FatIn
  <2>2. QED
    BY <2>1
<1>5. Clusters \subseteq 0 .. LastCluster
  BY VolumeAssumption DEF Clusters, LastCluster
<1>6. Linked(v) => Linked(w)
  BY <1>4, <1>5 DEF Linked
<1>7. ASSUME NEW c \in Seq(Clusters), NEW first, NEW k \in 0 .. Len(c), ChainOk(v, first, c, k)
      PROVE  ChainOk(w, first, c, k)
  <2>1. \A i \in 1 .. k : c[i] \in Clusters
    BY SMT
  <2>2. \A i \in 1 .. k : FatIn(w, c[i]) = FatIn(v, c[i])
    BY <1>4, <1>5, <2>1
  <2>3. QED
    BY <1>7, <2>2 DEF ChainOk
<1>8. ASSUME NEW m \in Names, NEW c \in Seq(Clusters), NEW len \in Nat,
             Holds(v, m, c, Len(c), len)
      PROVE  Holds(w, m, c, Len(c), len)
  <2>1. ASSUME NEW i \in 0 .. len - 1
        PROVE  ClusterIx(i) <= Len(c) /\ w[PlaceOf(c, i)][i % UnitsPerBlock] = <<m, i>>
    <3>1. ClusterIx(i) <= Len(c) /\ v[PlaceOf(c, i)][i % UnitsPerBlock] = <<m, i>>
      BY <1>8 DEF Holds
    <3>2. i \in Nat
      OBVIOUS
    <3>3. PlaceOf(c, i) \in DataBlocks
      BY <3>1, <3>2, PlaceTyped
    <3>4. w[PlaceOf(c, i)] = v[PlaceOf(c, i)]
      BY <1>1, <1>2, <3>3
    <3>5. QED
      BY <3>1, <3>4
  <2>2. QED
    BY <2>1 DEF Holds
<1>9. QED
  BY <1>2, <1>3, <1>6, <1>7, <1>8

LEMMA PutDirFile ==
  ASSUME NEW v \in Views, NEW d \in DirData, NEW w, w = Put(v, DirBlock, d),
         NEW m \in Names, NEW f \in Handle, NEW c \in Seq(Clusters),
         d[m] = v[DirBlock][m], FileOk(v, f, m, c)
  PROVE  FileOk(w, f, m, c)
<1>1. /\ w[DirBlock][m] = v[DirBlock][m] /\ Len(c) \in 0 .. Len(c)
      /\ f.pos \in Nat /\ f.size \in Nat
  BY PutDir DEF Handle
<1>2. v[DirBlock][m].size \in Nat
  BY DEF Views, DirData, EntryType
<1>3. \A first : ChainOk(v, first, c, Len(c)) => ChainOk(w, first, c, Len(c))
  BY <1>1, PutDir
<1>4. \A len \in Nat : Holds(v, m, c, Len(c), len) => Holds(w, m, c, Len(c), len)
  BY PutDir
<1>5. CASE f.open
  <2>1. OpenOk(v, f, m, c)
    BY <1>5 DEF FileOk
  <2>2. OpenOk(w, f, m, c)
    BY <1>1, <1>3, <1>4, <2>1 DEF OpenOk
  <2>3. QED
    BY <1>5, <2>2 DEF FileOk
<1>6. CASE ~ f.open
  <2>1. ClosedOk(v, f, m, c)
    BY <1>6 DEF FileOk
  <2>2. ClosedOk(w, f, m, c)
    BY <1>1, <1>2, <1>3, <1>4, <2>1 DEF ClosedOk
  <2>3. QED
    BY <1>6, <2>2 DEF FileOk
<1>7. QED
  BY <1>5, <1>6

(* The directory once the entry of the file n says what the handle f has.  *)
Saved(d, n, f) ==
  [d EXCEPT ![n] = [used |-> TRUE, first |-> f.first, size |-> f.size]]
Synced(f) == [f EXCEPT !.dirDirty = FALSE]

LEMMA SavedTyped ==
  ASSUME NEW d \in DirData, NEW n \in Names, NEW f \in Handle
  PROVE  /\ Saved(d, n, f) \in DirData
         /\ Saved(d, n, f)[n].used /\ Saved(d, n, f)[n].first = f.first
         /\ Saved(d, n, f)[n].size = f.size
         /\ \A m \in Names \ {n} : Saved(d, n, f)[m] = d[m]
<1>1. [used |-> TRUE, first |-> f.first, size |-> f.size] \in EntryType
  BY DEF Handle, EntryType
<1>2. QED
  BY <1>1 DEF DirData, Saved

LEMMA SavedFiles ==
  ASSUME NEW v \in Views, NEW h \in [Names -> Handle], NEW q \in Layouts, Files(v, h, q),
         NEW n \in Names, h[n].open, NEW d, d = Saved(v[DirBlock], n, h[n]),
         NEW w, w = Put(v, DirBlock, d),
         NEW g \in [Names -> Handle], \A m \in Names \ {n} : g[m] = h[m],
         g[n] = Synced(h[n])
  PROVE  w \in Views /\ w[DirBlock] = d /\ Files(w, g, q)
<1>1. v[DirBlock] \in DirData /\ h[n] \in Handle /\ q[n] \in Seq(Clusters)
  BY DEF Views, Layouts
<1>2. /\ d \in DirData /\ d[n].used /\ d[n].first = h[n].first /\ d[n].size = h[n].size
      /\ \A m \in Names \ {n} : d[m] = v[DirBlock][m]
  <2> DEFINE f == h[n]
             e == v[DirBlock]
  <2>1. f \in Handle /\ e \in DirData /\ d = Saved(e, n, f)
    BY <1>1
  <2> HIDE DEF f, e
  <2>2. /\ d \in DirData /\ d[n].used /\ d[n].first = f.first /\ d[n].size = f.size
        /\ \A m \in Names \ {n} : d[m] = e[m]
    <3>1. /\ Saved(e, n, f) \in DirData
          /\ Saved(e, n, f)[n].used /\ Saved(e, n, f)[n].first = f.first
          /\ Saved(e, n, f)[n].size = f.size
          /\ \A m \in Names \ {n} : Saved(e, n, f)[m] = e[m]
      BY <2>1, SavedTyped, Zenon
    <3>2. QED
      BY <2>1, <3>1, Zenon
  <2>3. QED
    BY <2>2 DEF f, e
<1>3. w \in Views /\ w[DirBlock] = d /\ (Linked(v) => Linked(w))
  BY <1>2, PutDir
<1>4. ASSUME NEW m \in Names \ {n} PROVE FileOk(w, g[m], m, q[m])
  <2>1. FileOk(v, h[m], m, q[m]) /\ h[m] \in Handle /\ q[m] \in Seq(Clusters)
          /\ d[m] = v[DirBlock][m] /\ g[m] = h[m]
    BY <1>2 DEF Files, Layouts
  <2>2. FileOk(w, h[m], m, q[m])
    BY <1>2, <2>1, PutDirFile
  <2>3. QED
    BY <2>1, <2>2
<1>5. FileOk(w, g[n], n, q[n])
  <2>1. OpenOk(v, h[n], n, q[n])
    BY DEF Files, FileOk
  <2>2. /\ g[n].open /\ g[n].first = h[n].first /\ g[n].pos = h[n].pos
        /\ g[n].size = h[n].size /\ h[n].pos \in Nat /\ h[n].size \in Nat
    BY <1>1 DEF Synced, Handle
  <2>3. ChainOk(w, h[n].first, q[n], Len(q[n]))
    <3>1. ChainOk(v, h[n].first, q[n], Len(q[n])) /\ Len(q[n]) \in 0 .. Len(q[n])
      BY <1>1, <2>1 DEF OpenOk
    <3>2. QED
      BY <1>1, <1>2, <3>1, PutDir
  <2>4. Holds(w, n, q[n], Len(q[n]), h[n].pos)
    <3>1. Holds(v, n, q[n], Len(q[n]), h[n].pos)
      BY <2>1 DEF OpenOk
    <3>2. QED
      BY <1>1, <1>2, <2>2, <3>1, PutDir
  <2>5. Holds(w, n, q[n], Len(q[n]), h[n].size)
    <3>1. Holds(v, n, q[n], Len(q[n]), h[n].size)
      BY <2>1 DEF OpenOk
    <3>2. QED
      BY <1>1, <1>2, <2>2, <3>1, PutDir
  <2>6. OpenOk(w, g[n], n, q[n])
    BY <1>2, <1>3, <2>2, <2>3, <2>4, <2>5 DEF OpenOk
  <2>7. QED
    BY <2>2, <2>6 DEF FileOk
<1>6. QED
  BY <1>3, <1>4, <1>5 DEF Files

(* sync().                                                                 *)
Entered(s, n, f) == [s EXCEPT !.cacheData[n].size = f.size,
                              !.cacheData[n].first = f.first,
                              !.this.dirDirty = FALSE]

LEMMA EnteredTyped ==
  ASSUME NEW s \in State, NEW n \in Names, NEW d \in DirData, s.cacheData = d,
         d[n].used, NEW t, t = Entered(s, n, s.this)
  PROVE  /\ t \in State /\ t.this = Synced(s.this) /\ t.this \in Handle
         /\ t.cacheData = Saved(d, n, s.this)
         /\ t.disk = s.disk /\ t.cacheBlock = s.cacheBlock
         /\ t.cacheDirty = s.cacheDirty /\ t.cacheMirror = s.cacheMirror
         /\ t.fault = s.fault
<1>1. s.this \in Handle
  BY DEF State
<1>2. Synced(s.this) \in Handle
  BY <1>1 DEF Synced, Handle
<1>3. Saved(d, n, s.this) \in Data
  BY <1>1, SavedTyped DEF Data
<1>4. [[d EXCEPT ![n].size = s.this.size] EXCEPT ![n].first = s.this.first]
        = Saved(d, n, s.this)
  <2>1. d[n] \in EntryType /\ d = [m \in Names |-> d[m]]
    BY DEF DirData
  <2>2. d[n].used = TRUE
    BY <2>1 DEF EntryType
  <2>3. [[d[n] EXCEPT !.size = s.this.size] EXCEPT !.first = s.this.first]
          = [used |-> TRUE, first |-> s.this.first, size |-> s.this.size]
    <3>1. d[n] = [used |-> d[n].used, first |-> d[n].first, size |-> d[n].size]
      BY <2>1 DEF EntryType
    <3> DEFINE e == d[n]
               u == e.used
               x == e.first
               y == e.size
               a == s.this.size
               b == s.this.first
               k == [e EXCEPT !.size = a]
    <3>2. e = [used |-> u, first |-> x, size |-> y]
      BY <3>1
    <3> HIDE DEF e, u, x, y, a, b
    <3>3. k = [used |-> u, first |-> x, size |-> a]
      BY <3>2
    <3> HIDE DEF k
    <3>4. [k EXCEPT !.first = b] = [used |-> u, first |-> b, size |-> a]
      BY <3>3
    <3>5. QED
      BY <2>2, <3>4 DEF e, u, a, b, k
  <2>4. QED
    BY <2>1, <2>3 DEF Saved
<1>5. t = [s EXCEPT !.cacheData = Saved(d, n, s.this), !.this = Synced(s.this)]
  BY <1>4 DEF Entered, Synced, State
<1>6. t \in State
  BY <1>2, <1>3, <1>5 DEF State
<1>7. QED
  BY <1>2, <1>5, <1>6 DEF State

LEMMA FileSyncSteps ==
  ASSUME NEW s, NEW n, NEW o \in FileSync(s, n)
  PROVE  IF s.this.dirDirty
         THEN \E c \in CacheForWriting(s, DirBlock) :
                /\ ~ c.ok => o = c
                /\ c.ok => o \in CacheFlush(Entered(c.s, n, s.this))
         ELSE o \in CacheFlush(s)
<1>1. CASE s.this.dirDirty
  <2>1. PICK p \in Then(CacheForWriting(s, DirBlock), LAMBDA c : Done(Entered(c.s, n, s.this))) :
          o \in IF p.ok THEN CacheFlush(p.s) ELSE {p}
    BY <1>1, Zenon DEF FileSync, Then, CacheForWriting, Entered
  <2>2. PICK c \in CacheForWriting(s, DirBlock) :
          p \in IF c.ok THEN Done(Entered(c.s, n, s.this)) ELSE {c}
    BY <2>1, Zenon DEF Then
  <2>3. CASE c.ok
    <3>1. p.ok /\ p.s = Entered(c.s, n, s.this)
      BY <2>2, <2>3, OfDone
    <3>2. QED
      BY <1>1, <2>1, <2>3, <3>1
  <2>4. CASE ~ c.ok
    BY <1>1, <2>1, <2>2, <2>4
  <2>5. QED
    BY <2>3, <2>4
<1>2. CASE ~ s.this.dirDirty
  <2>1. PICK p \in Done(s) : o \in IF p.ok THEN CacheFlush(p.s) ELSE {p}
    BY <1>2, Zenon DEF FileSync, Then
  <2>2. p.ok /\ p.s = s
    BY <2>1, OfDone
  <2>3. QED
    BY <1>2, <2>1, <2>2
<1>3. QED
  BY <1>1, <1>2

(* The file is on the card, or the power failed before or after its entry  *)
(* was written.                                                            *)
Flushed(h, n, f, d) ==
  {o \in OutcomeOf({0}) :
     /\ o.s.fault => Faulted(o, Recoverable({d, Saved(d, n, f)}))
     /\ ~ o.s.fault =>
          /\ o.ok /\ o.s.this = Synced(f) /\ ~ o.s.cacheDirty
          /\ OnCard(o.s.disk) = View(o.s)
          /\ \E q \in Layouts :
               Mid(o.s, h, n, q, {Saved(d, n, f)}) /\ CurOk(o.s.this, q[n])}

(* The volume t is flushed, whose directory says what the file has.        *)
LEMMA FlushSaved ==
  ASSUME NEW h \in [Names -> Handle], NEW n \in Names, NEW q \in Layouts,
         NEW f \in Handle, f.open, CurOk(f, q[n]), \A m \in Names \ {n} : CurOk(h[m], q[m]),
         NEW d \in DirData, NEW t,
         Good(t, Cards(q, {d, Saved(d, n, f)})), t.this = Synced(f),
         View(t)[DirBlock] = Saved(d, n, f), Files(View(t), Handles(h, n, t), q),
         NEW o \in CacheFlush(t)
  PROVE  o \in Flushed(h, n, f, d)
<1> DEFINE e == Saved(d, n, f)
           D == Cards(q, {d, e})
<1>1. D \in SUBSET Views
  BY CardsRecoverable
<1>2. /\ o \in OutcomeOf({0})
      /\ o.ok => /\ Good(o.s, D) /\ Same(t, o.s) /\ View(o.s) = View(t)
                 /\ OnCard(o.s.disk) = View(t) /\ ~ o.s.cacheDirty
      /\ ~ o.ok => Faulted(o, D)
  <2>1. Good(t, D)
    OBVIOUS
  <2> HIDE DEF D
  <2>2. QED
    BY <1>1, <2>1, OfCacheFlush
<1>3. CASE ~ o.ok
  <2>1. Faulted(o, D) /\ o.s.fault
    BY <1>2, <1>3 DEF Faulted
  <2>2. Faulted(o, Recoverable({d, e}))
    BY <2>1, CardsRecoverable
  <2>3. QED
    BY <1>2, <2>1, <2>2 DEF Flushed
<1>4. CASE o.ok
  <2> HIDE DEF D
  <2>1. /\ Good(o.s, D) /\ o.s.this = Synced(f) /\ View(o.s) = View(t)
        /\ OnCard(o.s.disk) = View(t) /\ ~ o.s.cacheDirty /\ ~ o.s.fault
    BY <1>2, <1>4 DEF Same, Good
  <2>2. View(t) \in Cards(q, {e})
    <3>1. View(t) \in D
      BY DEF Good, D
    <3>2. QED
      BY <3>1 DEF Cards, D
  <2>3. Good(o.s, Cards(q, {e}))
    BY <2>1, <2>2 DEF Good
  <2>4. Handles(h, n, o.s) = Handles(h, n, t)
    BY <2>1 DEF Handles
  <2>5. Files(View(o.s), Handles(h, n, o.s), q)
    BY <2>1, <2>4
  <2>6. o.s.this.open /\ CurOk(o.s.this, q[n])
    BY <2>1 DEF Synced, Handle, CurOk
  <2>7. DirtyOwned(o.s, Handles(h, n, o.s), q)
    BY <2>1 DEF DirtyOwned
  <2>8. Mid(o.s, h, n, q, {e})
    BY <2>3, <2>5, <2>6, <2>7 DEF Mid
  <2>9. QED
    BY <1>2, <1>4, <2>1, <2>6, <2>8 DEF Flushed
<1>5. QED
  BY <1>3, <1>4

LEMMA OfFileSync ==
  ASSUME NEW h \in [Names -> Handle], NEW n \in Names, NEW q \in Layouts,
         NEW d, NEW s, Mid(s, h, n, q, {d}), CurOk(s.this, q[n]),
         NEW o \in FileSync(s, n)
  PROVE  o \in Flushed(h, n, s.this, d)
<1> DEFINE f == s.this
           e == Saved(d, n, f)
           g == Handles(h, n, s)
<1>1. /\ Good(s, Cards(q, {d})) /\ s \in State /\ View(s) \in Views /\ f \in Handle
      /\ View(s)[DirBlock] = d /\ Files(View(s), g, q) /\ g \in [Names -> Handle]
      /\ g[n] = f /\ OpenOk(View(s), f, n, q[n]) /\ f.open
      /\ Cards(q, {d}) \in SUBSET Views
  <2> DEFINE Dirs == {d}
  <2>1. Mid(s, h, n, q, Dirs)
    OBVIOUS
  <2> HIDE DEF Dirs
  <2>2. /\ Good(s, Cards(q, Dirs)) /\ s \in State /\ View(s) \in Views /\ f \in Handle
        /\ View(s)[DirBlock] \in Dirs /\ Files(View(s), g, q) /\ g \in [Names -> Handle]
        /\ g[n] = f /\ OpenOk(View(s), f, n, q[n]) /\ f.open
        /\ Cards(q, Dirs) \in SUBSET Views
    BY <2>1, MidFacts
  <2>3. View(s)[DirBlock] = d
    BY <2>2 DEF Dirs
  <2>4. QED
    BY <2>2, <2>3 DEF Dirs
<1>2. /\ d \in DirData /\ DirBlock \in Primary /\ DirBlock \notin DataBlocks
      /\ \A m \in Names \ {n} : CurOk(h[m], q[m])
  BY <1>1, BlockKinds DEF Mid, Views
<1>3. d[n].used
  BY <1>1 DEF OpenOk
<1>4. Cards(q, {d}) \subseteq Cards(q, {d, e})
  BY DEF Cards
<1>5. CASE ~ f.dirDirty
  <2>1. o \in CacheFlush(s)
    BY <1>5, FileSyncSteps
  <2>2. f = Synced(f)
    BY <1>1, <1>5 DEF Synced, Handle
  <2>3. e = d
    <3>1. d[n].first = f.first /\ d[n].size = f.size
      BY <1>1, <1>5 DEF OpenOk
    <3>2. d[n] \in EntryType /\ d = [m \in Names |-> d[m]]
      BY <1>2 DEF DirData
    <3>3. d[n].used = TRUE
      BY <1>3, <3>2 DEF EntryType
    <3>4. d[n] = [used |-> TRUE, first |-> f.first, size |-> f.size]
      BY <3>1, <3>2, <3>3 DEF EntryType
    <3>5. QED
      BY <3>2, <3>4 DEF Saved
  <2>4. Good(s, Cards(q, {d, e}))
    BY <1>1, <1>4, GoodInMore
  <2> HIDE DEF e
  <2>5. CurOk(f, q[n]) /\ View(s)[DirBlock] = e /\ s.this = Synced(f)
          /\ Good(s, Cards(q, {d, Saved(d, n, f)})) /\ View(s)[DirBlock] = Saved(d, n, f)
    BY <1>1, <2>2, <2>3, <2>4 DEF e
  <2> HIDE DEF f, g
  <2>6. Files(View(s), Handles(h, n, s), q)
    BY <1>1 DEF g
  <2>7. o \in Flushed(h, n, f, d)
    BY <1>1, <1>2, <2>1, <2>5, <2>6, FlushSaved
  <2>8. QED
    BY <2>7 DEF f
<1>6. CASE f.dirDirty
  <2>1. PICK c \in CacheForWriting(s, DirBlock) : /\ ~ c.ok => o = c
                                                  /\ c.ok => o \in CacheFlush(Entered(c.s, n, s.this))
    BY <1>6, FileSyncSteps
  <2>2. /\ c \in OutcomeOf({0})
        /\ c.ok => /\ Good(c.s, Cards(q, {d})) /\ Same(s, c.s) /\ View(c.s) = View(s)
                   /\ c.s.cacheBlock = DirBlock /\ c.s.cacheData = View(s)[DirBlock]
                   /\ c.s.cacheDirty
        /\ ~ c.ok => Faulted(c, Cards(q, {d}))
    BY <1>1, <1>2, OfCacheForWriting
  <2>3. CASE ~ c.ok
    <3>1. Faulted(c, Cards(q, {d, e})) /\ c.s.fault
      BY <1>4, <2>2, <2>3 DEF Faulted
    <3>2. Faulted(c, Recoverable({d, e}))
      BY <3>1, CardsRecoverable
    <3>3. QED
      BY <2>1, <2>2, <2>3, <3>1, <3>2 DEF Flushed
  <2>4. CASE c.ok
    <3> DEFINE u == c.s
               t == Entered(u, n, f)
    <3>1. /\ Good(u, Cards(q, {d})) /\ u.this = f /\ View(u) = View(s) /\ u \in State
          /\ u.cacheBlock = DirBlock /\ u.cacheData = d /\ u.cacheDirty
          /\ OnCard(u.disk) \in Cards(q, {d}) /\ ~ u.fault
      BY <1>1, <2>2, <2>4 DEF Good, Same
    <3>2. t = Entered(u, n, f)
      OBVIOUS
    <3>3. o \in CacheFlush(t)
      BY <2>1, <2>4
    <3> HIDE DEF u, t, g, f, e
    <3>4. /\ t \in State /\ t.this = Synced(f) /\ t.this \in Handle
          /\ t.cacheData = e /\ t.disk = u.disk /\ t.cacheBlock = DirBlock
          /\ t.cacheDirty /\ t.cacheMirror = u.cacheMirror /\ ~ t.fault
      BY <1>2, <1>3, <3>1, <3>2, EnteredTyped DEF e
    <3>5. View(t) = Put(View(u), DirBlock, e)
      BY <1>2, <3>1, <3>4 DEF View, Put
    <3>6. Coherent(t)
      BY <1>2, <3>4, BlockKinds DEF Coherent
    <3>7. /\ Handles(h, n, t) \in [Names -> Handle] /\ Handles(h, n, t)[n] = Synced(f)
          /\ \A m \in Names \ {n} : Handles(h, n, t)[m] = g[m]
      BY <1>1, <3>4, HandlesTyped DEF g
    <3>8. View(t) \in Views /\ View(t)[DirBlock] = e /\ Files(View(t), Handles(h, n, t), q)
      <4>1. g[n] = f /\ f.open /\ e = Saved(View(s)[DirBlock], n, g[n])
              /\ View(t) = Put(View(s), DirBlock, e)
              /\ Handles(h, n, t)[n] = Synced(g[n])
        BY <1>1, <3>1, <3>5, <3>7 DEF f, e
      <4>2. g[n].open
        BY <4>1
      <4>3. QED
        BY <1>1, <3>7, <4>1, <4>2, SavedFiles
    <3>9. View(t) \in Cards(q, {d, e})
      <4>1. Sound(View(t), q)
        BY <3>7, <3>8, FilesSound
      <4>2. QED
        BY <3>8, <4>1 DEF Cards
    <3>10. Good(t, Cards(q, {d, e}))
      BY <1>4, <3>1, <3>4, <3>6, <3>9 DEF Good
    <3>11. o \in Flushed(h, n, f, d)
      <4>1. CurOk(f, q[n]) /\ f.open /\ f \in Handle
        BY <1>1 DEF f
      <4>2. Good(t, Cards(q, {d, Saved(d, n, f)})) /\ View(t)[DirBlock] = Saved(d, n, f)
        BY <3>8, <3>10 DEF e
      <4>3. QED
        BY <1>2, <3>3, <3>4, <3>8, <4>1, <4>2, FlushSaved
    <3>12. QED
      BY <3>11 DEF f
  <2>5. QED
    BY <2>3, <2>4
<1>7. QED
  BY <1>5, <1>6

-----------------------------------------------------------------------------
(* seekSet() from the start of the file to its end.                        *)
Ith(c, i) == IF i <= Len(c) THEN c[i] ELSE EOC
WithCur(f, x) == [f EXCEPT !.cur = x]

(* A step along the chain, from its i-th cluster.                          *)
AtIth(s, h, n, q, Dirs, f, i) ==
  Mid(s, h, n, q, Dirs) /\ s.this = WithCur(f, Ith(q[n], i))

LEMMA WithCurMid ==
  ASSUME NEW h \in [Names -> Handle], NEW n \in Names, NEW q \in Layouts, NEW Dirs,
         NEW f, NEW s, Mid(s, h, n, q, Dirs), s.this = f \/ \E x : s.this = WithCur(f, x),
         NEW c \in 0 .. EOC, NEW t, t = AtCluster(s, c), f \in Handle
  PROVE  Mid(t, h, n, q, Dirs) /\ t.this = WithCur(f, c)
<1>1. Mid(t, h, n, q, Dirs)
  BY CurMoves
<1>2. s \in State
  BY MidFacts
<1>3. t.this = [s.this EXCEPT !.cur = c]
  BY <1>2 DEF AtCluster, State
<1>4. [s.this EXCEPT !.cur = c] = [f EXCEPT !.cur = c]
  BY DEF WithCur, Handle
<1>5. QED
  BY <1>1, <1>3, <1>4 DEF WithCur

LEMMA FollowLinkSteps ==
  ASSUME NEW o, NEW r \in FollowLink(o)
  PROVE  \E p \in FatGet(o.s, o.s.this.cur) :
           /\ ~ p.ok => r = p
           /\ p.ok => r \in Done(AtCluster(p.s, p.result))
<1>1. PICK p \in FatGet(o.s, o.s.this.cur) :
        r \in IF p.ok THEN Done(AtCluster(p.s, p.result)) ELSE {p}
  BY Zenon DEF FollowLink, Then, AtCluster
<1>2. QED
  BY <1>1

LEMMA OfFollowLink ==
  ASSUME NEW h \in [Names -> Handle], NEW n \in Names, NEW q \in Layouts, NEW Dirs,
         NEW f \in Handle, NEW i \in 1 .. Len(q[n]),
         NEW o, AtIth(o.s, h, n, q, Dirs, f, i), NEW r \in FollowLink(o)
  PROVE  /\ r \in OutcomeOf({0})
         /\ r.s.fault => Faulted(r, Recoverable(Dirs))
         /\ ~ r.s.fault => r.ok /\ AtIth(r.s, h, n, q, Dirs, f, i + 1)
<1> DEFINE s == o.s
           c == q[n]
           D == Cards(q, Dirs)
<1>1. Mid(s, h, n, q, Dirs) /\ s.this = WithCur(f, Ith(c, i))
  BY DEF AtIth
<1>2. c \in Seq(Clusters) /\ Len(c) \in Nat /\ i \in Nat /\ i <= Len(c) /\ c[i] \in Clusters
  BY DEF Layouts
<1>3. s.this.cur = c[i]
  BY <1>1, <1>2 DEF WithCur, Ith, Handle
<1>4. /\ Good(s, D) /\ D \in SUBSET Views /\ OpenOk(View(s), s.this, n, c)
      /\ View(s) \in Views
  BY <1>1, MidFacts
<1> HIDE DEF s, c, D
<1>5. PICK p \in FatGet(s, c[i]) : /\ ~ p.ok => r = p
                                   /\ p.ok => r \in Done(AtCluster(p.s, p.result))
  BY <1>3, FollowLinkSteps DEF s
<1>6. /\ p.ok => /\ p \in OutcomeOf(0 .. EOC) /\ Good(p.s, D) /\ Kept(s, p.s)
                 /\ p.result = FatIn(View(s), c[i])
      /\ ~ p.ok => Faulted(p, D)
  BY <1>2, <1>4, OfFatGet
<1>7. CASE ~ p.ok
  <2>1. r = p /\ Faulted(p, D)
    BY <1>5, <1>6, <1>7
  <2>2. Faulted(r, Recoverable(Dirs))
    BY <2>1, CardsRecoverable DEF D
  <2>3. QED
    BY <2>2 DEF Faulted
<1>8. CASE p.ok
  <2>1. p.result = Ith(c, i + 1) /\ p.result \in 0 .. EOC
    <3>1. p.result = IF i < Len(c) THEN c[i + 1] ELSE EOC
      BY <1>2, <1>4, <1>6, <1>8 DEF OpenOk, ChainOk
    <3>2. p.result \in 0 .. EOC
      BY <1>6, <1>8 DEF OutcomeOf
    <3>3. QED
      BY <1>2, <3>1, <3>2 DEF Ith
  <2>2. Mid(p.s, h, n, q, Dirs) /\ p.s.this = s.this
    BY <1>1, <1>6, <1>8, KeptMid DEF D, Kept, Same
  <2> DEFINE t == AtCluster(p.s, p.result)
  <2>3. t = AtCluster(p.s, p.result) /\ r \in Done(t)
    BY <1>5, <1>8
  <2> HIDE DEF t
  <2>4. \E x : p.s.this = WithCur(f, x)
    BY <1>1, <2>2
  <2>5. Mid(t, h, n, q, Dirs) /\ t.this = WithCur(f, p.result)
    BY <2>1, <2>2, <2>3, <2>4, WithCurMid
  <2>6. ~ t.fault /\ t \in State
    BY <2>5, MidFacts
  <2>7. r.ok /\ r.s = t /\ r \in OutcomeOf({0})
    BY <2>3, <2>6, OfDone, OutcomeTypes
  <2>8. QED
    BY <2>1, <2>5, <2>6, <2>7 DEF AtIth, c
<1>9. QED
  BY <1>7, <1>8

(* The walk, which ends at the end of the chain.                           *)
Following(h, n, q, Dirs, f) ==
  {o \in OutcomeOf({0}) :
     /\ o.s.fault => Faulted(o, Recoverable(Dirs))
     /\ ~ o.s.fault => \E i \in 1 .. Len(q[n]) + 1 : AtIth(o.s, h, n, q, Dirs, f, i)}

LEMMA OfFollowing ==
  ASSUME NEW h \in [Names -> Handle], NEW n \in Names, NEW q \in Layouts, NEW Dirs,
         NEW f \in Handle, NEW o \in Following(h, n, q, Dirs, f), o.ok,
         NEW r \in FollowLink(o)
  PROVE  r \in Following(h, n, q, Dirs, f)
<1>1. ~ o.s.fault /\ \E i \in 1 .. Len(q[n]) + 1 : AtIth(o.s, h, n, q, Dirs, f, i)
  BY DEF Following, Faulted
<1>2. PICK i \in 1 .. Len(q[n]) + 1 : AtIth(o.s, h, n, q, Dirs, f, i)
  BY <1>1
<1>3. Len(q[n]) \in Nat
  BY DEF Layouts
<1>4. CASE i \in 1 .. Len(q[n])
  <2>1. /\ r \in OutcomeOf({0})
        /\ r.s.fault => Faulted(r, Recoverable(Dirs))
        /\ ~ r.s.fault => r.ok /\ AtIth(r.s, h, n, q, Dirs, f, i + 1)
    BY <1>2, <1>4, OfFollowLink
  <2>2. i + 1 \in 1 .. Len(q[n]) + 1
    BY <1>3, <1>4
  <2>3. QED
    BY <2>1, <2>2 DEF Following
<1>5. CASE i = Len(q[n]) + 1
  <2>1. Mid(o.s, h, n, q, Dirs) /\ o.s.this = WithCur(f, EOC)
    BY <1>2, <1>3, <1>5 DEF AtIth, Ith
  <2>2. o.s.this.cur = EOC /\ o.s \in State
    <3>1. o.s \in State
      BY <2>1, MidFacts
    <3>2. o.s.this.cur = EOC
      BY <2>1 DEF WithCur, Handle
    <3>3. QED
      BY <3>1, <3>2
  <2>3. PICK p \in FatGet(o.s, EOC) : /\ ~ p.ok => r = p
                                      /\ p.ok => r \in Done(AtCluster(p.s, p.result))
    BY <2>2, FollowLinkSteps
  <2>4. p \in Failed(o.s)
    <3>1. EOC > LastCluster
      BY VolumeAssumption DEF EOC, LastCluster
    <3>2. QED
      BY <3>1, Zenon DEF FatGet
  <2>5. r = p /\ r.s = o.s /\ r \in OutcomeOf({0})
    BY <2>2, <2>3, <2>4, OfFailed, OutcomeTypes
  <2>6. QED
    BY <1>1, <2>5 DEF Following
<1>6. QED
  BY <1>2, <1>3, <1>4, <1>5

LEMMA OfFollow ==
  ASSUME NEW h \in [Names -> Handle], NEW n \in Names, NEW q \in Layouts, NEW Dirs,
         NEW f \in Handle, NEW s, AtIth(s, h, n, q, Dirs, f, 1),
         NEW steps \in Nat, steps < Len(q[n]), NEW r \in Follow(s, steps)
  PROVE  /\ r \in OutcomeOf({0})
         /\ r.s.fault => Faulted(r, Recoverable(Dirs))
         /\ ~ r.s.fault => r.ok /\ AtIth(r.s, h, n, q, Dirs, f, steps + 1)
<1> DEFINE Y == Following(h, n, q, Dirs, f)
           start == Done(s)
           G(o) == IF o.ok THEN FollowLink(o) ELSE {o}
           Round == [o \in Y |-> G(o)]
           after == CHOOSE after :
                      after = [k \in Nat |-> IF k = 0 THEN start
                                             ELSE UNION {G(o) : o \in after[k - 1]}]
           At(k) == {o \in OutcomeOf({0}) :
                       /\ o.s.fault => Faulted(o, Recoverable(Dirs))
                       /\ ~ o.s.fault => o.ok /\ AtIth(o.s, h, n, q, Dirs, f, k + 1)}
<1>1. Follow(s, steps) = after[steps]
  BY DEF Follow, Repeat, Then
<1>2. \A o \in Y : G(o) \in SUBSET Y
  BY OfFollowing
<1>3. Len(q[n]) \in Nat
  BY DEF Layouts
<1>4. start \subseteq At(0) /\ start \subseteq Y
  <2>1. s \in State /\ ~ s.fault
    BY MidFacts DEF AtIth
  <2>2. ASSUME NEW o \in start PROVE o \in At(0) /\ o \in Y
    <3>1. o.ok /\ o.s = s /\ o \in OutcomeOf({0})
      BY <2>1, OfDone, OutcomeTypes
    <3>2. 1 \in 1 .. Len(q[n]) + 1 /\ 0 + 1 = 1
      BY <1>3
    <3>3. o \in Y
      BY <2>1, <3>1, <3>2 DEF Following
    <3>4. o \in At(0)
      BY <2>1, <3>1, <3>2
    <3>5. QED
      BY <3>3, <3>4
  <2>3. QED
    BY <2>2
<1>5. ASSUME NEW k \in Nat, k + 1 \in 1 .. Len(q[n]), NEW o \in At(k)
      PROVE  G(o) \subseteq At(k + 1)
  <2>1. ASSUME o.ok, NEW x \in FollowLink(o) PROVE x \in At(k + 1)
    <3>1. AtIth(o.s, h, n, q, Dirs, f, k + 1)
      BY <2>1 DEF Faulted
    <3> DEFINE i == k + 1
    <3>2. i \in 1 .. Len(q[n]) /\ AtIth(o.s, h, n, q, Dirs, f, i)
      BY <1>5, <3>1
    <3> HIDE DEF i
    <3>3. /\ x \in OutcomeOf({0})
          /\ x.s.fault => Faulted(x, Recoverable(Dirs))
          /\ ~ x.s.fault => x.ok /\ AtIth(x.s, h, n, q, Dirs, f, i + 1)
      BY <2>1, <3>2, OfFollowLink
    <3>4. QED
      BY <3>3 DEF i
  <2>2. ASSUME ~ o.ok PROVE o \in At(k + 1)
    BY <2>2
  <2>3. QED
    BY <2>1, <2>2
<1> HIDE DEF Y, G, start, At
<1>6. Round \in [Y -> SUBSET Y]
  BY <1>2
<1>7. PICK g : g \in Rounds(Y, start, Round)
  <2> HIDE DEF Round
  <2>1. QED
    BY <1>4, <1>6, RoundsExist
<1>8. g = [k \in Nat |-> IF k = 0 THEN start ELSE UNION {G(o) : o \in g[k - 1]}]
  <2> USE <1>7 DEF Rounds
  <2>1. ASSUME NEW k \in Nat
        PROVE  g[k] = IF k = 0 THEN start ELSE UNION {G(o) : o \in g[k - 1]}
    <3>1. CASE k = 0
      BY <1>7, <3>1
    <3>2. CASE k # 0
      <4>1. k - 1 \in Nat
        BY <3>2
      <4>2. g[k - 1] \in SUBSET Y
        BY <4>1
      <4>3. \A o \in g[k - 1] : Round[o] = G(o)
        BY <4>2
      <4>4. g[k] = UNION {Round[o] : o \in g[k - 1]}
        BY <3>2
      <4> HIDE DEF Round
      <4>5. QED
        BY <3>2, <4>3, <4>4
    <3>3. QED
      BY <3>1, <3>2
  <2>2. QED
    BY <2>1
<1>9. after = [k \in Nat |-> IF k = 0 THEN start ELSE UNION {G(o) : o \in after[k - 1]}]
  BY <1>8
<1> HIDE DEF after
<1> DEFINE S == {k \in Nat : k < Len(q[n]) => after[k] \subseteq At(k)}
<1>10. 0 \in S
  BY <1>4, <1>9
<1>11. ASSUME NEW k \in Nat, k \in S PROVE k + 1 \in S
  <2>1. k + 1 \in Nat /\ k + 1 # 0 /\ (k + 1) - 1 = k
    OBVIOUS
  <2>2. after[k + 1] = UNION {G(o) : o \in after[k]}
    BY <1>9, <2>1
  <2>3. ASSUME k + 1 < Len(q[n]) PROVE after[k + 1] \subseteq At(k + 1)
    <3>1. k + 1 \in 1 .. Len(q[n]) /\ after[k] \subseteq At(k)
      BY <1>3, <1>11, <2>3
    <3>2. \A o \in after[k] : G(o) \subseteq At(k + 1)
      BY <1>5, <3>1
    <3>3. QED
      BY <2>2, <3>2
  <2>4. QED
    BY <2>1, <2>3
<1>12. steps \in S
  <2> HIDE DEF S
  <2>1. QED
    BY <1>10, <1>11, Induction
<1>13. r \in At(steps)
  BY <1>1, <1>12
<1>14. QED
  BY <1>13 DEF At

Positioned(s, pos) == [s EXCEPT !.this.pos = pos]

LEMMA PositionedMid ==
  ASSUME NEW h \in [Names -> Handle], NEW n \in Names, NEW q \in Layouts, NEW Dirs,
         NEW s, Mid(s, h, n, q, Dirs), s.this.pos = 0, s.this.size # 0,
         s.this.cur = q[n][ClusterIx(s.this.size - 1)],
         NEW t, t = Positioned(s, s.this.size)
  PROVE  /\ Mid(t, h, n, q, Dirs) /\ CurOk(t.this, q[n])
         /\ t.this.size = s.this.size /\ ~ t.fault /\ t \in State
<1> DEFINE D == Cards(q, Dirs)
           g == Handles(h, n, t)
           f == Handles(h, n, s)
           u == [s.this EXCEPT !.pos = s.this.size]
<1>1. /\ s \in State /\ s.this \in Handle /\ s.this.size \in Nat
      /\ s.this.open /\ Files(View(s), f, q) /\ OpenOk(View(s), s.this, n, q[n])
      /\ Good(s, D) /\ f \in [Names -> Handle] /\ f[n] = s.this /\ ~ s.fault
  <2>1. /\ s \in State /\ s.this \in Handle /\ s.this.open
        /\ Files(View(s), f, q) /\ OpenOk(View(s), s.this, n, q[n])
        /\ Good(s, D) /\ f \in [Names -> Handle] /\ f[n] = s.this /\ ~ s.fault
    BY MidFacts
  <2>2. s.this.size \in Nat
    BY <2>1 DEF Handle
  <2>3. QED
    BY <2>1, <2>2
<1>2. /\ u \in Handle /\ u.pos = s.this.size /\ u.size = s.this.size /\ u.open
      /\ u.first = s.this.first /\ u.dirDirty = s.this.dirDirty /\ u.cur = s.this.cur
  BY <1>1 DEF Handle
<1>3. t = [s EXCEPT !.this = u]
  BY <1>1 DEF Positioned, State
<1> HIDE DEF u
<1>4. /\ t \in State /\ t.this = u /\ t.disk = s.disk /\ t.cacheBlock = s.cacheBlock
      /\ t.cacheData = s.cacheData /\ t.cacheDirty = s.cacheDirty
      /\ t.cacheMirror = s.cacheMirror /\ t.fault = s.fault
  BY <1>1, <1>2, <1>3 DEF State
<1>5. View(t) = View(s)
  BY <1>4 DEF View
<1>6. Good(t, D) /\ ~ t.fault
  BY <1>1, <1>4, <1>5 DEF Good, Coherent
<1>7. g \in [Names -> Handle] /\ g[n] = u /\ \A a \in Names \ {n} : g[a] = h[a]
  BY <1>4, HandlesTyped
<1>8. \A a \in Names \ {n} : f[a] = h[a]
  BY <1>1, HandlesTyped
<1> HIDE DEF D, f, g
<1>9. Files(View(t), g, q)
  <2> DEFINE v == View(s)
  <2>1. OpenOk(v, u, n, q[n])
    <3> HIDE DEF v
    <3>1. QED
      BY <1>1, <1>2 DEF OpenOk, v
  <2>2. FileOk(v, g[n], n, q[n])
    BY <1>2, <1>7, <2>1 DEF FileOk
  <2>3. \A m \in Names \ {n} : FileOk(v, g[m], m, q[m])
    BY <1>1, <1>7, <1>8 DEF Files
  <2>4. QED
    BY <1>1, <1>5, <2>2, <2>3 DEF Files
<1>10. DirtyOwned(t, g, q)
  <2>1. SUFFICES ASSUME t.cacheDirty, t.cacheBlock \in DataBlocks
                 PROVE  \E a \in Names : \E i \in 0 .. g[a].pos - 1 :
                          ClusterIx(i) <= Len(q[a]) /\ t.cacheBlock = PlaceOf(q[a], i)
    BY DEF DirtyOwned
  <2>2. DirtyOwned(s, f, q)
    BY DEF Mid, f
  <2>3. PICK a \in Names : \E i \in 0 .. f[a].pos - 1 :
          ClusterIx(i) <= Len(q[a]) /\ t.cacheBlock = PlaceOf(q[a], i)
    BY <1>4, <2>1, <2>2 DEF DirtyOwned
  <2>4. a # n
    BY <1>1, <2>3
  <2>5. g[a] = f[a]
    BY <1>7, <1>8, <2>4
  <2>6. QED
    BY <2>3, <2>5
<1>11. CurOk(t.this, q[n]) /\ \A m \in Names \ {n} : CurOk(h[m], q[m])
  BY <1>2, <1>4 DEF Mid, CurOk
<1>12. QED
  BY <1>2, <1>4, <1>6, <1>9, <1>10, <1>11 DEF Mid, D, g

LEMMA SeekSetSteps ==
  ASSUME NEW s, s.this.pos = 0, s.this.size \in Nat \ {0}, NEW o \in SeekSet(s, s.this.size)
  PROVE  \E r \in Follow(AtCluster(s, s.this.first), (s.this.size - 1) \div ClusterUnits) :
           /\ ~ r.ok => o = r
           /\ r.ok => o \in Done(Positioned(r.s, s.this.size))
<1> DEFINE k == (s.this.size - 1) \div ClusterUnits
<1>1. ~ (s.this.size > s.this.size) /\ s.this.size # 0
  OBVIOUS
<1>2. o \in Then(Follow(AtCluster(s, s.this.first), k), LAMBDA r :
                 Done(Positioned(r.s, s.this.size)))
  BY <1>1, Zenon DEF SeekSet, AtCluster, Positioned
<1>3. PICK r \in Follow(AtCluster(s, s.this.first), k) :
        o \in IF r.ok THEN Done(Positioned(r.s, s.this.size)) ELSE {r}
  BY <1>2, Zenon DEF Then
<1>4. QED
  BY <1>3

(* The file is positioned at its end.                                      *)
Sought(h, n, q, Dirs, size) ==
  {o \in OutcomeOf({0}) :
     /\ o.s.fault => Faulted(o, Recoverable(Dirs))
     /\ ~ o.s.fault => /\ o.ok /\ o.s.this.size = size
                       /\ Mid(o.s, h, n, q, Dirs) /\ CurOk(o.s.this, q[n])}

LEMMA OfSeekEnd ==
  ASSUME NEW h \in [Names -> Handle], NEW n \in Names, NEW q \in Layouts, NEW Dirs,
         NEW s, Mid(s, h, n, q, Dirs), s.this.pos = 0, s.this.cur = 0,
         NEW o \in SeekSet(s, s.this.size)
  PROVE  o \in Sought(h, n, q, Dirs, s.this.size)
<1> DEFINE size == s.this.size
           c == q[n]
<1>1. /\ s \in State /\ s.this \in Handle /\ size \in Nat /\ ~ s.fault
      /\ OpenOk(View(s), s.this, n, c) /\ c \in Seq(Clusters) /\ Len(c) \in Nat
  BY MidFacts DEF Handle
<1>2. CASE size = 0
  <2>1. [s EXCEPT !.this.cur = 0, !.this.pos = 0] = s
    <3>1. [s.this EXCEPT !.cur = 0, !.pos = 0] = s.this
      BY <1>1 DEF Handle
    <3>2. QED
      BY <1>1, <3>1 DEF State
  <2>2. o \in Done(s)
    BY <1>2, <2>1 DEF SeekSet
  <2>3. o.ok /\ o.s = s /\ o \in OutcomeOf({0})
    BY <1>1, <2>2, OfDone, OutcomeTypes
  <2>4. CurOk(s.this, c)
    BY DEF CurOk
  <2>5. QED
    BY <1>1, <2>3, <2>4 DEF Sought
<1>3. CASE size # 0
  <2> DEFINE k == (size - 1) \div ClusterUnits
             u == AtCluster(s, s.this.first)
             f == s.this
  <2>1. size - 1 \in Nat /\ size \in Nat \ {0} /\ size - 1 \in 0 .. size - 1
    BY <1>1, <1>3
  <2>2. /\ ClusterIx(size - 1) \in Nat \ {0} /\ ClusterIx(size - 1) <= Len(c)
        /\ k + 1 = ClusterIx(size - 1)
    <3>1. ClusterIx(size - 1) \in Nat \ {0}
      BY <2>1, Positions
    <3>2. k + 1 = ClusterIx(size - 1)
      BY <2>1, ClusterOfUnit
    <3>3. Holds(View(s), n, c, Len(c), size)
      BY <1>1 DEF OpenOk
    <3>4. ClusterIx(size - 1) <= Len(c)
      BY <2>1, <3>3 DEF Holds
    <3>5. QED
      BY <3>1, <3>2, <3>4
  <2>3. k \in Nat
    BY <2>1, ClusterOfUnit, Division
  <2>4. PICK r \in Follow(u, k) : /\ ~ r.ok => o = r
                                  /\ r.ok => o \in Done(Positioned(r.s, size))
    BY <2>1, SeekSetSteps
  <2> HIDE DEF k
  <2>5. k < Len(c) /\ Len(c) >= 1
    BY <1>1, <2>2, <2>3
  <2>6. f.first = c[1] /\ f.first \in 0 .. EOC
    BY <1>1, <2>5 DEF OpenOk, ChainOk, Handle
  <2>7. f.first = Ith(c, 1)
    BY <1>1, <2>5, <2>6 DEF Ith
  <2>8. u = AtCluster(s, f.first) /\ f \in Handle /\ s.this = f
    BY <1>1
  <2> HIDE DEF u, f, size, c
  <2>9. AtIth(u, h, n, q, Dirs, f, 1)
    <3>1. Mid(u, h, n, q, Dirs) /\ u.this = WithCur(f, f.first)
      BY <2>6, <2>8, WithCurMid
    <3>2. QED
      BY <2>7, <3>1 DEF AtIth, c
  <2>10. /\ r \in OutcomeOf({0})
         /\ r.s.fault => Faulted(r, Recoverable(Dirs))
         /\ ~ r.s.fault => r.ok /\ AtIth(r.s, h, n, q, Dirs, f, k + 1)
    BY <2>3, <2>4, <2>5, <2>8, <2>9, OfFollow DEF c
  <2>11. CASE r.s.fault
    <3>1. ~ r.ok
      BY <2>10, <2>11 DEF Faulted
    <3>2. o = r
      BY <2>4, <3>1
    <3>3. QED
      BY <2>10, <2>11, <3>2 DEF Sought, size
  <2>12. CASE ~ r.s.fault
    <3> DEFINE t == Positioned(r.s, size)
    <3>1. o \in Done(t) /\ t = Positioned(r.s, size)
      BY <2>4, <2>10, <2>12
    <3> HIDE DEF t
    <3>2. Mid(r.s, h, n, q, Dirs) /\ r.s.this = WithCur(f, Ith(c, k + 1))
      BY <2>10, <2>12 DEF AtIth, c
    <3>3. /\ r.s.this.pos = 0 /\ r.s.this.size = size
          /\ r.s.this.cur = c[ClusterIx(size - 1)]
      BY <1>1, <2>2, <2>8, <3>2 DEF WithCur, Handle, Ith, size
    <3>4. /\ Mid(t, h, n, q, Dirs) /\ CurOk(t.this, q[n])
          /\ t.this.size = size /\ ~ t.fault /\ t \in State
      <4>1. t = Positioned(r.s, r.s.this.size) /\ r.s.this.size # 0
              /\ r.s.this.cur = q[n][ClusterIx(r.s.this.size - 1)]
        BY <1>3, <3>1, <3>3 DEF c
      <4>2. /\ Mid(t, h, n, q, Dirs) /\ CurOk(t.this, q[n])
            /\ t.this.size = r.s.this.size /\ ~ t.fault /\ t \in State
        BY <3>2, <3>3, <4>1, PositionedMid
      <4>3. QED
        BY <3>3, <4>2
    <3>5. o.ok /\ o.s = t /\ o \in OutcomeOf({0})
      BY <3>1, <3>4, OfDone, OutcomeTypes
    <3>6. QED
      BY <3>4, <3>5 DEF Sought, size
  <2>13. QED
    BY <2>11, <2>12
<1>4. QED
  BY <1>2, <1>3

-----------------------------------------------------------------------------
(* open().  No call is running: the volume, with these handles.            *)
Quiet(s, h, q, Dirs) ==
  /\ Good(s, Cards(q, Dirs)) /\ Files(View(s), h, q)
  /\ \A m \in Names : CurOk(h[m], q[m])
  /\ DirtyOwned(s, h, q)

Opened(s, e) ==
  [s EXCEPT !.this = [Closed EXCEPT !.open = TRUE, !.first = e.first, !.size = e.size]]

LEMMA OpenedMid ==
  ASSUME NEW h \in [Names -> Handle], NEW n \in Names, NEW q \in Layouts, NEW d \in DirData,
         NEW s, Quiet(s, h, q, {d}), ~ h[n].open, d[n].used,
         NEW t, t = Opened(s, d[n])
  PROVE  /\ Mid(t, h, n, q, {d}) /\ t.this.pos = 0 /\ t.this.cur = 0
         /\ t.this.size = d[n].size
<1> DEFINE D == Cards(q, {d})
           g == Handles(h, n, t)
           u == [Closed EXCEPT !.open = TRUE, !.first = d[n].first, !.size = d[n].size]
<1>1. Good(s, D) /\ s \in State /\ View(s) \in D
  BY DEF Quiet, Good
<1>2. View(s) \in Views /\ View(s)[DirBlock] = d /\ Files(View(s), h, q)
  BY <1>1 DEF Cards, Quiet
<1>3. d[n] \in EntryType /\ d[n].first \in 0 .. EOC /\ d[n].size \in Nat
  BY DEF DirData, EntryType
<1>4. /\ u \in Handle /\ u.open /\ u.first = d[n].first /\ u.size = d[n].size
      /\ u.pos = 0 /\ u.cur = 0 /\ ~ u.dirDirty
  <2>1. 0 \in 0 .. EOC
    BY VolumeAssumption DEF EOC, LastCluster
  <2>2. QED
    BY <1>3, <2>1 DEF Closed, Handle
<1>5. t = [s EXCEPT !.this = u]
  BY DEF Opened
<1> HIDE DEF u
<1>6. /\ t \in State /\ t.this = u /\ t.disk = s.disk /\ t.cacheBlock = s.cacheBlock
      /\ t.cacheData = s.cacheData /\ t.cacheDirty = s.cacheDirty
      /\ t.cacheMirror = s.cacheMirror /\ t.fault = s.fault
  BY <1>1, <1>4, <1>5 DEF State
<1>7. View(t) = View(s)
  BY <1>6 DEF View
<1>8. Good(t, D)
  BY <1>1, <1>6, <1>7 DEF Good, Coherent
<1>9. g \in [Names -> Handle] /\ g[n] = u /\ \A a \in Names \ {n} : g[a] = h[a]
  BY <1>6, HandlesTyped
<1> HIDE DEF D, g
<1>10. h[n] = Closed
  BY <1>2 DEF Files, FileOk, ClosedOk
<1>11. Files(View(t), g, q)
  <2> DEFINE v == View(s)
  <2>1. ClosedOk(v, h[n], n, q[n]) /\ v[DirBlock] = d
    BY <1>2 DEF Files, FileOk
  <2> HIDE DEF v
  <2>2. OpenOk(v, u, n, q[n])
    <3>1. ChainOk(v, u.first, q[n], Len(q[n])) /\ Holds(v, n, q[n], Len(q[n]), u.size)
      BY <1>4, <2>1 DEF ClosedOk
    <3>2. Holds(v, n, q[n], Len(q[n]), u.pos)
      BY <1>4 DEF Holds
    <3>3. d[n].size <= u.size
      BY <1>3, <1>4
    <3>4. QED
      BY <1>4, <2>1, <3>1, <3>2, <3>3 DEF OpenOk
  <2>3. FileOk(v, g[n], n, q[n])
    BY <1>4, <1>9, <2>2 DEF FileOk
  <2>4. \A m \in Names \ {n} : FileOk(v, g[m], m, q[m])
    BY <1>2, <1>9 DEF Files, v
  <2>5. QED
    BY <1>2, <1>7, <2>3, <2>4 DEF Files, v
<1>12. DirtyOwned(t, g, q)
  <2>1. DirtyOwned(s, h, q)
    BY DEF Quiet
  <2>2. \A m \in Names : g[m].pos = h[m].pos
    BY <1>4, <1>9, <1>10 DEF Closed
  <2>3. QED
    BY <1>6, <2>1, <2>2 DEF DirtyOwned
<1>13. \A m \in Names \ {n} : CurOk(h[m], q[m])
  BY DEF Quiet
<1>14. QED
  BY <1>4, <1>6, <1>8, <1>11, <1>12, <1>13 DEF Mid, D, g

(* The entry of the file, a new one if there is none.                      *)
Created(s, n) == [s EXCEPT !.cacheDirty = TRUE,
                           !.cacheData[n] = [used |-> TRUE, first |-> 0, size |-> 0]]
EntryIn(s, n) == IF s.cacheData[n].used THEN Done(s) ELSE CacheFlush(Created(s, n))
NewDir(d, n) == IF d[n].used THEN d ELSE Saved(d, n, Closed)

LEMMA SavedClosed ==
  ASSUME NEW d \in DirData, NEW n \in Names, NEW e, e = Saved(d, n, Closed)
  PROVE  /\ e \in DirData /\ e[n].used /\ e[n].first = 0 /\ e[n].size = 0
         /\ \A m \in Names \ {n} : e[m] = d[m]
<1> DEFINE x == [used |-> TRUE, first |-> 0, size |-> 0]
<1>1. x \in EntryType /\ x.used /\ x.first = 0 /\ x.size = 0
  BY VolumeAssumption DEF EntryType, EOC, LastCluster
<1>2. e = [d EXCEPT ![n] = x]
  BY DEF Saved, Closed
<1> HIDE DEF x
<1>3. e \in DirData /\ e[n] = x /\ \A m \in Names \ {n} : e[m] = d[m]
  BY <1>1, <1>2 DEF DirData
<1>4. QED
  BY <1>1, <1>3

LEMMA NewDirTyped ==
  ASSUME NEW d \in DirData, NEW n \in Names
  PROVE  /\ NewDir(d, n) \in DirData /\ NewDir(d, n)[n].used
         /\ \A m \in Names \ {n} : NewDir(d, n)[m] = d[m]
<1>1. CASE d[n].used
  BY <1>1 DEF NewDir
<1>2. CASE ~ d[n].used
  <2> DEFINE e == Saved(d, n, Closed)
  <2>1. e = Saved(d, n, Closed) /\ NewDir(d, n) = e
    BY <1>2 DEF NewDir
  <2> HIDE DEF e
  <2>2. e \in DirData /\ e[n].used /\ \A m \in Names \ {n} : e[m] = d[m]
    BY <2>1, SavedClosed
  <2>3. QED
    BY <2>1, <2>2
<1>3. QED
  BY <1>1, <1>2

LEMMA CreatedTyped ==
  ASSUME NEW s \in State, NEW n \in Names, NEW d \in DirData, s.cacheData = d,
         NEW e, e = Saved(d, n, Closed), NEW t, t = Created(s, n)
  PROVE  /\ t \in State /\ t.this = s.this /\ t.cacheData = e
         /\ t.disk = s.disk /\ t.cacheBlock = s.cacheBlock
         /\ t.cacheDirty /\ t.cacheMirror = s.cacheMirror /\ t.fault = s.fault
<1>1. Closed \in Handle
  BY VolumeAssumption DEF Closed, Handle, EOC, LastCluster
<1>2. e \in Data
  BY <1>1, SavedTyped DEF Data
<1>3. e = [d EXCEPT ![n] = [used |-> TRUE, first |-> 0, size |-> 0]]
  BY DEF Saved, Closed
<1>4. t = [s EXCEPT !.cacheDirty = TRUE, !.cacheData = e]
  BY <1>3 DEF Created, State
<1>5. t \in State
  BY <1>2, <1>4 DEF State
<1>6. QED
  BY <1>4, <1>5 DEF State

LEMMA CreatedFiles ==
  ASSUME NEW v \in Views, NEW h \in [Names -> Handle], NEW q \in Layouts, Files(v, h, q),
         NEW n \in Names, ~ h[n].open, ~ v[DirBlock][n].used,
         NEW e, e = Saved(v[DirBlock], n, Closed), NEW w, w = Put(v, DirBlock, e)
  PROVE  w \in Views /\ w[DirBlock] = e /\ Files(w, h, q)
<1> DEFINE d == v[DirBlock]
<1>1. d \in DirData /\ Closed \in Handle /\ q[n] \in Seq(Clusters)
  BY VolumeAssumption DEF Views, Layouts, Closed, Handle, EOC, LastCluster
<1>2. d = v[DirBlock] /\ e = Saved(d, n, Closed)
  OBVIOUS
<1> HIDE DEF d
<1>3. /\ e \in DirData /\ e[n].used /\ e[n].first = 0 /\ e[n].size = 0
      /\ \A m \in Names \ {n} : e[m] = d[m]
  BY <1>1, <1>2, SavedClosed
<1>4. w \in Views /\ w[DirBlock] = e /\ (Linked(v) => Linked(w))
  BY <1>3, PutDir
<1>5. ASSUME NEW m \in Names \ {n} PROVE FileOk(w, h[m], m, q[m])
  <2>1. FileOk(v, h[m], m, q[m]) /\ h[m] \in Handle /\ q[m] \in Seq(Clusters)
          /\ e[m] = v[DirBlock][m]
    BY <1>2, <1>3 DEF Files, Layouts
  <2>2. QED
    BY <1>3, <2>1, PutDirFile
<1>6. FileOk(w, h[n], n, q[n])
  <2>1. ClosedOk(v, h[n], n, q[n])
    BY DEF Files, FileOk
  <2>2. ChainOk(v, 0, q[n], Len(q[n])) /\ h[n] = Closed
    BY <2>1 DEF ClosedOk
  <2>3. ChainOk(w, 0, q[n], Len(q[n]))
    <3>1. Len(q[n]) \in 0 .. Len(q[n])
      BY <1>1
    <3>2. QED
      BY <1>1, <1>3, <2>2, <3>1, PutDir
  <2>4. Holds(w, n, q[n], Len(q[n]), 0)
    BY DEF Holds
  <2>5. ClosedOk(w, h[n], n, q[n])
    BY <1>3, <1>4, <2>2, <2>3, <2>4 DEF ClosedOk
  <2>6. QED
    BY <2>5 DEF FileOk
<1>7. QED
  BY <1>4, <1>5, <1>6 DEF Files

FoundEntry(p, h, q, d, e) ==
  /\ p.ok => Quiet(p.s, h, q, {e}) /\ p.s.cacheData = e
  /\ ~ p.ok => Faulted(p, Cards(q, {d, e}))

LEMMA OfEntryIn ==
  ASSUME NEW h \in [Names -> Handle], NEW n \in Names, NEW q \in Layouts, NEW d \in DirData,
         NEW s, Quiet(s, h, q, {d}), ~ h[n].open,
         s.cacheBlock = DirBlock, s.cacheData = d, NEW e, e = NewDir(d, n),
         NEW p \in EntryIn(s, n)
  PROVE  FoundEntry(p, h, q, d, e)
<1>0. SUFFICES /\ p.ok => Quiet(p.s, h, q, {e}) /\ p.s.cacheData = e
               /\ ~ p.ok => Faulted(p, Cards(q, {d, e}))
  BY DEF FoundEntry
<1>1. /\ Good(s, Cards(q, {d})) /\ s \in State /\ View(s) \in Cards(q, {d}) /\ ~ s.fault
      /\ OnCard(s.disk) \in Cards(q, {d})
  BY DEF Quiet, Good
<1>2. View(s) \in Views /\ View(s)[DirBlock] = d /\ Files(View(s), h, q)
  BY <1>1 DEF Cards, Quiet
<1>3. CASE d[n].used
  <2>1. p \in Done(s) /\ e = d
    BY <1>3 DEF EntryIn, NewDir
  <2>2. p.ok /\ p.s = s
    BY <2>1, OfDone
  <2>3. QED
    BY <2>1, <2>2
<1>4. CASE ~ d[n].used
  <2> DEFINE t == Created(s, n)
             D == Cards(q, {d, e})
  <2>1. p \in CacheFlush(t) /\ e = Saved(d, n, Closed) /\ t = Created(s, n)
    BY <1>4 DEF EntryIn, NewDir
  <2> HIDE DEF t
  <2>2. /\ t \in State /\ t.this = s.this /\ t.cacheData = e
        /\ t.disk = s.disk /\ t.cacheBlock = DirBlock
        /\ t.cacheDirty /\ t.cacheMirror = s.cacheMirror /\ ~ t.fault
    BY <1>1, <2>1, CreatedTyped
  <2>3. View(t) = Put(View(s), DirBlock, e)
    BY <2>2, BlockKinds DEF View, Put
  <2>4. View(t) \in Views /\ View(t)[DirBlock] = e /\ Files(View(t), h, q)
    <3>1. ~ View(s)[DirBlock][n].used /\ e = Saved(View(s)[DirBlock], n, Closed)
      BY <1>2, <1>4, <2>1
    <3>2. QED
      BY <1>2, <2>3, <3>1, CreatedFiles
  <2>5. View(t) \in Cards(q, {e})
    BY <2>4, FilesSound DEF Cards
  <2>6. Coherent(t)
    BY <2>2, BlockKinds DEF Coherent
  <2>7. Good(t, D) /\ D \in SUBSET Views
    <3>1. View(t) \in D /\ OnCard(t.disk) \in D
      BY <1>1, <2>2, <2>5 DEF Cards
    <3>2. D \in SUBSET Views
      BY CardsRecoverable
    <3> HIDE DEF D
    <3>3. QED
      BY <2>2, <2>6, <3>1, <3>2 DEF Good
  <2>8. /\ p.ok => /\ Good(p.s, D) /\ View(p.s) = View(t) /\ OnCard(p.s.disk) = View(t)
                   /\ ~ p.s.cacheDirty /\ p.s.cacheData = t.cacheData
        /\ ~ p.ok => Faulted(p, D)
    <3> HIDE DEF D
    <3>1. QED
      BY <2>1, <2>7, OfCacheFlush
  <2>9. CASE p.ok
    <3>1. Good(p.s, Cards(q, {e}))
      BY <2>5, <2>8, <2>9 DEF Good
    <3>2. DirtyOwned(p.s, h, q)
      BY <2>8, <2>9 DEF DirtyOwned
    <3>3. \A m \in Names : CurOk(h[m], q[m])
      BY DEF Quiet
    <3>4. QED
      BY <2>2, <2>4, <2>8, <2>9, <3>1, <3>2, <3>3 DEF Quiet
  <2>10. QED
    BY <2>8, <2>9
<1>5. QED
  BY <1>3, <1>4

(* A step that only moves blocks between the cache and the card.           *)
LEMMA KeptQuiet ==
  ASSUME NEW h, NEW q, NEW Dirs, NEW s, Quiet(s, h, q, Dirs),
         NEW t, Good(t, Cards(q, Dirs)), Kept(s, t)
  PROVE  Quiet(t, h, q, Dirs)
<1>1. View(t) = View(s) /\ (t.cacheDirty => s.cacheDirty /\ t.cacheBlock = s.cacheBlock)
  BY DEF Kept
<1>2. DirtyOwned(t, h, q)
  BY <1>1 DEF Quiet, DirtyOwned
<1>3. QED
  BY <1>1, <1>2 DEF Quiet

LEMMA FileOpenSteps ==
  ASSUME NEW s, NEW n, NEW o \in FileOpen(s, n)
  PROVE  \E c \in CacheForReading(s, DirBlock) :
           /\ ~ c.ok => o = c
           /\ c.ok => \E p \in EntryIn(c.s, n) :
                /\ ~ p.ok => o = p
                /\ p.ok => \E r \in SeekSet(Opened(p.s, p.s.cacheData[n]),
                                            p.s.cacheData[n].size) :
                             o = [r EXCEPT !.ok = TRUE]
<1> DEFINE SeekEnd(p) == {[r EXCEPT !.ok = TRUE] :
                           r \in SeekSet(Opened(p.s, p.s.cacheData[n]), p.s.cacheData[n].size)}
           Rest(c) == Then(EntryIn(c.s, n), SeekEnd)
<1>1. o \in Then(CacheForReading(s, DirBlock), Rest)
  BY Zenon DEF FileOpen, EntryIn, Created, Opened, CacheForReading
<1>2. PICK c \in CacheForReading(s, DirBlock) : o \in IF c.ok THEN Rest(c) ELSE {c}
  BY <1>1, Zenon DEF Then
<1>3. CASE ~ c.ok
  BY <1>2, <1>3
<1>4. CASE c.ok
  <2>1. PICK p \in EntryIn(c.s, n) : o \in IF p.ok THEN SeekEnd(p) ELSE {p}
    BY <1>2, <1>4, Zenon DEF Then
  <2>2. CASE ~ p.ok
    BY <1>4, <2>1, <2>2
  <2>3. CASE p.ok
    <3>1. o \in SeekEnd(p)
      BY <2>1, <2>3
    <3>2. QED
      BY <1>4, <2>3, <3>1
  <2>4. QED
    BY <2>2, <2>3
<1>5. QED
  BY <1>3, <1>4

(* A failed open or one that found a card that failed: a power failure     *)
(* leaves a card with the directory as it was or with the new entry.       *)
LEMMA OfFileOpen ==
  ASSUME NEW h \in [Names -> Handle], NEW n \in Names, NEW q \in Layouts, NEW d \in DirData,
         NEW s, Quiet(s, h, q, {d}), ~ h[n].open, NEW e, e = NewDir(d, n),
         NEW o \in FileOpen(s, n)
  PROVE  /\ o \in OutcomeOf({0})
         /\ o.s.fault => o.s \in State /\ OnCard(o.s.disk) \in Recoverable({d, e})
         /\ ~ o.s.fault => /\ o.ok /\ Mid(o.s, h, n, q, {e}) /\ CurOk(o.s.this, q[n])
                           /\ o.s.this.size = e[n].size
<1>1. PICK c \in CacheForReading(s, DirBlock) :
           /\ ~ c.ok => o = c
           /\ c.ok => \E p \in EntryIn(c.s, n) :
                /\ ~ p.ok => o = p
                /\ p.ok => \E r \in SeekSet(Opened(p.s, p.s.cacheData[n]),
                                            p.s.cacheData[n].size) :
                             o = [r EXCEPT !.ok = TRUE]
  BY FileOpenSteps
<1>2. Good(s, Cards(q, {d})) /\ View(s)[DirBlock] = d /\ DirBlock \in Primary
  BY BlockKinds DEF Quiet, Good, Cards
<1>3. Cards(q, {d}) \in SUBSET Views
  BY CardsRecoverable
<1>4. /\ c.ok => /\ Good(c.s, Cards(q, {d})) /\ Same(s, c.s) /\ View(c.s) = View(s)
                 /\ c.s.cacheBlock = DirBlock /\ c.s.cacheData = View(s)[DirBlock]
                 /\ c.s.cacheDirty => s.cacheDirty /\ s.cacheBlock = DirBlock
      /\ ~ c.ok => Faulted(c, Cards(q, {d}))
  BY <1>2, <1>3, OfCacheForReading
<1>5. CASE ~ c.ok
  <2>1. Faulted(c, Recoverable({d}))
    BY <1>4, <1>5, CardsRecoverable
  <2>2. QED
    BY <1>1, <1>5, <2>1 DEF Faulted, OutcomeOf, Recoverable
<1>6. CASE c.ok
  <2>1. Kept(s, c.s)
    BY <1>4, <1>6 DEF Kept
  <2>2. Quiet(c.s, h, q, {d})
    BY <1>4, <1>6, <2>1, KeptQuiet
  <2>3. PICK p \in EntryIn(c.s, n) :
                /\ ~ p.ok => o = p
                /\ p.ok => \E r \in SeekSet(Opened(p.s, p.s.cacheData[n]),
                                            p.s.cacheData[n].size) :
                             o = [r EXCEPT !.ok = TRUE]
    BY <1>1, <1>6
  <2>4. /\ p.ok => Quiet(p.s, h, q, {e}) /\ p.s.cacheData = e
        /\ ~ p.ok => Faulted(p, Cards(q, {d, e}))
    <3> DEFINE u == c.s
    <3>1. u.cacheBlock = DirBlock /\ u.cacheData = d /\ Quiet(u, h, q, {d})
      BY <1>2, <1>4, <1>6, <2>2
    <3>2. p \in EntryIn(u, n)
      OBVIOUS
    <3> HIDE DEF u
    <3>3. FoundEntry(p, h, q, d, e)
      BY <3>1, <3>2, OfEntryIn
    <3>4. QED
      BY <3>3 DEF FoundEntry
  <2>5. CASE ~ p.ok
    <3>1. Faulted(p, Recoverable({d, e}))
      BY <2>4, <2>5, CardsRecoverable
    <3>2. QED
      BY <2>3, <2>5, <3>1 DEF Faulted, OutcomeOf
  <2>6. CASE p.ok
    <3> DEFINE t == Opened(p.s, e[n])
    <3>1. PICK r \in SeekSet(t, e[n].size) : o = [r EXCEPT !.ok = TRUE]
      BY <2>3, <2>4, <2>6
    <3>2. t = Opened(p.s, e[n])
      OBVIOUS
    <3> HIDE DEF t
    <3>3. e \in DirData /\ e[n].used
      BY NewDirTyped
    <3>4. Mid(t, h, n, q, {e}) /\ t.this.pos = 0 /\ t.this.cur = 0 /\ t.this.size = e[n].size
      BY <2>4, <2>6, <3>2, <3>3, OpenedMid
    <3>5. r \in Sought(h, n, q, {e}, e[n].size)
      <4>1. r \in SeekSet(t, t.this.size)
        BY <3>1, <3>4
      <4> DEFINE Dirs == {e}
      <4>2. Mid(t, h, n, q, Dirs)
        BY <3>4
      <4> HIDE DEF Dirs
      <4>3. r \in Sought(h, n, q, Dirs, t.this.size)
        BY <3>4, <4>1, <4>2, OfSeekEnd
      <4>4. QED
        BY <3>4, <4>3 DEF Dirs
    <3>6. o.s = r.s /\ o.ok /\ o \in OutcomeOf({0})
      BY <3>1, <3>5 DEF Sought, OutcomeOf
    <3>7. r.s.fault => r.s \in State /\ OnCard(r.s.disk) \in Recoverable({d, e})
      BY <3>5 DEF Sought, Faulted, OutcomeOf, Recoverable
    <3>8. ~ r.s.fault => /\ Mid(r.s, h, n, q, {e}) /\ CurOk(r.s.this, q[n])
                         /\ r.s.this.size = e[n].size
      BY <3>5 DEF Sought
    <3>9. QED
      BY <3>6, <3>7, <3>8
  <2>7. QED
    BY <2>5, <2>6
<1>7. QED
  BY <1>5, <1>6

-----------------------------------------------------------------------------
(* Calls start and end, and a restart after a power failure.               *)
Started(s, f) == [s EXCEPT !.this = f]
Ended(s) == [s EXCEPT !.this = Closed, !.fault = FALSE]

LEMMA ClosedTyped == Closed \in Handle
BY VolumeAssumption DEF Closed, Handle, EOC, LastCluster

LEMMA OtherThis ==
  ASSUME NEW s \in State, NEW D, Good(s, D), NEW f \in Handle, NEW t,
         t = Started(s, f) \/ (t = Ended(s) /\ f = Closed)
  PROVE  /\ Good(t, D) /\ t.this = f /\ View(t) = View(s) /\ t \in State
         /\ t.disk = s.disk /\ t.cacheBlock = s.cacheBlock
         /\ t.cacheData = s.cacheData /\ t.cacheDirty = s.cacheDirty
<1>1. ~ s.fault
  BY DEF Good
<1>2. /\ t \in State /\ t.this = f /\ t.disk = s.disk /\ t.cacheBlock = s.cacheBlock
      /\ t.cacheData = s.cacheData /\ t.cacheDirty = s.cacheDirty
      /\ t.cacheMirror = s.cacheMirror /\ ~ t.fault
  <2>1. CASE t = Started(s, f)
    BY <1>1, <2>1 DEF Started, State
  <2>2. CASE t = Ended(s) /\ f = Closed
    BY <1>1, <2>2 DEF Ended, State
  <2>3. QED
    BY <2>1, <2>2
<1>3. View(t) = View(s)
  BY <1>2 DEF View
<1>4. Good(t, D)
  BY <1>2, <1>3 DEF Good, Coherent
<1>5. QED
  BY <1>2, <1>3, <1>4

LEMMA QuietMid ==
  ASSUME NEW h \in [Names -> Handle], NEW n \in Names, NEW q \in Layouts, NEW Dirs,
         NEW s, Quiet(s, h, q, Dirs), h[n].open, NEW t, t = Started(s, h[n])
  PROVE  Mid(t, h, n, q, Dirs) /\ CurOk(t.this, q[n]) /\ t.this = h[n]
<1>1. s \in State /\ Good(s, Cards(q, Dirs))
  BY DEF Quiet, Good
<1>2. /\ Good(t, Cards(q, Dirs)) /\ t.this = h[n] /\ View(t) = View(s) /\ t \in State
      /\ t.cacheBlock = s.cacheBlock /\ t.cacheDirty = s.cacheDirty
  <2> DEFINE f == h[n]
             D == Cards(q, Dirs)
  <2>1. f \in Handle /\ t = Started(s, f) /\ Good(s, D)
    BY <1>1
  <2> HIDE DEF f, D
  <2>2. /\ Good(t, D) /\ t.this = f /\ View(t) = View(s) /\ t \in State
        /\ t.cacheBlock = s.cacheBlock /\ t.cacheDirty = s.cacheDirty
    BY <1>1, <2>1, OtherThis
  <2>3. QED
    BY <2>2 DEF f, D
<1>3. Handles(h, n, t) = h
  BY <1>2 DEF Handles
<1>4. DirtyOwned(t, h, q)
  BY <1>2 DEF Quiet, DirtyOwned
<1>5. QED
  BY <1>2, <1>3, <1>4 DEF Quiet, Mid

LEMMA MidQuiet ==
  ASSUME NEW h \in [Names -> Handle], NEW n \in Names, NEW q \in Layouts, NEW Dirs,
         NEW s, Mid(s, h, n, q, Dirs), CurOk(s.this, q[n]), NEW t, t = Ended(s)
  PROVE  Quiet(t, Handles(h, n, s), q, Dirs) /\ View(t) = View(s)
<1> DEFINE g == Handles(h, n, s)
<1>1. s \in State /\ Good(s, Cards(q, Dirs)) /\ Files(View(s), g, q)
  BY MidFacts
<1>2. /\ Good(t, Cards(q, Dirs)) /\ View(t) = View(s)
      /\ t.cacheBlock = s.cacheBlock /\ t.cacheDirty = s.cacheDirty
  BY <1>1, ClosedTyped, OtherThis
<1>3. g[n] = s.this /\ \A m \in Names \ {n} : g[m] = h[m]
  BY <1>1, HandlesTyped
<1> HIDE DEF g
<1>4. \A m \in Names : CurOk(g[m], q[m])
  BY <1>3 DEF Mid
<1>5. DirtyOwned(t, g, q)
  BY <1>2 DEF Mid, DirtyOwned, g
<1>6. QED
  BY <1>1, <1>2, <1>4, <1>5 DEF Quiet, g

LEMMA CloseQuiet ==
  ASSUME NEW h \in [Names -> Handle], NEW n \in Names, NEW q \in Layouts, NEW Dirs,
         NEW s, Mid(s, h, n, q, Dirs), ~ s.this.dirDirty, ~ s.cacheDirty,
         NEW t, t = Ended(s), NEW g, g = [h EXCEPT ![n] = Closed]
  PROVE  Quiet(t, g, q, Dirs) /\ View(t) = View(s)
<1> DEFINE k == Handles(h, n, s)
           v == View(s)
<1>1. /\ s \in State /\ Good(s, Cards(q, Dirs)) /\ Files(v, k, q)
      /\ OpenOk(v, s.this, n, q[n])
  BY MidFacts
<1>2. /\ Good(t, Cards(q, Dirs)) /\ View(t) = v
      /\ t.cacheBlock = s.cacheBlock /\ ~ t.cacheDirty
  BY <1>1, ClosedTyped, OtherThis
<1>3. \A m \in Names \ {n} : k[m] = h[m] /\ g[m] = h[m]
  BY <1>1, HandlesTyped
<1> HIDE DEF k, v
<1>4. g[n] = Closed /\ ~ Closed.open
  BY DEF Closed
<1>5. Files(v, g, q)
  <2>1. ClosedOk(v, g[n], n, q[n])
    <3>1. v[DirBlock][n].first = s.this.first /\ v[DirBlock][n].size = s.this.size
            /\ v[DirBlock][n].used
      BY <1>1 DEF OpenOk
    <3>2. ChainOk(v, s.this.first, q[n], Len(q[n]))
            /\ Holds(v, n, q[n], Len(q[n]), s.this.size)
      BY <1>1 DEF OpenOk
    <3>3. QED
      BY <1>4, <3>1, <3>2 DEF ClosedOk
  <2>2. FileOk(v, g[n], n, q[n])
    BY <1>4, <2>1 DEF FileOk
  <2>3. \A m \in Names \ {n} : FileOk(v, g[m], m, q[m])
    BY <1>1, <1>3 DEF Files
  <2>4. QED
    BY <1>1, <2>2, <2>3 DEF Files
<1>6. \A m \in Names : CurOk(g[m], q[m])
  <2>1. CurOk(Closed, q[n])
    BY DEF CurOk, Closed
  <2>2. QED
    BY <1>3, <1>4, <2>1 DEF Mid
<1>7. DirtyOwned(t, g, q)
  BY <1>2 DEF DirtyOwned
<1>8. QED
  BY <1>2, <1>5, <1>6, <1>7 DEF Quiet, v

(* What a restart finds.  Every file has the clusters that its entry leads *)
(* to.                                                                     *)
AllClosed == [n \in Names |-> Closed]

LEMMA SoundFiles ==
  ASSUME NEW v \in Views, NEW q \in Layouts, Sound(v, q)
  PROVE  \E r \in Layouts : Files(v, AllClosed, r)
<1> DEFINE Has(n, k) ==
             /\ ChainOk(v, v[DirBlock][n].first, q[n], k)
             /\ Holds(v, n, q[n], k, v[DirBlock][n].size)
             /\ ~ v[DirBlock][n].used => v[DirBlock][n].first = 0 /\ v[DirBlock][n].size = 0
           k == [n \in Names |-> CHOOSE i \in 0 .. Len(q[n]) : Has(n, i)]
           r == [n \in Names |-> [i \in 1 .. k[n] |-> q[n][i]]]
<1>1. ASSUME NEW n \in Names PROVE k[n] \in 0 .. Len(q[n]) /\ Has(n, k[n])
  <2>1. \E i \in 0 .. Len(q[n]) : Has(n, i)
    BY DEF Sound, CardOk
  <2> HIDE DEF Has
  <2>2. QED
    BY <2>1
<1> HIDE DEF k
<1>2. ASSUME NEW n \in Names
      PROVE  /\ r[n] \in Seq(Clusters) /\ Len(r[n]) = k[n] /\ k[n] \in Nat
             /\ q[n] \in Seq(Clusters) /\ k[n] <= Len(q[n])
             /\ \A i \in 1 .. k[n] : r[n][i] = q[n][i]
  <2>1. q[n] \in Seq(Clusters) /\ Len(q[n]) \in Nat
    BY DEF Layouts
  <2>2. k[n] \in Nat /\ k[n] <= Len(q[n])
    BY <1>1, <2>1
  <2>3. \A i \in 1 .. k[n] : q[n][i] \in Clusters
    BY <2>1, <2>2
  <2>4. r[n] = [i \in 1 .. k[n] |-> q[n][i]]
    OBVIOUS
  <2> HIDE DEF r
  <2>5. QED
    BY <2>1, <2>2, <2>3, <2>4
<1>3. r \in Layouts
  <2>1. r = [n \in Names |-> r[n]]
    OBVIOUS
  <2> HIDE DEF r
  <2>2. QED
    BY <1>2, <2>1 DEF Layouts
<1> HIDE DEF r, Has
<1>4. Distinct(r)
  <2>1. SUFFICES ASSUME NEW m \in Names, NEW n \in Names,
                        NEW i \in 1 .. Len(r[m]), NEW j \in 1 .. Len(r[n]),
                        r[m][i] = r[n][j]
                 PROVE  m = n /\ i = j
    BY DEF Distinct
  <2>2. i \in 1 .. Len(q[m]) /\ j \in 1 .. Len(q[n]) /\ q[m][i] = q[n][j]
    <3>1. i \in 1 .. Len(q[m]) /\ r[m][i] = q[m][i]
      BY <1>2
    <3>2. j \in 1 .. Len(q[n]) /\ r[n][j] = q[n][j]
      BY <1>2
    <3>3. QED
      BY <2>1, <3>1, <3>2
  <2>3. QED
    BY <2>2 DEF Sound, Distinct
<1>5. ASSUME NEW n \in Names PROVE FileOk(v, AllClosed[n], n, r[n])
  <2> DEFINE e == v[DirBlock][n]
             c == q[n]
             x == r[n]
             l == k[n]
  <2>1. /\ ChainOk(v, e.first, c, l) /\ Holds(v, n, c, l, e.size)
        /\ ~ e.used => e.first = 0 /\ e.size = 0
    BY <1>1 DEF Has
  <2>2. /\ x \in Seq(Clusters) /\ Len(x) = l /\ l \in Nat
        /\ \A i \in 1 .. l : x[i] = c[i]
    BY <1>2
  <2> DEFINE first == e.first
             size == e.size
  <2>3. size \in Nat
    BY DEF Views, DirData, EntryType
  <2> HIDE DEF first, size, c, x, l
  <2>4. ChainOk(v, first, x, Len(x))
    <3>1. ChainOk(v, first, c, l)
      BY <2>1 DEF first
    <3>2. first = IF l = 0 THEN 0 ELSE x[1]
      BY <2>2, <3>1 DEF ChainOk
    <3>3. ASSUME NEW i \in 1 .. l
          PROVE  FatIn(v, x[i]) = IF i < l THEN x[i + 1] ELSE EOC
      <4>1. FatIn(v, c[i]) = IF i < l THEN c[i + 1] ELSE EOC
        BY <3>1 DEF ChainOk
      <4>2. x[i] = c[i] /\ (i < l => x[i + 1] = c[i + 1])
        BY <2>2
      <4>3. QED
        BY <4>1, <4>2
    <3>4. QED
      BY <2>2, <3>2, <3>3 DEF ChainOk
  <2>5. Holds(v, n, x, Len(x), size)
    <3>1. ASSUME NEW i \in 0 .. size - 1
          PROVE  ClusterIx(i) <= l /\ v[PlaceOf(x, i)][i % UnitsPerBlock] = <<n, i>>
      <4>1. ClusterIx(i) <= l /\ v[PlaceOf(c, i)][i % UnitsPerBlock] = <<n, i>>
        BY <2>1 DEF Holds, size
      <4>2. i \in Nat
        BY <2>3
      <4>3. ClusterIx(i) \in 1 .. l
        BY <2>2, <4>1, <4>2, Positions
      <4>4. PlaceOf(x, i) = PlaceOf(c, i)
        BY <2>2, <4>3 DEF PlaceOf
      <4>5. QED
        BY <4>1, <4>4
    <3>2. QED
      BY <2>2, <3>1 DEF Holds
  <2>6. ClosedOk(v, Closed, n, x)
    BY <2>1, <2>4, <2>5 DEF ClosedOk, first, size
  <2>7. AllClosed[n] = Closed /\ ~ Closed.open
    BY DEF AllClosed, Closed
  <2>8. QED
    BY <2>6, <2>7 DEF FileOk, x
<1>6. QED
  BY <1>3, <1>4, <1>5 DEF Files, Sound

LEMMA Remount ==
  ASSUME NEW disk \in [Blocks -> Data], NEW Dirs, OnCard(disk) \in Recoverable(Dirs),
         NEW t, t = Mounted(disk)
  PROVE  /\ AllClosed \in [Names -> Handle]
         /\ \E q \in Layouts : \E d \in Dirs \cap DirData : Quiet(t, AllClosed, q, {d})
<1>1. /\ t \in State /\ t.cacheBlock = NoBlock /\ ~ t.cacheDirty /\ t.cacheMirror = NoBlock
      /\ t.disk = disk /\ ~ t.fault
  BY ClosedTyped, FileAssumption, VolumeAssumption DEF Mounted, State, EOC, LastCluster
<1>2. View(t) = OnCard(disk)
  BY <1>1, BlockKinds DEF View, OnCard
<1> DEFINE v == OnCard(disk)
           d == v[DirBlock]
<1>3. PICK q \in Layouts : Sound(v, q)
  BY DEF Recoverable
<1>4. v \in Views /\ d \in Dirs /\ d \in DirData
  BY DEF Recoverable, Views
<1>5. PICK r \in Layouts : Files(v, AllClosed, r)
  BY <1>3, <1>4, SoundFiles
<1>6. AllClosed \in [Names -> Handle]
  BY ClosedTyped DEF AllClosed
<1>7. v \in Cards(r, {d})
  <2>1. Sound(v, r)
    BY <1>4, <1>5, <1>6, FilesSound
  <2>2. QED
    BY <1>4, <2>1 DEF Cards
<1>8. Coherent(t)
  BY <1>1 DEF Coherent
<1>9. Good(t, Cards(r, {d}))
  <2> HIDE DEF v, d
  <2>1. View(t) = v /\ OnCard(t.disk) = v
    BY <1>1, <1>2 DEF v
  <2>2. QED
    BY <1>1, <1>7, <1>8, <2>1 DEF Good
<1>10. \A m \in Names : CurOk(AllClosed[m], r[m])
  BY DEF CurOk, AllClosed, Closed
<1>11. DirtyOwned(t, AllClosed, r)
  BY <1>1 DEF DirtyOwned
<1>12. Quiet(t, AllClosed, r, {d})
  BY <1>2, <1>5, <1>9, <1>10, <1>11 DEF Quiet
<1>13. QED
  BY <1>4, <1>6, <1>12

-----------------------------------------------------------------------------
(* What a call does to the files as their users see them: it makes one     *)
(* longer, or makes one durable, or the power fails.  x has the sizes of   *)
(* the files, y their sizes on the card.                                   *)
Dir(s) == View(s)[DirBlock]
SizesOf(h, d) == [n \in Names |-> IF h[n].open THEN h[n].size ELSE d[n].size]
CardSizes(d) == [n \in Names |-> d[n].size]

Lasting(x, y, z) == z = y \/ \E n \in Names : z = [y EXCEPT ![n] = x[n]]
StoreMoves(x, y, x2, y2) ==
  \/ \E n \in Names : /\ x2[n] >= x[n] /\ \A m \in Names \ {n} : x2[m] = x[m]
                      /\ y2 = y
  \/ \E n \in Names : x2 = x /\ y2 = [y EXCEPT ![n] = x[n]]
  \/ x2 = y2 /\ Lasting(x, y, y2)

Stable(s, h) == /\ h \in [Names -> Handle]
                /\ \E q \in Layouts : \E d \in DirData : Quiet(s, h, q, {d})
Moves(s, h, t, g) ==
  StoreMoves(SizesOf(h, Dir(s)), CardSizes(Dir(s)), SizesOf(g, Dir(t)), CardSizes(Dir(t)))
Ends(s, h, t, g) == Stable(t, g) /\ Moves(s, h, t, g)

LEMMA QuietDir ==
  ASSUME NEW s, NEW h, NEW q \in Layouts, NEW d, Quiet(s, h, q, {d})
  PROVE  /\ Dir(s) = d /\ View(s) \in Views /\ OnCard(s.disk) \in Views /\ s \in State
         /\ OnCard(s.disk)[DirBlock] = d /\ OnCard(s.disk) \in Recoverable({d})
         /\ ~ s.fault /\ Files(View(s), h, q) /\ d \in DirData
<1>1. View(s) \in Cards(q, {d}) /\ OnCard(s.disk) \in Cards(q, {d}) /\ s \in State /\ ~ s.fault
  BY DEF Quiet, Good
<1>2. /\ View(s) \in Views /\ OnCard(s.disk) \in Views
      /\ View(s)[DirBlock] = d /\ OnCard(s.disk)[DirBlock] = d
      /\ Sound(OnCard(s.disk), q)
  BY <1>1 DEF Cards
<1>3. Files(View(s), h, q)
  BY DEF Quiet
<1>4. q \in Layouts => OnCard(s.disk) \in Recoverable({d})
  BY <1>2 DEF Recoverable
<1>5. QED
  BY <1>1, <1>2, <1>3, <1>4 DEF Dir, Views

LEMMA QuietEntries ==
  ASSUME NEW s, NEW h, NEW q \in Layouts, NEW d, Quiet(s, h, q, {d})
  PROVE  Dir(s) = d /\ d \in DirData /\ OnCard(s.disk)[DirBlock] = d
BY QuietDir

(* A restart with a directory of Dirs.                                     *)
LEMMA RestartEnds ==
  ASSUME NEW s, NEW h, NEW disk \in [Blocks -> Data], NEW Dirs,
         OnCard(disk) \in Recoverable(Dirs),
         \A e \in Dirs \cap DirData :
           Lasting(SizesOf(h, Dir(s)), CardSizes(Dir(s)), CardSizes(e)),
         NEW t, t = Mounted(disk)
  PROVE  Ends(s, h, t, AllClosed)
<1>1. /\ AllClosed \in [Names -> Handle]
      /\ \E q \in Layouts : \E d \in Dirs \cap DirData : Quiet(t, AllClosed, q, {d})
  BY Remount
<1>2. PICK q \in Layouts, d \in Dirs \cap DirData : Quiet(t, AllClosed, q, {d})
  BY <1>1
<1>3. Dir(t) = d
  BY <1>2, QuietDir
<1>4. SizesOf(AllClosed, d) = CardSizes(d)
  BY DEF SizesOf, CardSizes, AllClosed, Closed
<1>5. Lasting(SizesOf(h, Dir(s)), CardSizes(Dir(s)), CardSizes(d))
  BY <1>2
<1>6. Moves(s, h, t, AllClosed)
  BY <1>3, <1>4, <1>5 DEF Moves, StoreMoves
<1>7. QED
  BY <1>1, <1>2, <1>6 DEF Ends, Stable

(* The end of the call on the file n with the outcome o.                   *)
EndOf(h, n, o, t, g) ==
  \/ ~ o.s.fault /\ t = Ended(o.s) /\ g = Handles(h, n, o.s)
  \/ o.s.fault /\ t = Mounted(o.s.disk) /\ g = AllClosed

LEMMA WriteEnds ==
  ASSUME NEW h \in [Names -> Handle], NEW n \in Names, NEW q \in Layouts, NEW d \in DirData,
         NEW s, Quiet(s, h, q, {d}), h[n].open, NEW k \in Nat,
         NEW o \in FileWrite(Started(s, h[n]), n, k), NEW t, NEW g, EndOf(h, n, o, t, g)
  PROVE  Ends(s, h, t, g)
<1> DEFINE Dirs == {d}
           u == Started(s, h[n])
           size == h[n].size
<1>1. Mid(u, h, n, q, Dirs) /\ CurOk(u.this, q[n]) /\ u.this = h[n]
  BY QuietMid
<1>2. /\ Files(View(s), h, q) /\ View(s)[DirBlock] = d /\ Dir(s) = d
  BY QuietDir DEF Dir
<1>3. size \in Nat /\ Dirs \subseteq DirData
  BY DEF Handle
<1>4. \A e \in Dirs : e[n].size <= size
  <2>1. OpenOk(View(s), h[n], n, q[n])
    BY <1>2 DEF Files, FileOk
  <2>2. QED
    BY <1>2, <2>1 DEF OpenOk
<1>5. o \in FileWrite(u, n, k)
  OBVIOUS
<1> HIDE DEF Dirs, u, size
<1>6. o \in Called(h, n, size, Dirs)
  <2>1. u.this.size = size
    BY <1>1 DEF size
  <2>2. QED
    BY <1>1, <1>3, <1>4, <1>5, <2>1, OfFileWrite
<1>7. CASE o.s.fault
  <2>1. t = Mounted(o.s.disk) /\ g = AllClosed
    BY <1>7 DEF EndOf
  <2>2. Faulted(o, Recoverable(Dirs))
    BY <1>6, <1>7 DEF Called
  <2> DEFINE disk == o.s.disk
  <2>3. disk \in [Blocks -> Data] /\ OnCard(disk) \in Recoverable(Dirs)
    BY <2>2 DEF Faulted, OutcomeOf, State
  <2>4. \A e \in Dirs \cap DirData :
           Lasting(SizesOf(h, Dir(s)), CardSizes(Dir(s)), CardSizes(e))
    BY <1>2 DEF Lasting, Dirs
  <2>5. t = Mounted(disk)
    BY <2>1
  <2> HIDE DEF disk
  <2>6. QED
    BY <2>1, <2>3, <2>4, <2>5, RestartEnds
<1>8. CASE ~ o.s.fault
  <2>1. t = Ended(o.s) /\ g = Handles(h, n, o.s)
    BY <1>8 DEF EndOf
  <2>2. o.s.this.size >= size /\ \E r \in Layouts : Mid(o.s, h, n, r, Dirs)
                                                      /\ CurOk(o.s.this, r[n])
    BY <1>6, <1>8 DEF Called
  <2>3. PICK r \in Layouts : Mid(o.s, h, n, r, Dirs) /\ CurOk(o.s.this, r[n])
    BY <2>2
  <2>4. Quiet(t, g, r, Dirs)
    BY <2>1, <2>3, MidQuiet
  <2>5. /\ g \in [Names -> Handle] /\ g[n] = o.s.this /\ o.s.this.open
        /\ \A m \in Names \ {n} : g[m] = h[m]
    BY <2>1, <2>3, MidFacts, HandlesTyped
  <2>6. Dir(t) = d
    BY <2>4, QuietDir DEF Dirs
  <2>7. Moves(s, h, t, g)
    <3> DEFINE x == SizesOf(h, d)
               y == SizesOf(g, d)
    <3>1. x[n] = size /\ y[n] = o.s.this.size /\ \A m \in Names \ {n} : y[m] = x[m]
      BY <2>5 DEF SizesOf, size
    <3>2. y[n] >= x[n]
      BY <2>2, <3>1
    <3> HIDE DEF x, y
    <3>3. StoreMoves(x, CardSizes(d), y, CardSizes(d))
      BY <3>1, <3>2 DEF StoreMoves
    <3>4. QED
      BY <1>2, <2>6, <3>3 DEF Moves, x, y
  <2>8. QED
    BY <2>4, <2>5, <2>7 DEF Ends, Stable, Dirs
<1>9. QED
  BY <1>7, <1>8

LEMMA SavedSizes ==
  ASSUME NEW d \in DirData, NEW n \in Names, NEW f \in Handle
  PROVE  CardSizes(Saved(d, n, f)) = [CardSizes(d) EXCEPT ![n] = f.size]
<1> DEFINE e == Saved(d, n, f)
<1>1. e[n].size = f.size /\ \A m \in Names \ {n} : e[m] = d[m]
  BY DEF Saved, DirData
<1> HIDE DEF e
<1>2. QED
  BY <1>1 DEF CardSizes, e

(* The file was being synced when the power failed.                        *)
LEMMA SyncRestartEnds ==
  ASSUME NEW h \in [Names -> Handle], NEW n \in Names, NEW q \in Layouts, NEW d \in DirData,
         NEW s, Quiet(s, h, q, {d}), h[n].open,
         NEW o \in Flushed(h, n, h[n], d), o.s.fault,
         NEW t, t = Mounted(o.s.disk)
  PROVE  Ends(s, h, t, AllClosed)
<1> DEFINE Dirs == {d, Saved(d, n, h[n])}
           disk == o.s.disk
<1>1. Faulted(o, Recoverable(Dirs))
  BY DEF Flushed
<1>2. disk \in [Blocks -> Data] /\ OnCard(disk) \in Recoverable(Dirs)
  BY <1>1 DEF Faulted, OutcomeOf, State
<1>3. Dir(s) = d
  BY QuietDir
<1>4. Lasting(SizesOf(h, d), CardSizes(d), CardSizes(Saved(d, n, h[n])))
  <2>1. CardSizes(Saved(d, n, h[n])) = [CardSizes(d) EXCEPT ![n] = h[n].size]
    BY SavedSizes
  <2>2. SizesOf(h, d)[n] = h[n].size
    BY DEF SizesOf
  <2>3. QED
    BY <2>1, <2>2 DEF Lasting
<1>5. Lasting(SizesOf(h, d), CardSizes(d), CardSizes(d))
  BY DEF Lasting
<1>6. \A e \in Dirs \cap DirData : Lasting(SizesOf(h, Dir(s)), CardSizes(Dir(s)), CardSizes(e))
  BY <1>3, <1>4, <1>5
<1>7. t = Mounted(disk)
  OBVIOUS
<1> HIDE DEF Dirs, disk
<1>8. QED
  BY <1>2, <1>6, <1>7, RestartEnds

(* The file is synced.                                                     *)
LEMMA SyncMoves ==
  ASSUME NEW h \in [Names -> Handle], NEW n \in Names, NEW d \in DirData, h[n].open,
         NEW g \in [Names -> Handle], \A m \in Names \ {n} : g[m] = h[m],
         g[n].open => g[n].size = h[n].size,
         NEW s, NEW t, Dir(s) = d, Dir(t) = Saved(d, n, h[n])
  PROVE  Moves(s, h, t, g)
<1> DEFINE e == Saved(d, n, h[n])
           x == SizesOf(h, d)
<1>1. CardSizes(e) = [CardSizes(d) EXCEPT ![n] = h[n].size]
  BY SavedSizes
<1>2. e[n].size = h[n].size /\ \A m \in Names \ {n} : e[m] = d[m]
  BY DEF Saved, DirData
<1>3. x[n] = h[n].size
  BY DEF SizesOf
<1>4. SizesOf(g, e) = x
  <2>1. ASSUME NEW m \in Names
        PROVE  (IF g[m].open THEN g[m].size ELSE e[m].size)
                 = (IF h[m].open THEN h[m].size ELSE d[m].size)
    <3>1. CASE m = n
      BY <1>2, <3>1
    <3>2. CASE m # n
      BY <1>2, <3>2
    <3>3. QED
      BY <3>1, <3>2
  <2> HIDE DEF e
  <2>2. QED
    BY <2>1 DEF SizesOf
<1>5. QED
  BY <1>1, <1>3, <1>4 DEF Moves, StoreMoves

LEMMA FlushEnds ==
  ASSUME NEW h \in [Names -> Handle], NEW n \in Names, NEW q \in Layouts, NEW d \in DirData,
         NEW s, Quiet(s, h, q, {d}), h[n].open,
         NEW o \in FileSync(Started(s, h[n]), n), NEW t, NEW g, EndOf(h, n, o, t, g)
  PROVE  Ends(s, h, t, g)
<1> DEFINE u == Started(s, h[n])
           f == h[n]
           e == Saved(d, n, f)
<1>1. o \in Flushed(h, n, f, d)
  <2> DEFINE Dirs == {d}
  <2>1. Mid(u, h, n, q, Dirs) /\ CurOk(u.this, q[n]) /\ u.this = f
    <3> HIDE DEF Dirs
    <3>1. Quiet(s, h, q, Dirs)
      BY DEF Dirs
    <3>2. QED
      BY <3>1, QuietMid
  <2> HIDE DEF u
  <2>2. o \in Flushed(h, n, u.this, d)
    BY <2>1, OfFileSync DEF u
  <2>3. QED
    BY <2>1, <2>2
<1>2. CASE o.s.fault
  <2>1. t = Mounted(o.s.disk) /\ g = AllClosed
    BY <1>2 DEF EndOf
  <2>2. QED
    BY <1>1, <1>2, <2>1, SyncRestartEnds
<1>3. CASE ~ o.s.fault
  <2>1. t = Ended(o.s) /\ g = Handles(h, n, o.s)
    BY <1>3 DEF EndOf
  <2>2. /\ o.s.this = Synced(f)
        /\ \E r \in Layouts : Mid(o.s, h, n, r, {e}) /\ CurOk(o.s.this, r[n])
    BY <1>1, <1>3 DEF Flushed
  <2> HIDE DEF e
  <2>3. PICK r \in Layouts : Mid(o.s, h, n, r, {e}) /\ CurOk(o.s.this, r[n])
    BY <2>2
  <2> DEFINE Dirs == {e}
  <2>4. Mid(o.s, h, n, r, Dirs)
    BY <2>3
  <2> HIDE DEF Dirs
  <2>5. Quiet(t, g, r, Dirs)
    BY <2>1, <2>3, <2>4, MidQuiet
  <2>6. /\ g \in [Names -> Handle] /\ g[n] = o.s.this
        /\ \A m \in Names \ {n} : g[m] = h[m]
    BY <2>1, <2>4, MidFacts, HandlesTyped
  <2>7. Dir(t) = e /\ Dir(s) = d /\ e \in DirData
    <3>1. Quiet(t, g, r, {e})
      BY <2>5 DEF Dirs
    <3>2. Dir(t) = e /\ e \in DirData
      BY <3>1, QuietEntries
    <3>3. Dir(s) = d
      BY QuietDir
    <3>4. QED
      BY <3>2, <3>3
  <2>8. g[n].size = h[n].size
    BY <2>2, <2>6 DEF Synced, Handle
  <2>9. Moves(s, h, t, g)
    BY <2>6, <2>7, <2>8, SyncMoves DEF e
  <2>10. QED
    BY <2>5, <2>6, <2>7, <2>9 DEF Ends, Stable, Dirs
<1>4. QED
  BY <1>2, <1>3

LEMMA CloseEnds ==
  ASSUME NEW h \in [Names -> Handle], NEW n \in Names, NEW q \in Layouts, NEW d \in DirData,
         NEW s, Quiet(s, h, q, {d}), h[n].open,
         NEW o \in FileSync(Started(s, h[n]), n), NEW c, c = [o EXCEPT !.s.this = Closed],
         NEW t, NEW g, EndOf(h, n, c, t, g)
  PROVE  Ends(s, h, t, g)
<1> DEFINE u == Started(s, h[n])
           f == h[n]
           e == Saved(d, n, f)
<1>1. o \in Flushed(h, n, f, d)
  <2> DEFINE Dirs == {d}
  <2>1. Mid(u, h, n, q, Dirs) /\ CurOk(u.this, q[n]) /\ u.this = f
    <3> HIDE DEF Dirs
    <3>1. Quiet(s, h, q, Dirs)
      BY DEF Dirs
    <3>2. QED
      BY <3>1, QuietMid
  <2> HIDE DEF u
  <2>2. o \in Flushed(h, n, u.this, d)
    BY <2>1, OfFileSync DEF u
  <2>3. QED
    BY <2>1, <2>2
<1>2. /\ c.s.fault = o.s.fault /\ c.s.disk = o.s.disk /\ c.s.this = Closed
      /\ Ended(c.s) = Ended(o.s)
  <2>1. o.s \in State /\ o \in OutcomeOf({0})
    BY <1>1 DEF Flushed, OutcomeOf
  <2>2. c.s = [o.s EXCEPT !.this = Closed]
    BY <2>1 DEF OutcomeOf
  <2> DEFINE x == o.s
             y == c.s
  <2>3. x \in State /\ y = [x EXCEPT !.this = Closed]
    BY <2>1, <2>2
  <2> HIDE DEF x, y
  <2>4. y.fault = x.fault /\ y.disk = x.disk /\ y.this = Closed
    BY <2>3 DEF State
  <2>5. Ended(y) = Ended(x)
    BY <2>3 DEF Ended, State
  <2>6. QED
    BY <2>4, <2>5 DEF x, y
<1>3. CASE o.s.fault
  <2>1. t = Mounted(o.s.disk) /\ g = AllClosed
    BY <1>2, <1>3 DEF EndOf
  <2>2. QED
    BY <1>1, <1>3, <2>1, SyncRestartEnds
<1>4. CASE ~ o.s.fault
  <2>1. t = Ended(o.s) /\ g = [h EXCEPT ![n] = Closed]
    BY <1>2, <1>4 DEF EndOf, Handles
  <2>2. /\ o.s.this = Synced(f) /\ ~ o.s.cacheDirty
        /\ \E r \in Layouts : Mid(o.s, h, n, r, {e}) /\ CurOk(o.s.this, r[n])
    BY <1>1, <1>4 DEF Flushed
  <2> HIDE DEF e
  <2>3. PICK r \in Layouts : Mid(o.s, h, n, r, {e}) /\ CurOk(o.s.this, r[n])
    BY <2>2
  <2> DEFINE Dirs == {e}
  <2>4. Mid(o.s, h, n, r, Dirs)
    BY <2>3
  <2>5. ~ o.s.this.dirDirty
    BY <2>2 DEF Synced, Handle
  <2> HIDE DEF Dirs
  <2>6. Quiet(t, g, r, Dirs)
    BY <2>1, <2>2, <2>4, <2>5, CloseQuiet
  <2>7. /\ g \in [Names -> Handle] /\ g[n] = Closed
        /\ \A m \in Names \ {n} : g[m] = h[m]
    BY <2>1, ClosedTyped
  <2>8. Dir(t) = e /\ Dir(s) = d /\ e \in DirData
    <3>1. Quiet(t, g, r, {e})
      BY <2>6 DEF Dirs
    <3>2. Dir(t) = e /\ e \in DirData
      BY <3>1, QuietDir
    <3>3. Dir(s) = d
      BY QuietDir
    <3>4. QED
      BY <3>2, <3>3
  <2>9. ~ g[n].open
    BY <2>7 DEF Closed
  <2>10. Moves(s, h, t, g)
    BY <2>7, <2>8, <2>9, SyncMoves DEF e
  <2>11. QED
    BY <2>6, <2>7, <2>8, <2>10 DEF Ends, Stable, Dirs
<1>5. QED
  BY <1>3, <1>4

LEMMA OpenEnds ==
  ASSUME NEW h \in [Names -> Handle], NEW n \in Names, NEW q \in Layouts, NEW d \in DirData,
         NEW s, Quiet(s, h, q, {d}), ~ h[n].open,
         NEW o \in FileOpen(Started(s, h[n]), n), NEW c,
         c = IF o.ok THEN o ELSE [o EXCEPT !.s.this = Closed],
         NEW t, NEW g, EndOf(h, n, c, t, g)
  PROVE  Ends(s, h, t, g)
<1> DEFINE u == Started(s, h[n])
           e == NewDir(d, n)
<1>1. Quiet(u, h, q, {d})
  <2>1. s \in State /\ Good(s, Cards(q, {d}))
    BY DEF Quiet, Good
  <2> DEFINE D == Cards(q, {d})
             f == h[n]
  <2>2. f \in Handle /\ u = Started(s, f) /\ Good(s, D)
    BY <2>1
  <2> HIDE DEF D, f, u
  <2>3. /\ Good(u, D) /\ View(u) = View(s)
        /\ u.cacheBlock = s.cacheBlock /\ u.cacheDirty = s.cacheDirty
    BY <2>1, <2>2, OtherThis
  <2>4. DirtyOwned(u, h, q)
    BY <2>3 DEF Quiet, DirtyOwned
  <2>5. QED
    BY <2>3, <2>4 DEF Quiet, D
<1> HIDE DEF u
<1>2. /\ o \in OutcomeOf({0})
      /\ o.s.fault => o.s \in State /\ OnCard(o.s.disk) \in Recoverable({d, e})
      /\ ~ o.s.fault => /\ o.ok /\ Mid(o.s, h, n, q, {e}) /\ CurOk(o.s.this, q[n])
                        /\ o.s.this.size = e[n].size
  <2>1. o \in FileOpen(u, n)
    BY DEF u
  <2>2. QED
    BY <1>1, <2>1, OfFileOpen
<1>3. e \in DirData /\ CardSizes(e) = CardSizes(d) /\ e[n].size = d[n].size
      /\ \A m \in Names \ {n} : e[m] = d[m]
  <2>1. e \in DirData /\ \A m \in Names \ {n} : e[m] = d[m]
    BY NewDirTyped
  <2>2. e[n].size = d[n].size
    <3>1. CASE d[n].used
      BY <3>1 DEF NewDir
    <3>2. CASE ~ d[n].used
      <4>1. ClosedOk(View(s), h[n], n, q[n]) /\ View(s)[DirBlock] = d
        BY QuietDir DEF Files, FileOk, Dir
      <4>2. d[n].size = 0
        BY <3>2, <4>1 DEF ClosedOk
      <4>3. e[n].size = 0
        BY <3>2, SavedClosed DEF NewDir
      <4>4. QED
        BY <4>2, <4>3
    <3>3. QED
      BY <3>1, <3>2
  <2> HIDE DEF e
  <2>3. CardSizes(e) = CardSizes(d)
    BY <2>1, <2>2 DEF CardSizes
  <2>4. QED
    BY <2>1, <2>2, <2>3
<1>4. Dir(s) = d
  BY QuietDir
<1> HIDE DEF e
<1>5. CASE o.s.fault
  <2> DEFINE Dirs == {d, e}
             disk == o.s.disk
  <2>1. o.s.disk = c.s.disk /\ c.s.fault
    <3>1. o.s \in State
      BY <1>2, <1>5
    <3>2. CASE o.ok
      BY <1>5, <3>2
    <3>3. CASE ~ o.ok
      <4>1. c = [o EXCEPT !.s.this = Closed]
        BY <3>3
      <4>2. c.s = [o.s EXCEPT !.this = Closed]
        BY <1>2, <4>1 DEF OutcomeOf
      <4>3. QED
        BY <1>5, <3>1, <4>2 DEF State
    <3>4. QED
      BY <3>2, <3>3
  <2>2. t = Mounted(disk) /\ g = AllClosed
    BY <2>1 DEF EndOf
  <2>3. disk \in [Blocks -> Data] /\ OnCard(disk) \in Recoverable(Dirs)
    BY <1>2, <1>5 DEF State
  <2>4. \A x \in Dirs \cap DirData :
           Lasting(SizesOf(h, Dir(s)), CardSizes(Dir(s)), CardSizes(x))
    BY <1>3, <1>4 DEF Lasting
  <2> HIDE DEF Dirs, disk
  <2>5. QED
    BY <2>2, <2>3, <2>4, RestartEnds
<1>6. CASE ~ o.s.fault
  <2>1. c = o /\ Mid(o.s, h, n, q, {e}) /\ CurOk(o.s.this, q[n]) /\ o.s.this.size = e[n].size
    BY <1>2, <1>6
  <2>2. t = Ended(o.s) /\ g = Handles(h, n, o.s)
    BY <1>6, <2>1 DEF EndOf
  <2> DEFINE Dirs == {e}
  <2>3. Mid(o.s, h, n, q, Dirs)
    BY <2>1
  <2> HIDE DEF Dirs
  <2>4. Quiet(t, g, q, Dirs)
    BY <2>1, <2>2, <2>3, MidQuiet
  <2>5. /\ g \in [Names -> Handle] /\ g[n] = o.s.this /\ o.s.this.open
        /\ \A m \in Names \ {n} : g[m] = h[m]
    BY <2>2, <2>3, MidFacts, HandlesTyped
  <2>6. Dir(t) = e
    BY <2>4, QuietDir DEF Dirs
  <2>7. SizesOf(g, e) = SizesOf(h, d)
    <3>1. ASSUME NEW m \in Names
          PROVE  (IF g[m].open THEN g[m].size ELSE e[m].size)
                   = (IF h[m].open THEN h[m].size ELSE d[m].size)
      <4>1. CASE m = n
        BY <1>3, <2>1, <2>5, <4>1
      <4>2. CASE m # n
        BY <1>3, <2>5, <4>2
      <4>3. QED
        BY <4>1, <4>2
    <3>2. QED
      BY <3>1 DEF SizesOf
  <2>8. Moves(s, h, t, g)
    <3> DEFINE x == SizesOf(h, d)
               y == CardSizes(d)
    <3>1. x[n] >= x[n]
      <4>1. x[n] = d[n].size /\ d[n] \in EntryType
        BY DEF SizesOf, DirData
      <4>2. d[n].size \in Nat
        BY <4>1 DEF EntryType
      <4>3. QED
        BY <4>1, <4>2
    <3> HIDE DEF x, y
    <3>2. StoreMoves(x, y, x, y)
      BY <3>1 DEF StoreMoves
    <3>3. QED
      BY <1>3, <1>4, <2>6, <2>7, <3>2 DEF Moves, x, y
  <2>9. QED
    BY <1>3, <2>4, <2>5, <2>8 DEF Ends, Stable, Dirs
<1>7. QED
  BY <1>5, <1>6

-----------------------------------------------------------------------------
(* The freshly formatted card.                                             *)
NoEntries == [n \in Names |-> FreeEntry]

LEMMA FormattedBlocks ==
  /\ Formatted \in [Blocks -> Data]
  /\ \A b \in FatBlocks : Formatted[b] = EmptyFatBlock(b[2])
                            /\ Formatted[b] \in FatData(b[2])
                            /\ Formatted[MirrorOf(b)] = Formatted[b]
  /\ Formatted[DirBlock] = NoEntries /\ NoEntries \in DirData
  /\ \A b \in DataBlocks : Formatted[b] \in UnitData
<1> DEFINE blank == [u \in 0 .. UnitsPerBlock - 1 |-> Junk]
           Content(b) == CASE b[1] \in {"fat", "mirror"} -> EmptyFatBlock(b[2])
                           [] b[1] = "dir" -> NoEntries
                           [] b[1] = "data" -> blank
<1>1. Formatted = [b \in Blocks |-> Content(b)]
  BY DEF Formatted, NoEntries
<1>2. \A n \in Nat : EmptyFatBlock(n) \in FatData(n)
  BY VolumeAssumption DEF EmptyFatBlock, FatData, EOC, LastCluster
<1>3. NoEntries \in DirData
  BY VolumeAssumption DEF NoEntries, DirData, EntryType, FreeEntry, EOC, LastCluster
<1>4. blank \in UnitData
  BY DEF UnitData, Token
<1>5. ASSUME NEW b \in FatBlocks
      PROVE  /\ b[1] = "fat" /\ b[2] \in Nat
             /\ MirrorOf(b)[1] = "mirror" /\ MirrorOf(b)[2] = b[2]
  <2>1. PICK c \in 0 .. LastCluster : b = FatBlock(c)
    BY DEF FatBlocks
  <2>2. c \div FatPerBlock \in Nat
    BY VolumeAssumption
  <2>3. b[1] = "fat" /\ b[2] = c \div FatPerBlock
    BY <2>1 DEF FatBlock
  <2>4. MirrorOf(b)[1] = "mirror" /\ MirrorOf(b)[2] = b[2]
    BY DEF MirrorOf
  <2>5. QED
    BY <2>2, <2>3, <2>4
<1>6. \A b \in DataBlocks : b[1] = "data"
  BY DEF DataBlocks, DataBlock
<1>7. DirBlock[1] = "dir"
  BY DEF DirBlock
<1> HIDE DEF blank
<1>8. /\ \A b : b[1] = "fat" \/ b[1] = "mirror" => Content(b) = EmptyFatBlock(b[2])
      /\ \A b : b[1] = "dir" => Content(b) = NoEntries
      /\ \A b : b[1] = "data" => Content(b) = blank
  OBVIOUS
<1> HIDE DEF Content
<1>9. ASSUME NEW b \in FatBlocks
      PROVE  /\ Content(b) = EmptyFatBlock(b[2]) /\ Content(b) \in FatData(b[2])
             /\ Content(MirrorOf(b)) \in FatData(b[2])
             /\ Content(MirrorOf(b)) = Content(b)
  BY <1>2, <1>5, <1>8
<1>10. Content(DirBlock) = NoEntries /\ \A b \in DataBlocks : Content(b) = blank
  BY <1>6, <1>7, <1>8
<1>11. ASSUME NEW b \in Blocks PROVE Content(b) \in Data
  <2>1. CASE b \in FatBlocks
    BY <1>9, <2>1 DEF Data
  <2>2. CASE b \in Mirrors
    BY <1>9, <2>2 DEF Data, Mirrors
  <2>3. CASE b = DirBlock
    BY <1>3, <1>10, <2>3 DEF Data
  <2>4. CASE b \in DataBlocks
    BY <1>4, <1>10, <2>4 DEF Data
  <2>5. QED
    BY <2>1, <2>2, <2>3, <2>4 DEF Blocks, Mirrors
<1>12. /\ FatBlocks \subseteq Blocks /\ DataBlocks \subseteq Blocks /\ DirBlock \in Blocks
       /\ \A b \in FatBlocks : MirrorOf(b) \in Blocks
  BY DEF Blocks
<1>13. QED
  BY <1>1, <1>3, <1>4, <1>9, <1>10, <1>11, <1>12

LEMMA FormattedCard == OnCard(Formatted) \in Recoverable({NoEntries})
<1> DEFINE v == OnCard(Formatted)
           q == [n \in Names |-> << >>]
<1>1. \A b \in Primary : v[b] = Formatted[b]
  BY DEF OnCard
<1>2. /\ v \in [Primary -> Data] /\ v[DirBlock] = NoEntries
      /\ \A b \in FatBlocks : v[b] = EmptyFatBlock(b[2])
  BY <1>1, FormattedBlocks, BlockKinds DEF OnCard, Primary
<1>3. v \in Views
  BY <1>1, <1>2, FormattedBlocks DEF Views, Primary
<1>4. q \in Layouts /\ \A n \in Names : q[n] = << >> /\ Len(q[n]) = 0
  BY DEF Layouts
<1>5. ASSUME NEW c \in Clusters PROVE FatIn(v, c) = 0
  <2>1. c \in 0 .. LastCluster /\ ~ (c < 2) /\ FatBlock(c) \in FatBlocks
    BY DEF Clusters, FatBlocks
  <2>2. v[FatBlock(c)] = EmptyFatBlock(FatBlock(c)[2])
    BY <1>2, <2>1
  <2>3. FatBlock(c)[2] = c \div FatPerBlock
    BY DEF FatBlock
  <2>4. EmptyFatBlock(c \div FatPerBlock)[c] = 0
    BY <2>1 DEF EmptyFatBlock
  <2>5. QED
    BY <2>2, <2>3, <2>4 DEF FatIn
<1> HIDE DEF v, q
<1>6. Linked(v)
  BY <1>5 DEF Linked, Clusters
<1>7. Distinct(q)
  BY <1>4 DEF Distinct
<1>8. ASSUME NEW n \in Names PROVE CardOk(v, n, q[n])
  <2>1. v[DirBlock][n].first = 0 /\ v[DirBlock][n].size = 0
    BY <1>2 DEF NoEntries, FreeEntry
  <2>2. ChainOk(v, 0, q[n], 0) /\ Holds(v, n, q[n], 0, 0)
    BY DEF ChainOk, Holds
  <2>3. 0 \in 0 .. Len(q[n])
    BY <1>4
  <2>4. QED
    BY <2>1, <2>2, <2>3 DEF CardOk
<1>9. Sound(v, q)
  BY <1>6, <1>7, <1>8 DEF Sound
<1>10. QED
  BY <1>2, <1>3, <1>4, <1>9 DEF Recoverable, v

LEMMA InitStable ==
  ASSUME NEW t, t = Mounted(Formatted)
  PROVE  /\ Stable(t, AllClosed)
         /\ SizesOf(AllClosed, Dir(t)) = [n \in Names |-> 0]
         /\ CardSizes(Dir(t)) = [n \in Names |-> 0]
<1> DEFINE Dirs == {NoEntries}
           disk == Formatted
<1>1. disk \in [Blocks -> Data] /\ OnCard(disk) \in Recoverable(Dirs) /\ t = Mounted(disk)
  BY FormattedBlocks, FormattedCard
<1> HIDE DEF Dirs, disk
<1>2. /\ AllClosed \in [Names -> Handle]
      /\ \E q \in Layouts : \E d \in Dirs \cap DirData : Quiet(t, AllClosed, q, {d})
  BY <1>1, Remount
<1>3. PICK q \in Layouts, d \in Dirs \cap DirData : Quiet(t, AllClosed, q, {d})
  BY <1>2
<1>4. Dir(t) = d /\ d = NoEntries
  BY <1>3, QuietEntries DEF Dirs
<1>5. /\ SizesOf(AllClosed, NoEntries) = [n \in Names |-> 0]
      /\ CardSizes(NoEntries) = [n \in Names |-> 0]
  BY DEF SizesOf, CardSizes, AllClosed, Closed, NoEntries, FreeEntry
<1>6. QED
  BY <1>2, <1>4, <1>5 DEF Stable

-----------------------------------------------------------------------------
(* The invariant of the logging calls, and what every step of them does.   *)
LogInv == Stable(vol, handle)

LEMMA CallEnds ==
  ASSUME ~ CardMayFail, NEW op, NEW name, NEW outcomes, Call(op, name, outcomes)
  PROVE  \E o \in outcomes : EndOf(handle, name, o, vol', handle')
<1>1. PICK o \in outcomes : Return(op, name, o) \/ (o.s.fault /\ Restart(o.s.disk))
  BY DEF Call
<1>2. CASE Return(op, name, o)
  <2>1. ~ o.s.fault /\ vol' = Ended(o.s) /\ handle' = Handles(handle, name, o.s)
    BY <1>2 DEF Return, Ended, Handles
  <2>2. QED
    BY <2>1 DEF EndOf
<1>3. CASE o.s.fault /\ Restart(o.s.disk)
  BY <1>3 DEF EndOf, Restart, AllClosed
<1>4. QED
  BY <1>1, <1>2, <1>3

LEMMA LogCallEnds ==
  ASSUME ~ CardMayFail, LogInv, NEW name \in Names, LogCall(name)
  PROVE  Ends(vol, handle, vol', handle')
<1> DEFINE h == handle
           s == vol
           u == Started(s, h[name])
<1>1. PICK q \in Layouts, d \in DirData : Quiet(s, h, q, {d})
  BY DEF LogInv, Stable
<1>2. h \in [Names -> Handle]
  BY DEF LogInv, Stable
<1>3. This(name) = u
  BY DEF This, Started
<1>4. CASE Open(name)
  <2> DEFINE C(o) == IF o.ok THEN o ELSE [o EXCEPT !.s.this = Closed]
             outcomes == {C(o) : o \in FileOpen(This(name), name)}
  <2>1. ~ h[name].open /\ Call("open", name, outcomes)
    BY <1>4 DEF Open, IsOpen
  <2>2. PICK c \in outcomes : EndOf(h, name, c, vol', handle')
    BY <2>1, CallEnds
  <2>3. PICK o \in FileOpen(u, name) : c = C(o)
    BY <1>3
  <2>4. c = IF o.ok THEN o ELSE [o EXCEPT !.s.this = Closed]
    BY <2>3
  <2>5. QED
    BY <1>1, <1>2, <2>1, <2>2, <2>4, OpenEnds
<1>5. CASE Write(name)
  <2>1. PICK n \in WriteSizes : Call("write", name, FileWrite(This(name), name, n))
    BY <1>5 DEF Write
  <2>2. h[name].open /\ n \in Nat
    BY <1>5, FileAssumption DEF Write, IsOpen
  <2>3. PICK o \in FileWrite(u, name, n) : EndOf(h, name, o, vol', handle')
    BY <1>3, <2>1, CallEnds
  <2>4. QED
    BY <1>1, <1>2, <2>2, <2>3, WriteEnds
<1>6. CASE Flush(name)
  <2>1. h[name].open /\ Call("sync", name, FileSync(This(name), name))
    BY <1>6 DEF Flush, IsOpen
  <2>2. PICK o \in FileSync(u, name) : EndOf(h, name, o, vol', handle')
    BY <1>3, <2>1, CallEnds
  <2>3. QED
    BY <1>1, <1>2, <2>1, <2>2, FlushEnds
<1>7. CASE Close(name)
  <2> DEFINE C(o) == [o EXCEPT !.s.this = Closed]
             outcomes == {C(o) : o \in FileSync(This(name), name)}
  <2>1. h[name].open /\ Call("sync", name, outcomes)
    BY <1>7 DEF Close, IsOpen
  <2>2. PICK c \in outcomes : EndOf(h, name, c, vol', handle')
    BY <2>1, CallEnds
  <2>3. PICK o \in FileSync(u, name) : c = C(o)
    BY <1>3
  <2>4. c = [o EXCEPT !.s.this = Closed]
    BY <2>3
  <2>5. QED
    BY <1>1, <1>2, <2>1, <2>2, <2>4, CloseEnds
<1>8. QED
  BY <1>4, <1>5, <1>6, <1>7 DEF LogCall

LEMMA PowerLossEnds ==
  ASSUME LogInv, PowerLoss
  PROVE  Ends(vol, handle, vol', handle')
<1> DEFINE disk == vol.disk
<1>1. PICK q \in Layouts, d \in DirData : Quiet(vol, handle, q, {d})
  BY DEF LogInv, Stable
<1> DEFINE Dirs == {d}
<1>2. disk \in [Blocks -> Data] /\ OnCard(disk) \in Recoverable(Dirs) /\ Dir(vol) = d
  <2>1. vol \in State /\ OnCard(vol.disk) \in Recoverable({d})
    BY <1>1, QuietDir
  <2>2. Dir(vol) = d
    BY <1>1, QuietEntries
  <2>3. QED
    BY <2>1, <2>2 DEF State
<1>3. vol' = Mounted(disk) /\ handle' = AllClosed
  BY DEF PowerLoss, Restart, AllClosed
<1>4. \A e \in Dirs \cap DirData :
         Lasting(SizesOf(handle, Dir(vol)), CardSizes(Dir(vol)), CardSizes(e))
  BY <1>2 DEF Lasting
<1> HIDE DEF disk, Dirs
<1>5. QED
  BY <1>2, <1>3, <1>4, RestartEnds

LEMMA LogStep ==
  ASSUME ~ CardMayFail, LogInv, LogNext
  PROVE  LogInv' /\ Moves(vol, handle, vol', handle')
<1>1. Ends(vol, handle, vol', handle')
  BY LogCallEnds, PowerLossEnds DEF LogNext
<1>2. QED
  BY <1>1 DEF Ends, LogInv

LEMMA LogInit == Init => LogInv
<1>1. SUFFICES ASSUME Init PROVE LogInv
  OBVIOUS
<1>2. vol = Mounted(Formatted) /\ handle = AllClosed
  BY <1>1 DEF Init, AllClosed
<1>3. QED
  BY <1>2, InitStable DEF LogInv

(* At the end of every logging call the files have clusters that hold what *)
(* was written to them, as the library sees them and on the card alone.    *)
THEOREM LogInvariant == ~ CardMayFail => (LogSpec => []LogInv)
<1> SUFFICES ASSUME ~ CardMayFail PROVE LogSpec => []LogInv
  OBVIOUS
<1>1. LogInv /\ UNCHANGED vars => LogInv'
  BY DEF LogInv, vars
<1>2. LogInv /\ [LogNext]_vars => LogInv'
  BY <1>1, LogStep
<1>3. QED
  BY <1>2, LogInit, PTL DEF LogSpec

-----------------------------------------------------------------------------
(* Chains.  The clusters of c from the i-th to the k-th.                   *)
Part(c, i, k) == [j \in 1 .. k - i + 1 |-> c[i + j - 1]]

LEMMA ChainSteps ==
  ASSUME NEW fat \in [0 .. LastCluster -> 0 .. EOC]
  PROVE  \E f : /\ \A d \in 0 .. EOC : f[0][d] = << >>
                /\ \A k \in Nat : \A d \in 0 .. EOC :
                     /\ d \in Clusters => f[k + 1][d] = <<d>> \o f[k][fat[d]]
                     /\ d \notin Clusters => f[k + 1][d] = << >>
                /\ \A c : Chain(fat, c) = f[ClusterCount][c]
<1> DEFINE D == 0 .. EOC
           X == [D -> Seq(Clusters)]
           x == [d \in D |-> << >>]
           F == [g \in X |-> [d \in D |-> IF d \in Clusters THEN <<d>> \o g[fat[d]] ELSE << >>]]
           Body(f) == [n \in Nat |->
                        [d \in D |-> IF n = 0 \/ d \notin Clusters THEN << >>
                                     ELSE <<d>> \o f[n - 1][fat[d]]]]
<1>1. \A d \in Clusters : fat[d] \in D
  BY VolumeAssumption DEF Clusters, LastCluster, EOC
<1>2. x \in X
  OBVIOUS
<1>3. F \in [X -> X]
  <2>1. ASSUME NEW g \in X, NEW d \in Clusters
        PROVE  <<d>> \o g[fat[d]] \in Seq(Clusters)
    <3> DEFINE y == g[fat[d]]
    <3>1. y \in Seq(Clusters)
      BY <1>1
    <3> HIDE DEF y
    <3>2. <<d>> \in Seq(Clusters)
      OBVIOUS
    <3>3. <<d>> \o y \in Seq(Clusters)
      BY <3>1, <3>2
    <3>4. QED
      BY <3>3 DEF y
  <2>2. << >> \in Seq(Clusters)
    OBVIOUS
  <2>3. ASSUME NEW g \in X
        PROVE  [d \in D |-> IF d \in Clusters THEN <<d>> \o g[fat[d]] ELSE << >>] \in X
    <3>1. \A d \in D : (IF d \in Clusters THEN <<d>> \o g[fat[d]] ELSE << >>) \in Seq(Clusters)
      BY <2>1, <2>2, Zenon
    <3> HIDE DEF D
    <3>2. QED
      BY <3>1, Zenon
  <2> HIDE DEF X
  <2>4. QED
    BY <2>3, Zenon
<1>4. PICK f \in [Nat -> X] : f = [k \in Nat |-> IF k = 0 THEN x ELSE F[f[k - 1]]]
  <2> HIDE DEF X, x, F
  <2>1. QED
    BY <1>2, <1>3, IterationExists
<1>5. f = Body(f)
  <2>1. ASSUME NEW n \in Nat
        PROVE  f[n] = [d \in D |-> IF n = 0 \/ d \notin Clusters THEN << >>
                                   ELSE <<d>> \o f[n - 1][fat[d]]]
    <3>1. CASE n = 0
      <4>1. f[n] = x
        BY <1>4, <3>1
      <4>2. QED
        BY <3>1, <4>1, Zenon
    <3>2. CASE n # 0
      <4>1. n - 1 \in Nat
        BY <3>2
      <4>2. f[n - 1] \in X
        BY <4>1
      <4>3. f[n] = F[f[n - 1]]
        BY <1>4, <3>2
      <4>4. f[n] = [d \in D |-> IF d \in Clusters THEN <<d>> \o f[n - 1][fat[d]] ELSE << >>]
        <5> HIDE DEF X
        <5>1. QED
          BY <4>2, <4>3, Zenon
      <4>5. QED
        BY <3>2, <4>4
    <3>3. QED
      BY <3>1, <3>2
  <2>2. f = [n \in Nat |-> f[n]]
    BY <1>4
  <2> HIDE DEF D
  <2>3. QED
    BY <2>1, <2>2, Zenon
<1> DEFINE from == CHOOSE g : g = Body(g)
<1>6. from = Body(from)
  <2> HIDE DEF Body
  <2>1. QED
    BY <1>5
<1>7. \A c : Chain(fat, c) = from[ClusterCount][c]
  BY DEF Chain
<1> HIDE DEF from
<1>8. \A d \in D : from[0][d] = << >>
  BY <1>6
<1>9. ASSUME NEW k \in Nat, NEW d \in D
      PROVE  /\ d \in Clusters => from[k + 1][d] = <<d>> \o from[k][fat[d]]
             /\ d \notin Clusters => from[k + 1][d] = << >>
  <2> DEFINE m == k + 1
  <2>2. from[m] = Body(from)[m]
    BY <1>6, Zenon
  <2>3. m \in Nat /\ m # 0 /\ m - 1 = k
    OBVIOUS
  <2> HIDE DEF m
  <2>4. from[m] = [e \in D |-> IF m = 0 \/ e \notin Clusters THEN << >>
                               ELSE <<e>> \o from[m - 1][fat[e]]]
    BY <2>2, <2>3, Zenon
  <2>5. from[m][d] = IF m = 0 \/ d \notin Clusters THEN << >>
                     ELSE <<d>> \o from[m - 1][fat[d]]
    BY <2>4, Zenon
  <2>6. QED
    BY <2>3, <2>5 DEF m
<1>10. QED
  BY <1>7, <1>8, <1>9

(* A part of a sequence, and one element more at its front.                *)
LEMMA PartLonger ==
  ASSUME NEW c \in Seq(Clusters), NEW k \in 0 .. Len(c), NEW i \in 1 .. k
  PROVE  <<c[i]>> \o Part(c, i + 1, k) = Part(c, i, k)
<1> DEFINE a == <<c[i]>>
           b == Part(c, i + 1, k)
           r == Part(c, i, k)
<1>1. c[i] \in Clusters /\ \A j \in 1 .. k : c[j] \in Clusters
  OBVIOUS
<1>2. a \in Seq(Clusters) /\ Len(a) = 1 /\ a[1] = c[i]
  BY <1>1
<1>3. b \in Seq(Clusters) /\ Len(b) = k - i /\ \A j \in 1 .. k - i : b[j] = c[i + j]
  <2>1. k - (i + 1) + 1 = k - i /\ k - i \in Nat
    OBVIOUS
  <2>2. b = [j \in 1 .. k - i |-> c[(i + 1) + j - 1]]
    BY <2>1 DEF Part
  <2>3. \A j \in 1 .. k - i : (i + 1) + j - 1 = i + j /\ i + j \in 1 .. k
    OBVIOUS
  <2> HIDE DEF b
  <2>4. QED
    BY <1>1, <2>1, <2>2, <2>3
<1>4. r \in Seq(Clusters) /\ Len(r) = k - i + 1
        /\ \A j \in 1 .. k - i + 1 : r[j] = c[i + j - 1]
  <2>1. k - i + 1 \in Nat
    OBVIOUS
  <2>2. r = [j \in 1 .. k - i + 1 |-> c[i + j - 1]]
    BY DEF Part
  <2>3. \A j \in 1 .. k - i + 1 : i + j - 1 \in 1 .. k
    OBVIOUS
  <2> HIDE DEF r
  <2>4. QED
    BY <1>1, <2>1, <2>2, <2>3
<1> HIDE DEF a, b, r
<1>5. /\ a \o b \in Seq(Clusters) /\ Len(a \o b) = k - i + 1
      /\ \A j \in 1 .. k - i + 1 : (a \o b)[j] = IF j <= 1 THEN a[j] ELSE b[j - 1]
  <2>1. Len(a) + Len(b) = k - i + 1
    BY <1>2, <1>3
  <2>2. /\ a \o b \in Seq(Clusters) /\ Len(a \o b) = Len(a) + Len(b)
        /\ \A j \in 1 .. Len(a) + Len(b) :
              (a \o b)[j] = IF j <= Len(a) THEN a[j] ELSE b[j - Len(a)]
    BY <1>2, <1>3, ConcatProperties, Zenon
  <2>3. QED
    BY <1>2, <2>1, <2>2
<1> DEFINE t == a \o b
<1> HIDE DEF t
<1>6. t \in Seq(Clusters) /\ Len(t) = Len(r)
  BY <1>4, <1>5 DEF t
<1>7. ASSUME NEW j \in 1 .. k - i + 1 PROVE t[j] = r[j]
  <2>1. t[j] = IF j <= 1 THEN a[j] ELSE b[j - 1]
    BY <1>5 DEF t
  <2>2. r[j] = c[i + j - 1]
    BY <1>4
  <2>3. CASE j = 1
    BY <1>2, <2>1, <2>2, <2>3
  <2>4. CASE j # 1
    <3>1. j - 1 \in 1 .. k - i /\ i + (j - 1) = i + j - 1 /\ ~ (j <= 1)
      BY <2>4
    <3>2. b[j - 1] = c[i + (j - 1)]
      BY <1>3, <3>1
    <3>3. QED
      BY <2>1, <2>2, <3>1, <3>2
  <2>5. QED
    BY <2>3, <2>4
<1>8. t = r
  BY <1>4, <1>6, <1>7
<1>9. QED
  BY <1>8 DEF t, a, b, r

(* The walk along a chain finds the clusters of the chain, if the number   *)
(* of clusters it may take is enough.                                      *)
LEMMA ChainOfClusters ==
  ASSUME NEW fat \in [0 .. LastCluster -> 0 .. EOC], NEW c \in Seq(Clusters),
         NEW k \in 0 .. Len(c), k <= ClusterCount,
         \A i \in 1 .. k : fat[c[i]] = IF i < k THEN c[i + 1] ELSE EOC
  PROVE  Chain(fat, IF k = 0 THEN 0 ELSE c[1]) = Part(c, 1, k)
<1>1. PICK f : /\ \A d \in 0 .. EOC : f[0][d] = << >>
               /\ \A m \in Nat : \A d \in 0 .. EOC :
                     /\ d \in Clusters => f[m + 1][d] = <<d>> \o f[m][fat[d]]
                     /\ d \notin Clusters => f[m + 1][d] = << >>
               /\ \A d : Chain(fat, d) = f[ClusterCount][d]
  BY ChainSteps
<1>2. /\ ClusterCount \in Nat \ {0} /\ EOC \notin Clusters /\ EOC \in 0 .. EOC
      /\ 0 \notin Clusters /\ 0 \in 0 .. EOC /\ Clusters \subseteq 0 .. EOC
  BY VolumeAssumption DEF Clusters, LastCluster, EOC
<1>3. \A i \in 1 .. k : c[i] \in Clusters
  OBVIOUS
<1>4. \A m \in Nat : \A d \in 0 .. EOC : d \notin Clusters => f[m][d] = << >>
  <2>1. SUFFICES ASSUME NEW m \in Nat, NEW d \in 0 .. EOC, d \notin Clusters
                 PROVE  f[m][d] = << >>
    OBVIOUS
  <2>2. CASE m = 0
    BY <1>1, <2>2
  <2>3. CASE m # 0
    <3>1. m - 1 \in Nat /\ (m - 1) + 1 = m
      BY <2>3
    <3>2. f[(m - 1) + 1][d] = << >>
      BY <1>1, <2>1, <3>1
    <3>3. QED
      BY <3>1, <3>2
  <2>4. QED
    BY <2>2, <2>3
<1> DEFINE From(j) == \A i \in 1 .. k : \A m \in Nat :
                        k - i = j /\ m >= j + 1 => f[m][c[i]] = Part(c, i, k)
           S == {j \in Nat : From(j)}
<1>5. ASSUME NEW i \in 1 .. k, NEW m \in Nat, m # 0,
             f[m - 1][fat[c[i]]] = Part(c, i + 1, k)
      PROVE  f[m][c[i]] = Part(c, i, k)
  <2> DEFINE d == c[i]
  <2>1. d \in Clusters /\ d \in 0 .. EOC /\ m - 1 \in Nat /\ (m - 1) + 1 = m
    <3>1. d \in Clusters
      BY <1>3
    <3>2. d \in 0 .. EOC
      BY <1>2, <3>1, Zenon
    <3>3. m - 1 \in Nat /\ (m - 1) + 1 = m
      BY <1>5
    <3>4. QED
      BY <3>1, <3>2, <3>3
  <2>2. <<d>> \o Part(c, i + 1, k) = Part(c, i, k)
    BY PartLonger
  <2> HIDE DEF d
  <2>3. f[(m - 1) + 1][d] = <<d>> \o f[m - 1][fat[d]]
    BY <1>1, <2>1
  <2>4. f[m][d] = <<d>> \o f[m - 1][fat[d]]
    BY <2>1, <2>3
  <2>5. QED
    BY <1>5, <2>2, <2>4 DEF d
<1>6. 0 \in S
  <2>1. SUFFICES ASSUME NEW i \in 1 .. k, NEW m \in Nat, k - i = 0, m >= 1
                 PROVE  f[m][c[i]] = Part(c, i, k)
    OBVIOUS
  <2>2. fat[c[i]] = EOC
    BY <2>1
  <2>3. Part(c, i + 1, k) = << >>
    BY <2>1 DEF Part
  <2>4. f[m - 1][EOC] = << >>
    BY <1>2, <1>4, <2>1
  <2>5. QED
    BY <1>5, <2>1, <2>2, <2>3, <2>4
<1>7. ASSUME NEW j \in Nat, j \in S PROVE j + 1 \in S
  <2>1. ASSUME NEW i \in 1 .. k, NEW m \in Nat, k - i = j + 1, m >= (j + 1) + 1
        PROVE  f[m][c[i]] = Part(c, i, k)
    <3>1. fat[c[i]] = c[i + 1] /\ i + 1 \in 1 .. k /\ k - (i + 1) = j
      BY <2>1
    <3>2. m - 1 \in Nat /\ m - 1 >= j + 1 /\ m # 0
      BY <2>1
    <3>3. f[m - 1][c[i + 1]] = Part(c, i + 1, k)
      BY <1>7, <3>1, <3>2
    <3>4. QED
      BY <1>5, <3>1, <3>2, <3>3
  <2> DEFINE l == j + 1
  <2>2. l \in Nat /\ From(l)
    BY <2>1
  <2> HIDE DEF l, From
  <2>3. QED
    BY <2>2 DEF l
<1>8. \A j \in Nat : j \in S
  <2> HIDE DEF S
  <2>1. QED
    BY <1>6, <1>7, Induction
<1>9. CASE k = 0
  <2>1. f[ClusterCount][0] = << >>
    BY <1>2, <1>4
  <2>2. Part(c, 1, k) = << >>
    BY <1>9 DEF Part
  <2>3. QED
    BY <1>1, <1>9, <2>1, <2>2
<1>10. CASE k # 0
  <2>1. 1 \in 1 .. k /\ k - 1 \in Nat /\ ClusterCount >= (k - 1) + 1
    BY <1>2, <1>10
  <2>2. k - 1 \in S
    BY <1>8, <2>1
  <2>3. f[ClusterCount][c[1]] = Part(c, 1, k)
    BY <1>2, <2>1, <2>2
  <2>4. QED
    BY <1>1, <1>10, <2>3
<1>11. QED
  BY <1>9, <1>10

(* A file has no more clusters than there are.                             *)
LEMMA FewClusters ==
  ASSUME NEW q \in Layouts, Distinct(q), NEW n \in Names
  PROVE  Len(q[n]) <= ClusterCount
<1> DEFINE k == Len(q[n])
           f == [i \in 1 .. k |-> q[n][i]]
<1>1. q[n] \in Seq(Clusters) /\ k \in Nat
  BY DEF Layouts
<1>2. f \in [1 .. k -> Clusters]
  BY <1>1
<1>3. \A i, j \in 1 .. k : f[i] = f[j] => i = j
  BY <1>1 DEF Distinct
<1> HIDE DEF f
<1>4. f \in Injection(1 .. k, Clusters)
  BY <1>2, <1>3 DEF Injection, IsInjective
<1>5. /\ IsFiniteSet(Clusters) /\ Cardinality(Clusters) = ClusterCount
      /\ Cardinality(1 .. k) = k
  <2>1. /\ 2 \in Int /\ LastCluster \in Int /\ ~ (2 > LastCluster)
        /\ LastCluster - 2 + 1 = ClusterCount
    BY VolumeAssumption DEF LastCluster
  <2>2. IsFiniteSet(Clusters) /\ Cardinality(Clusters) = ClusterCount
    BY <2>1, FS_Interval DEF Clusters
  <2>3. Cardinality(1 .. k) = IF 1 > k THEN 0 ELSE k - 1 + 1
    <3>1. 1 \in Int /\ k \in Int
      BY <1>1
    <3>2. QED
      BY <3>1, FS_Interval, Zenon
  <2>4. QED
    BY <1>1, <2>2, <2>3
<1>6. Cardinality(1 .. k) <= Cardinality(Clusters)
  BY <1>4, <1>5, FS_Injection
<1>7. QED
  BY <1>5, <1>6

(* The chain and the contents of a file on a volume.                       *)
LEMMA FatOfVolume ==
  ASSUME NEW v \in Views, NEW blocks, \A b \in Primary : blocks[b] = v[b]
  PROVE  /\ FatOf(blocks) \in [0 .. LastCluster -> 0 .. EOC]
         /\ \A c \in 0 .. LastCluster : FatOf(blocks)[c] = FatIn(v, c)
<1>1. ASSUME NEW c \in 0 .. LastCluster
      PROVE  blocks[FatBlock(c)][c] = FatIn(v, c) /\ FatIn(v, c) \in 0 .. EOC
  <2>1. FatBlock(c) \in Primary
    BY DEF Primary, FatBlocks
  <2>2. FatIn(v, c) \in 0 .. EOC
    BY FatTyped
  <2>3. QED
    BY <2>1, <2>2 DEF FatIn
<1>2. QED
  BY <1>1 DEF FatOf

LEMMA FileChain ==
  ASSUME NEW q \in Layouts, Distinct(q), NEW n \in Names,
         NEW v \in Views, NEW blocks, \A b \in Primary : blocks[b] = v[b],
         NEW k \in 0 .. Len(q[n]), NEW first, ChainOk(v, first, q[n], k)
  PROVE  /\ Chain(FatOf(blocks), first) = Part(q[n], 1, k)
         /\ k \in Nat /\ Len(Part(q[n], 1, k)) = k
         /\ \A i \in 1 .. k : Part(q[n], 1, k)[i] = q[n][i]
<1> DEFINE c == q[n]
           fat == FatOf(blocks)
<1>1. c \in Seq(Clusters) /\ Len(c) \in Nat /\ Len(c) <= ClusterCount
  BY FewClusters DEF Layouts
<1>2. k \in Nat /\ k <= ClusterCount
  BY <1>1, VolumeAssumption
<1>3. /\ fat \in [0 .. LastCluster -> 0 .. EOC]
      /\ \A d \in 0 .. LastCluster : fat[d] = FatIn(v, d)
  BY FatOfVolume
<1>4. ASSUME NEW i \in 1 .. k
      PROVE  fat[c[i]] = IF i < k THEN c[i + 1] ELSE EOC
  <2>1. c[i] \in Clusters
    BY <1>1
  <2>2. c[i] \in 0 .. LastCluster
    BY <2>1 DEF Clusters
  <2>3. FatIn(v, c[i]) = IF i < k THEN c[i + 1] ELSE EOC
    BY DEF ChainOk
  <2>4. QED
    BY <1>3, <2>2, <2>3
<1>5. first = IF k = 0 THEN 0 ELSE c[1]
  BY DEF ChainOk
<1>6. k \in 0 .. Len(c)
  OBVIOUS
<1> HIDE DEF c, fat
<1>7. Chain(fat, first) = Part(c, 1, k)
  BY <1>1, <1>2, <1>3, <1>4, <1>5, <1>6, ChainOfClusters
<1>8. Len(Part(c, 1, k)) = k /\ \A i \in 1 .. k : Part(c, 1, k)[i] = c[i]
  <2>1. Part(c, 1, k) = [j \in 1 .. k |-> c[j]]
    <3>1. k - 1 + 1 = k /\ \A j \in 1 .. k : 1 + j - 1 = j
      BY <1>2
    <3>2. QED
      BY <3>1 DEF Part
  <2>2. QED
    BY <1>2, <2>1
<1>9. QED
  BY <1>2, <1>7, <1>8 DEF c, fat

LEMMA FileContents ==
  ASSUME NEW q \in Layouts, Distinct(q), NEW n \in Names,
         NEW v \in Views, NEW blocks, \A b \in Primary : blocks[b] = v[b],
         NEW k \in 0 .. Len(q[n]), NEW first, ChainOk(v, first, q[n], k),
         NEW size \in Nat, Holds(v, n, q[n], k, size)
  PROVE  Contents(blocks, first, size) = Units(n, 0, size)
<1> DEFINE c == q[n]
           chain == Chain(FatOf(blocks), first)
<1>1. c \in Seq(Clusters) /\ Len(c) \in Nat /\ k \in Nat
  BY DEF Layouts
<1>2. /\ Len(chain) = k /\ \A i \in 1 .. k : chain[i] = c[i]
  BY FileChain
<1> HIDE DEF chain
<1>3. ASSUME NEW i \in 1 .. size
      PROVE  (LET x == (i - 1) \div ClusterUnits + 1
                  b == ((i - 1) \div UnitsPerBlock) % BlocksPerCluster
              IN IF x > Len(chain) THEN Junk
                 ELSE blocks[DataBlock(chain[x], b)][(i - 1) % UnitsPerBlock])
               = <<n, 0 + i - 1>>
  <2> DEFINE j == i - 1
             x == j \div ClusterUnits + 1
             b == (j \div UnitsPerBlock) % BlocksPerCluster
  <2>1. j \in Nat /\ j \in 0 .. size - 1 /\ 0 + i - 1 = j
    OBVIOUS
  <2> HIDE DEF j
  <2>2. ClusterIx(j) <= k /\ v[PlaceOf(c, j)][j % UnitsPerBlock] = <<n, j>>
    BY <2>1 DEF Holds
  <2>3. x = ClusterIx(j) /\ b = BlockIx(j) /\ x \in Nat \ {0}
    BY <2>1, ClusterOfUnit, Positions DEF BlockIx, Seg
  <2>4. PlaceOf(c, j) \in Primary /\ PlaceOf(c, j) = DataBlock(c[x], b)
    <3>1. PlaceOf(c, j) \in Primary
      <4>1. ClusterIx(j) <= Len(c)
        BY <1>1, <2>2, <2>3
      <4>2. QED
        BY <1>1, <2>1, <4>1, PlaceTyped
    <3>2. QED
      BY <2>3, <3>1 DEF PlaceOf
  <2> HIDE DEF x, b, c
  <2>5. x \in 1 .. k /\ ~ (x > Len(chain)) /\ chain[x] = c[x]
    <3>1. x \in 1 .. k
      BY <1>1, <2>2, <2>3
    <3>2. QED
      BY <1>1, <1>2, <3>1
  <2>6. blocks[DataBlock(chain[x], b)][j % UnitsPerBlock] = <<n, j>>
    BY <2>2, <2>4, <2>5
  <2>7. (IF x > Len(chain) THEN Junk
         ELSE blocks[DataBlock(chain[x], b)][j % UnitsPerBlock]) = <<n, j>>
    BY <2>5, <2>6
  <2>8. QED
    BY <2>1, <2>7 DEF x, b, j
<1>4. QED
  BY <1>3, Zenon DEF Contents, Units, chain

-----------------------------------------------------------------------------
(* What the invariant says of the files.                                   *)
LEMMA VolumesSeen ==
  ASSUME NEW q \in Layouts, NEW d \in DirData, Quiet(vol, handle, q, {d})
  PROVE  /\ \A b \in Primary : Seen(vol)[b] = View(vol)[b]
         /\ \A b \in Primary : vol.disk[b] = OnCard(vol.disk)[b]
         /\ Seen(vol)[DirBlock] = d /\ vol.disk[DirBlock] = d
<1>1. \A b \in Primary : Seen(vol)[b] = View(vol)[b] /\ vol.disk[b] = OnCard(vol.disk)[b]
  BY BlockKinds DEF Seen, View, OnCard
<1>2. View(vol)[DirBlock] = d /\ OnCard(vol.disk)[DirBlock] = d
  <2>1. Dir(vol) = d
    BY QuietEntries
  <2>2. OnCard(vol.disk)[DirBlock] = d
    BY QuietEntries
  <2>3. QED
    BY <2>1, <2>2 DEF Dir
<1>3. QED
  BY <1>1, <1>2, BlockKinds

LEMMA VisibleFile ==
  ASSUME NEW q \in Layouts, NEW d \in DirData, NEW n \in Names,
         handle \in [Names -> Handle], Quiet(vol, handle, q, {d})
  PROVE  /\ SizeOf(n) = SizesOf(handle, d)[n] /\ SizeOf(n) \in Nat
         /\ ChainOk(View(vol), FirstOf(n), q[n], Len(q[n]))
         /\ Holds(View(vol), n, q[n], Len(q[n]), SizeOf(n))
<1> DEFINE f == handle[n]
           v == View(vol)
<1>1. FileOk(v, f, n, q[n]) /\ v[DirBlock] = d
  BY QuietDir DEF Files, Dir
<1>2. Entry(n) = d[n]
  BY VolumesSeen DEF Entry
<1>3. f \in Handle /\ d[n] \in EntryType
  BY DEF DirData
<1> HIDE DEF v
<1>4. CASE f.open
  <2>1. FirstOf(n) = f.first /\ SizeOf(n) = f.size
    BY <1>4 DEF FirstOf, SizeOf, IsOpen
  <2>2. SizesOf(handle, d)[n] = f.size
    BY <1>4 DEF SizesOf
  <2>3. f.size \in Nat
    BY <1>3 DEF Handle
  <2>4. ChainOk(v, f.first, q[n], Len(q[n])) /\ Holds(v, n, q[n], Len(q[n]), f.size)
    BY <1>1, <1>4 DEF FileOk, OpenOk
  <2>5. QED
    BY <2>1, <2>2, <2>3, <2>4 DEF v
<1>5. CASE ~ f.open
  <2>1. FirstOf(n) = d[n].first /\ SizeOf(n) = d[n].size
    BY <1>2, <1>5 DEF FirstOf, SizeOf, IsOpen
  <2>2. SizesOf(handle, d)[n] = d[n].size
    BY <1>5 DEF SizesOf
  <2>3. d[n].size \in Nat
    BY <1>3 DEF EntryType
  <2>4. ChainOk(v, d[n].first, q[n], Len(q[n])) /\ Holds(v, n, q[n], Len(q[n]), d[n].size)
    BY <1>1, <1>5 DEF FileOk, ClosedOk
  <2>5. QED
    BY <2>1, <2>2, <2>3, <2>4 DEF v
<1>6. QED
  BY <1>4, <1>5

LEMMA FilesContents ==
  ASSUME NEW q \in Layouts, NEW d \in DirData, NEW n \in Names,
         handle \in [Names -> Handle], Quiet(vol, handle, q, {d})
  PROVE  /\ VisibleContents(n) = Units(n, 0, SizesOf(handle, d)[n])
         /\ SizeOf(n) = SizesOf(handle, d)[n]
         /\ DurableContents(n) = Units(n, 0, CardSizes(d)[n])
         /\ CardEntry(n).size = CardSizes(d)[n]
         /\ SizesOf(handle, d)[n] \in Nat /\ CardSizes(d)[n] \in Nat
<1> DEFINE v == View(vol)
           w == OnCard(vol.disk)
           e == d[n]
<1>1. /\ v \in Views /\ w \in Views /\ w[DirBlock] = d
      /\ Files(v, handle, q) /\ vol \in State
      /\ Distinct(q)
  <2>1. /\ v \in Views /\ w \in Views
        /\ w[DirBlock] = d
    <3>1. v \in Views
      BY QuietDir
    <3>2. w \in Views
      BY QuietDir
    <3>3. w[DirBlock] = d
      BY QuietEntries
    <3>4. QED
      BY <3>1, <3>2, <3>3
  <2>2. Files(v, handle, q) /\ vol \in State
    BY QuietDir
  <2>3. Distinct(q)
    BY <2>2 DEF Files
  <2>4. QED
    BY <2>1, <2>2, <2>3
<1>2. /\ \A b \in Primary : Seen(vol)[b] = v[b]
      /\ \A b \in Primary : vol.disk[b] = w[b]
      /\ vol.disk[DirBlock] = d
  BY VolumesSeen
<1>3. VisibleContents(n) = Units(n, 0, SizeOf(n))
  <2> DEFINE first == FirstOf(n)
             size == SizeOf(n)
             k == Len(q[n])
  <2>1. /\ size \in Nat /\ ChainOk(v, first, q[n], k) /\ Holds(v, n, q[n], k, size)
    BY VisibleFile
  <2>2. k \in 0 .. Len(q[n])
    BY DEF Layouts
  <2> HIDE DEF first, size, v, k
  <2>3. Contents(Seen(vol), first, size) = Units(n, 0, size)
    BY <1>1, <1>2, <2>1, <2>2, FileContents
  <2>4. QED
    BY <2>3 DEF VisibleContents, first, size
<1>4. CardEntry(n) = e /\ e.size \in Nat
  BY <1>2 DEF CardEntry, DirData, EntryType
<1>5. DurableContents(n) = Units(n, 0, e.size)
  <2>1. Sound(w, q)
    BY DEF Quiet, Good, Cards
  <2>2. PICK k \in 0 .. Len(q[n]) : ChainOk(w, e.first, q[n], k)
                                      /\ Holds(w, n, q[n], k, e.size)
    BY <1>1, <2>1 DEF Sound, CardOk
  <2> DEFINE first == e.first
             size == e.size
  <2>3. size \in Nat /\ ChainOk(w, first, q[n], k) /\ Holds(w, n, q[n], k, size)
    BY <1>4, <2>2
  <2> HIDE DEF first, size, w
  <2>4. Contents(vol.disk, first, size) = Units(n, 0, size)
    BY <1>1, <1>2, <2>3, FileContents
  <2>5. QED
    BY <1>4, <2>4 DEF DurableContents, first, size
<1>6. CardSizes(d)[n] = e.size
  BY DEF CardSizes
<1>7. SizeOf(n) = SizesOf(handle, d)[n] /\ SizeOf(n) \in Nat
  BY VisibleFile
<1>8. QED
  BY <1>3, <1>4, <1>5, <1>6, <1>7

LEMMA ReadsBack == LogInv => ReadBack /\ CrashConsistent
<1> SUFFICES ASSUME LogInv PROVE ReadBack /\ CrashConsistent
  OBVIOUS
<1>1. PICK q \in Layouts, d \in DirData : Quiet(vol, handle, q, {d})
  BY DEF LogInv, Stable
<1>2. handle \in [Names -> Handle]
  BY DEF LogInv, Stable
<1>3. QED
  BY <1>1, <1>2, FilesContents DEF ReadBack, CrashConsistent

LEMMA CurrentClusters == LogInv => ClusterOfPosition
<1> SUFFICES ASSUME LogInv, NEW n \in Names, IsOpen(n)
             PROVE  LET h == handle[n]
                        chain == Chain(FatOf(Seen(vol)), h.first)
                    IN IF h.pos = 0 THEN h.cur = 0
                       ELSE /\ (h.pos - 1) \div ClusterUnits < Len(chain)
                            /\ h.cur = chain[(h.pos - 1) \div ClusterUnits + 1]
  BY DEF ClusterOfPosition
<1> DEFINE f == handle[n]
           v == View(vol)
           chain == Chain(FatOf(Seen(vol)), f.first)
<1>1. PICK q \in Layouts, d \in DirData : Quiet(vol, handle, q, {d})
  BY DEF LogInv, Stable
<1>2. f \in Handle /\ f.open
  BY DEF LogInv, Stable, IsOpen
<1>3. v \in Views /\ Files(v, handle, q) /\ CurOk(f, q[n])
  BY <1>1, QuietDir DEF Quiet
<1>4. OpenOk(v, f, n, q[n]) /\ Distinct(q)
  BY <1>2, <1>3 DEF Files, FileOk
<1> DEFINE first == f.first
           k == Len(q[n])
           c == q[n]
<1>5. /\ Len(chain) = k /\ \A i \in 1 .. k : chain[i] = c[i]
  <2>1. ChainOk(v, first, c, k)
    BY <1>4 DEF OpenOk
  <2>2. \A b \in Primary : Seen(vol)[b] = v[b]
    BY <1>1, VolumesSeen
  <2>3. k \in 0 .. Len(c)
    BY DEF Layouts
  <2> DEFINE blocks == Seen(vol)
  <2> HIDE DEF first, k, v, blocks
  <2>4. v \in Views /\ Distinct(q) /\ \A b \in Primary : blocks[b] = v[b]
    BY <1>3, <1>4, <2>2 DEF blocks
  <2>5. Chain(FatOf(blocks), first) = Part(c, 1, k)
    BY <2>1, <2>3, <2>4, FileChain
  <2>6. Len(Part(c, 1, k)) = k /\ \A i \in 1 .. k : Part(c, 1, k)[i] = c[i]
    BY <2>1, <2>3, <2>4, FileChain
  <2>7. QED
    BY <2>5, <2>6 DEF first, blocks
<1>6. CASE f.pos = 0
  BY <1>3, <1>6 DEF CurOk
<1>7. CASE f.pos # 0
  <2> DEFINE j == f.pos - 1
  <2>1. f.pos \in Nat
    BY <1>2 DEF Handle
  <2>2. j \in Nat /\ j \in 0 .. f.pos - 1
    BY <1>7, <2>1
  <2>3. ClusterIx(j) <= k
    BY <1>4, <2>2 DEF OpenOk, Holds
  <2>4. f.cur = c[ClusterIx(j)]
    BY <1>3, <1>7 DEF CurOk
  <2> HIDE DEF j
  <2>5. j \div ClusterUnits + 1 = ClusterIx(j) /\ ClusterIx(j) \in Nat \ {0}
          /\ ClusterUnits \in Nat \ {0}
    BY <2>2, ClusterOfUnit, Positions
  <2>6. k \in Nat
    BY DEF Layouts
  <2>7. j \div ClusterUnits \in Nat
    BY <2>2, <2>5
  <2> DEFINE x == j \div ClusterUnits
  <2> HIDE DEF x, chain, k, c
  <2>8. x < Len(chain) /\ x + 1 \in 1 .. k
    BY <1>5, <2>3, <2>5, <2>6, <2>7 DEF x
  <2>9. f.cur = chain[x + 1]
    BY <1>5, <2>4, <2>5, <2>8 DEF x
  <2>10. QED
    BY <1>7, <2>8, <2>9 DEF x, j, chain
<1>8. QED
  BY <1>6, <1>7

(* The clusters of a chain, and those of different files.                  *)
Members(chain) == {chain[i] : i \in 1 .. Len(chain)}

LEMMA VolumeDisjoint ==
  ASSUME NEW q \in Layouts, NEW v \in Views, Distinct(q), Linked(v),
         NEW blocks, \A b \in Primary : blocks[b] = v[b], NEW F,
         \A n \in Names : \E k \in 0 .. Len(q[n]) : ChainOk(v, F[n], q[n], k)
  PROVE  /\ LinksInjective(FatOf(blocks))
         /\ \A m, n \in Names : m # n =>
              Members(Chain(FatOf(blocks), F[m])) \cap Members(Chain(FatOf(blocks), F[n])) = {}
<1> DEFINE fat == FatOf(blocks)
<1>1. \A c \in Clusters : fat[c] = FatIn(v, c)
  BY FatOfVolume DEF Clusters
<1> HIDE DEF fat
<1>2. LinksInjective(fat)
  BY <1>1 DEF LinksInjective, Linked
<1>3. ASSUME NEW n \in Names, NEW x \in Members(Chain(fat, F[n]))
      PROVE  \E i \in 1 .. Len(q[n]) : x = q[n][i]
  <2>1. PICK k \in 0 .. Len(q[n]) : ChainOk(v, F[n], q[n], k)
    OBVIOUS
  <2> DEFINE first == F[n]
  <2> HIDE DEF first
  <2>2. ChainOk(v, first, q[n], k)
    BY <2>1 DEF first
  <2>3. Chain(fat, first) = Part(q[n], 1, k)
    BY <2>2, FileChain DEF fat
  <2>4. Len(Part(q[n], 1, k)) = k /\ \A i \in 1 .. k : Part(q[n], 1, k)[i] = q[n][i]
    BY <2>2, FileChain
  <2>5. Len(q[n]) \in Nat
    BY DEF Layouts
  <2>6. PICK i \in 1 .. k : x = q[n][i]
    BY <2>3, <2>4 DEF Members, first
  <2>7. i \in 1 .. Len(q[n])
    BY <2>5
  <2>8. QED
    BY <2>6, <2>7
<1>4. ASSUME NEW m \in Names, NEW n \in Names, m # n
      PROVE  Members(Chain(fat, F[m])) \cap Members(Chain(fat, F[n])) = {}
  <2>1. SUFFICES ASSUME NEW x \in Members(Chain(fat, F[m])), x \in Members(Chain(fat, F[n]))
                 PROVE  FALSE
    OBVIOUS
  <2>2. PICK i \in 1 .. Len(q[m]) : x = q[m][i]
    BY <1>3
  <2>3. PICK j \in 1 .. Len(q[n]) : x = q[n][j]
    BY <1>3, <2>1
  <2>4. q[m][i] = q[n][j]
    BY <2>2, <2>3
  <2>5. m = n
    BY <2>4, Zenon DEF Distinct
  <2>6. QED
    BY <1>4, <2>5
<1>5. QED
  BY <1>2, <1>4 DEF fat

LEMMA FilesDisjoint == LogInv => NoCrossLink
<1> SUFFICES ASSUME LogInv PROVE NoCrossLink
  OBVIOUS
<1>1. PICK q \in Layouts, d \in DirData : Quiet(vol, handle, q, {d})
  BY DEF LogInv, Stable
<1>2. handle \in [Names -> Handle]
  BY DEF LogInv, Stable
<1> DEFINE v == View(vol)
           w == OnCard(vol.disk)
           F == [n \in Names |-> FirstOf(n)]
           G == [n \in Names |-> CardEntry(n).first]
           X == Seen(vol)
           Y == vol.disk
<1>3. v \in Views /\ Files(v, handle, q)
  BY <1>1, QuietDir
<1>4. w \in Views /\ w \in Cards(q, {d})
  BY <1>1, QuietDir DEF Quiet, Good
<1>5. Distinct(q) /\ Linked(v) /\ Linked(w) /\ \A n \in Names : CardOk(w, n, q[n])
  BY <1>3, <1>4 DEF Files, Cards, Sound
<1>6. /\ \A b \in Primary : X[b] = v[b]
      /\ \A b \in Primary : Y[b] = w[b]
      /\ w[DirBlock] = d /\ vol.disk[DirBlock] = d
  BY <1>1, <1>4, VolumesSeen DEF Cards
<1>7. ASSUME NEW n \in Names PROVE \E k \in 0 .. Len(q[n]) : ChainOk(v, F[n], q[n], k)
  <2>1. ChainOk(v, FirstOf(n), q[n], Len(q[n]))
    BY <1>1, <1>2, VisibleFile
  <2>2. Len(q[n]) \in 0 .. Len(q[n])
    BY DEF Layouts
  <2>3. QED
    BY <2>1, <2>2
<1>8. ASSUME NEW n \in Names PROVE \E k \in 0 .. Len(q[n]) : ChainOk(w, G[n], q[n], k)
  <2>1. G[n] = d[n].first
    BY <1>6 DEF CardEntry
  <2>2. QED
    BY <1>5, <1>6, <2>1 DEF CardOk
<1> HIDE DEF v, w, X, Y, F, G
<1>9. /\ LinksInjective(FatOf(X))
      /\ \A m, n \in Names : m # n =>
              Members(Chain(FatOf(X), F[m])) \cap Members(Chain(FatOf(X), F[n])) = {}
  BY <1>3, <1>5, <1>6, <1>7, VolumeDisjoint
<1>10. /\ LinksInjective(FatOf(Y))
       /\ \A m, n \in Names : m # n =>
              Members(Chain(FatOf(Y), G[m])) \cap Members(Chain(FatOf(Y), G[n])) = {}
  BY <1>4, <1>5, <1>6, <1>8, VolumeDisjoint
<1>11. \A n \in Names : F[n] = FirstOf(n) /\ G[n] = CardEntry(n).first
  BY DEF F, G
<1>12. Disjoint(FatOf(X), FirstOf)
  <2>1. \A m, n \in Names : m # n =>
          Members(Chain(FatOf(X), FirstOf(m))) \cap Members(Chain(FatOf(X), FirstOf(n))) = {}
    BY <1>9, <1>11, Zenon
  <2>2. QED
    BY <1>9, <2>1, Zenon DEF Disjoint, Members
<1>13. Disjoint(FatOf(Y), LAMBDA n : CardEntry(n).first)
  <2>1. \A m, n \in Names : m # n =>
          Members(Chain(FatOf(Y), CardEntry(m).first))
            \cap Members(Chain(FatOf(Y), CardEntry(n).first)) = {}
    BY <1>10, <1>11, Zenon
  <2>2. QED
    BY <1>10, <2>1, Zenon DEF Disjoint, Members
<1>14. QED
  BY <1>12, <1>13, Zenon DEF NoCrossLink, X, Y

-----------------------------------------------------------------------------
(* Without card failures, appending to files and syncing them while the    *)
(* power may fail at any card command:                                     *)

(* After a power failure at any point of a call a restart finds every file *)
(* with the size of its directory entry backed by its own data.            *)
THEOREM LogCrashConsistent == ~ CardMayFail => (LogSpec => []CrashConsistent)
<1>1. LogInv => CrashConsistent
  BY ReadsBack
<1>2. QED
  BY <1>1, LogInvariant, PTL

(* Every position of a file reads back what was written there, whichever   *)
(* block the shared cache holds.                                           *)
THEOREM LogReadBack == ~ CardMayFail => (LogSpec => []ReadBack)
<1>1. LogInv => ReadBack
  BY ReadsBack
<1>2. QED
  BY <1>1, LogInvariant, PTL

(* No cluster belongs to two files, neither as the library sees the table  *)
(* nor as a restart would find it.                                         *)
THEOREM LogNoCrossLink == ~ CardMayFail => (LogSpec => []NoCrossLink)
<1>1. LogInv => NoCrossLink
  BY FilesDisjoint
<1>2. QED
  BY <1>1, LogInvariant, PTL

(* curCluster_ is the cluster that holds the last unit before the position.*)
THEOREM LogClusterOfPosition == ~ CardMayFail => (LogSpec => []ClusterOfPosition)
<1>1. LogInv => ClusterOfPosition
  BY CurrentClusters
<1>2. QED
  BY <1>1, LogInvariant, PTL

-----------------------------------------------------------------------------
(* The library implements FileStore.                                       *)
Filled(x) == [n \in Names |-> Units(n, 0, x[n])]

LEMMA StoreView ==
  ASSUME LogInv
  PROVE  LET x == SizesOf(handle, Dir(vol))
             y == CardSizes(Dir(vol))
         IN /\ x \in [Names -> Nat] /\ y \in [Names -> Nat]
            /\ [n \in Names |-> VisibleContents(n)] = Filled(x)
            /\ [n \in Names |-> DurableContents(n)] = Filled(y)
<1> DEFINE x == SizesOf(handle, Dir(vol))
           y == CardSizes(Dir(vol))
<1>1. PICK q \in Layouts, d \in DirData : Quiet(vol, handle, q, {d})
  BY DEF LogInv, Stable
<1>2. handle \in [Names -> Handle] /\ Dir(vol) = d
  BY <1>1, QuietEntries DEF LogInv, Stable
<1>3. ASSUME NEW n \in Names
      PROVE  /\ VisibleContents(n) = Units(n, 0, x[n]) /\ x[n] \in Nat
             /\ DurableContents(n) = Units(n, 0, y[n]) /\ y[n] \in Nat
  BY <1>1, <1>2, FilesContents
<1>4. x = [n \in Names |-> x[n]] /\ y = [n \in Names |-> y[n]]
  BY DEF SizesOf, CardSizes
<1> HIDE DEF x, y
<1>5. x \in [Names -> Nat] /\ y \in [Names -> Nat]
  BY <1>3, <1>4
<1>6. /\ [n \in Names |-> VisibleContents(n)] = Filled(x)
      /\ [n \in Names |-> DurableContents(n)] = Filled(y)
  BY <1>3 DEF Filled
<1>7. QED
  BY <1>5, <1>6 DEF x, y

LEMMA FilledLonger ==
  ASSUME NEW x \in [Names -> Nat], NEW y \in [Names -> Nat], NEW n \in Names, x[n] < y[n]
  PROVE  /\ Len(Filled(x)[n]) < Len(Filled(y)[n])
         /\ SubSeq(Filled(y)[n], 1, Len(Filled(x)[n])) = Filled(x)[n]
<1> DEFINE a == Units(n, 0, x[n])
           b == Units(n, 0, y[n])
           i == x[n]
           j == y[n]
           S == Names \X Nat
<1>1. Filled(x)[n] = a /\ Filled(y)[n] = b
  BY DEF Filled
<1>2. i \in Nat /\ j \in Nat /\ i < j
  OBVIOUS
<1> HIDE DEF i, j
<1>3. a = [k \in 1 .. i |-> <<n, 0 + k - 1>>] /\ b = [k \in 1 .. j |-> <<n, 0 + k - 1>>]
  BY DEF Units, i, j
<1>4. \A k \in 1 .. j : <<n, 0 + k - 1>> \in S
  BY <1>2
<1> HIDE DEF a, b, S
<1>5. a \in Seq(S) /\ Len(a) = i /\ \A k \in 1 .. i : a[k] = <<n, 0 + k - 1>>
  <2>1. \A k \in 1 .. i : <<n, 0 + k - 1>> \in S
    BY <1>2, <1>4
  <2>2. QED
    BY <1>2, <1>3, <2>1
<1>6. b \in Seq(S) /\ Len(b) = j /\ \A k \in 1 .. j : b[k] = <<n, 0 + k - 1>>
  BY <1>2, <1>3, <1>4
<1>7. SubSeq(b, 1, i) = a
  <2> DEFINE c == SubSeq(b, 1, i)
  <2>1. c \in Seq(S) /\ Len(c) = i /\ \A k \in 1 .. i : c[k] = b[k]
    <3>1. 1 \in Int /\ i \in Int /\ \A k \in 1 .. i : b[k] \in S
      BY <1>2, <1>6
    <3>2. /\ c \in Seq(S) /\ Len(c) = IF 1 <= i THEN i - 1 + 1 ELSE 0
          /\ \A k \in 1 .. i - 1 + 1 : c[k] = b[1 + k - 1]
      <4>1. c \in Seq(S)
        BY <3>1, SubSeqProperties
      <4>2. Len(c) = IF 1 <= i THEN i - 1 + 1 ELSE 0
        BY <3>1, SubSeqProperties
      <4>3. \A k \in 1 .. i - 1 + 1 : c[k] = b[1 + k - 1]
        BY <3>1, SubSeqProperties
      <4>4. QED
        BY <4>1, <4>2, <4>3
    <3> HIDE DEF c
    <3>3. /\ i - 1 + 1 = i /\ \A k \in 1 .. i : 1 + k - 1 = k
          /\ (IF 1 <= i THEN i - 1 + 1 ELSE 0) = i
      BY <1>2
    <3>4. QED
      BY <3>2, <3>3
  <2> HIDE DEF c
  <2>2. \A k \in 1 .. i : b[k] = a[k]
    <3>1. \A k \in 1 .. i : k \in 1 .. j
      BY <1>2
    <3>2. QED
      BY <1>5, <1>6, <3>1
  <2>3. c = a
    BY <1>5, <2>1, <2>2
  <2>4. QED
    BY <2>3 DEF c
<1>8. QED
  BY <1>1, <1>2, <1>5, <1>6, <1>7

LEMMA FilledAt ==
  ASSUME NEW x, NEW y, NEW n \in Names, x[n] = y[n]
  PROVE  Filled(x)[n] = Filled(y)[n]
BY DEF Filled

Updated(z, y, n, x) == z = [y EXCEPT ![n] = x[n]]

LEMMA FilledUpdated ==
  ASSUME NEW x \in [Names -> Nat], NEW y \in [Names -> Nat], NEW n \in Names,
         NEW z, Updated(z, y, n, x)
  PROVE  Updated(Filled(z), Filled(y), n, Filled(x))
<1>1. \A m \in Names : Filled(x)[m] = Units(m, 0, x[m]) /\ Filled(y)[m] = Units(m, 0, y[m])
  BY DEF Filled
<1>2. z \in [Names -> Nat] /\ \A m \in Names : z[m] = IF m = n THEN x[n] ELSE y[m]
  BY DEF Updated
<1>3. ASSUME NEW m \in Names
      PROVE  Units(m, 0, z[m]) = IF m = n THEN Filled(x)[n] ELSE Filled(y)[m]
  BY <1>1, <1>2
<1>4. [Filled(y) EXCEPT ![n] = Filled(x)[n]]
          = [m \in Names |-> IF m = n THEN Filled(x)[n] ELSE Filled(y)[m]]
  BY DEF Filled
<1>5. QED
  BY <1>3, <1>4 DEF Filled, Updated

(* Every step of a logging call is one of the file store, or none.         *)
StoreChange(c, d, c2, d2) ==
  \/ c2 = c /\ d2 = d
  \/ \E n \in Names : /\ Len(c[n]) < Len(c2[n])
                      /\ SubSeq(c2[n], 1, Len(c[n])) = c[n]
                      /\ \A m \in Names \ {n} : c2[m] = c[m]
                      /\ d2 = d
  \/ \E n \in Names : d2 = [d EXCEPT ![n] = c[n]] /\ c2 = c
  \/ /\ d2 = d \/ \E n \in Names : d2 = [d EXCEPT ![n] = c[n]]
     /\ c2 = d2

LEMMA StoreStep ==
  ASSUME NEW x \in [Names -> Nat], NEW y \in [Names -> Nat],
         NEW x2 \in [Names -> Nat], NEW y2 \in [Names -> Nat], StoreMoves(x, y, x2, y2),
         NEW c, c = Filled(x), NEW d, d = Filled(y), NEW c2, c2 = Filled(x2),
         NEW d2, d2 = Filled(y2)
  PROVE  StoreChange(c, d, c2, d2)
<1>1. CASE \E n \in Names : x2[n] >= x[n] /\ (\A m \in Names \ {n} : x2[m] = x[m]) /\ y2 = y
  <2>1. PICK n \in Names : x2[n] >= x[n] /\ (\A m \in Names \ {n} : x2[m] = x[m]) /\ y2 = y
    BY <1>1
  <2>2. d2 = d
    BY <2>1
  <2>3. CASE x2[n] = x[n]
    <3>1. \A m \in Names : x2[m] = x[m]
      BY <2>1, <2>3
    <3>2. x2 = x
      BY <3>1
    <3>3. QED
      BY <2>2, <3>2 DEF StoreChange
  <2>4. CASE x2[n] # x[n]
    <3>1. x[n] < x2[n]
      BY <2>1, <2>4
    <3>2. Len(c[n]) < Len(c2[n]) /\ SubSeq(c2[n], 1, Len(c[n])) = c[n]
      BY <3>1, FilledLonger
    <3>3. ASSUME NEW m \in Names \ {n} PROVE c2[m] = c[m]
      BY <2>1, FilledAt
    <3>4. QED
      BY <2>2, <3>2, <3>3 DEF StoreChange
  <2>5. QED
    BY <2>3, <2>4
<1>2. CASE \E n \in Names : x2 = x /\ y2 = [y EXCEPT ![n] = x[n]]
  <2>1. PICK n \in Names : x2 = x /\ y2 = [y EXCEPT ![n] = x[n]]
    BY <1>2
  <2>2. Updated(y2, y, n, x)
    BY <2>1 DEF Updated
  <2>3. Updated(d2, d, n, c)
    BY <2>2, FilledUpdated
  <2>4. d2 = [d EXCEPT ![n] = c[n]] /\ c2 = c
    BY <2>1, <2>3 DEF Updated
  <2>5. QED
    BY <2>4 DEF StoreChange
<1>3. CASE x2 = y2 /\ Lasting(x, y, y2)
  <2>1. c2 = d2
    BY <1>3
  <2>2. CASE y2 = y
    BY <2>1, <2>2 DEF StoreChange
  <2>3. CASE \E n \in Names : y2 = [y EXCEPT ![n] = x[n]]
    <3>1. PICK n \in Names : y2 = [y EXCEPT ![n] = x[n]]
      BY <2>3
    <3>2. Updated(y2, y, n, x)
      BY <3>1 DEF Updated
    <3>3. Updated(d2, d, n, c)
      BY <3>2, FilledUpdated
    <3>4. QED
      BY <2>1, <3>3 DEF StoreChange, Updated
  <2>4. QED
    BY <1>3, <2>2, <2>3 DEF Lasting
<1>4. QED
  BY <1>1, <1>2, <1>3 DEF StoreMoves

(* What the handles and the directory say, as the store sees it.           *)
Contained == [n \in Names |-> VisibleContents(n)]
Lasted == [n \in Names |-> DurableContents(n)]

StoreSeen ==
  LET x == SizesOf(handle, Dir(vol))
      y == CardSizes(Dir(vol))
  IN /\ x \in [Names -> Nat] /\ y \in [Names -> Nat]
     /\ Contained = Filled(x) /\ Lasted = Filled(y)

LEMMA StoreIsSeen == (LogInv => StoreSeen) /\ (LogInv' => StoreSeen')
<1>1. LogInv => StoreSeen
  BY StoreView DEF StoreSeen, Contained, Lasted
<1>2. QED
  BY <1>1, PTL

LEMMA LogStoreStep ==
  ASSUME ~ CardMayFail, LogInv, [LogNext]_vars
  PROVE  [Store!Next]_Store!vars
<1>1. CASE UNCHANGED vars
  <2>1. vol' = vol /\ handle' = handle
    BY <1>1 DEF vars
  <2>2. Contained' = Contained /\ Lasted' = Lasted
    BY <2>1 DEF Contained, Lasted, VisibleContents, DurableContents, FirstOf, SizeOf, IsOpen,
                Entry, CardEntry
  <2>3. QED
    BY <2>2 DEF Contained, Lasted, Store!vars
<1>2. CASE LogNext
  <2> DEFINE x == SizesOf(handle, Dir(vol))
             y == CardSizes(Dir(vol))
             x2 == SizesOf(handle', Dir(vol'))
             y2 == CardSizes(Dir(vol'))
             c == Contained
             d == Lasted
             c2 == Contained'
             d2 == Lasted'
  <2>1. LogInv' /\ Moves(vol, handle, vol', handle')
    BY <1>2, LogStep
  <2>2. x \in [Names -> Nat] /\ y \in [Names -> Nat] /\ c = Filled(x) /\ d = Filled(y)
    BY StoreIsSeen DEF StoreSeen
  <2>3. x2 \in [Names -> Nat] /\ y2 \in [Names -> Nat] /\ c2 = Filled(x2) /\ d2 = Filled(y2)
    BY <2>1, StoreIsSeen DEF StoreSeen
  <2>4. StoreMoves(x, y, x2, y2)
    BY <2>1 DEF Moves
  <2> HIDE DEF x, y, x2, y2, c, d, c2, d2
  <2>5. StoreChange(c, d, c2, d2)
    BY <2>2, <2>3, <2>4, StoreStep
  <2>6. CASE c2 = c /\ d2 = d
    BY <2>6 DEF Store!vars, Contained, Lasted, c, d, c2, d2
  <2>7. CASE \E n \in Names : /\ Len(c[n]) < Len(c2[n])
                              /\ SubSeq(c2[n], 1, Len(c[n])) = c[n]
                              /\ \A m \in Names \ {n} : c2[m] = c[m]
                              /\ d2 = d
    BY <2>7 DEF Store!Next, Store!Extend, Contained, Lasted, c, d, c2, d2
  <2>8. CASE \E n \in Names : d2 = [d EXCEPT ![n] = c[n]] /\ c2 = c
    BY <2>8 DEF Store!Next, Store!Sync, Contained, Lasted, c, d, c2, d2
  <2>9. CASE /\ d2 = d \/ \E n \in Names : d2 = [d EXCEPT ![n] = c[n]]
             /\ c2 = d2
    BY <2>9 DEF Store!Next, Store!PowerLoss, Contained, Lasted, c, d, c2, d2
  <2>10. QED
    BY <2>5, <2>6, <2>7, <2>8, <2>9 DEF StoreChange
<1>3. QED
  BY <1>1, <1>2

LEMMA LogStoreInit == Init => Store!Init
<1> SUFFICES ASSUME Init PROVE Store!Init
  OBVIOUS
<1>1. LogInv
  BY LogInit
<1>2. vol = Mounted(Formatted) /\ handle = AllClosed
  BY DEF Init, AllClosed
<1> DEFINE z == [n \in Names |-> 0]
<1>3. SizesOf(handle, Dir(vol)) = z /\ CardSizes(Dir(vol)) = z
  BY <1>2, InitStable
<1>4. Contained = Filled(z) /\ Lasted = Filled(z)
  BY <1>1, <1>3, StoreView DEF Contained, Lasted
<1>5. \A n \in Names : Units(n, 0, z[n]) = << >>
  BY DEF Units
<1>6. Filled(z) = [n \in Names |-> << >>]
  <2> HIDE DEF z
  <2>1. QED
    BY <1>5 DEF Filled
<1>7. QED
  BY <1>4, <1>6 DEF Store!Init, Contained, Lasted

(* The library implements FileStore: a write makes a file longer, flush()  *)
(* and close() make its contents durable, and a power failure takes every  *)
(* file back to what was durable, the one that was being synced excepted,  *)
(* which may have all of its contents.                                     *)
THEOREM LogImplementsFileStore == ~ CardMayFail => (LogSpec => ImplementsFileStore)
<1> SUFFICES ASSUME ~ CardMayFail PROVE LogSpec => ImplementsFileStore
  OBVIOUS
<1>1. LogInv /\ [LogNext]_vars => [Store!Next]_Store!vars
  BY LogStoreStep
<1>2. QED
  BY <1>1, LogStoreInit, LogInvariant, PTL DEF LogSpec, ImplementsFileStore, Store!Spec

-----------------------------------------------------------------------------
(* A sync of the logging calls fails only if the power does: the write of  *)
(* a whole block never finds its own block dirty in the cache.             *)
LEMMA SyncFlushes ==
  ASSUME NEW h \in [Names -> Handle], NEW n \in Names, NEW q \in Layouts, NEW d,
         NEW s, Quiet(s, h, q, {d}), h[n].open, NEW o \in FileSync(Started(s, h[n]), n)
  PROVE  o \in OutcomeOf({0}) /\ (o.ok \/ o.s.fault)
<1> DEFINE u == Started(s, h[n])
           f == h[n]
           Dirs == {d}
<1>1. Mid(u, h, n, q, Dirs) /\ CurOk(u.this, q[n]) /\ u.this = f
  <2> HIDE DEF Dirs
  <2>1. Quiet(s, h, q, Dirs)
    BY DEF Dirs
  <2>2. QED
    BY <2>1, QuietMid
<1> HIDE DEF u
<1>2. o \in Flushed(h, n, u.this, d)
  BY <1>1, OfFileSync DEF u
<1>3. QED
  BY <1>2 DEF Flushed

LEMMA CallAnomalies ==
  ASSUME NEW op, NEW name, NEW outcomes, Call(op, name, outcomes),
         op = "sync" => \A o \in outcomes : o.ok \/ o.s.fault
  PROVE  SyncFailsOnlyOnError'
<1>1. PICK o \in outcomes : anomaly' = Anomalies(op, o) \/ anomaly' = {}
  BY DEF Call, Return, Restart
<1>2. Anomalies(op, o) = {}
  BY DEF Anomalies
<1>3. QED
  BY <1>1, <1>2 DEF SyncFailsOnlyOnError

LEMMA LogCallSyncs ==
  ASSUME LogInv, NEW name \in Names, LogCall(name)
  PROVE  SyncFailsOnlyOnError'
<1> DEFINE u == Started(vol, handle[name])
<1>1. PICK q \in Layouts, d \in DirData : Quiet(vol, handle, q, {d})
  BY DEF LogInv, Stable
<1>2. handle \in [Names -> Handle] /\ This(name) = u
  BY DEF LogInv, Stable, This, Started
<1>3. CASE Open(name)
  <2>1. PICK outcomes : Call("open", name, outcomes)
    BY <1>3 DEF Open
  <2>2. QED
    BY <2>1, CallAnomalies
<1>4. CASE Write(name)
  <2>1. PICK outcomes : Call("write", name, outcomes)
    BY <1>4 DEF Write
  <2>2. QED
    BY <2>1, CallAnomalies
<1>5. ASSUME handle[name].open PROVE \A o \in FileSync(u, name) : o \in OutcomeOf({0}) /\ (o.ok \/ o.s.fault)
  BY <1>1, <1>2, <1>5, SyncFlushes
<1>6. CASE Flush(name)
  <2>1. handle[name].open /\ Call("sync", name, FileSync(u, name))
    BY <1>2, <1>6 DEF Flush, IsOpen
  <2>2. QED
    BY <1>5, <2>1, CallAnomalies
<1>7. CASE Close(name)
  <2> DEFINE C(o) == [o EXCEPT !.s.this = Closed]
             outcomes == {C(o) : o \in FileSync(u, name)}
  <2>1. handle[name].open /\ Call("sync", name, outcomes)
    BY <1>2, <1>7 DEF Close, IsOpen
  <2>2. ASSUME NEW o \in FileSync(u, name) PROVE C(o).ok \/ C(o).s.fault
    <3>1. o \in OutcomeOf({0}) /\ o.s \in State /\ (o.ok \/ o.s.fault)
      BY <1>5, <2>1, <2>2 DEF OutcomeOf
    <3> DEFINE c == C(o)
    <3>2. c.ok = o.ok /\ c.s = [o.s EXCEPT !.this = Closed]
      BY <3>1 DEF OutcomeOf
    <3> DEFINE x == o.s
               y == c.s
    <3>3. x \in State /\ y = [x EXCEPT !.this = Closed]
      BY <3>1, <3>2
    <3> HIDE DEF x, y
    <3>4. y.fault = x.fault
      BY <3>3 DEF State
    <3>5. QED
      BY <3>1, <3>2, <3>4 DEF x, y
  <2>3. QED
    BY <2>1, <2>2, CallAnomalies
<1>8. QED
  BY <1>3, <1>4, <1>6, <1>7 DEF LogCall

(* On a card that works, no flush or close of the logging programs fails:  *)
(* the stale dirty flag that write() leaves behind a whole block           *)
(* (SdFile.cpp:1182) needs a seek back.                                    *)
THEOREM LogSyncsSucceed == ~ CardMayFail => (LogSpec => []SyncFailsOnlyOnError)
<1> SUFFICES ASSUME ~ CardMayFail PROVE LogSpec => []SyncFailsOnlyOnError
  OBVIOUS
<1>1. Init => SyncFailsOnlyOnError
  BY DEF Init, SyncFailsOnlyOnError
<1>2. LogInv /\ SyncFailsOnlyOnError /\ [LogNext]_vars => SyncFailsOnlyOnError'
  <2>1. PowerLoss => SyncFailsOnlyOnError'
    BY DEF PowerLoss, Restart, SyncFailsOnlyOnError
  <2>2. SyncFailsOnlyOnError /\ UNCHANGED vars => SyncFailsOnlyOnError'
    BY DEF SyncFailsOnlyOnError, vars
  <2>3. QED
    BY <2>1, <2>2, LogCallSyncs DEF LogNext
<1>3. QED
  BY <1>1, <1>2, LogInvariant, PTL DEF LogSpec

-----------------------------------------------------------------------------
(* Both copies of the table, under every call and on cards that fail.      *)
(* After a failed command a cluster number may be wrong, so that a block   *)
(* of data in the cache need not be a block of the card.                   *)
Places == {DataBlock(c, i) : c \in 0 .. EOC, i \in 0 .. BlocksPerCluster - 1}
Typed(b, data) ==
  /\ b \in FatBlocks => data \in FatData(b[2])
  /\ b = DirBlock => data \in DirData
  /\ b \in Places => data \in UnitData
Loose == [disk : [Blocks -> Data],
          cacheBlock : FatBlocks \cup {DirBlock, NoBlock} \cup Places,
          cacheData : Data \cup {<< >>}, cacheDirty : BOOLEAN,
          cacheMirror : Mirrors \cup {NoBlock}, searchStart : Nat,
          this : Handle, mayFail : BOOLEAN, fault : BOOLEAN]

(* A mirror is owed for a dirty block of the table, and for no other.      *)
Owed(s) ==
  /\ s.cacheMirror # NoBlock => /\ s.cacheDirty /\ s.cacheBlock \in FatBlocks
                                /\ s.cacheMirror = MirrorOf(s.cacheBlock)
  /\ FatCopies > 1 /\ s.cacheDirty /\ s.cacheBlock \in FatBlocks =>
       s.cacheMirror # NoBlock

(* The copies differ at most where the library is going to write both.     *)
Mirrored(disk, b) == disk[b] = disk[MirrorOf(b)]
Copied(s) ==
  FatCopies > 1 =>
    \A b \in FatBlocks : Mirrored(s.disk, b) \/ (s.cacheDirty /\ s.cacheBlock = b)
Agreeing(s) ==
  FatCopies > 1 /\ ~ (CardMayFail \/ PowerMayFail) =>
    \A b \in FatBlocks : Mirrored(s.disk, b)

Orderly(s) ==
  /\ s \in Loose /\ (s.mayFail => CardMayFail \/ PowerMayFail)
  /\ Typed(s.cacheBlock, s.cacheData) /\ \A b \in Blocks : Typed(b, s.disk[b])
  /\ Owed(s) /\ Copied(s)
Sane == {s \in Loose : Orderly(s) /\ Agreeing(s)}
Outs(R) == {o \in [s : Sane, ok : BOOLEAN, result : R \cup {0}] :
              IF o.ok THEN o.result \in R ELSE o.result = 0}

LEMMA PlaceKinds ==
  /\ NoBlock \notin Blocks /\ NoBlock \notin FatBlocks /\ NoBlock # DirBlock
  /\ NoBlock \notin Places /\ DirBlock \notin FatBlocks /\ DirBlock \notin Places
  /\ FatBlocks \cap Places = {} /\ Mirrors \cap Places = {}
  /\ Mirrors \cap FatBlocks = {} /\ DirBlock \notin Mirrors
  /\ FatBlocks \subseteq Blocks /\ DirBlock \in Blocks /\ Mirrors \subseteq Blocks
  /\ DataBlocks \subseteq Places /\ NoBlock \notin Mirrors
  /\ \A b \in FatBlocks : MirrorOf(b) \in Mirrors
  /\ \A a, b \in FatBlocks : MirrorOf(a) = MirrorOf(b) => a = b
<1>1. \A b \in FatBlocks : b[1] = "fat" /\ b = <<"fat", b[2]>>
  BY DEF FatBlocks, FatBlock
<1>2. \A b \in Mirrors : b[1] = "mirror"
  BY DEF Mirrors, MirrorOf
<1>3. \A b \in Places : b[1] = "data"
  BY DEF Places, DataBlock
<1>4. NoBlock[1] = "none" /\ DirBlock[1] = "dir"
  BY DEF NoBlock, DirBlock
<1>5. DataBlocks \subseteq Places
  <2>1. Clusters \subseteq 0 .. EOC
    BY VolumeAssumption DEF Clusters, EOC, LastCluster
  <2>2. QED
    BY <2>1 DEF DataBlocks, Places
<1>6. \A a, b \in FatBlocks : MirrorOf(a) = MirrorOf(b) => a = b
  <2>1. SUFFICES ASSUME NEW a \in FatBlocks, NEW b \in FatBlocks, MirrorOf(a) = MirrorOf(b)
                 PROVE a = b
    OBVIOUS
  <2>2. a[2] = b[2]
    BY <2>1 DEF MirrorOf
  <2>3. QED
    BY <1>1, <2>2
<1>7. \A b \in FatBlocks : MirrorOf(b) \in Mirrors
  BY DEF Mirrors
<1>8. NoBlock \notin Blocks /\ FatBlocks \subseteq Blocks /\ DirBlock \in Blocks
        /\ Mirrors \subseteq Blocks
  BY BlockKinds DEF Blocks, Mirrors
<1>9. QED
  BY <1>1, <1>2, <1>3, <1>4, <1>5, <1>6, <1>7, <1>8

(* What leaves the card and the cache alone keeps them sound.              *)
LEMMA Unmoved ==
  ASSUME NEW s \in Sane, NEW t \in Loose, t.disk = s.disk, t.cacheBlock = s.cacheBlock,
         t.cacheData = s.cacheData, t.cacheDirty = s.cacheDirty,
         t.cacheMirror = s.cacheMirror, t.mayFail = s.mayFail
  PROVE  t \in Sane
<1>1. Orderly(s) /\ Agreeing(s)
  BY DEF Sane
<1>2. Owed(t) /\ Copied(t) /\ Agreeing(t)
  BY <1>1 DEF Orderly, Owed, Copied, Agreeing
<1>3. Orderly(t)
  BY <1>1, <1>2 DEF Orderly
<1>4. QED
  BY <1>2, <1>3 DEF Sane

LEMMA SaneThis ==
  ASSUME NEW s \in Sane, NEW f \in Handle, NEW t, t = [s EXCEPT !.this = f]
  PROVE  t \in Sane /\ t.this = f /\ t.cacheBlock = s.cacheBlock /\ t.cacheData = s.cacheData
<1>1. s \in Loose
  BY DEF Sane
<1>2. /\ t \in Loose /\ t.this = f
      /\ t.disk = s.disk /\ t.cacheBlock = s.cacheBlock /\ t.cacheData = s.cacheData
      /\ t.cacheDirty = s.cacheDirty /\ t.cacheMirror = s.cacheMirror
      /\ t.mayFail = s.mayFail
  BY <1>1 DEF Loose
<1>3. QED
  BY <1>2, Unmoved

LEMMA SaneFacts ==
  ASSUME NEW s \in Sane
  PROVE  /\ s \in Loose /\ s.this \in Handle /\ s.this.cur \in 0 .. EOC
         /\ s.this.first \in 0 .. EOC /\ s.this.pos \in Nat /\ s.this.size \in Nat
         /\ s.searchStart \in Nat
<1>1. s \in Loose
  BY DEF Sane
<1>2. s.this \in Handle /\ s.searchStart \in Nat
  BY <1>1 DEF Loose
<1>3. QED
  BY <1>1, <1>2 DEF Handle

LEMMA OutsTypes ==
  ASSUME NEW s \in Sane
  PROVE  /\ \A R : \A x \in R : Success(s, x) \subseteq Outs(R)
         /\ Done(s) \subseteq Outs({0}) /\ \A R : Failed(s) \subseteq Outs(R)
         /\ \A R : CardFault(s) \subseteq Outs(R)
<1>1. [s EXCEPT !.fault = TRUE] \in Sane
  <2> DEFINE t == [s EXCEPT !.fault = TRUE]
  <2>1. s \in Loose
    BY DEF Sane
  <2>2. /\ t \in Loose /\ t.disk = s.disk /\ t.cacheBlock = s.cacheBlock
        /\ t.cacheData = s.cacheData /\ t.cacheDirty = s.cacheDirty
        /\ t.cacheMirror = s.cacheMirror /\ t.mayFail = s.mayFail
    BY <2>1 DEF Loose
  <2> HIDE DEF t
  <2>3. QED
    BY <2>2, Unmoved DEF t
<1>2. \A R : \A x \in R : Success(s, x) \subseteq Outs(R)
  BY DEF Success, Outs
<1>3. Done(s) \subseteq Outs({0})
  BY DEF Success, Done, Outs
<1>4. \A R : \A t \in Sane : Failed(t) \subseteq Outs(R)
  BY DEF Failed, Outs
<1>5. \A R : CardFault(s) \subseteq Outs(R)
  BY <1>1, <1>4, Zenon DEF CardFault
<1>6. QED
  BY <1>2, <1>3, <1>4, <1>5

LEMMA SuccessIn ==
  ASSUME NEW s \in Sane, NEW R, NEW x \in R, NEW o \in Success(s, x)
  PROVE  o \in Outs(R) /\ o.ok /\ o.s = s /\ o.result = x
BY OfSuccess, OutsTypes

LEMMA DoneIn ==
  ASSUME NEW s \in Sane, NEW o \in Done(s)
  PROVE  o \in Outs({0}) /\ o.ok /\ o.s = s /\ o.result = 0
BY OfDone, OutsTypes

LEMMA FailedIn ==
  ASSUME NEW s \in Sane, NEW o \in Failed(s)
  PROVE  ~ o.ok /\ o.s = s /\ \A R : o \in Outs(R)
BY OfFailed, OutsTypes

LEMMA OutsFailed ==
  ASSUME NEW R, NEW o \in Outs(R)
  PROVE  /\ o.s \in Sane /\ o.ok \in BOOLEAN
         /\ o.ok => o.result \in R
         /\ ~ o.ok => \A Q : o \in Outs(Q)
BY DEF Outs

LEMMA SaneRead ==
  ASSUME NEW s \in Sane, NEW b, NEW o \in ReadBlock(s, b)
  PROVE  /\ o.ok => b \in Blocks /\ o.s = s /\ o.result = s.disk[b]
         /\ ~ o.ok => \A R : o \in Outs(R)
<1>1. CASE b \notin Blocks
  <2>1. o \in Failed(s)
    BY <1>1, Zenon DEF ReadBlock
  <2>2. QED
    BY <2>1, OfFailed, OutsTypes
<1>2. CASE b \in Blocks
  <2>1. o \in Success(s, s.disk[b]) \cup CardFault(s)
    BY <1>2, Zenon DEF ReadBlock
  <2>2. CASE o \in Success(s, s.disk[b])
    BY <1>2, <2>2, OfSuccess
  <2>3. CASE o \in CardFault(s)
    BY <2>3, OfCardFault, OutsTypes
  <2>4. QED
    BY <2>1, <2>2, <2>3
<1>3. QED
  BY <1>1, <1>2

WithDisk(s, disk) == [s EXCEPT !.disk = disk]
WithFault(s) == [s EXCEPT !.fault = TRUE]

(* A write to the card puts the data there or fails; the rest stays.       *)
LEMMA SaneWritten ==
  ASSUME NEW s \in Loose, NEW b, NEW data \in Data, NEW o \in WriteBlock(s, b, data)
  PROVE  \/ o.ok /\ b \in Blocks /\ o.s = WithDisk(s, [s.disk EXCEPT ![b] = data])
         \/ b \notin Blocks /\ ~ o.ok /\ o.result = 0 /\ o.s = s
         \/ /\ b \in Blocks /\ s.mayFail /\ ~ o.ok /\ o.result = 0
            /\ \/ o.s = WithFault(s)
               \/ o.s = WithFault(WithDisk(s, [s.disk EXCEPT ![b] = data]))
<1> DEFINE disk == [s.disk EXCEPT ![b] = data]
           t == WithDisk(s, disk)
<1>1. CASE b \notin Blocks
  <2>1. o \in Failed(s)
    BY <1>1, Zenon DEF WriteBlock
  <2>2. QED
    BY <1>1, <2>1, OfFailed
<1>2. CASE b \in Blocks
  <2>1. o \in Done(t) \cup CardFault(t) \cup CardFault(s)
    BY <1>2 DEF WriteBlock, WithDisk
  <2> HIDE DEF disk
  <2>2. CASE o \in Done(t)
    <3>1. o.ok /\ o.s = t
      BY <2>2, OfDone
    <3>2. QED
      BY <1>2, <3>1 DEF disk
  <2>3. CASE o \in CardFault(t)
    <3>1. t.mayFail /\ ~ o.ok /\ o.result = 0 /\ o.s = [t EXCEPT !.fault = TRUE]
      BY <2>3, OfCardFault
    <3>2. t.mayFail = s.mayFail
      BY DEF Loose, WithDisk
    <3>3. o.s = WithFault(t)
      BY <3>1 DEF WithFault
    <3>4. QED
      BY <1>2, <3>1, <3>2, <3>3 DEF disk
  <2>4. CASE o \in CardFault(s)
    <3>1. s.mayFail /\ ~ o.ok /\ o.result = 0 /\ o.s = WithFault(s)
      BY <2>4, OfCardFault DEF WithFault
    <3>2. QED
      BY <1>2, <3>1
  <2>5. QED
    BY <2>1, <2>2, <2>3, <2>4
<1>3. QED
  BY <1>1, <1>2

(* The state t is s with another disk, after a fault or not.               *)
Rewritten(s, t, disk) ==
  /\ t \in Loose /\ t.disk = disk /\ t.mayFail = s.mayFail
  /\ t.cacheBlock = s.cacheBlock /\ t.cacheData = s.cacheData
  /\ t.cacheDirty = s.cacheDirty /\ t.cacheMirror = s.cacheMirror

LEMMA RewrittenSame ==
  ASSUME NEW s \in Loose, NEW disk \in [Blocks -> Data], NEW t,
         \/ t = WithDisk(s, disk)
         \/ t = WithFault(WithDisk(s, disk))
         \/ t = WithFault(s) /\ disk = s.disk
  PROVE  Rewritten(s, t, disk)
<1>1. CASE t = WithDisk(s, disk)
  BY <1>1 DEF Rewritten, Loose, WithDisk, WithFault
<1>2. CASE t = WithFault(WithDisk(s, disk))
  BY <1>2 DEF Rewritten, Loose, WithDisk, WithFault
<1>3. CASE t = WithFault(s) /\ disk = s.disk
  BY <1>3 DEF Rewritten, Loose, WithDisk, WithFault
<1>4. QED
  BY <1>1, <1>2, <1>3

(* A card with the block of the cache written to it, or not.               *)
LEMMA WroteCached ==
  ASSUME NEW s, Orderly(s), s.cacheDirty, s.cacheBlock \in Blocks,
         NEW b \in Blocks, b = s.cacheBlock \/ b = s.cacheMirror,
         NEW disk, disk = [s.disk EXCEPT ![b] = s.cacheData],
         NEW t, Rewritten(s, t, disk)
  PROVE  disk \in [Blocks -> Data] /\ Orderly(t)
<1>1. /\ s \in Loose /\ Typed(s.cacheBlock, s.cacheData) /\ \A a \in Blocks : Typed(a, s.disk[a])
      /\ Owed(s) /\ Copied(s)
  BY DEF Orderly
<1>2. s.cacheData \in Data /\ s.disk \in [Blocks -> Data]
  <2>1. s.cacheBlock \in FatBlocks \cup {DirBlock} \cup Places
    BY <1>1, PlaceKinds DEF Loose
  <2>2. QED
    BY <1>1, <2>1 DEF Typed, Data, Loose
<1>3. disk \in [Blocks -> Data]
  BY <1>2
<1>4. ASSUME NEW a \in Blocks PROVE Typed(a, disk[a])
  <2>1. CASE a # b
    BY <1>1, <1>2, <2>1
  <2>2. CASE a = b /\ b = s.cacheBlock
    BY <1>1, <1>2, <2>2
  <2>3. CASE a = b /\ b = s.cacheMirror
    <3>1. b \in Mirrors
      BY <1>1, <2>3, PlaceKinds DEF Loose
    <3>2. b \notin FatBlocks /\ b # DirBlock /\ b \notin Places
      BY <3>1, PlaceKinds
    <3>3. QED
      BY <2>3, <3>2 DEF Typed
  <2>4. QED
    BY <2>1, <2>2, <2>3
<1>5. Copied(t)
  <2>1. SUFFICES ASSUME FatCopies > 1, NEW a \in FatBlocks, ~ (s.cacheDirty /\ s.cacheBlock = a)
                 PROVE  Mirrored(disk, a)
    BY DEF Copied, Rewritten
  <2>2. Mirrored(s.disk, a) /\ a # s.cacheBlock
    BY <1>1, <2>1 DEF Copied
  <2>3. a \in Blocks /\ MirrorOf(a) \in Blocks /\ MirrorOf(a) \in Mirrors
    BY PlaceKinds
  <2>4. a # b
    <3>1. b = s.cacheMirror /\ b # s.cacheBlock => b \in Mirrors
      BY <1>1, PlaceKinds DEF Loose
    <3>2. QED
      BY <2>2, <3>1, PlaceKinds
  <2>5. MirrorOf(a) # b
    <3>1. CASE b = s.cacheBlock
      <4>1. s.cacheBlock \notin Mirrors
        BY <1>1, PlaceKinds DEF Loose
      <4>2. QED
        BY <2>3, <3>1, <4>1
    <3>2. CASE b = s.cacheMirror
      <4>1. s.cacheMirror # NoBlock
        BY <3>2, PlaceKinds
      <4>2. b = MirrorOf(s.cacheBlock) /\ s.cacheBlock \in FatBlocks
        BY <1>1, <3>2, <4>1 DEF Owed
      <4>3. QED
        BY <2>2, <4>2, PlaceKinds
    <3>3. QED
      BY <3>1, <3>2
  <2>6. QED
    BY <1>2, <2>2, <2>3, <2>4, <2>5 DEF Mirrored
<1>6. Owed(t) /\ t \in Loose /\ (t.mayFail => CardMayFail \/ PowerMayFail)
        /\ Typed(t.cacheBlock, t.cacheData)
  BY <1>1 DEF Owed, Rewritten, Orderly
<1>7. QED
  BY <1>3, <1>4, <1>5, <1>6 DEF Orderly, Rewritten

LEMMA OutOfSane ==
  ASSUME NEW o, ~ o.ok, o.ok \in BOOLEAN, o.result = 0, o.s \in Sane,
         o = [s |-> o.s, ok |-> o.ok, result |-> o.result]
  PROVE  \A R : o \in Outs(R)
BY DEF Outs

LEMMA WriteShape ==
  ASSUME NEW s, NEW b, NEW data, NEW o \in WriteBlock(s, b, data)
  PROVE  o = [s |-> o.s, ok |-> o.ok, result |-> o.result] /\ o.ok \in BOOLEAN
<1> DEFINE t == [s EXCEPT !.disk = [s.disk EXCEPT ![b] = data]]
<1>1. ASSUME NEW u, NEW p, p \in Done(u) \/ p \in Failed(u)
      PROVE  p = [s |-> p.s, ok |-> p.ok, result |-> p.result] /\ p.ok \in BOOLEAN
  <2>1. PICK answer \in BOOLEAN : p = [s |-> u, ok |-> answer, result |-> 0]
    BY <1>1 DEF Done, Success, Failed
  <2>2. p.s = u /\ p.ok = answer /\ p.result = 0
    BY <2>1
  <2>3. QED
    BY <2>1, <2>2
<1>2. \A u : CardFault(u) \subseteq Failed([u EXCEPT !.fault = TRUE])
  BY Zenon DEF CardFault
<1>3. o \in Done(t) \/ o \in CardFault(t) \/ o \in CardFault(s) \/ o \in Failed(s)
  BY DEF WriteBlock
<1>4. QED
  BY <1>1, <1>2, <1>3

(* A write of the cached block or its mirror that fails.                   *)
LEMMA WriteFailed ==
  ASSUME NEW s, Orderly(s), Agreeing(s) \/ s.mayFail, s.cacheDirty,
         NEW b, b = s.cacheBlock \/ (b = s.cacheMirror /\ b # NoBlock),
         NEW o \in WriteBlock(s, b, s.cacheData), ~ o.ok,
         s.cacheBlock \in Blocks \/ (Agreeing(s) /\ b = s.cacheBlock)
  PROVE  \A R : o \in Outs(R)
<1>1. s \in Loose /\ (s.mayFail => CardMayFail \/ PowerMayFail)
  BY DEF Orderly
<1>2. o = [s |-> o.s, ok |-> o.ok, result |-> o.result] /\ o.ok \in BOOLEAN
  BY WriteShape
<1>3. CASE b \notin Blocks
  <2>1. o \in Failed(s)
    BY <1>3, Zenon DEF WriteBlock
  <2>2. b = s.cacheBlock
    BY <1>1, <1>3, PlaceKinds DEF Loose
  <2>3. s \in Sane
    BY <1>1, <1>3, <2>2 DEF Sane
  <2>4. QED
    BY <2>1, <2>3, OutsTypes
<1>4. CASE b \in Blocks
  <2>1. s.cacheBlock \in Blocks
    BY <1>4
  <2>2. s.cacheData \in Data
    <3>1. s.cacheBlock \in FatBlocks \cup {DirBlock} \cup Places
      BY <1>1, <2>1, PlaceKinds DEF Loose
    <3>2. QED
      BY <3>1 DEF Orderly, Typed, Data
  <2> DEFINE data == s.cacheData
             disk == [s.disk EXCEPT ![b] = data]
  <2>3. /\ s.mayFail /\ o.result = 0
        /\ \/ o.s = WithFault(s)
           \/ o.s = WithFault(WithDisk(s, disk))
    <3>1. o \in WriteBlock(s, b, data) /\ data \in Data
      BY <2>2
    <3> HIDE DEF data
    <3>2. disk = [s.disk EXCEPT ![b] = data]
      OBVIOUS
    <3> HIDE DEF disk
    <3>3. \/ o.ok /\ b \in Blocks /\ o.s = WithDisk(s, disk)
          \/ b \notin Blocks /\ ~ o.ok /\ o.result = 0 /\ o.s = s
          \/ /\ b \in Blocks /\ s.mayFail /\ ~ o.ok /\ o.result = 0
             /\ \/ o.s = WithFault(s)
                \/ o.s = WithFault(WithDisk(s, disk))
      BY <1>1, <3>1, <3>2, SaneWritten
    <3>4. QED
      BY <1>4, <3>3
  <2>4. disk \in [Blocks -> Data] /\ s.disk \in [Blocks -> Data]
    BY <1>1, <1>4, <2>2 DEF Loose
  <2>5. Agreeing(o.s)
    BY <1>1, <2>3 DEF Agreeing
  <2>6. Orderly(o.s) /\ o.s \in Loose
    <3>1. CASE o.s = WithFault(s)
      <4>1. Rewritten(s, o.s, s.disk)
        BY <1>1, <2>4, <3>1, RewrittenSame
      <4>2. QED
        BY <4>1 DEF Rewritten, Orderly, Owed, Copied
    <3>2. CASE o.s = WithFault(WithDisk(s, disk))
      <4> HIDE DEF disk
      <4>1. Rewritten(s, o.s, disk)
        BY <1>1, <2>4, <3>2, RewrittenSame
      <4>2. QED
        BY <1>4, <2>1, <4>1, WroteCached DEF Rewritten, disk
    <3>3. QED
      BY <2>3, <3>1, <3>2
  <2>7. o.s \in Sane
    BY <2>5, <2>6 DEF Sane
  <2>8. QED
    BY <1>2, <2>3, <2>7, OutOfSane
<1>5. QED
  BY <1>3, <1>4

LEMMA Cleaned ==
  ASSUME NEW s, Orderly(s), NEW t, t = Clean(s),
         FatCopies > 1 /\ s.cacheBlock \in FatBlocks => Mirrored(s.disk, s.cacheBlock)
  PROVE  /\ t \in Sane /\ ~ t.cacheDirty /\ t.cacheMirror = NoBlock /\ t.this = s.this
         /\ t.cacheBlock = s.cacheBlock /\ t.cacheData = s.cacheData
<1>1. s \in Loose
  BY DEF Orderly
<1>2. /\ t \in Loose /\ ~ t.cacheDirty /\ t.cacheMirror = NoBlock /\ t.this = s.this
      /\ t.cacheBlock = s.cacheBlock /\ t.cacheData = s.cacheData
      /\ t.disk = s.disk /\ t.mayFail = s.mayFail
  BY <1>1 DEF Clean, Loose
<1>3. FatCopies > 1 => \A b \in FatBlocks : Mirrored(t.disk, b)
  BY <1>2 DEF Orderly, Copied
<1>4. Owed(t) /\ Copied(t) /\ Agreeing(t)
  BY <1>2, <1>3 DEF Owed, Copied, Agreeing
<1>5. Orderly(t)
  BY <1>2, <1>4 DEF Orderly
<1>6. QED
  BY <1>2, <1>4, <1>5 DEF Sane

LEMMA SaneFlush ==
  ASSUME NEW s \in Sane, NEW o \in CacheFlush(s)
  PROVE  /\ o \in Outs({0})
         /\ o.ok => /\ ~ o.s.cacheDirty /\ o.s.cacheMirror = NoBlock /\ o.s.this = s.this
                    /\ o.s.cacheBlock = s.cacheBlock /\ o.s.cacheData = s.cacheData
<1>1. s \in Loose /\ Orderly(s) /\ Agreeing(s) /\ Owed(s) /\ Copied(s)
  BY DEF Sane, Orderly
<1>2. CASE ~ s.cacheDirty
  <2>1. o \in Done(s)
    BY <1>2, Zenon DEF CacheFlush
  <2>2. s.cacheMirror = NoBlock
    BY <1>1, <1>2 DEF Owed
  <2>3. o.s = s /\ o \in Outs({0})
    BY <2>1, OfDone, OutsTypes
  <2>4. QED
    BY <1>2, <2>2, <2>3
<1>3. CASE s.cacheDirty
  <2> DEFINE b == s.cacheBlock
             data == s.cacheData
  <2>1. PICK p \in WriteBlock(s, b, data) :
           /\ ~ p.ok => o = p
           /\ p.ok => \E q \in WriteMirror(p.s) : /\ ~ q.ok => o = q
                                                  /\ q.ok => o \in Done(Clean(q.s))
    BY <1>3, CacheFlushSteps
  <2>2. CASE ~ p.ok
    <3>1. \A R : p \in Outs(R)
      BY <1>1, <1>3, <2>2, WriteFailed
    <3>2. QED
      BY <2>1, <2>2, <3>1
  <2>3. CASE p.ok
    <3>1. PICK q \in WriteMirror(p.s) : /\ ~ q.ok => o = q
                                        /\ q.ok => o \in Done(Clean(q.s))
      BY <2>1, <2>3
    <3>2. b \in Blocks
      <4>1. b \notin Blocks => p \in Failed(s)
        BY Zenon DEF WriteBlock
      <4>2. QED
        BY <2>3, <4>1, OfFailed
    <3>3. data \in Data
      <4>1. b \in FatBlocks \cup {DirBlock} \cup Places
        BY <1>1, <3>2, PlaceKinds DEF Loose
      <4>2. QED
        BY <1>1, <4>1 DEF Orderly, Typed, Data
    <3> DEFINE d == [s.disk EXCEPT ![b] = data]
    <3>4. p.s = WithDisk(s, d)
      BY <1>1, <2>3, <3>3, SaneWritten
    <3>5. d \in [Blocks -> Data] /\ d[b] = data
      BY <1>1, <3>2, <3>3 DEF Loose
    <3> HIDE DEF d
    <3>6. Rewritten(s, p.s, d)
      BY <1>1, <3>4, <3>5, RewrittenSame
    <3>7. Orderly(p.s) /\ p.s \in Loose
      BY <1>1, <1>3, <3>2, <3>6, WroteCached DEF d, Rewritten
    <3>8. p.s.this = s.this
      BY <1>1, <3>4 DEF Loose, WithDisk
    <3>9. /\ ~ q.ok => \A R : q \in Outs(R)
          /\ q.ok => /\ Orderly(q.s) /\ q.s.this = s.this
                     /\ q.s.cacheBlock = b /\ q.s.cacheData = data
                     /\ FatCopies > 1 /\ b \in FatBlocks => Mirrored(q.s.disk, b)
      <4>1. CASE s.cacheMirror = NoBlock
        <5>1. q \in Done(p.s)
          BY <3>6, <4>1, Zenon DEF WriteMirror, Rewritten
        <5>2. ~ (FatCopies > 1 /\ b \in FatBlocks)
          BY <1>1, <1>3, <4>1 DEF Owed
        <5>3. QED
          BY <3>6, <3>7, <3>8, <5>1, <5>2, OfDone DEF Rewritten
      <4>2. CASE s.cacheMirror # NoBlock
        <5> DEFINE m == s.cacheMirror
        <5>1. q \in WriteBlock(p.s, m, data)
          BY <3>6, <4>2, Zenon DEF WriteMirror, Rewritten
        <5>2. b \in FatBlocks /\ m = MirrorOf(b) /\ m \in Mirrors /\ m \in Blocks
          BY <1>1, <4>2, PlaceKinds DEF Owed
        <5>3. CASE ~ q.ok
          <6>1. p.s.mayFail
            BY <3>3, <3>7, <5>1, <5>2, <5>3, SaneWritten
          <6>2. QED
            BY <1>3, <3>2, <3>6, <3>7, <4>2, <5>1, <5>3, <6>1, WriteFailed DEF Rewritten
        <5>4. CASE q.ok
          <6> DEFINE e == [p.s.disk EXCEPT ![m] = data]
          <6>1. q.s = WithDisk(p.s, e)
            BY <3>3, <3>7, <5>1, <5>2, <5>4, SaneWritten
          <6>2. e \in [Blocks -> Data] /\ e[m] = data /\ e[b] = data
            <7>1. b # m /\ p.s.disk = d
              BY <3>6, <5>2, PlaceKinds DEF Rewritten
            <7>2. QED
              BY <3>2, <3>3, <3>5, <5>2, <7>1
          <6> HIDE DEF e
          <6>3. Rewritten(p.s, q.s, e)
            BY <3>7, <6>1, <6>2, RewrittenSame
          <6>4. Orderly(q.s)
            <7> DEFINE r == p.s
            <7>1. /\ r.cacheDirty /\ r.cacheBlock \in Blocks /\ m = r.cacheMirror
                  /\ e = [r.disk EXCEPT ![m] = r.cacheData]
              BY <1>3, <3>2, <3>6 DEF e, Rewritten
            <7> HIDE DEF r, m
            <7>2. Orderly(r) /\ m \in Blocks /\ Rewritten(r, q.s, e)
              BY <3>7, <5>2, <6>3 DEF r
            <7>3. QED
              BY <7>1, <7>2, WroteCached
          <6>5. Mirrored(q.s.disk, b)
            BY <5>2, <6>2, <6>3 DEF Rewritten, Mirrored
          <6>6. q.s.this = s.this
            BY <3>7, <3>8, <6>1 DEF Loose, WithDisk
          <6>7. QED
            BY <3>6, <5>4, <6>3, <6>4, <6>5, <6>6 DEF Rewritten
        <5>5. QED
          BY <5>3, <5>4
      <4>3. QED
        BY <4>1, <4>2
    <3>10. CASE ~ q.ok
      <4>1. q \in Outs({0})
        BY <3>9, <3>10
      <4>2. QED
        BY <3>1, <3>10, <4>1
    <3>11. CASE q.ok
      <4> DEFINE t == Clean(q.s)
      <4>1. o \in Done(t)
        BY <3>1, <3>11
      <4>2. /\ t \in Sane /\ ~ t.cacheDirty /\ t.cacheMirror = NoBlock /\ t.this = s.this
            /\ t.cacheBlock = b /\ t.cacheData = data
        BY <3>9, <3>11, Cleaned
      <4> HIDE DEF t
      <4>3. o.s = t /\ o \in Outs({0})
        BY <4>1, <4>2, OfDone, OutsTypes
      <4>4. QED
        BY <4>2, <4>3
    <3>12. QED
      BY <3>10, <3>11
  <2>4. QED
    BY <2>2, <2>3
<1>4. QED
  BY <1>2, <1>3

(* A clean block, or one outside the table, gives way to another.          *)
LEMMA CacheSet ==
  ASSUME NEW s \in Sane, NEW t \in Loose, t.disk = s.disk, t.mayFail = s.mayFail,
         t.cacheMirror = s.cacheMirror, Typed(t.cacheBlock, t.cacheData),
         s.cacheDirty => s.cacheBlock \notin FatBlocks,
         t.cacheDirty => t.cacheBlock \notin FatBlocks
  PROVE  t \in Sane
<1>1. Orderly(s) /\ Agreeing(s)
  BY DEF Sane
<1>2. s.cacheMirror = NoBlock
  BY <1>1 DEF Orderly, Owed
<1>3. FatCopies > 1 => \A b \in FatBlocks : Mirrored(s.disk, b)
  BY <1>1 DEF Orderly, Copied
<1>4. Owed(t) /\ Copied(t) /\ Agreeing(t)
  BY <1>2, <1>3 DEF Owed, Copied, Agreeing
<1>5. Orderly(t)
  BY <1>1, <1>4 DEF Orderly
<1>6. QED
  BY <1>4, <1>5 DEF Sane

(* The blocks that the library may ask the cache for.                      *)
Asked == FatBlocks \cup {DirBlock} \cup Places

LEMMA TypedData ==
  ASSUME NEW b \in Asked, NEW data, Typed(b, data)
  PROVE  data \in Data
BY DEF Asked, Typed, Data

LEMMA SaneCached ==
  ASSUME NEW s \in Sane, NEW b \in Asked, NEW write \in BOOLEAN,
         write => b \notin FatBlocks, NEW o \in CacheRawBlock(s, b, write)
  PROVE  /\ o \in Outs({0})
         /\ o.ok => /\ o.s \in Sane /\ o.s.this = s.this /\ o.s.cacheBlock = b
                    /\ Typed(b, o.s.cacheData)
<1>1. CASE s.cacheBlock = b
  <2> DEFINE t == [s EXCEPT !.cacheDirty = @ \/ write]
  <2>1. s \in Loose /\ Typed(s.cacheBlock, s.cacheData)
    BY DEF Sane, Orderly
  <2>2. o \in Done(t)
    BY <1>1, Zenon DEF CacheRawBlock
  <2>3. /\ t \in Loose /\ t.disk = s.disk /\ t.mayFail = s.mayFail
        /\ t.cacheMirror = s.cacheMirror /\ t.cacheBlock = s.cacheBlock
        /\ t.cacheData = s.cacheData /\ t.this = s.this
        /\ t.cacheDirty = (s.cacheDirty \/ write)
    BY <2>1 DEF Loose
  <2> HIDE DEF t
  <2>4. t \in Sane
    <3>1. CASE write
      BY <1>1, <2>1, <2>3, <3>1, CacheSet
    <3>2. CASE ~ write
      <4>1. t.cacheDirty = s.cacheDirty
        BY <2>1, <2>3, <3>2 DEF Loose
      <4>2. QED
        BY <2>3, <4>1, Unmoved
    <3>3. QED
      BY <3>1, <3>2
  <2>5. o.ok /\ o.s = t /\ o \in Outs({0})
    BY <2>2, <2>4, OfDone, OutsTypes
  <2>6. QED
    BY <1>1, <2>1, <2>3, <2>4, <2>5
<1>2. CASE s.cacheBlock # b
  <2>1. PICK p \in CacheFlush(s) :
           /\ ~ p.ok => o = p
           /\ p.ok => \E q \in ReadBlock(p.s, b) :
                        /\ ~ q.ok => o = q
                        /\ q.ok => o \in Done(Loaded(q.s, b, q.result, write))
    BY <1>2, CacheRawBlockSteps
  <2>2. /\ p \in Outs({0})
        /\ p.ok => ~ p.s.cacheDirty /\ p.s.cacheMirror = NoBlock /\ p.s.this = s.this
    BY SaneFlush
  <2>3. CASE ~ p.ok
    BY <2>1, <2>2, <2>3
  <2>4. CASE p.ok
    <3> DEFINE r == p.s
    <3>1. r \in Sane /\ ~ r.cacheDirty /\ r.this = s.this
      BY <2>2, <2>4 DEF Outs
    <3>2. PICK q \in ReadBlock(r, b) :
            /\ ~ q.ok => o = q
            /\ q.ok => o \in Done(Loaded(q.s, b, q.result, write))
      BY <2>1, <2>4
    <3> HIDE DEF r
    <3>3. /\ q.ok => b \in Blocks /\ q.s = r /\ q.result = r.disk[b]
          /\ ~ q.ok => \A R : q \in Outs(R)
      BY <3>1, SaneRead
    <3>4. CASE ~ q.ok
      BY <3>2, <3>3, <3>4
    <3>5. CASE q.ok
      <4> DEFINE data == r.disk[b]
                 t == Loaded(r, b, data, write)
      <4>1. o \in Done(t)
        BY <3>2, <3>3, <3>5
      <4>2. r \in Loose /\ Typed(b, data)
        BY <3>1, <3>3, <3>5 DEF Sane, Orderly
      <4>3. data \in Data
        BY <4>2, TypedData
      <4> HIDE DEF data
      <4>4. /\ t \in Loose /\ t.disk = r.disk /\ t.mayFail = r.mayFail
            /\ t.cacheMirror = r.cacheMirror /\ t.cacheBlock = b
            /\ t.cacheData = data /\ t.this = r.this /\ t.cacheDirty = write
        BY <3>1, <4>2, <4>3 DEF Loose, Loaded, Asked
      <4> HIDE DEF t
      <4>5. t \in Sane
        BY <3>1, <4>2, <4>4, CacheSet
      <4>6. o.ok /\ o.s = t /\ o \in Outs({0})
        BY <4>1, <4>5, OfDone, OutsTypes
      <4>7. QED
        BY <3>1, <4>2, <4>4, <4>5, <4>6
    <3>6. QED
      BY <3>4, <3>5
  <2>5. QED
    BY <2>3, <2>4
<1>3. QED
  BY <1>1, <1>2

LEMMA SaneForReading ==
  ASSUME NEW s \in Sane, NEW b \in Asked, NEW o \in CacheForReading(s, b)
  PROVE  /\ o \in Outs({0})
         /\ o.ok => o.s \in Sane /\ o.s.cacheBlock = b /\ Typed(b, o.s.cacheData)
<1>1. PICK w \in BOOLEAN : ~ w /\ o \in CacheRawBlock(s, b, w)
  BY DEF CacheForReading
<1>2. QED
  BY <1>1, SaneCached

LEMMA SaneForWriting ==
  ASSUME NEW s \in Sane, NEW b \in Asked, b \notin FatBlocks,
         NEW o \in CacheForWriting(s, b)
  PROVE  /\ o \in Outs({0})
         /\ o.ok => o.s \in Sane /\ o.s.cacheBlock = b /\ Typed(b, o.s.cacheData)
<1>1. PICK w \in BOOLEAN : o \in CacheRawBlock(s, b, w)
  BY DEF CacheForWriting
<1>2. QED
  BY <1>1, SaneCached

(* Entries of the table are numbers of clusters or marks.                  *)
LEMMA FatAsked ==
  ASSUME NEW c \in 0 .. LastCluster
  PROVE  /\ FatBlock(c) \in FatBlocks /\ FatBlock(c) \in Asked
         /\ \A data : Typed(FatBlock(c), data) =>
              /\ data[c] \in 0 .. EOC
              /\ \A x \in 0 .. EOC : Typed(FatBlock(c), [data EXCEPT ![c] = x])
<1> DEFINE b == FatBlock(c)
<1>1. b \in FatBlocks /\ b[2] = c \div FatPerBlock
  BY DEF FatBlocks, FatBlock
<1> HIDE DEF b
<1>2. b # DirBlock /\ b \notin Places
  BY <1>1, PlaceKinds
<1>3. ASSUME NEW data, Typed(b, data)
      PROVE  /\ data[c] \in 0 .. EOC
             /\ \A x \in 0 .. EOC : [data EXCEPT ![c] = x] \in FatData(b[2])
  BY <1>1, <1>3 DEF Typed, FatData
<1>4. QED
  BY <1>1, <1>2, <1>3 DEF Typed, Asked, b

LEMMA SaneGet ==
  ASSUME NEW s \in Sane, NEW c \in Nat, NEW o \in FatGet(s, c)
  PROVE  o \in Outs(0 .. EOC) /\ (o.ok => c \in 0 .. LastCluster)
<1>1. CASE c > LastCluster
  <2>1. o \in Failed(s)
    BY <1>1, Zenon DEF FatGet
  <2>2. QED
    BY <2>1, OfFailed, OutsTypes
<1>2. CASE ~ (c > LastCluster)
  <2> DEFINE b == FatBlock(c)
  <2>1. c \in 0 .. LastCluster
    BY <1>2, VolumeAssumption DEF LastCluster
  <2>2. PICK p \in CacheForReading(s, b) :
          o \in IF p.ok THEN Success(p.s, p.s.cacheData[c]) ELSE {p}
    BY <1>2, Zenon DEF FatGet, Then, CacheForReading
  <2>3. /\ b \in Asked
        /\ \A data : Typed(b, data) => data[c] \in 0 .. EOC
    BY <2>1, FatAsked
  <2> HIDE DEF b
  <2>4. /\ p \in Outs({0})
        /\ p.ok => p.s \in Sane /\ Typed(b, p.s.cacheData)
    BY <2>2, <2>3, SaneForReading
  <2>5. CASE p.ok
    <3> DEFINE x == p.s.cacheData[c]
    <3>1. p.s \in Sane /\ x \in 0 .. EOC
      BY <2>3, <2>4, <2>5
    <3>2. o \in Success(p.s, x)
      BY <2>2, <2>5
    <3> DEFINE u == p.s
               R == 0 .. EOC
    <3>3. u \in Sane /\ x \in R /\ o \in Success(u, x)
      BY <3>1, <3>2
    <3> HIDE DEF x, u, R
    <3>4. o \in Outs(R)
      BY <3>3, SuccessIn
    <3>5. QED
      BY <2>1, <3>4 DEF R
  <2>6. CASE ~ p.ok
    <3>1. o = p
      BY <2>2, <2>6
    <3>2. QED
      BY <2>4, <2>6, <3>1 DEF Outs
  <2>7. QED
    BY <2>5, <2>6
<1>3. QED
  BY <1>1, <1>2

(* The entry is changed in the cache, and its mirror owed.                 *)
LEMMA MirrorOwed ==
  ASSUME NEW s \in Sane, NEW b \in FatBlocks, s.cacheBlock = b,
         NEW data \in Data, Typed(b, data),
         NEW t, t = [s EXCEPT !.cacheData = data, !.cacheDirty = TRUE,
                              !.cacheMirror = IF FatCopies > 1 THEN MirrorOf(b) ELSE @]
  PROVE  t \in Sane
<1>1. s \in Loose /\ Orderly(s) /\ Agreeing(s) /\ Owed(s) /\ Copied(s)
  BY DEF Sane, Orderly
<1> DEFINE m == IF FatCopies > 1 THEN MirrorOf(b) ELSE s.cacheMirror
<1>2. m \in Mirrors \cup {NoBlock}
  BY <1>1, PlaceKinds DEF Loose
<1>3. /\ t.disk = s.disk /\ t.mayFail = s.mayFail /\ t.cacheBlock = b /\ t.cacheData = data
      /\ t.cacheDirty /\ t.cacheMirror = m /\ t \in Loose
  BY <1>1, <1>2 DEF Loose
<1> HIDE DEF m
<1>4. m # NoBlock => m = MirrorOf(b)
  BY <1>1 DEF Owed, m
<1>5. FatCopies > 1 => m # NoBlock
  BY PlaceKinds DEF m
<1>6. Owed(t) /\ Copied(t) /\ Agreeing(t)
  BY <1>1, <1>3, <1>4, <1>5 DEF Owed, Copied, Agreeing
<1>7. Orderly(t)
  BY <1>1, <1>3, <1>6 DEF Orderly
<1>8. QED
  BY <1>3, <1>6, <1>7 DEF Sane

LEMMA SanePut ==
  ASSUME NEW s \in Sane, NEW c \in Nat, NEW x \in 0 .. EOC, NEW o \in FatPut(s, c, x)
  PROVE  o \in Outs({0})
<1>1. CASE c < 2 \/ c > LastCluster
  <2>1. o \in Failed(s)
    BY <1>1, Zenon DEF FatPut
  <2>2. QED
    BY <2>1, FailedIn
<1>2. CASE ~ (c < 2 \/ c > LastCluster)
  <2> DEFINE b == FatBlock(c)
             E(p) == [p.s EXCEPT !.cacheData[c] = x, !.cacheDirty = TRUE,
                                 !.cacheMirror = IF FatCopies > 1 THEN MirrorOf(b) ELSE @]
  <2>1. c \in 0 .. LastCluster
    BY <1>2, VolumeAssumption DEF LastCluster
  <2>2. PICK p \in CacheForReading(s, b) : o \in IF p.ok THEN Done(E(p)) ELSE {p}
    BY <1>2, Zenon DEF FatPut, Then, CacheForReading
  <2>3. /\ b \in Asked /\ b \in FatBlocks
        /\ \A data : Typed(b, data) => Typed(b, [data EXCEPT ![c] = x])
    BY <2>1, FatAsked
  <2> HIDE DEF b
  <2>4. /\ p \in Outs({0})
        /\ p.ok => p.s \in Sane /\ p.s.cacheBlock = b /\ Typed(b, p.s.cacheData)
    BY <2>2, <2>3, SaneForReading
  <2>5. CASE p.ok
    <3> DEFINE r == p.s
               data == [r.cacheData EXCEPT ![c] = x]
               t == [r EXCEPT !.cacheData = data, !.cacheDirty = TRUE,
                              !.cacheMirror = IF FatCopies > 1 THEN MirrorOf(b) ELSE @]
    <3>1. o \in Done(t)
      BY <2>2, <2>5
    <3>2. r \in Sane /\ r.cacheBlock = b /\ Typed(b, data)
      BY <2>3, <2>4, <2>5
    <3> HIDE DEF r, data
    <3>3. data \in Data
      BY <2>3, <3>2, TypedData
    <3>4. t \in Sane
      BY <2>3, <3>2, <3>3, MirrorOwed
    <3> HIDE DEF t
    <3>5. QED
      BY <3>1, <3>4, DoneIn
  <2>6. CASE ~ p.ok
    BY <2>2, <2>4, <2>6
  <2>7. QED
    BY <2>5, <2>6
<1>3. QED
  BY <1>1, <1>2

LEMMA Stays ==
  ASSUME NEW Y, NEW f, f[0] \subseteq Y,
         \A k \in Nat : f[k] \subseteq Y => f[k + 1] \subseteq Y, NEW n \in Nat
  PROVE  f[n] \subseteq Y
<1> DEFINE S == {k \in Nat : f[k] \subseteq Y}
<1>1. 0 \in S /\ \A k \in Nat : k \in S => k + 1 \in S
  OBVIOUS
<1>2. n \in S
  <2> HIDE DEF S
  <2>1. QED
    BY <1>1, Induction
<1>3. QED
  BY <1>2

(* The search for a free cluster.                                          *)
Looked == {x \in [found : BOOLEAN, end : Nat] : x.found => x.end \in 0 .. LastCluster}

LEMMA SaneLook ==
  ASSUME NEW o \in Outs(Looked), o.ok, NEW r \in LookAt(o)
  PROVE  r \in Outs(Looked)
<1> DEFINE end == o.result.end
           c == IF end > LastCluster THEN 2 ELSE end
<1>1. o.s \in Sane /\ o.result \in Looked /\ end \in Nat
  BY OutsFailed DEF Looked
<1>2. c \in Nat /\ LastCluster \in Nat
  BY <1>1, VolumeAssumption DEF LastCluster
<1>3. CASE o.result.found
  <2>1. r = o
    BY <1>3, Zenon DEF LookAt
  <2>2. QED
    BY <2>1
<1>4. CASE ~ o.result.found
  <2> DEFINE X(p) == IF p.result = 0 THEN [found |-> TRUE, end |-> c]
                     ELSE [found |-> FALSE, end |-> c + 1]
  <2>1. PICK p \in FatGet(o.s, c) : r \in IF p.ok THEN Success(p.s, X(p)) ELSE {p}
    BY <1>4, Zenon DEF LookAt, Then
  <2> HIDE DEF c
  <2>2. p \in Outs(0 .. EOC) /\ (p.ok => c \in 0 .. LastCluster)
    BY <1>1, <1>2, SaneGet
  <2>3. CASE ~ p.ok
    BY <2>1, <2>2, <2>3, OutsFailed
  <2>4. CASE p.ok
    <3>1. X(p) \in Looked
      BY <1>2, <2>2, <2>4 DEF Looked
    <3> DEFINE x == X(p)
    <3>2. x \in Looked /\ r \in Success(p.s, x) /\ p.s \in Sane
      BY <2>1, <2>2, <2>4, <3>1, OutsFailed
    <3> HIDE DEF x
    <3>3. QED
      BY <3>2, SuccessIn
  <2>5. QED
    BY <2>3, <2>4
<1>5. QED
  BY <1>3, <1>4

LEMMA SaneSearch ==
  ASSUME NEW start \in SUBSET Outs(Looked), NEW n \in Nat
  PROVE  Repeat(start, LookAt, n) \subseteq Outs(Looked)
<1> DEFINE Y == Outs(Looked)
           G(o) == IF o.ok THEN LookAt(o) ELSE {o}
           Round == [o \in Y |-> G(o)]
           f == CHOOSE f : f = [k \in Nat |-> IF k = 0 THEN start
                                              ELSE UNION {G(o) : o \in f[k - 1]}]
<1>1. Repeat(start, LookAt, n) = f[n]
  BY DEF Repeat, Then
<1>2. \A o \in Y : G(o) \in SUBSET Y
  BY SaneLook
<1> HIDE DEF Y, G
<1>3. Round \in [Y -> SUBSET Y]
  BY <1>2
<1>4. PICK g : g \in Rounds(Y, start, Round)
  <2> HIDE DEF Round
  <2>1. start \in SUBSET Y
    BY DEF Y
  <2>2. QED
    BY <1>3, <2>1, RoundsExist
<1>5. g = [k \in Nat |-> IF k = 0 THEN start ELSE UNION {G(o) : o \in g[k - 1]}]
  <2>1. ASSUME NEW k \in Nat
        PROVE  g[k] = IF k = 0 THEN start ELSE UNION {G(o) : o \in g[k - 1]}
    <3>1. CASE k = 0
      BY <1>4, <3>1 DEF Rounds
    <3>2. CASE k # 0
      <4>1. k - 1 \in Nat
        BY <3>2
      <4>2. g[k - 1] \in SUBSET Y
        BY <1>4, <4>1 DEF Rounds
      <4>3. \A o \in g[k - 1] : Round[o] = G(o)
        BY <4>2
      <4>4. g[k] = UNION {Round[o] : o \in g[k - 1]}
        BY <1>4, <3>2 DEF Rounds
      <4> HIDE DEF Round
      <4>5. QED
        BY <3>2, <4>3, <4>4
    <3>3. QED
      BY <3>1, <3>2
  <2>2. QED
    BY <1>4, <2>1 DEF Rounds
<1>6. f = [k \in Nat |-> IF k = 0 THEN start ELSE UNION {G(o) : o \in f[k - 1]}]
  BY <1>5
<1> HIDE DEF f
<1>7. f[0] \subseteq Y
  BY <1>6 DEF Y
<1>8. ASSUME NEW k \in Nat, f[k] \subseteq Y PROVE f[k + 1] \subseteq Y
  <2>1. k + 1 \in Nat /\ k + 1 # 0 /\ (k + 1) - 1 = k
    OBVIOUS
  <2>2. f[k + 1] = UNION {G(o) : o \in f[k]}
    BY <1>6, <2>1
  <2>3. QED
    BY <1>2, <1>8, <2>2
<1>9. f[n] \subseteq Y
  BY <1>7, <1>8, Stays
<1>10. QED
  BY <1>1, <1>9 DEF Y

LEMMA SaneFind ==
  ASSUME NEW s \in Sane, NEW start \in Nat, NEW o \in FindFree(s, start)
  PROVE  o \in Outs(0 .. LastCluster)
<1> DEFINE first == [found |-> FALSE, end |-> start]
           N(p) == IF p.result.found THEN Success(p.s, p.result.end) ELSE Failed(p.s)
<1>1. Success(s, first) \subseteq Outs(Looked)
  <2>1. first \in Looked
    BY DEF Looked
  <2> HIDE DEF first
  <2>2. QED
    BY <2>1, OutsTypes
<1>2. PICK p \in Repeat(Success(s, first), LookAt, ClusterCount) :
        o \in IF p.ok THEN N(p) ELSE {p}
  BY Zenon DEF FindFree, Then
<1>3. p \in Outs(Looked)
  <2>1. ClusterCount \in Nat
    BY VolumeAssumption
  <2> DEFINE outcomes == Success(s, first)
  <2>2. p \in Repeat(outcomes, LookAt, ClusterCount) /\ outcomes \in SUBSET Outs(Looked)
    BY <1>1, <1>2
  <2> HIDE DEF outcomes
  <2>3. QED
    BY <2>1, <2>2, SaneSearch
<1>4. CASE ~ p.ok
  BY <1>2, <1>3, <1>4, OutsFailed
<1>5. CASE p.ok
  <2>1. p.s \in Sane /\ p.result \in Looked
    BY <1>3, <1>5, OutsFailed
  <2>2. CASE p.result.found
    <3>1. o \in Success(p.s, p.result.end) /\ p.result.end \in 0 .. LastCluster
      BY <1>2, <1>5, <2>1, <2>2 DEF Looked
    <3>2. QED
      BY <2>1, <3>1, SuccessIn
  <2>3. CASE ~ p.result.found
    BY <1>2, <1>5, <2>1, <2>3, FailedIn
  <2>4. QED
    BY <2>2, <2>3
<1>6. QED
  BY <1>4, <1>5

LEMMA ClusterNumbers ==
  /\ ClusterCount \in Nat \ {0} /\ LastCluster \in Nat /\ EOC \in Nat
  /\ EOC \in 0 .. EOC /\ 0 \in 0 .. EOC /\ 0 .. LastCluster \subseteq 0 .. EOC
  /\ 0 .. EOC \subseteq Nat
BY VolumeAssumption DEF LastCluster, EOC

LEMMA SaneAlloc ==
  ASSUME NEW s \in Sane, NEW cur \in 0 .. EOC, NEW o \in AllocCluster(s, cur)
  PROVE  o \in Outs(0 .. EOC)
<1> DEFINE start == IF cur = 0 THEN s.searchStart ELSE cur + 1
<1>1. PICK f \in FindFree(s, start) :
        /\ ~ f.ok => o = f
        /\ f.ok => \E m \in FatPut(f.s, f.result, EOC) :
             /\ ~ m.ok => o = m
             /\ m.ok => \E k \in Link(m.s, cur, f.result) :
                  /\ ~ k.ok => o = k
                  /\ k.ok => o \in Success(Allocated(k.s, cur, f.result), f.result)
  BY AllocClusterSteps
<1>2. start \in Nat
  BY SaneFacts, ClusterNumbers
<1> HIDE DEF start
<1>3. f \in Outs(0 .. LastCluster)
  BY <1>1, <1>2, SaneFind
<1>4. CASE ~ f.ok
  BY <1>1, <1>3, <1>4, OutsFailed
<1>5. CASE f.ok
  <2> DEFINE c == f.result
  <2>1. f.s \in Sane /\ c \in 0 .. EOC /\ c \in Nat
    BY <1>3, <1>5, OutsFailed, ClusterNumbers
  <2>2. PICK m \in FatPut(f.s, c, EOC) :
             /\ ~ m.ok => o = m
             /\ m.ok => \E k \in Link(m.s, cur, c) :
                  /\ ~ k.ok => o = k
                  /\ k.ok => o \in Success(Allocated(k.s, cur, c), c)
    BY <1>1, <1>5
  <2> HIDE DEF c
  <2>3. m \in Outs({0})
    BY <2>1, <2>2, SanePut, ClusterNumbers
  <2>4. CASE ~ m.ok
    BY <2>2, <2>3, <2>4, OutsFailed
  <2>5. CASE m.ok
    <3>1. PICK k \in Link(m.s, cur, c) :
                  /\ ~ k.ok => o = k
                  /\ k.ok => o \in Success(Allocated(k.s, cur, c), c)
      BY <2>2, <2>5
    <3>2. m.s \in Sane
      BY <2>3, OutsFailed
    <3>3. k \in Outs({0})
      <4>1. CASE cur = 0
        <5>1. k \in Done(m.s)
          BY <3>1, <4>1 DEF Link
        <5>2. QED
          BY <3>2, <5>1, DoneIn
      <4>2. CASE cur # 0
        <5>1. k \in FatPut(m.s, cur, c) /\ cur \in Nat
          BY <3>1, <4>2, ClusterNumbers DEF Link
        <5>2. QED
          BY <2>1, <3>2, <5>1, SanePut
      <4>3. QED
        BY <4>1, <4>2
    <3>4. CASE ~ k.ok
      BY <3>1, <3>3, <3>4, OutsFailed
    <3>5. CASE k.ok
      <4> DEFINE r == k.s
                 t == Allocated(r, cur, c)
      <4>1. r \in Sane /\ r \in Loose /\ r.searchStart \in Nat
        BY <3>3, OutsFailed, SaneFacts
      <4>2. o \in Success(t, c)
        BY <3>1, <3>5
      <4> HIDE DEF r
      <4> DEFINE x == IF cur = 0 THEN c + 1 ELSE r.searchStart
      <4>3. x \in Nat
        BY <2>1, <4>1
      <4>4. t = [r EXCEPT !.searchStart = x]
        BY DEF Allocated
      <4> HIDE DEF t, x
      <4>5. t \in Loose /\ t.disk = r.disk /\ t.cacheBlock = r.cacheBlock
            /\ t.cacheData = r.cacheData /\ t.cacheDirty = r.cacheDirty
            /\ t.cacheMirror = r.cacheMirror /\ t.mayFail = r.mayFail
        BY <4>1, <4>3, <4>4 DEF Loose
      <4>6. t \in Sane
        BY <4>1, <4>5, Unmoved
      <4> DEFINE R == 0 .. EOC
      <4>7. c \in R
        BY <2>1
      <4> HIDE DEF R
      <4>8. o \in Outs(R)
        BY <4>2, <4>6, <4>7, SuccessIn
      <4>9. QED
        BY <4>8 DEF R
    <3>6. QED
      BY <3>4, <3>5
  <2>6. QED
    BY <2>4, <2>5
<1>6. QED
  BY <1>4, <1>5

LEMMA FatGetNat ==
  ASSUME NEW s \in Sane, NEW c \in 0 .. EOC, NEW o \in FatGet(s, c)
  PROVE  o \in Outs(0 .. EOC)
<1>1. c \in Nat
  BY ClusterNumbers
<1>2. QED
  BY <1>1, SaneGet

LEMMA SaneFree ==
  ASSUME NEW o \in Outs(0 .. EOC), o.ok, NEW r \in FreeNext(o)
  PROVE  r \in Outs(0 .. EOC)
<1> DEFINE c == o.result
           R == 0 .. EOC
<1>1. o.s \in Sane /\ c \in R /\ c \in Nat
  BY OutsFailed, ClusterNumbers
<1>2. CASE IsEOC(c)
  BY <1>2 DEF FreeNext
<1>3. CASE ~ IsEOC(c)
  <2> DEFINE M(p) == UNION {IF q.ok THEN Success(q.s, p.result) ELSE {q} : q \in FatPut(p.s, c, 0)}
  <2>1. PICK p \in FatGet(o.s, c) : r \in IF p.ok THEN M(p) ELSE {p}
    BY <1>3, Zenon DEF FreeNext, Then
  <2> HIDE DEF c
  <2>2. p \in Outs(R)
    BY <1>1, FatGetNat
  <2> HIDE DEF M
  <2>3. CASE ~ p.ok
    BY <2>1, <2>2, <2>3
  <2>4. CASE p.ok
    <3> HIDE DEF R
    <3>1. p.s \in Sane /\ p.result \in R
      BY <2>2, <2>4, OutsFailed
    <3>2. PICK q \in FatPut(p.s, c, 0) : r \in IF q.ok THEN Success(q.s, p.result) ELSE {q}
      BY <2>1, <2>4 DEF M
    <3>3. q \in Outs({0})
      BY <1>1, <3>1, <3>2, SanePut, ClusterNumbers
    <3>4. q.s \in Sane /\ (~ q.ok => q \in Outs(R))
      BY <3>3, OutsFailed
    <3>5. r \in Outs(R)
      BY <3>1, <3>2, <3>4, SuccessIn
    <3>6. QED
      BY <3>5 DEF R
  <2>5. QED
    BY <2>3, <2>4
<1>4. QED
  BY <1>2, <1>3

LEMMA SaneFrees ==
  ASSUME NEW start \in SUBSET Outs(0 .. EOC), NEW n \in Nat
  PROVE  Repeat(start, FreeNext, n) \subseteq Outs(0 .. EOC)
<1> DEFINE Y == Outs(0 .. EOC)
           G(o) == IF o.ok THEN FreeNext(o) ELSE {o}
           Round == [o \in Y |-> G(o)]
           f == CHOOSE f : f = [k \in Nat |-> IF k = 0 THEN start
                                              ELSE UNION {G(o) : o \in f[k - 1]}]
<1>1. Repeat(start, FreeNext, n) = f[n]
  BY DEF Repeat, Then
<1>2. \A o \in Y : G(o) \in SUBSET Y
  BY SaneFree
<1> HIDE DEF Y, G
<1>3. Round \in [Y -> SUBSET Y]
  BY <1>2
<1>4. PICK g : g \in Rounds(Y, start, Round)
  <2> HIDE DEF Round
  <2>1. start \in SUBSET Y
    BY DEF Y
  <2>2. QED
    BY <1>3, <2>1, RoundsExist
<1>5. g = [k \in Nat |-> IF k = 0 THEN start ELSE UNION {G(o) : o \in g[k - 1]}]
  <2>1. ASSUME NEW k \in Nat
        PROVE  g[k] = IF k = 0 THEN start ELSE UNION {G(o) : o \in g[k - 1]}
    <3>1. CASE k = 0
      BY <1>4, <3>1 DEF Rounds
    <3>2. CASE k # 0
      <4>1. k - 1 \in Nat
        BY <3>2
      <4>2. g[k - 1] \in SUBSET Y
        BY <1>4, <4>1 DEF Rounds
      <4>3. \A o \in g[k - 1] : Round[o] = G(o)
        BY <4>2
      <4>4. g[k] = UNION {Round[o] : o \in g[k - 1]}
        BY <1>4, <3>2 DEF Rounds
      <4> HIDE DEF Round
      <4>5. QED
        BY <3>2, <4>3, <4>4
    <3>3. QED
      BY <3>1, <3>2
  <2>2. QED
    BY <1>4, <2>1 DEF Rounds
<1>6. f = [k \in Nat |-> IF k = 0 THEN start ELSE UNION {G(o) : o \in f[k - 1]}]
  BY <1>5
<1> HIDE DEF f
<1>7. f[0] \subseteq Y
  BY <1>6 DEF Y
<1>8. ASSUME NEW k \in Nat, f[k] \subseteq Y PROVE f[k + 1] \subseteq Y
  <2>1. k + 1 \in Nat /\ k + 1 # 0 /\ (k + 1) - 1 = k
    OBVIOUS
  <2>2. f[k + 1] = UNION {G(o) : o \in f[k]}
    BY <1>6, <2>1
  <2>3. QED
    BY <1>2, <1>8, <2>2
<1>9. f[n] \subseteq Y
  BY <1>7, <1>8, Stays
<1>10. QED
  BY <1>1, <1>9 DEF Y

LEMMA SaneFreeChain ==
  ASSUME NEW s \in Sane, NEW c \in 0 .. EOC, NEW o \in FreeChain(s, c)
  PROVE  o \in Outs({0})
<1> DEFINE t == [s EXCEPT !.searchStart = 2]
           outcomes == Success(t, c)
           n == ClusterCount + 2
<1>1. t \in Sane
  <2>1. s \in Loose
    BY DEF Sane
  <2>2. t \in Loose /\ t.disk = s.disk /\ t.cacheBlock = s.cacheBlock
        /\ t.cacheData = s.cacheData /\ t.cacheDirty = s.cacheDirty
        /\ t.cacheMirror = s.cacheMirror /\ t.mayFail = s.mayFail
    BY <2>1 DEF Loose
  <2> HIDE DEF t
  <2>3. QED
    BY <2>2, Unmoved
<1>2. PICK p \in Repeat(outcomes, FreeNext, n) : o \in IF p.ok THEN Done(p.s) ELSE {p}
  BY Zenon DEF FreeChain, Then
<1> HIDE DEF t
<1>3. n \in Nat
  BY ClusterNumbers
<1>4. outcomes \in SUBSET Outs(0 .. EOC)
  BY <1>1, OutsTypes
<1> HIDE DEF outcomes, n
<1>5. p \in Outs(0 .. EOC)
  BY <1>2, <1>3, <1>4, SaneFrees
<1>6. p.s \in Sane /\ (~ p.ok => p \in Outs({0}))
  BY <1>5, OutsFailed
<1>7. QED
  BY <1>2, <1>6, DoneIn

-----------------------------------------------------------------------------
(* Files.                                                                  *)
LEMMA SaneHandle ==
  ASSUME NEW s \in Sane, NEW f \in Handle
  PROVE  [s EXCEPT !.this = f] \in Sane
<1> DEFINE t == [s EXCEPT !.this = f]
<1>1. t = [s EXCEPT !.this = f]
  OBVIOUS
<1> HIDE DEF t
<1>2. t \in Sane
  BY <1>1, SaneThis
<1>3. QED
  BY <1>2 DEF t

(* AtCluster sets curCluster_.                                             *)
LEMMA SaneAtCluster ==
  ASSUME NEW s \in Sane, NEW c \in 0 .. EOC
  PROVE  AtCluster(s, c) \in Sane
<1> DEFINE f == [s.this EXCEPT !.cur = c]
<1>1. f \in Handle
  BY SaneFacts DEF Handle
<1>2. AtCluster(s, c) = [s EXCEPT !.this = f]
  BY DEF AtCluster
<1> HIDE DEF f
<1>3. QED
  BY <1>1, <1>2, SaneHandle

LEMMA SaneAdd ==
  ASSUME NEW s \in Sane, NEW o \in AddCluster(s)
  PROVE  o \in Outs({0})
<1> DEFINE A(p) == AtCluster(p.s, p.result)
           B(p) == IF A(p).this.first # 0 THEN A(p)
                   ELSE [A(p) EXCEPT !.this.first = p.result, !.this.dirDirty = TRUE]
<1>1. PICK p \in AllocCluster(s, s.this.cur) : o \in IF p.ok THEN Done(B(p)) ELSE {p}
  BY Zenon DEF AddCluster, Then, AtCluster
<1>2. p \in Outs(0 .. EOC)
  BY <1>1, SaneFacts, SaneAlloc
<1>3. CASE ~ p.ok
  BY <1>1, <1>2, <1>3, OutsFailed
<1>4. CASE p.ok
  <2> DEFINE t == A(p)
             c == p.result
             f == [t.this EXCEPT !.first = c, !.dirDirty = TRUE]
             u == [t EXCEPT !.this = f]
  <2>1. c \in 0 .. EOC /\ t \in Sane
    BY <1>2, <1>4, OutsFailed, SaneAtCluster
  <2>2. B(p) = t \/ B(p) = u
    OBVIOUS
  <2> DEFINE v == B(p)
  <2>3. o \in Done(v) /\ (v = t \/ v = u)
    BY <1>1, <1>4, <2>2
  <2> HIDE DEF t, c, v
  <2>4. f \in Handle
    BY <2>1, SaneFacts DEF Handle
  <2> HIDE DEF f
  <2>5. u \in Sane
    BY <2>1, <2>4, SaneHandle
  <2>6. QED
    BY <2>1, <2>3, <2>5, DoneIn
<1>5. QED
  BY <1>3, <1>4

LEMMA SaneNext ==
  ASSUME NEW s \in Sane, NEW o \in NextCluster(s)
  PROVE  o \in Outs({0})
<1>1. CASE s.this.cur = 0 /\ s.this.first = 0
  BY <1>1, SaneAdd DEF NextCluster
<1>2. CASE s.this.cur = 0 /\ s.this.first # 0
  <2>1. o \in Done(AtCluster(s, s.this.first))
    BY <1>2, Zenon DEF NextCluster, AtCluster
  <2>2. AtCluster(s, s.this.first) \in Sane
    BY SaneFacts, SaneAtCluster
  <2>3. QED
    BY <2>1, <2>2, DoneIn
<1>3. CASE s.this.cur # 0
  <2>1. PICK p \in FatGet(s, s.this.cur) :
          o \in IF p.ok THEN IF IsEOC(p.result) THEN AddCluster(p.s)
                             ELSE Done(AtCluster(p.s, p.result))
                ELSE {p}
    BY <1>3, Zenon DEF NextCluster, AtCluster, Then
  <2>2. p \in Outs(0 .. EOC)
    BY <2>1, SaneFacts, FatGetNat
  <2>3. p.s \in Sane /\ (p.ok => p.result \in 0 .. EOC) /\ (~ p.ok => p \in Outs({0}))
    BY <2>2, OutsFailed
  <2>4. p.ok => AtCluster(p.s, p.result) \in Sane
    BY <2>3, SaneAtCluster
  <2>5. QED
    BY <2>1, <2>3, <2>4, SaneAdd, DoneIn
<1>4. QED
  BY <1>1, <1>2, <1>3

(* The blocks of data.                                                     *)
LEMMA PlaceAsked ==
  ASSUME NEW b \in Places
  PROVE  /\ b \in Asked /\ b \notin FatBlocks /\ b # DirBlock /\ b # NoBlock
         /\ \A data : Typed(b, data) <=> data \in UnitData
<1>1. b \notin FatBlocks /\ b # DirBlock /\ b # NoBlock
  BY PlaceKinds
<1>2. QED
  BY <1>1 DEF Asked, Typed

LEMMA SanePlaceWritten ==
  ASSUME NEW s \in Sane, NEW b \in Places, NEW data \in UnitData,
         NEW o \in WriteBlock(s, b, data)
  PROVE  o \in Outs({0})
<1>1. CASE b \notin Blocks
  <2>1. o \in Failed(s)
    BY <1>1, Zenon DEF WriteBlock
  <2>2. QED
    BY <2>1, FailedIn
<1>2. CASE b \in Blocks
  <2> DEFINE disk == [s.disk EXCEPT ![b] = data]
             t == WithDisk(s, disk)
  <2>1. o \in Done(t) \cup CardFault(t) \cup CardFault(s)
    BY <1>2 DEF WriteBlock, WithDisk
  <2>2. s \in Loose /\ s.disk \in [Blocks -> Data] /\ Orderly(s) /\ Agreeing(s)
    BY DEF Sane, Loose
  <2>3. disk \in [Blocks -> Data] /\ \A a \in Blocks : a # b => disk[a] = s.disk[a]
    BY <2>2 DEF Data
  <2>4. disk[b] = data
    BY <1>2, <2>2
  <2> HIDE DEF disk
  <2>5. Rewritten(s, t, disk)
    BY <2>2, <2>3, RewrittenSame
  <2>6. \A a \in Blocks : Typed(a, disk[a])
    BY <2>2, <2>3, <2>4, PlaceAsked DEF Orderly
  <2>7. \A a \in FatBlocks : Mirrored(disk, a) <=> Mirrored(s.disk, a)
    <3>1. \A a \in FatBlocks : a \in Blocks /\ MirrorOf(a) \in Blocks /\ a # b /\ MirrorOf(a) # b
      BY PlaceKinds
    <3>2. QED
      BY <2>3, <3>1 DEF Mirrored
  <2> HIDE DEF t
  <2>8. Owed(t) /\ Copied(t) /\ Agreeing(t)
    BY <2>2, <2>5, <2>7 DEF Rewritten, Orderly, Owed, Copied, Agreeing
  <2>9. Orderly(t) /\ t \in Loose
    BY <2>2, <2>5, <2>6, <2>8 DEF Orderly, Rewritten
  <2>10. t \in Sane
    BY <2>8, <2>9 DEF Sane
  <2>11. QED
    BY <2>1, <2>10, DoneIn, OutsTypes
<1>3. QED
  BY <1>1, <1>2

LEMMA SaneUncached ==
  ASSUME NEW s \in Sane, NEW b \in Places
  PROVE  Uncached(s, b) \in Sane
<1>1. CASE s.cacheBlock # b
  BY <1>1 DEF Uncached
<1>2. CASE s.cacheBlock = b
  <2> DEFINE t == [s EXCEPT !.cacheBlock = NoBlock]
  <2>1. s \in Loose
    BY DEF Sane
  <2>2. /\ t \in Loose /\ t.disk = s.disk /\ t.mayFail = s.mayFail
        /\ t.cacheMirror = s.cacheMirror /\ t.cacheBlock = NoBlock
    BY <2>1 DEF Loose
  <2>3. Uncached(s, b) = t
    BY <1>2 DEF Uncached
  <2> HIDE DEF t
  <2>4. Typed(t.cacheBlock, t.cacheData) /\ t.cacheBlock \notin FatBlocks
    BY <2>2, PlaceKinds DEF Typed
  <2>5. s.cacheBlock \notin FatBlocks
    BY <1>2, PlaceAsked
  <2>6. QED
    BY <2>2, <2>3, <2>4, <2>5, CacheSet
<1>3. QED
  BY <1>1, <1>2

(* The cache holds another block, or other contents, dirty or not.         *)
Filling(s, b, dirty, data) ==
  [s EXCEPT !.cacheBlock = b, !.cacheDirty = dirty, !.cacheData = data]

LEMMA SaneFilled ==
  ASSUME NEW s \in Sane, NEW b \in Asked, b \notin FatBlocks, NEW data, Typed(b, data),
         s.cacheDirty => s.cacheBlock \notin FatBlocks,
         NEW dirty \in BOOLEAN,
         NEW t, t = Filling(s, b, dirty, data)
  PROVE  t \in Sane /\ t.cacheBlock = b /\ t.cacheData = data /\ t.this = s.this
<1>1. s \in Loose /\ data \in Data
  BY TypedData DEF Sane
<1>2. /\ t \in Loose /\ t.disk = s.disk /\ t.mayFail = s.mayFail
      /\ t.cacheMirror = s.cacheMirror /\ t.cacheBlock = b /\ t.cacheData = data
      /\ t.this = s.this
  BY <1>1 DEF Loose, Asked, Filling
<1>3. QED
  BY <1>2, CacheSet

LEMMA OverlaidTyped ==
  ASSUME NEW old \in UnitData, NEW n \in Names, NEW p \in Nat, NEW off \in Nat, NEW m \in Nat
  PROVE  Overlaid(old, n, p, off, m) \in UnitData
<1> DEFINE U == UnitsPerBlock
           E(u) == IF u \in off .. off + m - 1 THEN Units(n, p, m)[u - off + 1] ELSE old[u]
<1>1. U \in Nat \ {0}
  BY VolumeAssumption
<1>2. ASSUME NEW i \in 1 .. m PROVE Units(n, p, m)[i] \in Token
  <2>1. Units(n, p, m)[i] = <<n, p + i - 1>> /\ p + i - 1 \in Nat
    BY DEF Units
  <2>2. QED
    BY <2>1 DEF Token
<1>3. ASSUME NEW u \in 0 .. U - 1 PROVE E(u) \in Token
  <2>1. CASE u \in off .. off + m - 1
    <3>1. u - off + 1 \in 1 .. m
      BY <1>1, <2>1
    <3>2. QED
      BY <1>2, <2>1, <3>1
  <2>2. CASE u \notin off .. off + m - 1
    BY <2>2 DEF UnitData
  <2>3. QED
    BY <2>1, <2>2
<1>4. Overlaid(old, n, p, off, m) = [u \in 0 .. U - 1 |-> E(u)]
  BY DEF Overlaid
<1> HIDE DEF E
<1>5. QED
  BY <1>3, <1>4 DEF UnitData

LEMMA SaneUnits ==
  ASSUME NEW s \in Sane, NEW n \in Names, NEW b \in Places, NEW off \in Nat,
         NEW m \in Nat, NEW o \in PutUnits(s, n, b, off, m)
  PROVE  o \in Outs({0})
<1> DEFINE New(old) == Overlaid(old, n, s.this.pos, off, m)
<1>1. s.this.pos \in Nat
  BY SaneFacts
<1>2. \A old \in UnitData : New(old) \in UnitData
  BY <1>1, OverlaidTyped
<1>3. Blank \in UnitData
  BY DEF Blank, UnitData, Token
<1>4. b \in Asked /\ b \notin FatBlocks /\ \A data : Typed(b, data) <=> data \in UnitData
  BY PlaceAsked
<1>5. \/ m = UnitsPerBlock /\ o \in WriteBlock(Uncached(s, b), b, New(Blank))
      \/ \E p \in CacheFlush(s) : /\ ~ p.ok => o = p
                                  /\ p.ok => o \in Done(Fresh(p.s, b, New(Blank)))
      \/ \E p \in CacheForWriting(s, b) :
                    /\ ~ p.ok => o = p
                    /\ p.ok => o \in Done(Overwritten(p.s, New(p.s.cacheData)))
  BY PutUnitsSteps
<1> HIDE DEF New
<1>6. CASE o \in WriteBlock(Uncached(s, b), b, New(Blank))
  BY <1>2, <1>3, <1>6, SaneUncached, SanePlaceWritten
<1>7. ASSUME NEW p \in CacheFlush(s), ~ p.ok => o = p,
             p.ok => o \in Done(Fresh(p.s, b, New(Blank)))
      PROVE  o \in Outs({0})
  <2>1. p \in Outs({0}) /\ (p.ok => ~ p.s.cacheDirty)
    BY SaneFlush
  <2>2. CASE p.ok
    <3> DEFINE data == New(Blank)
               t == Fresh(p.s, b, data)
    <3>1. p.s \in Sane /\ ~ p.s.cacheDirty /\ Typed(b, data)
      BY <1>2, <1>3, <1>4, <2>1, <2>2, OutsFailed
    <3> HIDE DEF data
    <3>2. PICK dirty \in BOOLEAN : t = Filling(p.s, b, dirty, data)
      BY DEF Fresh, Filling
    <3> HIDE DEF t
    <3>3. t \in Sane
      BY <1>4, <3>1, <3>2, SaneFilled
    <3>4. QED
      BY <1>7, <2>2, <3>3, DoneIn DEF t, data
  <2>3. QED
    BY <1>7, <2>1, <2>2
<1>8. ASSUME NEW p \in CacheForWriting(s, b), ~ p.ok => o = p,
             p.ok => o \in Done(Overwritten(p.s, New(p.s.cacheData)))
      PROVE  o \in Outs({0})
  <2>1. /\ p \in Outs({0})
        /\ p.ok => p.s \in Sane /\ p.s.cacheBlock = b /\ Typed(b, p.s.cacheData)
    BY <1>4, <1>8, SaneForWriting
  <2>2. CASE p.ok
    <3> DEFINE r == p.s
               data == New(r.cacheData)
               t == Overwritten(r, data)
    <3>1. r \in Sane /\ r.cacheBlock = b /\ Typed(b, data)
      BY <1>2, <1>4, <2>1, <2>2
    <3>2. o \in Done(t)
      BY <1>8, <2>2
    <3> HIDE DEF data, r
    <3>3. r \in Loose /\ r.cacheDirty \in BOOLEAN
      BY <3>1 DEF Sane, Loose
    <3>4. t = Filling(r, b, r.cacheDirty, data)
      BY <3>1, <3>3 DEF Overwritten, Loose, Filling
    <3> HIDE DEF t
    <3>5. t \in Sane
      BY <1>4, <3>1, <3>3, <3>4, SaneFilled
    <3>6. QED
      BY <3>2, <3>5, DoneIn
  <2>3. QED
    BY <1>8, <2>1, <2>2
<1>9. QED
  BY <1>5, <1>6, <1>7, <1>8

LEMMA SaneMoved ==
  ASSUME NEW s \in Sane, NEW m \in Nat
  PROVE  Moved(s, m) \in Sane
<1> DEFINE f == [s.this EXCEPT !.pos = @ + m]
<1>1. f \in Handle
  BY SaneFacts DEF Handle
<1>2. Moved(s, m) = [s EXCEPT !.this = f]
  BY DEF Moved
<1> HIDE DEF f
<1>3. QED
  BY <1>1, <1>2, SaneHandle

(* The blocks and the units of a round of write() and read().              *)
LEMMA RoundPlace ==
  ASSUME NEW s \in Sane, NEW left \in Nat
  PROVE  LET m == Min2(UnitsPerBlock - Offset(s), left)
         IN /\ Offset(s) \in Nat /\ m \in Nat /\ left - m \in Nat
            /\ \A c \in 0 .. EOC : DataBlock(c, BlockOfCluster(s)) \in Places
<1>1. s.this.pos \in Nat
  BY SaneFacts
<1>2. /\ Offset(s) \in 0 .. UnitsPerBlock - 1
      /\ BlockOfCluster(s) \in 0 .. BlocksPerCluster - 1
  BY <1>1, Positions DEF Offset, BlockOfCluster, BlockIx, Seg
<1>3. QED
  BY <1>2, VolumeAssumption DEF Min2, Places

LEMMA SaneWriteRound ==
  ASSUME NEW n \in Names, NEW o \in Outs(Nat), o.ok, NEW r \in WriteRound(o, n)
  PROVE  r \in Outs(Nat)
<1>1. CASE o.result = 0
  BY <1>1 DEF WriteRound
<1>2. CASE o.result # 0
  <2> DEFINE s == o.s
             m == RoundUnits(o)
             left == o.result - m
  <2>1. s \in Sane /\ o.result \in Nat
    BY OutsFailed
  <2>2. /\ Offset(s) \in Nat /\ m \in Nat /\ left \in Nat
        /\ \A c \in 0 .. EOC : DataBlock(c, BlockOfCluster(s)) \in Places
    BY <2>1, RoundPlace DEF RoundUnits
  <2>3. PICK p \in Place(s) :
           /\ ~ p.ok => r = p
           /\ p.ok => \E u \in PutPart(o, n, p) :
                /\ ~ u.ok => r = u
                /\ u.ok => r \in Success(Moved(u.s, m), left)
    BY <1>2, WriteRoundSteps
  <2>4. p \in Outs({0})
    <3>1. p \in NextCluster(s) \/ p \in Done(s)
      BY <2>3 DEF Place
    <3>2. QED
      BY <2>1, <3>1, SaneNext, DoneIn
  <2>5. CASE ~ p.ok
    BY <2>3, <2>4, <2>5, OutsFailed
  <2>6. CASE p.ok
    <3>1. PICK u \in PutPart(o, n, p) : /\ ~ u.ok => r = u
                                        /\ u.ok => r \in Success(Moved(u.s, m), left)
      BY <2>3, <2>6
    <3> DEFINE b == DataBlock(p.s.this.cur, BlockOfCluster(s))
               off == Offset(s)
    <3>2. p.s \in Sane /\ b \in Places
      BY <2>2, <2>4, OutsFailed, SaneFacts
    <3>3. u \in PutUnits(p.s, n, b, off, m)
      BY <3>1 DEF PutPart
    <3>4. off \in Nat /\ m \in Nat /\ left \in Nat
      BY <2>2
    <3> HIDE DEF b, m, off, left
    <3>5. u \in Outs({0})
      BY <3>2, <3>3, <3>4, SaneUnits
    <3>6. u.s \in Sane /\ (~ u.ok => u \in Outs(Nat))
      BY <3>5, OutsFailed
    <3>7. Moved(u.s, m) \in Sane
      BY <3>4, <3>6, SaneMoved
    <3>8. QED
      BY <3>1, <3>4, <3>6, <3>7, SuccessIn
  <2>7. QED
    BY <2>5, <2>6
<1>3. QED
  BY <1>1, <1>2

LEMMA SaneWriteRounds ==
  ASSUME NEW name \in Names, NEW start \in SUBSET Outs(Nat), NEW n \in Nat
  PROVE  Repeat(start, LAMBDA o : WriteRound(o, name), n) \subseteq Outs(Nat)
<1> DEFINE Y == Outs(Nat)
           G(o) == IF o.ok THEN WriteRound(o, name) ELSE {o}
           Round == [o \in Y |-> G(o)]
           f == CHOOSE f : f = [k \in Nat |-> IF k = 0 THEN start
                                              ELSE UNION {G(o) : o \in f[k - 1]}]
<1>1. Repeat(start, LAMBDA o : WriteRound(o, name), n) = f[n]
  BY DEF Repeat, Then
<1>2. \A o \in Y : G(o) \in SUBSET Y
  BY SaneWriteRound
<1> HIDE DEF Y, G
<1>3. Round \in [Y -> SUBSET Y]
  BY <1>2
<1>4. PICK g : g \in Rounds(Y, start, Round)
  <2> HIDE DEF Round
  <2>1. start \in SUBSET Y
    BY DEF Y
  <2>2. QED
    BY <1>3, <2>1, RoundsExist
<1>5. g = [k \in Nat |-> IF k = 0 THEN start ELSE UNION {G(o) : o \in g[k - 1]}]
  <2>1. ASSUME NEW k \in Nat
        PROVE  g[k] = IF k = 0 THEN start ELSE UNION {G(o) : o \in g[k - 1]}
    <3>1. CASE k = 0
      BY <1>4, <3>1 DEF Rounds
    <3>2. CASE k # 0
      <4>1. k - 1 \in Nat
        BY <3>2
      <4>2. g[k - 1] \in SUBSET Y
        BY <1>4, <4>1 DEF Rounds
      <4>3. \A o \in g[k - 1] : Round[o] = G(o)
        BY <4>2
      <4>4. g[k] = UNION {Round[o] : o \in g[k - 1]}
        BY <1>4, <3>2 DEF Rounds
      <4> HIDE DEF Round
      <4>5. QED
        BY <3>2, <4>3, <4>4
    <3>3. QED
      BY <3>1, <3>2
  <2>2. QED
    BY <1>4, <2>1 DEF Rounds
<1>6. f = [k \in Nat |-> IF k = 0 THEN start ELSE UNION {G(o) : o \in f[k - 1]}]
  BY <1>5
<1> HIDE DEF f
<1>7. f[0] \subseteq Y
  BY <1>6 DEF Y
<1>8. ASSUME NEW k \in Nat, f[k] \subseteq Y PROVE f[k + 1] \subseteq Y
  <2>1. k + 1 \in Nat /\ k + 1 # 0 /\ (k + 1) - 1 = k
    OBVIOUS
  <2>2. f[k + 1] = UNION {G(o) : o \in f[k]}
    BY <1>6, <2>1
  <2>3. QED
    BY <1>2, <1>8, <2>2
<1>9. f[n] \subseteq Y
  BY <1>7, <1>8, Stays
<1>10. QED
  BY <1>1, <1>9 DEF Y

LEMMA SaneSized ==
  ASSUME NEW s \in Sane
  PROVE  Sized(s) \in Sane
<1> DEFINE f == [s.this EXCEPT !.size = s.this.pos, !.dirDirty = TRUE]
           t == [s EXCEPT !.this = f]
<1>1. f \in Handle
  BY SaneFacts DEF Handle
<1>2. Sized(s) = s \/ Sized(s) = t
  BY DEF Sized
<1> HIDE DEF f
<1>3. t \in Sane
  BY <1>1, SaneHandle
<1>4. QED
  BY <1>2, <1>3

LEMMA SaneWrite ==
  ASSUME NEW s \in Sane, NEW name \in Names, NEW n \in Nat, NEW o \in FileWrite(s, name, n)
  PROVE  o \in Outs({0})
<1> DEFINE start == Success(s, n)
<1>1. PICK p \in WriteUnits(s, name, n) : o \in IF p.ok THEN Done(Sized(p.s)) ELSE {p}
  BY Zenon DEF FileWrite, Sized, Then
<1>2. p \in Repeat(start, LAMBDA r : WriteRound(r, name), n)
  BY <1>1 DEF WriteUnits
<1>3. start \in SUBSET Outs(Nat)
  BY OutsTypes
<1> HIDE DEF start
<1>4. p \in Outs(Nat)
  BY <1>2, <1>3, SaneWriteRounds
<1>5. p.s \in Sane /\ (~ p.ok => p \in Outs({0}))
  BY <1>4, OutsFailed
<1>6. Sized(p.s) \in Sane
  BY <1>5, SaneSized
<1>7. QED
  BY <1>1, <1>5, <1>6, DoneIn

LEMMA SaneFollowLink ==
  ASSUME NEW o \in Outs({0}), o.ok, NEW r \in FollowLink(o)
  PROVE  r \in Outs({0})
<1> DEFINE c == o.s.this.cur
<1>1. PICK p \in FatGet(o.s, c) : /\ ~ p.ok => r = p
                                  /\ p.ok => r \in Done(AtCluster(p.s, p.result))
  BY FollowLinkSteps
<1>2. o.s \in Sane /\ c \in 0 .. EOC
  BY OutsFailed, SaneFacts
<1> HIDE DEF c
<1>3. p \in Outs(0 .. EOC)
  BY <1>1, <1>2, FatGetNat
<1>4. p.s \in Sane /\ (p.ok => p.result \in 0 .. EOC) /\ (~ p.ok => p \in Outs({0}))
  BY <1>3, OutsFailed
<1>5. p.ok => AtCluster(p.s, p.result) \in Sane
  BY <1>4, SaneAtCluster
<1>6. QED
  BY <1>1, <1>4, <1>5, DoneIn

LEMMA SaneFollows ==
  ASSUME NEW start \in SUBSET Outs({0}), NEW n \in Nat
  PROVE  Repeat(start, FollowLink, n) \subseteq Outs({0})
<1> DEFINE Y == Outs({0})
           G(o) == IF o.ok THEN FollowLink(o) ELSE {o}
           Round == [o \in Y |-> G(o)]
           f == CHOOSE f : f = [k \in Nat |-> IF k = 0 THEN start
                                              ELSE UNION {G(o) : o \in f[k - 1]}]
<1>1. Repeat(start, FollowLink, n) = f[n]
  BY DEF Repeat, Then
<1>2. \A o \in Y : G(o) \in SUBSET Y
  BY SaneFollowLink
<1> HIDE DEF Y, G
<1>3. Round \in [Y -> SUBSET Y]
  BY <1>2
<1>4. PICK g : g \in Rounds(Y, start, Round)
  <2> HIDE DEF Round
  <2>1. start \in SUBSET Y
    BY DEF Y
  <2>2. QED
    BY <1>3, <2>1, RoundsExist
<1>5. g = [k \in Nat |-> IF k = 0 THEN start ELSE UNION {G(o) : o \in g[k - 1]}]
  <2>1. ASSUME NEW k \in Nat
        PROVE  g[k] = IF k = 0 THEN start ELSE UNION {G(o) : o \in g[k - 1]}
    <3>1. CASE k = 0
      BY <1>4, <3>1 DEF Rounds
    <3>2. CASE k # 0
      <4>1. k - 1 \in Nat
        BY <3>2
      <4>2. g[k - 1] \in SUBSET Y
        BY <1>4, <4>1 DEF Rounds
      <4>3. \A o \in g[k - 1] : Round[o] = G(o)
        BY <4>2
      <4>4. g[k] = UNION {Round[o] : o \in g[k - 1]}
        BY <1>4, <3>2 DEF Rounds
      <4> HIDE DEF Round
      <4>5. QED
        BY <3>2, <4>3, <4>4
    <3>3. QED
      BY <3>1, <3>2
  <2>2. QED
    BY <1>4, <2>1 DEF Rounds
<1>6. f = [k \in Nat |-> IF k = 0 THEN start ELSE UNION {G(o) : o \in f[k - 1]}]
  BY <1>5
<1> HIDE DEF f
<1>7. f[0] \subseteq Y
  BY <1>6 DEF Y
<1>8. ASSUME NEW k \in Nat, f[k] \subseteq Y PROVE f[k + 1] \subseteq Y
  <2>1. k + 1 \in Nat /\ k + 1 # 0 /\ (k + 1) - 1 = k
    OBVIOUS
  <2>2. f[k + 1] = UNION {G(o) : o \in f[k]}
    BY <1>6, <2>1
  <2>3. QED
    BY <1>2, <1>8, <2>2
<1>9. f[n] \subseteq Y
  BY <1>7, <1>8, Stays
<1>10. QED
  BY <1>1, <1>9 DEF Y

LEMMA SaneSeek ==
  ASSUME NEW s \in Sane, NEW pos \in Nat, NEW o \in SeekSet(s, pos)
  PROVE  o \in Outs({0})
<1>1. CASE pos > s.this.size
  <2>1. o \in Failed(s)
    BY <1>1, Zenon DEF SeekSet
  <2>2. QED
    BY <2>1, FailedIn
<1> DEFINE Here(t, c, p) == [t EXCEPT !.this.cur = c, !.this.pos = p]
<1>2. ASSUME NEW t \in Sane, NEW c \in 0 .. EOC, NEW p \in Nat PROVE Here(t, c, p) \in Sane
  <2> DEFINE f == [t.this EXCEPT !.cur = c, !.pos = p]
  <2>1. f \in Handle
    BY SaneFacts DEF Handle
  <2>2. Here(t, c, p) = [t EXCEPT !.this = f]
    OBVIOUS
  <2> HIDE DEF f, Here
  <2>3. QED
    BY <2>1, <2>2, SaneHandle
<1>3. CASE ~ (pos > s.this.size) /\ pos = 0
  <2>1. o \in Done(Here(s, 0, 0))
    BY <1>3, Zenon DEF SeekSet
  <2> HIDE DEF Here
  <2>2. QED
    BY <1>2, <2>1, DoneIn, ClusterNumbers
<1>4. CASE ~ (pos > s.this.size) /\ pos # 0
  <2> DEFINE nCur == (s.this.pos - 1) \div ClusterUnits
             nNew == (pos - 1) \div ClusterUnits
             restart == s.this.pos = 0 \/ nNew < nCur
             from == IF restart THEN AtCluster(s, s.this.first) ELSE s
             steps == IF restart THEN nNew ELSE nNew - nCur
             start == Done(from)
             End(t) == [t EXCEPT !.this.pos = pos]
  <2>1. PICK p \in Follow(from, steps) : o \in IF p.ok THEN Done(End(p.s)) ELSE {p}
    BY <1>4, Zenon DEF SeekSet, Then, AtCluster
  <2>2. from \in Sane
    BY SaneFacts, SaneAtCluster
  <2>3. steps \in Nat
    <3>1. ClusterUnits \in Nat \ {0}
      BY ClusterOfUnit, ClusterNumbers
    <3>2. nNew \in Nat
      <4>1. pos - 1 \in Nat
        BY <1>4
      <4>2. QED
        BY <3>1, <4>1, Division, Zenon
    <3>3. s.this.pos \in Nat /\ (s.this.pos # 0 => nCur \in Nat)
      <4>1. s.this.pos \in Nat
        BY SaneFacts
      <4>2. s.this.pos # 0 => s.this.pos - 1 \in Nat
        BY <4>1
      <4>3. QED
        BY <3>1, <4>1, <4>2, Division, Zenon
    <3> HIDE DEF nNew, nCur
    <3>4. QED
      BY <3>2, <3>3
  <2> HIDE DEF from, steps
  <2>4. p \in Repeat(start, FollowLink, steps) /\ start \in SUBSET Outs({0})
    BY <2>1, <2>2, OutsTypes DEF Follow
  <2> HIDE DEF start
  <2>5. p \in Outs({0})
    BY <2>3, <2>4, SaneFollows
  <2>6. p.s \in Sane
    BY <2>5, OutsFailed
  <2>7. End(p.s) \in Sane
    <3> DEFINE t == p.s
               f == [t.this EXCEPT !.pos = pos]
    <3>1. f \in Handle
      BY <2>6, SaneFacts DEF Handle
    <3>2. End(t) = [t EXCEPT !.this = f]
      OBVIOUS
    <3> HIDE DEF f, End
    <3>3. QED
      BY <2>6, <3>1, <3>2, SaneHandle
  <2> HIDE DEF End
  <2>8. QED
    BY <2>1, <2>5, <2>7, DoneIn
<1>5. QED
  BY <1>1, <1>3, <1>4

(* The block of the directory.                                             *)
LEMMA EntriesEdited ==
  ASSUME NEW d \in DirData, NEW n \in Names
  PROVE  /\ \A x \in 0 .. EOC : [d EXCEPT ![n].first = x] \in DirData
         /\ \A k \in Nat : [d EXCEPT ![n].size = k] \in DirData
         /\ \A u \in BOOLEAN : [d EXCEPT ![n].used = u] \in DirData
         /\ d[n].first \in 0 .. EOC /\ d[n].size \in Nat
<1>1. d[n] \in EntryType
  BY DEF DirData
<1>2. \A e \in EntryType : [d EXCEPT ![n] = e] \in DirData
  BY DEF DirData
<1>3. /\ \A x \in 0 .. EOC : [d[n] EXCEPT !.first = x] \in EntryType
      /\ \A k \in Nat : [d[n] EXCEPT !.size = k] \in EntryType
      /\ \A u \in BOOLEAN : [d[n] EXCEPT !.used = u] \in EntryType
      /\ d[n].first \in 0 .. EOC /\ d[n].size \in Nat
  BY <1>1 DEF EntryType
<1>4. QED
  BY <1>2, <1>3

LEMMA DirAsked ==
  /\ DirBlock \in Asked /\ DirBlock \notin FatBlocks
  /\ \A data : Typed(DirBlock, data) <=> data \in DirData
BY PlaceKinds DEF Asked, Typed

Listing(s, dirty, d, f) == [s EXCEPT !.cacheDirty = dirty, !.cacheData = d, !.this = f]

LEMMA SaneDir ==
  ASSUME NEW s \in Sane, s.cacheBlock = DirBlock, NEW d \in DirData,
         NEW dirty \in BOOLEAN, NEW f \in Handle,
         NEW t, t = Listing(s, dirty, d, f)
  PROVE  t \in Sane /\ t.cacheBlock = DirBlock /\ t.cacheData = d
<1> DEFINE u == Filling(s, DirBlock, dirty, d)
<1>1. s \in Loose /\ u = Filling(s, DirBlock, dirty, d)
  BY DEF Sane
<1>2. [u EXCEPT !.this = f] = t
  BY <1>1 DEF Filling, Listing, Loose
<1> HIDE DEF u
<1>3. u \in Sane /\ u.cacheBlock = DirBlock /\ u.cacheData = d
  BY <1>1, DirAsked, SaneFilled
<1>4. QED
  BY <1>2, <1>3, SaneThis

LEMMA SaneEntered ==
  ASSUME NEW s \in Sane, s.cacheBlock = DirBlock, s.cacheData \in DirData,
         NEW n \in Names, NEW f \in Handle
  PROVE  Entered(s, n, f) \in Sane
<1> DEFINE d == s.cacheData
           size == f.size
           first == f.first
           e == [d EXCEPT ![n].size = size]
           e2 == [e EXCEPT ![n].first = first]
           g == [s.this EXCEPT !.dirDirty = FALSE]
<1>1. size \in Nat /\ first \in 0 .. EOC
  BY DEF Handle
<1> HIDE DEF size, first
<1>2. e \in DirData
  BY <1>1, EntriesEdited
<1>3. e2 \in DirData
  <2> HIDE DEF e
  <2>1. QED
    BY <1>1, <1>2, EntriesEdited
<1>4. g \in Handle
  BY SaneFacts DEF Handle
<1> DEFINE dirty == s.cacheDirty
<1>5. s \in Loose /\ dirty \in BOOLEAN
  BY DEF Sane, Loose
<1>6. Entered(s, n, f) = Listing(s, dirty, e2, g)
  <2> DEFINE u == [s EXCEPT !.cacheData[n].size = f.size]
             v == [u EXCEPT !.cacheData[n].first = f.first]
             w == [v EXCEPT !.this.dirDirty = FALSE]
  <2>1. Entered(s, n, f) = w
    BY DEF Entered
  <2>2. u = [s EXCEPT !.cacheData = e]
    BY DEF size
  <2> HIDE DEF u
  <2>3. u.cacheData = e /\ e2 = [e EXCEPT ![n].first = f.first]
    BY <1>5, <2>2 DEF Loose, first
  <2> HIDE DEF e, e2
  <2>4. v = [u EXCEPT !.cacheData = e2]
    BY <2>3
  <2>5. v = [s EXCEPT !.cacheData = e2]
    BY <1>5, <2>2, <2>4 DEF Loose
  <2> HIDE DEF v
  <2>6. v.this = s.this
    BY <1>5, <2>5 DEF Loose
  <2>7. w = [v EXCEPT !.this = g]
    BY <2>6
  <2> HIDE DEF w, g
  <2>8. QED
    BY <1>5, <2>1, <2>5, <2>7 DEF Listing, Loose
<1> HIDE DEF e2, g, dirty
<1>7. QED
  BY <1>3, <1>4, <1>5, <1>6, SaneDir

LEMMA SaneSync ==
  ASSUME NEW s \in Sane, NEW n \in Names, NEW o \in FileSync(s, n)
  PROVE  o \in Outs({0})
<1>1. CASE ~ s.this.dirDirty
  <2>1. o \in CacheFlush(s)
    BY <1>1, FileSyncSteps
  <2>2. QED
    BY <2>1, SaneFlush
<1>2. CASE s.this.dirDirty
  <2>1. PICK c \in CacheForWriting(s, DirBlock) :
                /\ ~ c.ok => o = c
                /\ c.ok => o \in CacheFlush(Entered(c.s, n, s.this))
    BY <1>2, FileSyncSteps
  <2>2. /\ c \in Outs({0})
        /\ c.ok => c.s \in Sane /\ c.s.cacheBlock = DirBlock /\ c.s.cacheData \in DirData
    BY <2>1, DirAsked, SaneForWriting
  <2>3. c.ok => Entered(c.s, n, s.this) \in Sane
    BY <2>2, SaneFacts, SaneEntered
  <2>4. QED
    BY <2>1, <2>2, <2>3, SaneFlush
<1>3. QED
  BY <1>1, <1>2

LEMMA SaneCut ==
  ASSUME NEW s \in Sane, NEW len \in Nat, NEW o \in CutChain(s, len)
  PROVE  o \in Outs({0})
<1>1. CASE len = 0
  <2> DEFINE E(t) == [t EXCEPT !.this.first = 0]
  <2>1. PICK p \in FreeChain(s, s.this.first) : o \in IF p.ok THEN Done(E(p.s)) ELSE {p}
    BY <1>1, Zenon DEF CutChain, Then
  <2>2. p \in Outs({0})
    BY <2>1, SaneFacts, SaneFreeChain
  <2>3. p.s \in Sane
    BY <2>2, OutsFailed
  <2>4. E(p.s) \in Sane
    <3> DEFINE t == p.s
               f == [t.this EXCEPT !.first = 0]
    <3>1. f \in Handle
      BY <2>3, SaneFacts, ClusterNumbers DEF Handle
    <3>2. E(t) = [t EXCEPT !.this = f]
      OBVIOUS
    <3> HIDE DEF f, E, t
    <3>3. QED
      BY <2>3, <3>1, <3>2, SaneHandle DEF t
  <2> HIDE DEF E
  <2>5. QED
    BY <2>1, <2>2, <2>4, DoneIn
<1>2. CASE len # 0
  <2> DEFINE M(p) == UNION {IF r.ok THEN FatPut(r.s, r.s.this.cur, EOC) ELSE {r} :
                            r \in FreeChain(p.s, p.result)}
  <2>1. PICK p \in FatGet(s, s.this.cur) :
          o \in IF p.ok THEN IF IsEOC(p.result) THEN Done(p.s) ELSE M(p) ELSE {p}
    BY <1>2, Zenon DEF CutChain, Then
  <2> HIDE DEF M
  <2>2. p \in Outs(0 .. EOC)
    BY <2>1, SaneFacts, FatGetNat
  <2>3. p.s \in Sane /\ (p.ok => p.result \in 0 .. EOC) /\ (~ p.ok => p \in Outs({0}))
    BY <2>2, OutsFailed
  <2>4. CASE ~ p.ok
    BY <2>1, <2>3, <2>4
  <2>5. CASE p.ok /\ IsEOC(p.result)
    <3>1. o \in Done(p.s)
      BY <2>1, <2>5
    <3>2. QED
      BY <2>3, <3>1, DoneIn
  <2>6. CASE p.ok /\ ~ IsEOC(p.result)
    <3>1. o \in M(p)
      BY <2>1, <2>6
    <3>2. PICK r \in FreeChain(p.s, p.result) :
            o \in IF r.ok THEN FatPut(r.s, r.s.this.cur, EOC) ELSE {r}
      BY <3>1 DEF M
    <3>3. r \in Outs({0})
      BY <2>3, <2>6, <3>2, SaneFreeChain
    <3>4. r.s \in Sane /\ r.s.this.cur \in Nat /\ EOC \in 0 .. EOC
      BY <3>3, OutsFailed, SaneFacts, ClusterNumbers
    <3>5. QED
      BY <3>2, <3>3, <3>4, SanePut
  <2>7. QED
    BY <2>4, <2>5, <2>6
<1>3. QED
  BY <1>1, <1>2

Shortened(s, len) == [s EXCEPT !.this.size = len, !.this.dirDirty = TRUE]

LEMMA TruncateSteps ==
  ASSUME NEW s, NEW n, NEW len, ~ (len > s.this.size), s.this.size # 0,
         NEW o \in FileTruncate(s, n, len)
  PROVE  \E p \in SeekSet(s, len) :
           /\ ~ p.ok => o = p
           /\ p.ok => \E c \in CutChain(p.s, len) :
                /\ ~ c.ok => o = c
                /\ c.ok => \E q \in FileSync(Shortened(c.s, len), n) :
                     /\ ~ q.ok => o = q
                     /\ q.ok => o \in SeekSet(q.s, Min2(s.this.pos, len))
<1> DEFINE C(c) == Then(FileSync(Shortened(c.s, len), n),
                        LAMBDA q : SeekSet(q.s, Min2(s.this.pos, len)))
           P(p) == Then(CutChain(p.s, len), C)
<1>1. o \in Then(SeekSet(s, len), P)
  BY Zenon DEF FileTruncate, Shortened
<1>2. PICK p \in SeekSet(s, len) : o \in IF p.ok THEN P(p) ELSE {p}
  BY <1>1, Zenon DEF Then
<1>3. CASE ~ p.ok
  BY <1>2, <1>3
<1>4. CASE p.ok
  <2>1. PICK c \in CutChain(p.s, len) : o \in IF c.ok THEN C(c) ELSE {c}
    BY <1>2, <1>4, Zenon DEF Then
  <2>2. CASE ~ c.ok
    BY <1>4, <2>1, <2>2
  <2>3. CASE c.ok
    <3>1. PICK q \in FileSync(Shortened(c.s, len), n) :
            o \in IF q.ok THEN SeekSet(q.s, Min2(s.this.pos, len)) ELSE {q}
      BY <2>1, <2>3, Zenon DEF Then
    <3>2. QED
      BY <1>4, <2>3, <3>1
  <2>4. QED
    BY <2>2, <2>3
<1>5. QED
  BY <1>3, <1>4

LEMMA SaneTruncate ==
  ASSUME NEW s \in Sane, NEW n \in Names, NEW len \in Nat, NEW o \in FileTruncate(s, n, len)
  PROVE  o \in Outs({0})
<1>1. CASE len > s.this.size
  <2>1. o \in Failed(s)
    BY <1>1, Zenon DEF FileTruncate
  <2>2. QED
    BY <2>1, FailedIn
<1>2. CASE ~ (len > s.this.size) /\ s.this.size = 0
  <2>1. o \in Done(s)
    BY <1>2, Zenon DEF FileTruncate
  <2>2. QED
    BY <2>1, DoneIn
<1>3. CASE ~ (len > s.this.size) /\ s.this.size # 0
  <2>1. PICK p \in SeekSet(s, len) :
           /\ ~ p.ok => o = p
           /\ p.ok => \E c \in CutChain(p.s, len) :
                /\ ~ c.ok => o = c
                /\ c.ok => \E q \in FileSync(Shortened(c.s, len), n) :
                     /\ ~ q.ok => o = q
                     /\ q.ok => o \in SeekSet(q.s, Min2(s.this.pos, len))
    BY <1>3, TruncateSteps
  <2>2. p \in Outs({0})
    BY <2>1, SaneSeek
  <2>3. CASE ~ p.ok
    BY <2>1, <2>2, <2>3
  <2>4. CASE p.ok
    <3>1. PICK c \in CutChain(p.s, len) :
                /\ ~ c.ok => o = c
                /\ c.ok => \E q \in FileSync(Shortened(c.s, len), n) :
                     /\ ~ q.ok => o = q
                     /\ q.ok => o \in SeekSet(q.s, Min2(s.this.pos, len))
      BY <2>1, <2>4
    <3>2. c \in Outs({0})
      BY <2>2, <3>1, OutsFailed, SaneCut
    <3>3. CASE ~ c.ok
      BY <3>1, <3>2, <3>3
    <3>4. CASE c.ok
      <4>1. PICK q \in FileSync(Shortened(c.s, len), n) :
                     /\ ~ q.ok => o = q
                     /\ q.ok => o \in SeekSet(q.s, Min2(s.this.pos, len))
        BY <3>1, <3>4
      <4>2. Shortened(c.s, len) \in Sane
        <5> DEFINE t == c.s
                   f == [t.this EXCEPT !.size = len, !.dirDirty = TRUE]
        <5>1. t \in Sane
          BY <3>2, OutsFailed
        <5>2. f \in Handle
          BY <5>1, SaneFacts DEF Handle
        <5>3. Shortened(t, len) = [t EXCEPT !.this = f]
          BY DEF Shortened
        <5> HIDE DEF f
        <5>4. QED
          BY <5>1, <5>2, <5>3, SaneHandle
      <4>3. q \in Outs({0}) /\ q.s \in Sane
        BY <4>1, <4>2, SaneSync, OutsFailed
      <4>4. Min2(s.this.pos, len) \in Nat
        BY SaneFacts DEF Min2
      <4>5. QED
        BY <4>1, <4>3, <4>4, SaneSeek
    <3>5. QED
      BY <3>3, <3>4
  <2>5. QED
    BY <2>3, <2>4
<1>4. QED
  BY <1>1, <1>2, <1>3

(* The steps of a round of read().                                         *)
Reach(o) == IF ~ (Offset(o.s) = 0 /\ BlockOfCluster(o.s) = 0) THEN Done(o.s)
            ELSE IF o.s.this.pos = 0 THEN Done(AtCluster(o.s, o.s.this.first))
            ELSE FollowLink(o)
Fetch(s, b, m) == IF m = UnitsPerBlock /\ b # s.cacheBlock
                  THEN ReadBlock(s, b) ELSE CacheForReading(s, b)

LEMMA ReadRoundSteps ==
  ASSUME NEW o, o.result # 0, NEW r \in ReadRound(o)
  PROVE  \E p \in Reach(o) :
           /\ ~ p.ok => r = p
           /\ p.ok => \E u \in Fetch(p.s, DataBlock(p.s.this.cur, BlockOfCluster(o.s)),
                                     RoundUnits(o)) :
                /\ ~ u.ok => r = u
                /\ u.ok => r \in Success(Moved(u.s, RoundUnits(o)), o.result - RoundUnits(o))
<1> DEFINE Got(p) == Fetch(p.s, DataBlock(p.s.this.cur, BlockOfCluster(o.s)), RoundUnits(o))
           Rest(p) == Then(Got(p), LAMBDA u :
                        Success(Moved(u.s, RoundUnits(o)), o.result - RoundUnits(o)))
<1>1. r \in Then(Reach(o), Rest)
  BY Zenon DEF ReadRound, Fetch, CacheForReading, RoundUnits, Reach, AtCluster, Moved
<1>2. PICK p \in Reach(o) : r \in IF p.ok THEN Rest(p) ELSE {p}
  BY <1>1, Zenon DEF Then
<1>3. CASE ~ p.ok
  BY <1>2, <1>3
<1>4. CASE p.ok
  <2>1. PICK u \in Got(p) :
          r \in IF u.ok THEN Success(Moved(u.s, RoundUnits(o)), o.result - RoundUnits(o))
                ELSE {u}
    BY <1>2, <1>4, Zenon DEF Then
  <2>2. QED
    BY <1>4, <2>1
<1>5. QED
  BY <1>3, <1>4

LEMMA SaneReadRound ==
  ASSUME NEW o \in Outs(Nat), o.ok, NEW r \in ReadRound(o)
  PROVE  r \in Outs(Nat)
<1>1. CASE o.result = 0
  BY <1>1 DEF ReadRound
<1>2. CASE o.result # 0
  <2> DEFINE s == o.s
             m == RoundUnits(o)
             left == o.result - m
  <2>1. s \in Sane /\ o.result \in Nat
    BY OutsFailed
  <2>2. /\ m \in Nat /\ left \in Nat
        /\ \A c \in 0 .. EOC : DataBlock(c, BlockOfCluster(s)) \in Places
    BY <2>1, RoundPlace DEF RoundUnits
  <2>3. PICK p \in Reach(o) :
           /\ ~ p.ok => r = p
           /\ p.ok => \E u \in Fetch(p.s, DataBlock(p.s.this.cur, BlockOfCluster(s)), m) :
                /\ ~ u.ok => r = u
                /\ u.ok => r \in Success(Moved(u.s, m), left)
    BY <1>2, ReadRoundSteps
  <2>4. p.s \in Sane /\ (~ p.ok => p \in Outs(Nat))
    <3>1. CASE p \in Done(s)
      BY <2>1, <3>1, OfDone
    <3>2. CASE p \in Done(AtCluster(s, s.this.first))
      BY <2>1, <3>2, OfDone, SaneFacts, SaneAtCluster
    <3>3. CASE p \in FollowLink(o)
      <4> DEFINE z == Done(s)
      <4>1. PICK g \in FatGet(s, s.this.cur) : /\ ~ g.ok => p = g
                                               /\ g.ok => p \in Done(AtCluster(g.s, g.result))
        BY <3>3, FollowLinkSteps
      <4>2. g \in Outs(0 .. EOC)
        BY <2>1, <4>1, SaneFacts, FatGetNat
      <4>3. g.s \in Sane /\ (g.ok => g.result \in 0 .. EOC) /\ (~ g.ok => g \in Outs(Nat))
        BY <4>2, OutsFailed
      <4>4. g.ok => AtCluster(g.s, g.result) \in Sane
        BY <4>3, SaneAtCluster
      <4>5. QED
        BY <4>1, <4>3, <4>4, OfDone
    <3>4. QED
      BY <2>3, <3>1, <3>2, <3>3 DEF Reach
  <2>5. CASE ~ p.ok
    BY <2>3, <2>4, <2>5
  <2>6. CASE p.ok
    <3> DEFINE b == DataBlock(p.s.this.cur, BlockOfCluster(s))
    <3>1. PICK u \in Fetch(p.s, b, m) : /\ ~ u.ok => r = u
                                        /\ u.ok => r \in Success(Moved(u.s, m), left)
      BY <2>3, <2>6
    <3>2. b \in Places
      BY <2>2, <2>4, SaneFacts
    <3>3. m \in Nat /\ left \in Nat
      BY <2>2
    <3> HIDE DEF b, m, left
    <3>4. u.s \in Sane /\ (~ u.ok => u \in Outs(Nat))
      <4>1. CASE u \in ReadBlock(p.s, b)
        <5>1. CASE u.ok
          BY <2>4, <4>1, <5>1, SaneRead
        <5>2. CASE ~ u.ok
          <6>1. \A R : u \in Outs(R)
            BY <2>4, <4>1, <5>2, SaneRead
          <6>2. u \in Outs(Nat)
            BY <6>1
          <6>3. QED
            BY <6>2, OutsFailed
        <5>3. QED
          BY <5>1, <5>2
      <4>2. CASE u \in CacheForReading(p.s, b)
        <5>1. u \in Outs({0})
          BY <2>4, <3>2, <4>2, PlaceAsked, SaneForReading
        <5>2. QED
          BY <5>1, OutsFailed
      <4>3. QED
        BY <3>1, <4>1, <4>2 DEF Fetch
    <3>5. Moved(u.s, m) \in Sane
      BY <3>3, <3>4, SaneMoved
    <3>6. QED
      BY <3>1, <3>3, <3>4, <3>5, SuccessIn
  <2>7. QED
    BY <2>5, <2>6
<1>3. QED
  BY <1>1, <1>2

LEMMA SaneReadRounds ==
  ASSUME NEW start \in SUBSET Outs(Nat), NEW n \in Nat
  PROVE  Repeat(start, ReadRound, n) \subseteq Outs(Nat)
<1> DEFINE Y == Outs(Nat)
           G(o) == IF o.ok THEN ReadRound(o) ELSE {o}
           Round == [o \in Y |-> G(o)]
           f == CHOOSE f : f = [k \in Nat |-> IF k = 0 THEN start
                                              ELSE UNION {G(o) : o \in f[k - 1]}]
<1>1. Repeat(start, ReadRound, n) = f[n]
  BY DEF Repeat, Then
<1>2. \A o \in Y : G(o) \in SUBSET Y
  BY SaneReadRound
<1> HIDE DEF Y, G
<1>3. Round \in [Y -> SUBSET Y]
  BY <1>2
<1>4. PICK g : g \in Rounds(Y, start, Round)
  <2> HIDE DEF Round
  <2>1. start \in SUBSET Y
    BY DEF Y
  <2>2. QED
    BY <1>3, <2>1, RoundsExist
<1>5. g = [k \in Nat |-> IF k = 0 THEN start ELSE UNION {G(o) : o \in g[k - 1]}]
  <2>1. ASSUME NEW k \in Nat
        PROVE  g[k] = IF k = 0 THEN start ELSE UNION {G(o) : o \in g[k - 1]}
    <3>1. CASE k = 0
      BY <1>4, <3>1 DEF Rounds
    <3>2. CASE k # 0
      <4>1. k - 1 \in Nat
        BY <3>2
      <4>2. g[k - 1] \in SUBSET Y
        BY <1>4, <4>1 DEF Rounds
      <4>3. \A o \in g[k - 1] : Round[o] = G(o)
        BY <4>2
      <4>4. g[k] = UNION {Round[o] : o \in g[k - 1]}
        BY <1>4, <3>2 DEF Rounds
      <4> HIDE DEF Round
      <4>5. QED
        BY <3>2, <4>3, <4>4
    <3>3. QED
      BY <3>1, <3>2
  <2>2. QED
    BY <1>4, <2>1 DEF Rounds
<1>6. f = [k \in Nat |-> IF k = 0 THEN start ELSE UNION {G(o) : o \in f[k - 1]}]
  BY <1>5
<1> HIDE DEF f
<1>7. f[0] \subseteq Y
  BY <1>6 DEF Y
<1>8. ASSUME NEW k \in Nat, f[k] \subseteq Y PROVE f[k + 1] \subseteq Y
  <2>1. k + 1 \in Nat /\ k + 1 # 0 /\ (k + 1) - 1 = k
    OBVIOUS
  <2>2. f[k + 1] = UNION {G(o) : o \in f[k]}
    BY <1>6, <2>1
  <2>3. QED
    BY <1>2, <1>8, <2>2
<1>9. f[n] \subseteq Y
  BY <1>7, <1>8, Stays
<1>10. QED
  BY <1>1, <1>9 DEF Y

LEMMA SaneFileRead ==
  ASSUME NEW s \in Sane, NEW n \in Nat, NEW o \in FileRead(s, n)
  PROVE  o \in Outs(Nat)
<1> DEFINE left == (s.this.size - s.this.pos) % Modulus
           nbyte == Min2(n, left)
           start == Success(s, nbyte)
<1>1. o \in Repeat(start, ReadRound, nbyte)
  BY DEF FileRead
<1>2. left \in Nat
  BY SaneFacts DEF Modulus
<1> HIDE DEF left
<1>3. nbyte \in Nat
  BY <1>2 DEF Min2
<1> HIDE DEF nbyte
<1>4. start \in SUBSET Outs(Nat)
  BY <1>3, OutsTypes
<1> HIDE DEF start
<1>5. QED
  BY <1>1, <1>3, <1>4, SaneReadRounds

LEMMA SaneOpened ==
  ASSUME NEW s \in Sane, NEW d \in DirData, NEW n \in Names
  PROVE  Opened(s, d[n]) \in Sane /\ d[n].size \in Nat
<1> DEFINE e == d[n]
           f == [Closed EXCEPT !.open = TRUE, !.first = e.first, !.size = e.size]
<1>1. e.first \in 0 .. EOC /\ e.size \in Nat
  BY EntriesEdited
<1> HIDE DEF e
<1>2. f \in Handle
  BY <1>1, ClosedTyped DEF Handle
<1>3. Opened(s, e) = [s EXCEPT !.this = f]
  BY DEF Opened
<1> HIDE DEF f
<1>4. QED
  BY <1>1, <1>2, <1>3, SaneHandle DEF e

LEMMA SaneCreated ==
  ASSUME NEW s \in Sane, s.cacheBlock = DirBlock, s.cacheData \in DirData, NEW n \in Names
  PROVE  Created(s, n) \in Sane /\ Created(s, n).cacheData \in DirData
<1> DEFINE d == s.cacheData
           e == Saved(d, n, Closed)
           f == s.this
           t == Created(s, n)
<1>1. e \in DirData
  BY SavedClosed
<1>2. s \in Loose /\ f \in Handle
  BY SaneFacts
<1>3. \E dirty \in BOOLEAN : t = Listing(s, dirty, e, f)
  <2>1. t = [s EXCEPT !.cacheDirty = TRUE, !.cacheData = e]
    BY <1>2 DEF Created, Saved, Closed, Loose
  <2> HIDE DEF t, e
  <2>2. t = Listing(s, TRUE, e, f)
    BY <1>2, <2>1 DEF Listing, Loose
  <2>3. QED
    BY <2>2
<1> HIDE DEF t, e, f
<1>4. PICK dirty \in BOOLEAN : t = Listing(s, dirty, e, f)
  BY <1>3
<1>5. t \in Sane /\ t.cacheData = e
  BY <1>1, <1>2, <1>4, SaneDir
<1>6. QED
  BY <1>1, <1>5 DEF t

LEMMA OutsShape ==
  ASSUME NEW R, NEW o \in Outs(R)
  PROVE  o.s \in Sane /\ o = [s |-> o.s, ok |-> o.ok, result |-> o.result]
BY DEF Outs

LEMMA SaneOpen ==
  ASSUME NEW s \in Sane, NEW n \in Names, NEW o \in FileOpen(s, n)
  PROVE  o.s \in Sane /\ o = [s |-> o.s, ok |-> o.ok, result |-> o.result]
<1>1. PICK c \in CacheForReading(s, DirBlock) :
           /\ ~ c.ok => o = c
           /\ c.ok => \E p \in EntryIn(c.s, n) :
                /\ ~ p.ok => o = p
                /\ p.ok => \E r \in SeekSet(Opened(p.s, p.s.cacheData[n]),
                                            p.s.cacheData[n].size) :
                             o = [r EXCEPT !.ok = TRUE]
  BY FileOpenSteps
<1>2. /\ c \in Outs({0})
      /\ c.ok => c.s \in Sane /\ c.s.cacheBlock = DirBlock /\ c.s.cacheData \in DirData
  BY <1>1, DirAsked, SaneForReading
<1>3. CASE ~ c.ok
  BY <1>1, <1>2, <1>3, OutsShape
<1>4. CASE c.ok
  <2>1. PICK p \in EntryIn(c.s, n) :
                /\ ~ p.ok => o = p
                /\ p.ok => \E r \in SeekSet(Opened(p.s, p.s.cacheData[n]),
                                            p.s.cacheData[n].size) :
                             o = [r EXCEPT !.ok = TRUE]
    BY <1>1, <1>4
  <2>2. /\ p.s \in Sane /\ (p.ok => p.s.cacheData \in DirData)
        /\ ~ p.ok => p \in Outs({0})
    <3>1. CASE p \in Done(c.s)
      BY <1>2, <1>4, <3>1, OfDone
    <3>2. CASE p \in CacheFlush(Created(c.s, n))
      <4> DEFINE t == Created(c.s, n)
      <4>1. t \in Sane /\ t.cacheData \in DirData
        BY <1>2, <1>4, SaneCreated
      <4> HIDE DEF t
      <4>2. p \in Outs({0}) /\ (p.ok => p.s.cacheData = t.cacheData)
        BY <3>2, <4>1, SaneFlush DEF t
      <4>3. QED
        BY <4>1, <4>2, OutsFailed
    <3>3. QED
      BY <2>1, <3>1, <3>2 DEF EntryIn
  <2>3. CASE ~ p.ok
    BY <2>1, <2>2, <2>3, OutsShape
  <2>4. CASE p.ok
    <3> DEFINE d == p.s.cacheData
               t == Opened(p.s, d[n])
               size == d[n].size
    <3>1. PICK r \in SeekSet(t, size) : o = [r EXCEPT !.ok = TRUE]
      BY <2>1, <2>4
    <3>2. t \in Sane /\ size \in Nat
      BY <2>2, <2>4, SaneOpened
    <3> HIDE DEF t, size
    <3>3. r \in Outs({0})
      BY <3>1, <3>2, SaneSeek
    <3>4. r.s \in Sane /\ r = [s |-> r.s, ok |-> r.ok, result |-> r.result]
      BY <3>3, OutsShape
    <3>5. o = [s |-> r.s, ok |-> TRUE, result |-> r.result]
      BY <3>1, <3>4
    <3>6. QED
      BY <3>4, <3>5
  <2>5. QED
    BY <2>3, <2>4
<1>5. QED
  BY <1>3, <1>4

Erased(s, n) == [s EXCEPT !.cacheData[n].used = FALSE, !.this = Closed]

LEMMA SaneErased ==
  ASSUME NEW s \in Sane, s.cacheBlock = DirBlock, s.cacheData \in DirData, NEW n \in Names
  PROVE  Erased(s, n) \in Sane
<1> DEFINE d == s.cacheData
           e == [d EXCEPT ![n].used = FALSE]
           dirty == s.cacheDirty
           t == Erased(s, n)
<1>1. e \in DirData
  BY EntriesEdited
<1>2. s \in Loose /\ dirty \in BOOLEAN
  BY SaneFacts DEF Loose
<1>3. t = [s EXCEPT !.cacheData = e, !.this = Closed]
  BY DEF Erased
<1> HIDE DEF t, e
<1>4. t = Listing(s, dirty, e, Closed)
  BY <1>2, <1>3 DEF Listing, Loose
<1> HIDE DEF dirty
<1>5. QED
  BY <1>1, <1>2, <1>4, ClosedTyped, SaneDir DEF t

LEMMA SaneRemove ==
  ASSUME NEW s \in Sane, NEW n \in Names, NEW o \in FileRemove(s, n)
  PROVE  o \in Outs({0})
<1> DEFINE R(p) == UNION {IF c.ok THEN CacheFlush(Erased(c.s, n)) ELSE {c} :
                          c \in CacheForWriting(p.s, DirBlock)}
<1>1. PICK p \in FileTruncate(s, n, 0) : o \in IF p.ok THEN R(p) ELSE {p}
  BY Zenon DEF FileRemove, Then, Erased, CacheForWriting
<1> HIDE DEF R
<1>2. p \in Outs({0})
  BY <1>1, SaneTruncate
<1>3. CASE ~ p.ok
  BY <1>1, <1>2, <1>3
<1>4. CASE p.ok
  <2>1. PICK c \in CacheForWriting(p.s, DirBlock) :
          o \in IF c.ok THEN CacheFlush(Erased(c.s, n)) ELSE {c}
    BY <1>1, <1>4 DEF R
  <2>2. /\ c \in Outs({0})
        /\ c.ok => c.s \in Sane /\ c.s.cacheBlock = DirBlock /\ c.s.cacheData \in DirData
    BY <1>2, <2>1, OutsFailed, DirAsked, SaneForWriting
  <2>3. c.ok => Erased(c.s, n) \in Sane
    BY <2>2, SaneErased
  <2>4. QED
    BY <2>1, <2>2, <2>3, SaneFlush
<1>5. QED
  BY <1>3, <1>4

-----------------------------------------------------------------------------
(* The calls keep the volume and the handles sound, when the power stays.  *)
Healthy == vol \in Sane /\ handle \in [Names -> Handle]

LEMMA CallHealthy ==
  ASSUME ~ PowerMayFail, Healthy, NEW op, NEW name \in Names, NEW outcomes,
         \A o \in outcomes : o.s \in Sane, Call(op, name, outcomes)
  PROVE  Healthy'
<1>1. PICK o \in outcomes : Return(op, name, o)
  BY DEF Call, Restart
<1> DEFINE s == o.s
           t == Ended(s)
<1>2. vol' = t /\ handle' = [handle EXCEPT ![name] = s.this]
  BY <1>1 DEF Return, Ended
<1>3. s \in Sane /\ s \in Loose /\ s.this \in Handle
  BY SaneFacts
<1> HIDE DEF s
<1>4. /\ t \in Loose /\ t.disk = s.disk /\ t.cacheBlock = s.cacheBlock
      /\ t.cacheData = s.cacheData /\ t.cacheDirty = s.cacheDirty
      /\ t.cacheMirror = s.cacheMirror /\ t.mayFail = s.mayFail
  BY <1>3, ClosedTyped DEF Ended, Loose
<1> HIDE DEF t
<1>5. t \in Sane
  BY <1>3, <1>4, Unmoved
<1>6. handle' \in [Names -> Handle]
  BY <1>2, <1>3 DEF Healthy
<1>7. QED
  BY <1>2, <1>5, <1>6 DEF Healthy

(* A call that ends with its SdFile closed.                                *)
LEMMA ClosedAfter ==
  ASSUME NEW o, o.s \in Sane, o = [s |-> o.s, ok |-> o.ok, result |-> o.result],
         NEW c, c = [o EXCEPT !.s.this = Closed]
  PROVE  c.s \in Sane
<1> DEFINE s == o.s
           t == [s EXCEPT !.this = Closed]
<1>1. t \in Sane
  BY ClosedTyped, SaneHandle
<1>2. c.s = t
  OBVIOUS
<1>3. QED
  BY <1>1, <1>2

LEMMA ApiCallHealthy ==
  ASSUME ~ PowerMayFail, Healthy, NEW name \in Names, ApiCall(name)
  PROVE  Healthy'
<1> DEFINE u == This(name)
           h == handle[name]
<1>1. u \in Sane /\ h \in Handle /\ u.this = h
  <2>1. vol \in Sane /\ h \in Handle
    BY DEF Healthy
  <2>2. u = [vol EXCEPT !.this = h]
    BY DEF This
  <2> HIDE DEF u, h
  <2>3. QED
    BY <2>1, <2>2, SaneThis
<1> HIDE DEF u
<1>2. CASE Open(name)
  <2> DEFINE C(o) == IF o.ok THEN o ELSE [o EXCEPT !.s.this = Closed]
             outcomes == {C(o) : o \in FileOpen(This(name), name)}
  <2>1. Call("open", name, outcomes)
    BY <1>2 DEF Open
  <2>2. ASSUME NEW o \in FileOpen(u, name) PROVE C(o).s \in Sane
    <3>1. o.s \in Sane /\ o = [s |-> o.s, ok |-> o.ok, result |-> o.result]
      BY <1>1, SaneOpen
    <3>2. QED
      BY <3>1, ClosedAfter
  <2>3. \A c \in outcomes : c.s \in Sane
    BY <2>2 DEF u
  <2> HIDE DEF outcomes
  <2>4. QED
    BY <2>1, <2>3, CallHealthy
<1>3. CASE Write(name)
  <2>1. PICK n \in WriteSizes : Call("write", name, FileWrite(This(name), name, n))
    BY <1>3 DEF Write
  <2>2. \A o \in FileWrite(u, name, n) : o.s \in Sane
    BY <1>1, FileAssumption, SaneWrite, OutsFailed
  <2>3. QED
    BY <2>1, <2>2, CallHealthy DEF u
<1>4. CASE Flush(name)
  <2>1. Call("sync", name, FileSync(This(name), name))
    BY <1>4 DEF Flush
  <2>2. \A o \in FileSync(u, name) : o.s \in Sane
    BY <1>1, SaneSync, OutsFailed
  <2>3. QED
    BY <2>1, <2>2, CallHealthy DEF u
<1>5. CASE Close(name)
  <2> DEFINE C(o) == [o EXCEPT !.s.this = Closed]
             outcomes == {C(o) : o \in FileSync(This(name), name)}
  <2>1. Call("sync", name, outcomes)
    BY <1>5 DEF Close
  <2>2. ASSUME NEW o \in FileSync(u, name) PROVE C(o).s \in Sane
    <3>1. o \in Outs({0})
      BY <1>1, SaneSync
    <3>2. QED
      BY <3>1, OutsShape, ClosedAfter
  <2>3. \A c \in outcomes : c.s \in Sane
    BY <2>2 DEF u
  <2> HIDE DEF outcomes
  <2>4. QED
    BY <2>1, <2>3, CallHealthy
<1>6. CASE Seek(name)
  <2>1. PICK p \in 0 .. MaxSize : Call("seek", name, SeekSet(This(name), p))
    BY <1>6 DEF Seek
  <2>2. p \in Nat
    OBVIOUS
  <2>3. \A o \in SeekSet(u, p) : o.s \in Sane
    BY <1>1, <2>2, SaneSeek, OutsFailed
  <2>4. QED
    BY <2>1, <2>3, CallHealthy DEF u
<1>7. CASE Read(name)
  <2>1. PICK n \in WriteSizes : Call("read", name, FileRead(This(name), n))
    BY <1>7 DEF Read
  <2>2. \A o \in FileRead(u, n) : o.s \in Sane
    BY <1>1, FileAssumption, SaneFileRead, OutsFailed
  <2>3. QED
    BY <2>1, <2>2, CallHealthy DEF u
<1>8. CASE Truncate(name)
  <2>1. PICK len \in 0 .. h.size : Call("truncate", name, FileTruncate(This(name), name, len))
    BY <1>8 DEF Truncate
  <2>2. len \in Nat
    OBVIOUS
  <2>3. \A o \in FileTruncate(u, name, len) : o.s \in Sane
    BY <1>1, <2>2, SaneTruncate, OutsFailed
  <2>4. QED
    BY <2>1, <2>3, CallHealthy DEF u
<1>9. CASE Remove(name)
  <2> DEFINE C(o) == [o EXCEPT !.s.this = Closed]
             R(o) == {C(q) : q \in FileRemove(Opened(o.s, o.s.cacheData[name]), name)}
             outcomes == Then(CacheForReading(vol, DirBlock), R)
  <2>1. Call("remove", name, outcomes)
    BY <1>9, Zenon DEF Remove, Opened, CacheForReading
  <2>2. ASSUME NEW c \in outcomes PROVE c.s \in Sane
    <3>1. PICK o \in CacheForReading(vol, DirBlock) : c \in IF o.ok THEN R(o) ELSE {o}
      BY Zenon DEF Then
    <3>2. /\ o \in Outs({0})
          /\ o.ok => o.s \in Sane /\ o.s.cacheData \in DirData
      BY <3>1, DirAsked, SaneForReading DEF Healthy
    <3>3. CASE ~ o.ok
      BY <3>1, <3>2, <3>3, OutsFailed
    <3>4. CASE o.ok
      <4> DEFINE d == o.s.cacheData
                 t == Opened(o.s, d[name])
      <4>1. PICK q \in FileRemove(t, name) : c = C(q)
        BY <3>1, <3>4
      <4>2. t \in Sane
        BY <3>2, <3>4, SaneOpened
      <4> HIDE DEF t
      <4>3. q \in Outs({0})
        BY <4>1, <4>2, SaneRemove
      <4>4. QED
        BY <4>1, <4>3, OutsShape, ClosedAfter
    <3>5. QED
      BY <3>3, <3>4
  <2> HIDE DEF outcomes
  <2>3. QED
    BY <2>1, <2>2, CallHealthy
<1>10. QED
  BY <1>2, <1>3, <1>4, <1>5, <1>6, <1>7, <1>8, <1>9 DEF ApiCall, LogCall

LEMMA InitHealthy == Init => Healthy
<1> SUFFICES ASSUME Init PROVE Healthy
  OBVIOUS
<1> DEFINE s == vol
<1>1. s = Mounted(Formatted) /\ handle \in [Names -> Handle]
  BY ClosedTyped DEF Init
<1>2. /\ s.disk = Formatted /\ s.cacheBlock = NoBlock /\ ~ s.cacheDirty
      /\ s.cacheMirror = NoBlock /\ (s.mayFail <=> CardMayFail \/ PowerMayFail)
  BY <1>1 DEF Mounted
<1>3. s \in Loose
  BY <1>1, FormattedBlocks, ClosedTyped, FileAssumption DEF Mounted, Loose
<1> HIDE DEF s
<1>4. \A b \in Blocks : Typed(b, Formatted[b])
  <2>1. \A b \in Blocks : b \in Places => b \in DataBlocks
    BY PlaceKinds DEF Blocks, Mirrors
  <2>2. QED
    BY <2>1, FormattedBlocks DEF Typed
<1>5. \A b \in FatBlocks : Mirrored(Formatted, b)
  BY FormattedBlocks DEF Mirrored
<1>6. Owed(s) /\ Copied(s) /\ Agreeing(s)
  BY <1>2, <1>5 DEF Owed, Copied, Agreeing
<1>7. Typed(s.cacheBlock, s.cacheData)
  BY <1>2, PlaceKinds DEF Typed
<1>8. Orderly(s)
  BY <1>2, <1>3, <1>4, <1>6, <1>7 DEF Orderly
<1>9. QED
  BY <1>1, <1>3, <1>6, <1>8 DEF Healthy, Sane, s

(* Every call of the File class, with a card that fails at any command,    *)
(* keeps the types of the cache, the card and the handles, writes to the   *)
(* table only through the cache, and owes a mirror for every change of it: *)
(* the copies differ at most in the block that the cache holds dirty.      *)
THEOREM ApiHealthy == ~ PowerMayFail => (ApiSpec => []Healthy)
<1> SUFFICES ASSUME ~ PowerMayFail PROVE ApiSpec => []Healthy
  OBVIOUS
<1>1. Healthy /\ [ApiNext]_vars => Healthy'
  <2>1. ~ PowerLoss
    BY DEF PowerLoss, Restart
  <2>2. Healthy /\ UNCHANGED vars => Healthy'
    BY DEF Healthy, vars
  <2>3. QED
    BY <2>1, <2>2, ApiCallHealthy DEF ApiNext
<1>2. QED
  BY <1>1, InitHealthy, PTL DEF ApiSpec

(* Without power loss both copies of the table on the card agree after     *)
(* every call (the two writes of cacheFlush, SdVolume.cpp).                *)
THEOREM ApiFatCopiesAgree ==
  ~ CardMayFail /\ ~ PowerMayFail => (ApiSpec => []FatCopiesAgree)
<1> SUFFICES ASSUME ~ CardMayFail, ~ PowerMayFail PROVE ApiSpec => []FatCopiesAgree
  OBVIOUS
<1>1. Healthy => FatCopiesAgree
  <2>1. Healthy => Agreeing(vol)
    BY DEF Healthy, Sane
  <2>2. QED
    BY <2>1 DEF Agreeing, Mirrored, FatCopiesAgree
<1>2. QED
  BY <1>1, ApiHealthy, PTL

=============================================================================
