------------------------- MODULE StoreDeviceProofs --------------------------
(***************************************************************************)
(* Type correctness of the store, for any device size, any keys and values *)
(* and any number of replicas; what writes, flushes, power loss and erased *)
(* records do to the parts of the invariant that are about the devices;    *)
(* and that no write touches a record that is read through the index.      *)
(***************************************************************************)
EXTENDS StoreInvariant, BlockFormatProofs

(* An empty index is a well-formed index.                                  *)
LEMMA EmptyIndexType == NoEntry \in Entry /\ EmptyIndex \in [IndexKey -> Entry]
BY GenLimitAssumption DEF EmptyIndex, NoEntry, Entry, Generation

(* The generation of a put is a generation word, also when it wraps.       *)
LEMMA NextGenerationType ==
  ASSUME NEW g \in Generation
  PROVE  (g + 1) % GenLimit \in Generation
BY GenLimitAssumption DEF Generation

(* A scan points the index at descriptor blocks.                           *)
LEMMA ScanIndexType ==
  ASSUME NEW img \in Image
  PROVE  ScanIndex(img) \in [IndexKey -> Entry]
<1> SUFFICES ASSUME NEW n \in IndexKey, NEW d \in Newest(img, n)
             PROVE  [generation |-> img[d].generation, block |-> d] \in Entry
  BY EmptyIndexType, Zenon DEF ScanIndex
<1>1. d \in Block /\ img[d].type = "descriptor"
  BY BlockZero, Zenon DEF Newest, Records, Complete
<1>2. img[d] \in RecordDescriptor
  BY <1>1, ContentCases DEF Image
<1> QED BY <1>1, <1>2 DEF RecordDescriptor, Entry

(* The device operations keep the types of both views of the device.       *)
LEMMA WriteBlocksType ==
  ASSUME TypeOK, NEW r \in Replicas, NEW img \in Image, WriteBlocks(r, img)
  PROVE  /\ cache' \in [Replicas -> Image]
         /\ media' \in [Replicas -> [Block -> SUBSET Content]]
BY PlainContents DEF TypeOK, WriteBlocks, Torn, Image

(* A flush keeps the devices well-formed.                                  *)
LEMMA FlushType ==
  ASSUME TypeOK, NEW r \in Replicas, Flush(r)
  PROVE  /\ cache' \in [Replicas -> Image]
         /\ media' \in [Replicas -> [Block -> SUBSET Content]]
BY DEF TypeOK, Flush, Image

(* A power loss leaves the devices well-formed.                            *)
LEMMA PowerLossType ==
  ASSUME TypeOK, NEW disks \in AfterPowerLoss
  PROVE  disks \in [Replicas -> Image]
<1>1. PICK p \in Survivors : disks = [r \in Replicas |-> [b \in Block |->
        IF <<r, b>> \in Pending THEN p[<<r, b>>] ELSE cache[r][b]]]
  BY DEF AfterPowerLoss
<1>2. ASSUME NEW r \in Replicas, NEW b \in Block, <<r, b>> \in Pending
      PROVE  p[<<r, b>>] \in Content
  BY <1>2 DEF Survivors, TypeOK
<1> QED BY <1>1, <1>2, Zenon DEF TypeOK, Image

-----------------------------------------------------------------------------
(* One lemma per operation: its steps keep the types.                      *)
LEMMA LifecycleType ==
  TypeOK /\ (FormatBegin \/ FormatWrite \/ FormatFlush \/ Open \/ Close \/ BuildIndex)
    => TypeOK'
<1> SUFFICES ASSUME TypeOK,
                    FormatBegin \/ FormatWrite \/ FormatFlush \/ Open \/ Close \/ BuildIndex
             PROVE  TypeOK'
  OBVIOUS
<1>1. CASE FormatBegin
  BY <1>1 DEF FormatBegin, TypeOK, PutPc, DeletePc, OtherPc
<1>2. CASE FormatWrite
  BY <1>2, PlainContents, WriteBlocksType, Zenon DEF TypeOK, Image, FormatWrite, PutPc, DeletePc,
     OtherPc
<1>3. CASE FormatFlush
  <2>1. /\ cache' \in [Replicas -> Image]
        /\ media' \in [Replicas -> [Block -> SUBSET Content]]
    BY <1>3, FlushType, Zenon DEF FormatFlush, TypeOK
  <2>2. cur' \in Replicas
    BY <1>3, ReplicaCountAssumption DEF FormatFlush, NextReplica, Finish, TypeOK, Replicas
  <2> QED BY <1>3, <2>1, <2>2, Zenon
          DEF FormatFlush, NextReplica, Finish, TypeOK, PutPc, DeletePc, OtherPc
<1>4. CASE Open
  BY <1>4, EmptyIndexType, Zenon DEF Open, TypeOK
<1>5. CASE Close
  BY <1>5, EmptyIndexType, Zenon DEF Close, TypeOK
<1>6. CASE BuildIndex
  BY <1>6, ScanIndexType, Zenon DEF TypeOK, BuildIndex
<1> QED BY <1>1, <1>2, <1>3, <1>4, <1>5, <1>6

(* The steps of recover preserve types.                                    *)
LEMMA RecoverType ==
  TypeOK /\ (RecoverBegin \/ RecoverClean \/ RecoverErase \/ RecoverFlush) => TypeOK'
<1> SUFFICES ASSUME TypeOK, RecoverBegin \/ RecoverClean \/ RecoverErase \/ RecoverFlush
             PROVE  TypeOK'
  OBVIOUS
<1>0. RecoverNext => cur' \in Replicas
  BY ReplicaCountAssumption DEF RecoverNext, NextReplica, Finish, TypeOK, Replicas
<1>1. CASE RecoverBegin
  BY <1>1 DEF RecoverBegin, TypeOK, PutPc, DeletePc, OtherPc
<1>2. CASE RecoverClean
  BY <1>0, <1>2, Zenon DEF RecoverClean, RecoverNext, NextReplica, Finish, TypeOK, OtherPc
<1>3. CASE RecoverErase
  BY <1>3, EraseType, WriteBlocksType, Zenon DEF TypeOK, RecoverErase, PutPc, DeletePc, OtherPc
<1>4. CASE RecoverFlush
  BY <1>0, <1>4, FlushType, Zenon DEF RecoverFlush, TypeOK, RecoverNext, NextReplica, Finish, PutPc,
     DeletePc, OtherPc
<1> QED BY <1>1, <1>2, <1>3, <1>4

(* free_record erases blocks, whichever they are.                          *)
LEMMA FreeRecordType ==
  ASSUME TypeOK, NEW d, FreeRecord(d)
  PROVE  /\ cache' \in [Replicas -> Image]
         /\ media' \in [Replicas -> [Block -> SUBSET Content]]
<1>1. cur \in Replicas /\ \A S : Erase(cache[cur], S) \in Image
  BY EraseType DEF TypeOK
<1>2. PICK S : WriteBlocks(cur, Erase(cache[cur], S))
  BY Zenon DEF FreeRecord, NextWords
<1> QED BY <1>1, <1>2, WriteBlocksType

(* The steps of put preserve types.                                        *)
LEMMA PutType ==
  TypeOK /\ (\/ \E k \in Keys, v \in Values : PutBegin(k, v)
            \/ PutWrite \/ PutFull \/ PutCommit \/ PutErase \/ PutEraseFlush)
    => TypeOK'
<1> SUFFICES ASSUME TypeOK,
                    \/ \E k \in Keys, v \in Values : PutBegin(k, v)
                    \/ PutWrite \/ PutFull \/ PutCommit \/ PutErase \/ PutEraseFlush
             PROVE  TypeOK'
  OBVIOUS
<1> USE DEF PutPc, DeletePc, OtherPc
<1>0. ASSUME PutNext, op \in PutOp
      PROVE  /\ cur' \in Replicas
             /\ (pc' = "write" /\ op' = op) \/ (pc' = "idle" /\ op' = NoOp)
             /\ status' = status /\ dirty' = dirty
             /\ legal' \in [Keys -> SUBSET Results]
  BY <1>0, ReplicaCountAssumption DEF NextReplica, TypeOK, Replicas, PutOp, Results, Finish, PutNext
<1>1. ASSUME NEW k \in Keys, NEW v \in Values, PutBegin(k, v)
      PROVE  TypeOK'
  <2>1. KeyStr[k] \in IndexKey
    BY DEF IndexKey
  <2>2. PICK r \in Replicas : op' = [type |-> "put", key |-> k, value |-> v,
                     generation |-> (index[r][KeyStr[k]].generation + 1) % GenLimit,
                     block |-> NullBlock, old |-> NullBlock]
    BY <1>1, Zenon DEF PutBegin
  <2>3. index[r][KeyStr[k]].generation \in Generation
    BY <2>1 DEF TypeOK, Entry
  <2>4. op' \in PutOp
    BY <2>2, <2>3, NextGenerationType, Zenon DEF PutOp
  <2> QED BY <1>1, <2>4, Zenon DEF PutBegin, TypeOK
<1>2. CASE PutWrite
  <2>0. pc = "write"
    BY <1>2, Zenon DEF PutWrite
  <2>1. pc = "write" /\ op \in PutOp /\ cur \in Replicas
    BY <2>0 DEF TypeOK
  <2>2. PICK f \in Allocations(cache[cur], NeededBlocks[op.value]) :
          /\ WriteBlocks(cur, WriteRecord(cache[cur], f, op.key, op.generation, op.value))
          /\ op' = [op EXCEPT !.block = f[1], !.old = index[cur][KeyStr[op.key]].block]
    BY <1>2, Zenon DEF PutWrite
  <2>3. f \in [1 .. NeededBlocks[op.value] -> DataBlock] /\ f[1] \in Block
    BY <2>1, NeededBlocksAssumption, BlockZero DEF Allocations, PutOp
  <2>4. WriteRecord(cache[cur], f, op.key, op.generation, op.value) \in Image
    BY <2>1, <2>3, WriteRecordType, Zenon DEF TypeOK, PutOp
  <2>5. /\ cache' \in [Replicas -> Image]
        /\ media' \in [Replicas -> [Block -> SUBSET Content]]
    BY <2>1, <2>2, <2>4, WriteBlocksType, Zenon
  <2>6. index[cur][KeyStr[op.key]].block \in Block \cup {NullBlock}
    <3>1. KeyStr[op.key] \in IndexKey
      BY <2>1 DEF PutOp, IndexKey
    <3>2. index[cur][KeyStr[op.key]] \in Entry
      BY <3>1 DEF TypeOK
    <3> QED BY <3>2, Zenon DEF Entry
  <2>7. op' \in PutOp
    BY <2>1, <2>2, <2>3, <2>6, Zenon DEF PutOp
  <2>8. legal' \in [Keys -> SUBSET Results]
    BY <1>2, <2>1, Zenon DEF PutWrite, PutOp, Results, TypeOK
  <2>9. pc' = "commit" /\ UNCHANGED <<index, status, cur, dirty>>
    BY <1>2, Zenon DEF PutWrite
  <2>10. pc' \in PutPc
    BY <2>9
  <2> QED BY <2>5, <2>7, <2>8, <2>9, Zenon DEF TypeOK
<1>3. CASE PutFull
  BY <1>3, ReplicaCountAssumption DEF PutFull, Fail, Finish, TypeOK, Replicas
<1>4. CASE PutCommit
  <2>1. pc = "commit" /\ op \in PutOp /\ cur \in Replicas
    BY <1>4, Zenon DEF PutCommit, TypeOK
  <2>2. /\ cache' \in [Replicas -> Image]
        /\ media' \in [Replicas -> [Block -> SUBSET Content]]
    BY <1>4, <2>1, FlushType, Zenon DEF PutCommit
  <2>3. [generation |-> op.generation, block |-> op.block] \in Entry
    BY <2>1 DEF PutOp, Entry
  <2>4. index' \in [Replicas -> [IndexKey -> Entry]]
    BY <1>4, <2>3, Zenon DEF PutCommit, TypeOK
  <2>5. CASE PutNext
    BY <1>0, <2>1, <2>2, <2>4, <2>5, Zenon DEF TypeOK
  <2>6. CASE pc' = "erase" /\ UNCHANGED <<status, cur, op, dirty, legal>>
    BY <2>1, <2>2, <2>4, <2>6, Zenon DEF TypeOK
  <2> QED BY <1>4, <2>5, <2>6, Zenon DEF PutCommit
<1>5. CASE PutErase
  BY <1>5, FreeRecordType, Zenon DEF PutErase, TypeOK
<1>6. CASE PutEraseFlush
  BY <1>0, <1>6, FlushType, Zenon DEF PutEraseFlush, TypeOK
<1> QED BY <1>1, <1>2, <1>3, <1>4, <1>5, <1>6

(* The steps of delete preserve types.                                     *)
LEMMA DeleteType ==
  TypeOK /\ (\/ \E k \in Keys : DeleteBegin(k)
            \/ DeleteSkip \/ DeleteErase \/ DeleteFlush)
    => TypeOK'
<1> SUFFICES ASSUME TypeOK,
                    \/ \E k \in Keys : DeleteBegin(k)
                    \/ DeleteSkip \/ DeleteErase \/ DeleteFlush
             PROVE  TypeOK'
  OBVIOUS
<1> USE DEF PutPc, DeletePc, OtherPc
<1>0. ASSUME DeleteNext, op \in DeleteOp
      PROVE  /\ cur' \in Replicas
             /\ (pc' = "delete" /\ op' = op) \/ (pc' = "idle" /\ op' = NoOp)
             /\ status' = status /\ dirty' = dirty
             /\ legal' \in [Keys -> SUBSET Results]
  <2>1. op.key \in Keys /\ {Absent} \subseteq Results
    BY <1>0 DEF DeleteOp, Results
  <2>2. legal' \in [Keys -> SUBSET Results]
    BY <1>0, <2>1 DEF DeleteNext, NextReplica, TypeOK
  <2> QED BY <1>0, <2>2, ReplicaCountAssumption
          DEF DeleteNext, NextReplica, Finish, TypeOK, Replicas
<1>1. ASSUME NEW k \in Keys, DeleteBegin(k)
      PROVE  TypeOK'
  BY <1>1, Zenon DEF DeleteBegin, DeleteOp, TypeOK
<1>2. CASE DeleteSkip
  BY <1>0, <1>2, Zenon DEF DeleteSkip, TypeOK
<1>3. CASE DeleteErase
  BY <1>3, FreeRecordType, Zenon DEF DeleteErase, TypeOK, DeleteOp, Results
<1>4. CASE DeleteFlush
  BY <1>0, <1>4, FlushType, EmptyIndexType, Zenon DEF DeleteFlush, TypeOK
<1> QED BY <1>1, <1>2, <1>3, <1>4

(* A power loss preserves types.                                           *)
LEMMA PowerLossKeepsTypes == TypeOK /\ PowerLoss => TypeOK'
<1> SUFFICES ASSUME TypeOK, PowerLoss PROVE TypeOK'
  OBVIOUS
<1>1. cache' \in [Replicas -> Image]
  BY PowerLossType DEF PowerLoss
<1>2. media' \in [Replicas -> [Block -> SUBSET Content]]
  BY <1>1 DEF PowerLoss, Image
<1> QED BY <1>1, <1>2, EmptyIndexType, ReplicaCountAssumption DEF PowerLoss, Finish, TypeOK,
           OtherPc, Replicas

(* Every step of the store keeps its types.                                *)
THEOREM TypeStep == TypeOK /\ [Next]_vars => TypeOK'
<1>1. TypeOK /\ Next => TypeOK'
  BY LifecycleType, RecoverType, PutType, DeleteType, PowerLossKeepsTypes, Zenon DEF Next, Step
<1>2. TypeOK /\ UNCHANGED vars => TypeOK'
  BY DEF TypeOK, vars
<1> QED BY <1>1, <1>2

(* The initial states are well-typed.                                      *)
LEMMA InitTypes == Init => TypeOK
<1> SUFFICES ASSUME Init PROVE TypeOK
  OBVIOUS
<1>1. cache \in [Replicas -> Image] /\ media \in [Replicas -> [Block -> SUBSET Content]]
  BY PlainContents DEF Init, Image
<1>2. cur \in Replicas
  BY ReplicaCountAssumption DEF Init, Replicas
<1>3. legal \in [Keys -> SUBSET Results]
  BY DEF Init, Results
<1> QED BY <1>1, <1>2, <1>3, EmptyIndexType, Zenon DEF Init, TypeOK, PutPc, OtherPc

(***************************************************************************)
(* Type correctness: for every device size, set of keys and values, number *)
(* of replicas and generation width, the variables of the store stay in    *)
(* their types through put, delete, recover, build_index and power loss.   *)
(***************************************************************************)
THEOREM TypeCorrect == Spec => []TypeOK
BY InitTypes, TypeStep, PTL DEF Spec

-----------------------------------------------------------------------------

(* The device steps: what they do to the replica they are about.           *)
LEMMA WriteEffect ==
  ASSUME TypeOK, NEW new \in Image, WriteBlocks(cur, new)
  PROVE  /\ cur \in Replicas
         /\ cache'[cur] = new
         /\ \A b \in Block : new[b] = cache[cur][b] => media'[cur][b] = media[cur][b]
         /\ \A b \in Block : new[b] # cache[cur][b] =>
              \A c : c \in media'[cur][b] <=> c \in media[cur][b] \/ c = new[b] \/ c \in Torn
         /\ \A r \in Replicas : r # cur => cache'[r] = cache[r] /\ media'[r] = media[r]
<1>1. cur \in Replicas
  BY DEF TypeOK
<1> QED BY Zenon DEF TypeOK, WriteBlocks

(* A flush leaves the cache alone and the medium with exactly what the     *)
(* cache holds.                                                            *)
LEMMA FlushEffect ==
  ASSUME TypeOK, Flush(cur)
  PROVE  /\ cur \in Replicas
         /\ cache' = cache
         /\ \A b \in Block : media'[cur][b] = {cache[cur][b]}
         /\ \A r \in Replicas : r # cur => media'[r] = media[r]
BY DEF TypeOK, Flush

(* After a power loss each block has one of the contents its medium could  *)
(* hold.                                                                   *)
LEMMA PowerLossEffect ==
  ASSUME TypeOK, MediaInv, NEW disks \in AfterPowerLoss
  PROVE  \A r \in Replicas : disks[r] \in Image /\ \A b \in Block : disks[r][b] \in media[r][b]
<1>1. PICK p \in Survivors : disks = [r \in Replicas |-> [b \in Block |->
        IF <<r, b>> \in Pending THEN p[<<r, b>>] ELSE cache[r][b]]]
  BY DEF AfterPowerLoss
<1>2. ASSUME NEW r \in Replicas, NEW b \in Block
      PROVE  disks[r][b] \in media[r][b]
  BY <1>1, Zenon DEF Survivors, MediaInv
<1> QED BY <1>2, PowerLossType

(* A flush narrows down what the medium may hold.                          *)
LEMMA FlushMedia ==
  ASSUME TypeOK, MediaInv, Flush(cur)
  PROVE  MediaInv'
<1>1. \A r \in Replicas, b \in Block :
        cache'[r][b] \in media'[r][b] /\ media'[r][b] \subseteq media[r][b]
  BY FlushEffect DEF MediaInv
<1> QED BY <1>1, BlockZero DEF MediaInv

(* A flush keeps a durable record of every key that has one.               *)
LEMMA FlushHeld ==
  ASSUME TypeOK, LegalInv, Flush(cur), NEW r \in Replicas, NEW k \in Keys, Absent \notin legal[k]
  PROVE  \E d \in Records(cache'[r], KeyStr[k]) :
           \A b \in RecordBlocks(cache'[r], d) : media'[r][b] = {cache'[r][b]}
<1>1. PICK d \in Records(cache[r], KeyStr[k]) : Durable(r, d)
  BY DEF LegalInv
<1>2. \A b \in RecordBlocks(cache[r], d) : b \in Block /\ media[r][b] = {cache[r][b]}
  BY <1>1 DEF Durable, RecordBlocks
<1>3. \A b \in RecordBlocks(cache'[r], d) : media'[r][b] = {cache'[r][b]}
  BY <1>2, FlushEffect, Zenon
<1>4. d \in Records(cache'[r], KeyStr[k])
  BY FlushEffect
<1> QED BY <1>3, <1>4

(* A flush keeps the descriptors on the media legal.                       *)
LEMMA FlushLegal ==
  ASSUME TypeOK, MediaInv, LegalInv, Flush(cur), UNCHANGED legal
  PROVE  LegalInv'
<1>1. \A r \in Replicas, b \in Block : media'[r][b] \subseteq media[r][b]
  BY FlushEffect DEF MediaInv
<1> QED BY <1>1, FlushHeld DEF LegalInv, Durable

(* A write that makes no descriptor and no chunk: the header of format,    *)
(* the free patterns of every erasure.                                     *)
LEMMA PlainWriteMedia ==
  ASSUME TypeOK, MediaInv, NEW new \in Image, WriteBlocks(cur, new),
         new[0] \in {Free, Garbage, Header},
         \A b \in Block : new[b] = cache[cur][b] \/ new[b].type \notin {"descriptor", "chunk"}
  PROVE  /\ MediaInv'
         /\ \A r \in Replicas, b \in Block : \A c \in media'[r][b] :
              c.type \in {"descriptor", "chunk"} => c \in media[r][b]
<1>0. /\ cur \in Replicas
      /\ cache'[cur] = new
      /\ \A b \in Block : new[b] = cache[cur][b] => media'[cur][b] = media[cur][b]
      /\ \A b \in Block : new[b] # cache[cur][b] =>
           \A c : c \in media'[cur][b] <=> c \in media[cur][b] \/ c = new[b] \/ c \in Torn
      /\ \A r \in Replicas : r # cur => cache'[r] = cache[r] /\ media'[r] = media[r]
  BY WriteEffect, Zenon
<1>1. ASSUME NEW r \in Replicas, NEW b \in Block, NEW c \in media'[r][b],
             c.type \in {"descriptor", "chunk"}
      PROVE  c \in media[r][b]
  BY <1>0, <1>1 DEF Torn, Free, Garbage
<1>2. ASSUME NEW r \in Replicas
      PROVE  /\ \A b \in Block : cache'[r][b] \in media'[r][b]
             /\ media'[r][0] \subseteq {Free, Garbage, Header}
  BY <1>0, BlockZero DEF MediaInv, Torn
<1>3. ASSUME NEW r \in Replicas, NEW d \in Block, NEW b \in Block,
             NEW c \in media'[r][d], NEW e \in media'[r][b],
             c.type = "descriptor", e.type = "chunk", e.owner = d
      PROVE  e.payload = c.payload
  BY <1>1, <1>3 DEF MediaInv
<1> QED BY <1>1, <1>2 DEF MediaInv

(* An erasure is safe when every key that has to be there keeps a record   *)
(* that the erasure does not touch.                                        *)
LEMMA EraseLegal ==
  ASSUME TypeOK, MediaInv, LegalInv, Settled(cur), NEW S,
         WriteBlocks(cur, Erase(cache[cur], S)), 0 \notin S,
         \A k \in Keys : legal[k] \subseteq legal'[k],
         \A k \in Keys : Absent \notin legal'[k] =>
           \E d \in Records(cache[cur], KeyStr[k]) : RecordBlocks(cache[cur], d) \cap S = {}
  PROVE  MediaInv' /\ LegalInv'
<1> DEFINE new == Erase(cache[cur], S)
<1>1. cur \in Replicas /\ cache[cur] \in Image /\ new \in Image
  BY EraseType DEF TypeOK
<1>2. \A b \in Block : new[b] = IF b \in S THEN Free ELSE cache[cur][b]
  BY DEF Erase
<1>3. new[0] \in {Free, Garbage, Header}
  BY <1>1, <1>2, BlockZero, Zenon DEF MediaInv
<1>4. \A b \in Block : new[b] = cache[cur][b] \/ new[b].type \notin {"descriptor", "chunk"}
  BY <1>2 DEF Free
<1>5. WriteBlocks(cur, new)
  OBVIOUS
<1> HIDE DEF new
<1>6. /\ MediaInv'
      /\ \A r \in Replicas, b \in Block : \A c \in media'[r][b] :
           c.type \in {"descriptor", "chunk"} => c \in media[r][b]
  BY <1>1, <1>3, <1>4, <1>5, PlainWriteMedia, Zenon
<1>7. ASSUME NEW r \in Replicas, NEW d \in Block, NEW c \in media'[r][d], c.type = "descriptor"
      PROVE  c.payload \in legal'[c.key]
  BY <1>6, <1>7, ContentCases DEF LegalInv, TypeOK, RecordDescriptor
<1>8. ASSUME NEW r \in Replicas, NEW k \in Keys, Absent \notin legal'[k]
      PROVE  \E d \in Records(cache'[r], KeyStr[k]) :
               \A b \in RecordBlocks(cache'[r], d) : media'[r][b] = {cache'[r][b]}
  <2>1. CASE r = cur
    <3>1. PICK d \in Records(cache[cur], KeyStr[k]) : RecordBlocks(cache[cur], d) \cap S = {}
      BY <1>8
    <3>2. d \in DataBlock /\ Complete(cache[cur], d) /\ KeyStr[cache[cur][d].key] = KeyStr[k]
      BY Zenon DEF Records
    <3>3. /\ Complete(new, d) /\ RecordBlocks(new, d) = RecordBlocks(cache[cur], d)
          /\ \A b \in RecordBlocks(cache[cur], d) : new[b] = cache[cur][b]
      BY <1>1, <3>1, <3>2, ErasedImage DEF new
    <3>4. d \in RecordBlocks(cache[cur], d) /\ RecordBlocks(cache[cur], d) \subseteq Block
      BY <1>1, <3>2, BlockZero, RecordBlocksFacts, Zenon
    <3>5. d \in Records(new, KeyStr[k])
      BY <3>3, <3>4, Zenon DEF Records
    <3>6. ASSUME NEW b \in RecordBlocks(new, d)
          PROVE  media'[cur][b] = {new[b]}
      <4>1. b \in Block /\ new[b] = cache[cur][b]
        BY <3>3, <3>4, Zenon
      <4>2. media'[cur][b] = media[cur][b]
        BY <1>1, <1>5, <4>1, WriteEffect, Zenon
      <4> QED BY <4>1, <4>2, Zenon DEF Settled
    <3>7. cache'[r] = new
      BY <1>1, <1>5, <2>1, WriteEffect, Zenon
    <3> QED BY <2>1, <3>5, <3>6, <3>7, Zenon
  <2>2. CASE r # cur
    BY <1>1, <1>5, <1>8, <2>2, WriteEffect DEF LegalInv, Durable
  <2> QED BY <2>1, <2>2, Zenon
<1> QED BY <1>6, <1>7, <1>8, Zenon DEF LegalInv, Durable

(* Power loss picks one of the contents the media may hold.                *)
LEMMA PowerLossMedia ==
  ASSUME TypeOK, MediaInv, LegalInv, PowerLoss
  PROVE  MediaInv' /\ LegalInv'
<1>1. \A r \in Replicas : cache'[r] \in Image /\ \A b \in Block : cache'[r][b] \in media[r][b]
  BY PowerLossEffect DEF PowerLoss
<1>2. \A r \in Replicas, b \in Block : media'[r][b] = {cache'[r][b]}
  BY DEF PowerLoss
<1>3. \A r \in Replicas, b \in Block : media'[r][b] \subseteq media[r][b]
  BY <1>1, <1>2
<1>4. MediaInv'
  BY <1>2, <1>3, BlockZero DEF MediaInv
<1>5. legal' = legal
  BY DEF PowerLoss
<1>6. ASSUME NEW r \in Replicas, NEW k \in Keys, Absent \notin legal[k]
      PROVE  \E d \in Records(cache'[r], KeyStr[k]) :
               \A b \in RecordBlocks(cache'[r], d) : media'[r][b] = {cache'[r][b]}
  <2>1. PICK d \in Records(cache[r], KeyStr[k]) : Durable(r, d)
    BY <1>6 DEF LegalInv
  <2>2. d \in DataBlock /\ d \in Block /\ Complete(cache[r], d) /\ cache[r] \in Image
    BY BlockZero, Zenon DEF Records, TypeOK
  <2>3. \A b \in RecordBlocks(cache[r], d) : cache'[r][b] = cache[r][b]
    BY <1>1, <2>1 DEF Durable, RecordBlocks
  <2>4. Complete(cache'[r], d) /\ cache'[r][d] = cache[r][d]
    BY <1>1, <2>2, <2>3, RecordFrame, RecordBlocksFacts, Zenon
  <2>5. d \in Records(cache'[r], KeyStr[k])
    BY <2>4, Zenon DEF Records
  <2> QED BY <1>2, <2>5 DEF RecordBlocks
<1>7. LegalInv'
  BY <1>3, <1>5, <1>6 DEF LegalInv, Durable
<1> QED BY <1>4, <1>7

(* Steps that leave the devices and the history alone.                     *)
LEMMA SameDevices ==
  ASSUME MediaInv, LegalInv, UNCHANGED <<cache, media, legal>>
  PROVE  MediaInv' /\ LegalInv'
BY DEF MediaInv, LegalInv, Durable

(* The indexes match devices that no step has written, where no record is  *)
(* in the course of being indexed or unindexed.                            *)
LEMMA SameIndex ==
  ASSUME IndexInv, UNCHANGED <<cache, index>>, status' = "ready" => status = "ready",
         \/ UNCHANGED <<pc, cur, op>>
         \/ /\ pc \notin {"commit", "erase", "deleteFlush"}
            /\ pc' \notin {"commit", "erase", "deleteFlush"}
  PROVE  IndexInv'
<1>1. ASSUME NEW r \in Replicas, NEW n \in IndexKey
      PROVE  ExpectedRecords(r, n)' = ExpectedRecords(r, n)
  BY Zenon DEF ExpectedRecords
<1>2. \A r \in Replicas, n \in IndexKey : index'[r][n].block = NullBlock => index'[r][n] = NoEntry
  BY Zenon DEF IndexInv
<1>3. ASSUME status' = "ready", NEW r \in Replicas, NEW n \in IndexKey
      PROVE  /\ Records(cache'[r], n) = ExpectedRecords(r, n)'
             /\ index'[r][n].block \in Records(cache'[r], n) =>
                  index'[r][n].generation = cache'[r][index'[r][n].block].generation
  BY <1>1, <1>3, Zenon DEF IndexInv
<1> QED BY <1>3, Zenon DEF IndexInv

(* A ready store between operations has one record for each key.           *)
LEMMA ReadyUnique ==
  ASSUME TypeOK, IndexInv, status = "ready", pc \notin {"commit", "erase"},
         NEW r \in Replicas
  PROVE  Unique(cache[r])
<1>1. ASSUME NEW n \in IndexKey PROVE Records(cache[r], n) \subseteq {index[r][n].block}
  <2>1. Records(cache[r], n) = ExpectedRecords(r, n)
    BY Zenon DEF IndexInv
  <2>2. ExpectedRecords(r, n) = {} \/ ExpectedRecords(r, n) = {index[r][n].block} \ {NullBlock}
    BY Zenon DEF ExpectedRecords
  <2> QED BY <2>1, <2>2
<1> QED BY <1>1 DEF Unique

(* On replicas without pending writes the descriptors a medium may hold    *)
(* are those of complete records.                                          *)
LEMMA SettledDescriptor ==
  ASSUME TypeOK', MediaInv', NEW r \in Replicas, Settled(r)', Tidy(cache'[r]),
         NEW d \in Block, NEW c \in media'[r][d], c.type = "descriptor"
  PROVE  c = cache'[r][d] /\ c.key \in Keys /\ d \in Records(cache'[r], KeyStr[c.key])
<1>1. c = cache'[r][d] /\ cache'[r] \in Image
  BY DEF Settled, TypeOK
<1>2. d # 0
  BY DEF MediaInv, Free, Garbage, Header
<1>3. d \in DataBlock
  BY <1>2, BlockZero
<1>4. Complete(cache'[r], d)
  BY <1>1, <1>3, TidyBlocks, Zenon
<1>5. c.key \in Keys
  BY <1>1, <1>4, RecordBlocksFacts, Zenon DEF RecordDescriptor
<1> QED BY <1>1, <1>3, <1>4, <1>5, Zenon DEF Records

(* free_record on a complete record of the current replica erases it, and  *)
(* nothing else.                                                           *)
LEMMA FreeRecordEffect ==
  ASSUME TypeOK, NEW m, NEW d \in Records(cache[cur], m), FreeRecord(d)
  PROVE  LET S == RecordBlocks(cache[cur], d)
         IN  /\ WriteBlocks(cur, Erase(cache[cur], S))
             /\ \A n : \A e \in Records(cache[cur], n) :
                  e # d => RecordBlocks(cache[cur], e) \cap S = {}
             /\ 0 \in S => cache[cur][0].type \in {"descriptor", "chunk"}
<1> DEFINE img == cache[cur]
           S == RecordBlocks(img, d)
<1>1. img \in Image /\ d \in Block /\ d \in DataBlock /\ Complete(img, d)
  BY BlockZero DEF TypeOK, Records
<1>2. img[d].type = "descriptor"
  BY <1>1 DEF Complete
<1>3. {d} \cup ErasedFrom(img, img[d].next, d, cur - 1) = S
  BY <1>1, ErasedRecord, Zenon
<1>4. WriteBlocks(cur, Erase(img, S))
  BY <1>2, <1>3, Zenon DEF FreeRecord, NextWords
<1>5. ASSUME NEW n, NEW e \in Records(img, n), e # d
      PROVE  RecordBlocks(img, e) \cap S = {}
  BY <1>1, <1>5, FreedRecord, Zenon DEF Records
<1>6. 0 \in S => img[0].type \in {"descriptor", "chunk"}
  BY <1>1, <1>2, RecordBlocksFacts
<1> QED BY <1>4, <1>5, <1>6, Zenon

(* What free_record leaves: the other replicas as they were, one record    *)
(* less for its key, the others untouched, and a tidy image tidy.          *)
LEMMA FreeRecordRecords ==
  ASSUME TypeOK, NEW m, NEW d \in Records(cache[cur], m), FreeRecord(d)
  PROVE  /\ \A r \in Replicas : r # cur => cache'[r] = cache[r] /\ media'[r] = media[r]
         /\ Records(cache'[cur], m) = Records(cache[cur], m) \ {d}
         /\ \A n : n # m => Records(cache'[cur], n) = Records(cache[cur], n)
         /\ \A n : \A e \in Records(cache'[cur], n) : cache'[cur][e] = cache[cur][e]
         /\ Tidy(cache[cur]) => Tidy(cache'[cur])
<1> DEFINE img == cache[cur]
           new == Erase(img, RecordBlocks(img, d))
<1>1. img \in Image /\ new \in Image /\ d \in DataBlock /\ Complete(img, d)
  BY EraseType, Zenon DEF TypeOK, Records
<1>2. \A n : n # m => d \notin Records(img, n)
  BY Zenon DEF Records
<1>3. (\A n : Records(new, n) = Records(img, n) \ {d}) /\ (Tidy(img) => Tidy(new))
  BY <1>1, FreedRecord
<1>4. ASSUME NEW n, NEW e \in Records(new, n) PROVE new[e] = img[e]
  BY <1>1, ErasedImage DEF Records
<1>5. WriteBlocks(cur, new)
  BY FreeRecordEffect, Zenon
<1> HIDE DEF new
<1>6. /\ cache'[cur] = new
      /\ \A r \in Replicas : r # cur => cache'[r] = cache[r] /\ media'[r] = media[r]
  BY <1>1, <1>5, WriteEffect, Zenon
<1>7. ASSUME NEW n, n # m PROVE Records(new, n) = Records(img, n)
  BY <1>2, <1>3, <1>7
<1> QED BY <1>3, <1>4, <1>6, <1>7, Zenon

(* It is safe when the record may go, or its key has another one.          *)
LEMMA FreeRecordLegal ==
  ASSUME TypeOK, MediaInv, LegalInv, Settled(cur),
         NEW m, NEW d \in Records(cache[cur], m), FreeRecord(d),
         \A k \in Keys : legal[k] \subseteq legal'[k],
         \A k \in Keys : Absent \in legal'[k] \/ KeyStr[k] # m \/ Records(cache[cur], m) # {d}
  PROVE  MediaInv' /\ LegalInv'
<1> DEFINE img == cache[cur]
           S == RecordBlocks(img, d)
<1>1. /\ WriteBlocks(cur, Erase(img, S))
      /\ \A n : \A e \in Records(img, n) : e # d => RecordBlocks(img, e) \cap S = {}
      /\ 0 \in S => img[0].type \in {"descriptor", "chunk"}
  BY FreeRecordEffect, Zenon
<1> HIDE DEF S
<1>2. cur \in Replicas
  BY DEF TypeOK
<1>3. 0 \notin S
  BY <1>1, <1>2, BlockZero DEF MediaInv, Free, Garbage, Header
<1>4. ASSUME NEW k \in Keys, Absent \notin legal'[k]
      PROVE  \E e \in Records(img, KeyStr[k]) : RecordBlocks(img, e) \cap S = {}
  <2>1. PICK e \in Records(img, KeyStr[k]) : e # d
    <3>1. CASE KeyStr[k] = m
      BY <1>4, <3>1, Zenon
    <3>2. CASE KeyStr[k] # m
      <4>1. d \notin Records(img, KeyStr[k])
        BY <3>2, Zenon DEF Records
      <4>2. \E e \in Records(img, KeyStr[k]) : TRUE
        BY <1>2, <1>4, Zenon DEF LegalInv
      <4> QED BY <4>1, <4>2, Zenon
    <3> QED BY <3>1, <3>2, Zenon
  <2> QED BY <1>1, <2>1, Zenon
<1> QED BY <1>1, <1>3, <1>4, EraseLegal, Zenon

(* The index entries that are not those of the freed record stay right.    *)
LEMMA FreeRecordIndex ==
  ASSUME TypeOK, IndexInv, status = "ready", UNCHANGED index,
         NEW m, NEW d \in Records(cache[cur], m), FreeRecord(d),
         NEW r \in Replicas, NEW n \in IndexKey, index[r][n].block \in Records(cache'[r], n)
  PROVE  index'[r][n].generation = cache'[r][index'[r][n].block].generation
<1> DEFINE e == index[r][n].block
<1>1. e \in Records(cache[r], n) => index[r][n].generation = cache[r][e].generation
  BY Zenon DEF IndexInv
<1> HIDE DEF e
<1>2. CASE r # cur
  BY <1>1, FreeRecordRecords DEF e
<1>3. CASE r = cur
  BY <1>1, FreeRecordRecords DEF e
<1> QED BY <1>2, <1>3, Zenon

(* The records a ready store holds for a key, at each step of an operation. *)
LEMMA IndexedRecords ==
  ASSUME IndexInv, status = "ready", NEW r \in Replicas, NEW n \in IndexKey
  PROVE  /\ r = cur /\ n = KeyStr[op.key] /\ pc \in {"commit", "erase"} =>
              Records(cache[r], n) = {op.block, op.old} \ {NullBlock}
         /\ r = cur /\ n = KeyStr[op.key] /\ pc = "deleteFlush" =>
              Records(cache[r], n) = {}
         /\ r # cur \/ n # KeyStr[op.key] \/ pc \notin {"commit", "erase", "deleteFlush"} =>
              Records(cache[r], n) = {index[r][n].block} \ {NullBlock}
<1>1. Records(cache[r], n) = ExpectedRecords(r, n)
  BY Zenon DEF IndexInv
<1>2. r = cur /\ n = KeyStr[op.key] /\ pc \in {"commit", "erase"} =>
        ExpectedRecords(r, n) = {op.block, op.old} \ {NullBlock}
  BY DEF ExpectedRecords
<1>3. r = cur /\ n = KeyStr[op.key] /\ pc = "deleteFlush" => ExpectedRecords(r, n) = {}
  BY DEF ExpectedRecords
<1>4. r # cur \/ n # KeyStr[op.key] \/ pc \notin {"commit", "erase", "deleteFlush"} =>
        ExpectedRecords(r, n) = {index[r][n].block} \ {NullBlock}
  BY Zenon DEF ExpectedRecords
<1> QED BY <1>1, <1>2, <1>3, <1>4, Zenon

(* The entries of a ready store: none without a block, and a generation    *)
(* that is the record's.                                                   *)
LEMMA IndexedEntries ==
  ASSUME IndexInv, status = "ready", NEW r \in Replicas, NEW n \in IndexKey
  PROVE  /\ index[r][n].block = NullBlock => index[r][n] = NoEntry
         /\ index[r][n].block \in Records(cache[r], n) =>
              index[r][n].generation = cache[r][index[r][n].block].generation
BY Zenon DEF IndexInv

(* Between two replicas of an operation the index lists the records.       *)
LEMMA NextIndex ==
  ASSUME cache' = cache, pc' \notin {"commit", "erase", "deleteFlush"},
         \A r \in Replicas, n \in IndexKey :
           /\ index'[r][n].block = NullBlock => index'[r][n] = NoEntry
           /\ Records(cache[r], n) = {index'[r][n].block} \ {NullBlock}
           /\ index'[r][n].block \in Records(cache[r], n) =>
                index'[r][n].generation = cache[r][index'[r][n].block].generation
  PROVE  IndexInv'
<1>1. ASSUME NEW r \in Replicas, NEW n \in IndexKey
      PROVE  /\ index'[r][n].block = NullBlock => index'[r][n] = NoEntry
             /\ Records(cache'[r], n) = ExpectedRecords(r, n)'
             /\ index'[r][n].block \in Records(cache'[r], n) =>
                  index'[r][n].generation = cache'[r][index'[r][n].block].generation
  BY Zenon DEF ExpectedRecords
<1> QED BY <1>1, Zenon DEF IndexInv

-----------------------------------------------------------------------------
(* A record that can be read through the index is a record of its key,     *)
(* unless put is about to replace its entry.                               *)
LEMMA ReadableRecord ==
  ASSUME Inv, IndexedInv, NEW r \in Replicas, NEW n \in IndexKey, index[r][n] # NoEntry
  PROVE  /\ status = "ready" /\ ~dirty
         /\ index[r][n].block \in Block
         /\ pc \in {"write", "erase", "delete"} => index[r][n].block \in Records(cache[r], n)
         /\ Readable(r, n) => index[r][n].block \in DataBlock
<1> DEFINE d == index[r][n].block
<1>1. status = "ready" /\ ~dirty
  BY Zenon DEF IndexedInv, Inv, ControlInv
<1>2. d # NullBlock
  BY Zenon DEF Inv, IndexInv
<1>3. d \in Block
  BY <1>2 DEF Inv, TypeOK, Entry
<1>4. ASSUME pc \in {"write", "erase", "delete"} PROVE d \in Records(cache[r], n)
  <2>1. \/ r # cur \/ n # KeyStr[op.key] \/ pc \notin {"commit", "erase", "deleteFlush"}
        \/ r = cur /\ n = KeyStr[op.key] /\ pc = "erase"
    BY <1>4, Zenon
  <2>2. CASE r = cur /\ n = KeyStr[op.key] /\ pc = "erase"
    BY <2>2, Zenon DEF Inv, ProgressInv
  <2>3. CASE \/ r # cur \/ n # KeyStr[op.key]
             \/ pc \notin {"commit", "erase", "deleteFlush"}
    <3>1. Records(cache[r], n) = {d} \ {NullBlock}
      BY <1>1, <2>3, IndexedRecords, Zenon DEF Inv
    <3> QED BY <1>2, <3>1, Zenon
  <2> QED BY <2>1, <2>2, <2>3, Zenon
<1>5. ASSUME Readable(r, n) PROVE d \in DataBlock
  <2>1. cache[r][d].type = "descriptor"
    BY <1>5, Zenon DEF Readable, Complete
  <2>2. cache[r][0] \in {Free, Garbage, Header}
    BY BlockZero, Zenon DEF Inv, MediaInv
  <2>3. d # 0
    BY <2>1, <2>2 DEF Free, Garbage, Header
  <2> QED BY <1>3, <2>3, BlockZero, Zenon
<1> QED BY <1>1, <1>3, <1>4, <1>5, Zenon

(* Where a write of the current replica leaves the blocks of a durable     *)
(* record alone, they stay durable.                                        *)
LEMMA SparedWrite ==
  ASSUME Inv, NEW new \in Image, WriteBlocks(cur, new), NEW r \in Replicas, NEW S,
         S \subseteq Block, \A b \in S : media[r][b] = {cache[r][b]},
         r = cur => \A b \in S : new[b] = cache[cur][b]
  PROVE  \A b \in S : cache'[r][b] = cache[r][b] /\ media'[r][b] = {cache[r][b]}
<1>1. CASE r = cur
  BY WriteEffect DEF Inv
<1>2. CASE r # cur
  BY WriteEffect DEF Inv
<1> QED BY <1>1, <1>2, Zenon

(* No step overwrites a block of a record that can be read through the     *)
(* index, but the deletion of its key.                                     *)
LEMMA Spared ==
  ASSUME Inv, IndexedInv, Next, NEW r \in Replicas, NEW n \in IndexKey, Readable(r, n),
         ~(pc = "delete" /\ KeyStr[op.key] = n /\ cur = r)
  PROVE  \A b \in RecordBlocks(cache[r], index[r][n].block) :
           cache'[r][b] = cache[r][b] /\ media'[r][b] = {cache[r][b]}
<1> DEFINE d == index[r][n].block
           img == cache[cur]
           S == RecordBlocks(cache[r], d)
           m == KeyStr[op.key]
           Goal == \A b \in S : cache'[r][b] = cache[r][b] /\ media'[r][b] = {cache[r][b]}
<1>1. /\ status = "ready" /\ ~dirty /\ d \in DataBlock /\ Complete(cache[r], d)
      /\ pc \in {"write", "erase", "delete"} => d \in Records(cache[r], n)
  BY ReadableRecord, Zenon DEF Readable
<1>2. S \subseteq Block /\ \A b \in S : media[r][b] = {cache[r][b]}
  BY Zenon DEF RecordBlocks, IndexedInv, Durable
<1>3. TypeOK /\ cur \in Replicas /\ img \in Image
  BY DEF Inv, TypeOK
<1> SUFFICES Goal
  OBVIOUS
<1> HIDE DEF Goal
<1>4. CASE UNCHANGED <<cache, media>>
  BY <1>2, <1>4, Zenon DEF Goal
<1>5. CASE Flush(cur)
  BY <1>2, <1>3, <1>5, FlushEffect, Zenon DEF Goal
<1>6. CASE PutWrite
  <2>1. pc = "write" /\ op \in PutOp
    BY <1>3, <1>6, Zenon DEF PutWrite, TypeOK, DeletePc, OtherPc
  <2>2. op.key \in Keys /\ op.value \in Values /\ op.generation \in Generation
    BY <2>1 DEF PutOp
  <2>3. PICK f \in Allocations(img, NeededBlocks[op.value]) :
          WriteBlocks(cur, WriteRecord(img, f, op.key, op.generation, op.value))
    BY <1>6, Zenon DEF PutWrite
  <2> DEFINE new == WriteRecord(img, f, op.key, op.generation, op.value)
  <2>4. new \in Image
    BY <1>3, <2>2, WriteRecordType, Zenon DEF Allocations
  <2>5. ASSUME r = cur PROVE \A b \in S : new[b] = img[b]
    <3>1. Complete(img, d) /\ S = RecordBlocks(img, d)
      BY <1>1, <2>5, Zenon
    <3>2. new = WriteRecord(img, f, op.key, op.generation, op.value)
      OBVIOUS
    <3> HIDE DEF new, S, d, img
    <3> QED BY <1>1, <1>3, <2>2, <2>4, <3>1, <3>2, WrittenImage
  <2> QED BY <1>2, <2>3, <2>4, <2>5, SparedWrite DEF Goal
<1>7. ASSUME NEW l \in IndexKey, NEW e \in Records(img, l), FreeRecord(e),
             pc \in {"erase", "delete"}, r = cur => d # e
      PROVE  Goal
  <2> DEFINE new == Erase(img, RecordBlocks(img, e))
  <2>1. WriteBlocks(cur, new) /\ new \in Image
    BY <1>3, <1>7, FreeRecordEffect, EraseType, Zenon
  <2>2. r = cur => S \cap RecordBlocks(img, e) = {}
    BY <1>1, <1>3, <1>7, FreeRecordEffect, Zenon
  <2>3. r = cur => \A b \in S : new[b] = img[b]
    BY <1>2, <2>2, Zenon DEF Erase
  <2> QED BY <1>2, <2>1, <2>3, SparedWrite DEF Goal
<1>8. CASE PutErase
  <2>1. pc = "erase" /\ FreeRecord(op.old)
    BY <1>8 DEF PutErase
  <2>2. op \in PutOp /\ m \in IndexKey
    BY <1>3, <2>1 DEF TypeOK, PutPc, DeletePc, OtherPc, PutOp, IndexKey
  <2>3. op.old # NullBlock /\ op.old # op.block /\ index[cur][m].block = op.block
    BY <2>1, Zenon DEF Inv, ProgressInv
  <2>4. Records(img, m) = {op.block, op.old} \ {NullBlock}
    BY <1>1, <1>3, <2>1, <2>2, IndexedRecords, Zenon DEF Inv
  <2>5. op.old \in Records(img, m)
    BY <2>3, <2>4, Zenon
  <2>6. r = cur => d # op.old
    BY <1>1, <2>1, <2>3, <2>5, Zenon DEF Records
  <2> HIDE DEF m, img, d
  <2> QED BY <1>7, <2>1, <2>2, <2>5, <2>6
<1>9. CASE DeleteErase
  <2>1. pc = "delete" /\ index[cur][m] # NoEntry /\ FreeRecord(index[cur][m].block)
    BY <1>9, Zenon DEF DeleteErase
  <2>2. m \in IndexKey
    BY <1>3, <2>1, Zenon DEF TypeOK, PutPc, OtherPc, DeleteOp, IndexKey
  <2>3. index[cur][m].block \in Records(img, m)
    BY <1>3, <2>1, <2>2, ReadableRecord, Zenon
  <2>4. r = cur => d # index[cur][m].block
    BY <1>1, <2>1, <2>3, Zenon DEF Records
  <2> HIDE DEF m, img, d
  <2> QED BY <1>7, <2>1, <2>2, <2>3, <2>4, Zenon
<1>10. CASE PowerLoss
  BY <1>2, <1>10, PowerLossEffect, Zenon DEF PowerLoss, Inv, Goal
<1>11. ~FormatWrite /\ ~RecoverErase
  BY <1>1, <1>3, ReadyUnique, TidyNoGarbage, Zenon DEF FormatWrite, Inv, ControlInv, RecoverErase,
     TidyInv
<1>12. \/ UNCHANGED <<cache, media>> \/ Flush(cur)
       \/ PutWrite \/ PutErase \/ DeleteErase \/ PowerLoss
  BY <1>11, Zenon DEF Next, Step, FormatBegin, FormatFlush, Open, Close, BuildIndex, RecoverBegin,
     RecoverClean, RecoverFlush, PutBegin, PutFull, PutCommit, PutEraseFlush,
     DeleteBegin, DeleteSkip, DeleteFlush
<1> QED BY <1>4, <1>5, <1>6, <1>8, <1>9, <1>10, <1>12

(* Every step keeps the readable indexed records on the medium.            *)
LEMMA IndexedStep ==
  ASSUME Inv, IndexedInv, Next, Inv'
  PROVE  IndexedInv'
<1>1. ASSUME status' # "ready", NEW r \in Replicas, NEW n \in IndexKey
      PROVE  index'[r][n] = NoEntry
  <2>1. \/ index'[r] = EmptyIndex
        \/ index' = index /\ (status' = status \/ status = "raw")
        \/ status' = "ready"
        \/ status' = status /\ pc \in PutPc \cup DeletePc
    <3>1. CASE Open \/ Close \/ PowerLoss \/ BuildIndex
      BY <3>1, Zenon DEF Open, Close, PowerLoss, BuildIndex
    <3>2. CASE PutCommit
      BY <3>2, Zenon DEF PutCommit, PutNext, NextReplica, PutPc
    <3>3. CASE DeleteFlush
      BY <3>3, Zenon DEF DeleteFlush, DeleteNext, NextReplica, DeletePc
    <3>4. CASE FormatFlush
      BY <3>4, Zenon DEF FormatFlush, Inv, ControlInv
    <3>5. CASE \/ FormatBegin \/ FormatWrite \/ RecoverBegin \/ RecoverErase
               \/ (\E k \in Keys, v \in Values : PutBegin(k, v)) \/ PutWrite \/ PutErase
               \/ (\E k \in Keys : DeleteBegin(k)) \/ DeleteErase
      BY <3>5, Zenon DEF FormatBegin, FormatWrite, RecoverBegin, RecoverErase,
         PutBegin, PutWrite, PutErase, DeleteBegin, DeleteErase
    <3>6. CASE RecoverClean \/ RecoverFlush \/ PutFull \/ PutEraseFlush \/ DeleteSkip
      BY <3>6, Zenon DEF RecoverClean, RecoverFlush, RecoverNext, PutFull, Fail, PutEraseFlush,
         PutNext, DeleteSkip, DeleteNext, NextReplica
    <3> QED BY <3>1, <3>2, <3>3, <3>4, <3>5, <3>6 DEF Next, Step
  <2>2. status = "ready" => status' = "ready" \/ index'[r] = EmptyIndex
    BY <2>1
  <2> QED BY <1>1, <2>1 DEF EmptyIndex, IndexedInv, Inv, ControlInv
<1>2. ASSUME NEW r \in Replicas, NEW n \in IndexKey, Readable(r, n)'
      PROVE  Durable(r, index[r][n].block)'
  <2>1. cache'[r] \in Image /\ cache[r] \in Image
    BY Zenon DEF Inv, TypeOK
  <2>2. CASE pc' \notin FlushPc \/ r # cur'
    BY <2>2, Zenon DEF Inv, ControlInv, Settled, Durable, RecordBlocks
  <2>3. CASE pc' \in FlushPc /\ r = cur'
    <3>1. /\ index' = index
          /\ FormatWrite \/ RecoverErase \/ PutWrite \/ PutErase \/ DeleteErase
      BY <2>3, Zenon DEF Next, Step, FlushPc, FormatBegin, FormatWrite, FormatFlush, Open, Close,
         BuildIndex, RecoverBegin, RecoverClean, RecoverErase, RecoverFlush, RecoverNext, PutBegin,
         PutWrite, PutFull, Fail, PutCommit, PutErase, PutEraseFlush, PutNext, DeleteBegin,
         DeleteSkip, DeleteErase, DeleteFlush, DeleteNext, NextReplica, Finish, PowerLoss
    <3> DEFINE d == index[r][n].block
    <3>2. index[r][n] # NoEntry /\ Complete(cache'[r], d)
      BY <1>2, <3>1 DEF Readable
    <3>3. /\ status = "ready" /\ ~dirty /\ d \in Block
          /\ pc \in {"write", "erase", "delete"} => d \in Records(cache[r], n)
      BY <3>2, ReadableRecord, Zenon
    <3>4. Readable(r, n)
      <4>1. CASE PutWrite \/ PutErase \/ DeleteErase
        BY <3>2, <3>3, <4>1, Zenon DEF PutWrite, PutErase, DeleteErase, Readable, Records
      <4>2. CASE RecoverErase
        BY <3>3, <4>2, Zenon DEF RecoverErase, Inv, ControlInv
      <4>3. CASE FormatWrite
        BY <3>3, <4>3, Zenon DEF FormatWrite, Inv, ControlInv
      <4> QED BY <3>1, <4>1, <4>2, <4>3
    <3>5. ~(pc = "delete" /\ KeyStr[op.key] = n /\ cur = r)
      <4> SUFFICES ASSUME pc = "delete", KeyStr[op.key] = n, cur = r PROVE FALSE
        OBVIOUS
      <4>1. DeleteErase
        BY <3>1 DEF FormatWrite, RecoverErase, PutWrite, PutErase
      <4>2. FreeRecord(d) /\ d \in Records(cache[cur], n)
        BY <3>3, <4>1, Zenon DEF DeleteErase
      <4>3. WriteBlocks(cur, Erase(cache[cur], RecordBlocks(cache[cur], d)))
        BY <4>2, FreeRecordEffect, Zenon DEF Inv
      <4>4. cache'[cur][d] = Free
        BY <3>3, <4>3, Zenon DEF WriteBlocks, Erase, RecordBlocks, Inv, TypeOK
      <4> QED BY <3>2, <4>4 DEF Complete, Free
    <3>6. \A b \in RecordBlocks(cache[r], d) :
            cache'[r][b] = cache[r][b] /\ media'[r][b] = {cache[r][b]}
      BY <3>4, <3>5, Spared, Zenon
    <3>7. RecordBlocks(cache'[r], d) = RecordBlocks(cache[r], d)
      <4>1. cache[r] \in Image /\ cache'[r] \in Image /\ d \in Block /\ Complete(cache[r], d)
        BY <2>1, <3>3, <3>4, Zenon DEF Readable, Inv, TypeOK
      <4> QED BY <3>6, <4>1, RecordFrame
    <3> QED BY <3>1, <3>6, <3>7, Zenon DEF Durable
  <2> QED BY <2>2, <2>3
<1> QED BY <1>1, <1>2 DEF IndexedInv

(* Whatever combination of contents a medium comes back with, a record the *)
(* reader accepts on it is all of one value.                               *)
LEMMA RecordPayload ==
  ASSUME Inv, NEW r \in Replicas, NEW img \in Image,
         \A b \in Block : img[b] \in media[r][b], NEW d \in Block, Complete(img, d),
         NEW b \in RecordBlocks(img, d)
  PROVE  img[b].payload = img[d].payload
<1> SUFFICES ASSUME b # d PROVE img[b].payload = img[d].payload
  OBVIOUS
<1>1. b \in Block /\ img[b].type = "chunk" /\ img[b].owner = d
  BY RecordBlocksFacts
<1>2. img[d].type = "descriptor"
  BY DEF Complete
<1>3. img[b] \in media[r][b] /\ img[d] \in media[r][d]
  BY <1>1
<1> QED BY <1>1, <1>2 DEF Inv, MediaInv

=============================================================================
