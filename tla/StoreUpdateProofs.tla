------------------------- MODULE StoreUpdateProofs --------------------------
(***************************************************************************)
(* The steps of put after the record is written keep the invariant (the    *)
(* flush and the index update, the erasure of the old record, its flush),  *)
(* and so do those of delete.  What the invariant says of reads, of power  *)
(* loss, of the index, of leaked blocks and of a put that is flushed.      *)
(***************************************************************************)
EXTENDS StoreDeviceProofs

(* What is left to show when a put is done with a replica.                 *)
LEMMA PutNextInv ==
  ASSUME Inv, TypeOK', Flush(cur), PutNext, pc \in {"commit", "eraseFlush"},
         Records(cache[cur], KeyStr[op.key]) = {op.block},
         \A r \in Replicas, n \in IndexKey :
           /\ index'[r][n].block = NullBlock => index'[r][n] = NoEntry
           /\ Records(cache[r], n) = {index'[r][n].block} \ {NullBlock}
           /\ index'[r][n].block \in Records(cache[r], n) =>
                index'[r][n].generation = cache[r][index'[r][n].block].generation
  PROVE  Inv'
<1>1. /\ TypeOK /\ MediaInv /\ LegalInv /\ ControlInv /\ TidyInv /\ ProgressInv
      /\ op \in PutOp /\ cur \in Replicas /\ status = "ready" /\ ~dirty
  BY Zenon DEF Inv, TypeOK, ControlInv, DeletePc, OtherPc
<1>2. cache' = cache /\ \A r \in Replicas : Settled(r)'
  BY <1>1, FlushEffect DEF ControlInv, Settled
<1>3. status' = status /\ dirty' = dirty
  BY Zenon DEF PutNext, NextReplica
<1>4. \/ cur' = cur + 1 /\ pc' = "write" /\ op' = op /\ legal' = legal
      \/ /\ cur = ReplicaCount /\ cur' = 1 /\ pc' = "idle" /\ op' = NoOp
         /\ legal' = [legal EXCEPT ![op.key] = {op.value}]
  BY Zenon DEF PutNext, NextReplica, Finish
<1>5. \A r \in Replicas : r <= cur =>
        /\ Records(cache[r], KeyStr[op.key]) # {}
        /\ \A d \in Records(cache[r], KeyStr[op.key]) : cache[r][d].payload = op.value
  <2>1. \A r \in Replicas : r <= cur => r < cur \/ r = cur
    BY <1>1 DEF Replicas
  <2>2. cache[cur][op.block].payload = op.value
    BY <1>1, Zenon DEF ProgressInv
  <2> QED BY <1>1, <2>1 DEF ProgressInv, PutPc
<1>6. MediaInv'
  BY <1>1, FlushMedia, Zenon
<1>7. LegalInv'
  <2>1. CASE legal' = legal
    BY <1>1, <2>1, FlushLegal, Zenon
  <2>2. CASE cur = ReplicaCount /\ legal' = [legal EXCEPT ![op.key] = {op.value}]
    <3>1. \A r \in Replicas : r <= cur
      BY <2>2 DEF Replicas
    <3>2. op.key \in Keys /\ legal'[op.key] = {op.value}
      BY <2>2 DEF TypeOK
    <3>3. \A k \in Keys : k # op.key => legal'[k] = legal[k]
      BY <2>2
    <3>4. ASSUME NEW r \in Replicas, NEW d \in Block, NEW c \in media'[r][d],
                 c.type = "descriptor"
          PROVE  c.payload \in legal'[c.key]
      <4>1. Tidy(cache'[r])
        BY <1>1, <1>2, Zenon DEF TidyInv
      <4>2. c = cache'[r][d] /\ c.key \in Keys /\ d \in Records(cache'[r], KeyStr[c.key])
        BY <1>2, <1>6, <3>4, <4>1, SettledDescriptor
      <4>3. CASE c.key = op.key
        BY <1>2, <1>5, <3>1, <3>2, <4>2, <4>3
      <4>4. CASE c.key # op.key
        BY <1>1, <3>3, <3>4, <4>2, <4>4, FlushEffect DEF MediaInv, LegalInv
      <4> QED BY <4>3, <4>4, Zenon
    <3>5. ASSUME NEW r \in Replicas, NEW k \in Keys, Absent \notin legal'[k]
          PROVE  \E d \in Records(cache'[r], KeyStr[k]) :
                   \A b \in RecordBlocks(cache'[r], d) : media'[r][b] = {cache'[r][b]}
      <4>1. CASE k = op.key
        <5>1. PICK d \in Records(cache'[r], KeyStr[k]) : TRUE
          BY <1>2, <1>5, <3>1, <4>1, Zenon
        <5> QED BY <1>2, Zenon DEF Settled, RecordBlocks
      <4>2. CASE k # op.key
        BY <1>1, <3>3, <3>5, <4>2, FlushHeld, Zenon
      <4> QED BY <4>1, <4>2, Zenon
    <3> QED BY <3>4, <3>5, Zenon DEF LegalInv, Durable
  <2> QED BY <1>4, <2>1, <2>2
<1>8. ControlInv'
  BY <1>1, <1>2, <1>3, <1>4 DEF ControlInv
<1>9. TidyInv'
  BY <1>1, <1>2, <1>3 DEF TidyInv
<1>10. IndexInv'
  BY <1>2, <1>4, NextIndex
<1>11. ProgressInv'
  <2>1. \A r \in Replicas : r < cur + 1 => r <= cur
    BY <1>1 DEF Replicas
  <2> QED BY <1>2, <1>4, <1>5, <2>1, Zenon DEF ProgressInv, PutPc, DeletePc
<1> QED BY <1>6, <1>7, <1>8, <1>9, <1>10, <1>11 DEF Inv

(* put, once the flush of the new record has returned: the index is        *)
(* updated, then the old record is next or the replica is done.            *)
LEMMA PutCommitInv == Inv /\ PutCommit => Inv'
<1> SUFFICES ASSUME Inv, PutCommit PROVE Inv'
  OBVIOUS
<1> DEFINE m == KeyStr[op.key]
<1>1. TypeOK'
  BY PutType DEF Inv
<1>2. /\ TypeOK /\ MediaInv /\ LegalInv /\ ControlInv /\ TidyInv /\ IndexInv /\ ProgressInv
      /\ pc = "commit" /\ op \in PutOp /\ cur \in Replicas /\ status = "ready" /\ ~dirty
      /\ Flush(cur) /\ m \in IndexKey
  <2>1. pc = "commit" /\ Flush(cur)
    BY DEF PutCommit
  <2>2. op \in PutOp /\ cur \in Replicas
    BY <2>1 DEF Inv, TypeOK, DeletePc, OtherPc
  <2>3. status = "ready" /\ ~dirty
    BY <2>1 DEF Inv, ControlInv, PutPc
  <2>4. m \in IndexKey
    BY <2>2 DEF PutOp, IndexKey
  <2> QED BY <2>1, <2>2, <2>3, <2>4 DEF Inv
<1>3. /\ op.block \in Records(cache[cur], m) /\ op.block # op.old /\ op.block # NullBlock
      /\ cache[cur][op.block].generation = op.generation
      /\ Records(cache[cur], m) = {op.block, op.old} \ {NullBlock}
  BY <1>2, IndexedRecords, Zenon DEF ProgressInv
<1>4. /\ index'[cur][m].block = op.block /\ index'[cur][m].generation = op.generation
      /\ \A r \in Replicas, n \in IndexKey : r # cur \/ n # m => index'[r][n] = index[r][n]
  BY <1>2 DEF PutCommit, TypeOK
<1>5. \A r \in Replicas, n \in IndexKey : r # cur \/ n # m =>
        Records(cache[r], n) = {index[r][n].block} \ {NullBlock}
  BY <1>2, IndexedRecords, Zenon
<1>6. \A r \in Replicas, n \in IndexKey :
        /\ index'[r][n].block = NullBlock => index'[r][n] = NoEntry
        /\ index'[r][n].block \in Records(cache[r], n) =>
             index'[r][n].generation = cache[r][index'[r][n].block].generation
  <2>1. ASSUME NEW r \in Replicas, NEW n \in IndexKey, r # cur \/ n # m
        PROVE  /\ index'[r][n].block = NullBlock => index'[r][n] = NoEntry
               /\ index'[r][n].block \in Records(cache[r], n) =>
                    index'[r][n].generation = cache[r][index'[r][n].block].generation
    <3>1. index'[r][n] = index[r][n]
      BY <1>4, <2>1, Zenon
    <3>2. /\ index[r][n].block = NullBlock => index[r][n] = NoEntry
          /\ index[r][n].block \in Records(cache[r], n) =>
               index[r][n].generation = cache[r][index[r][n].block].generation
      BY <1>2, IndexedEntries, Zenon
    <3> QED BY <3>1, <3>2
  <2>2. /\ index'[cur][m].block # NullBlock
        /\ index'[cur][m].generation = cache[cur][index'[cur][m].block].generation
    BY <1>3, <1>4, Zenon
  <2> QED BY <2>1, <2>2, Zenon
<1>7. CASE op.old = NullBlock /\ PutNext
  <2>1. Records(cache[cur], m) = {op.block}
    BY <1>3, <1>7
  <2>2. \A r \in Replicas, n \in IndexKey :
          Records(cache[r], n) = {index'[r][n].block} \ {NullBlock}
    <3>1. Records(cache[cur], m) = {index'[cur][m].block} \ {NullBlock}
      BY <1>3, <1>4, <2>1
    <3>2. ASSUME NEW r \in Replicas, NEW n \in IndexKey, r # cur \/ n # m
          PROVE  Records(cache[r], n) = {index'[r][n].block} \ {NullBlock}
      <4>1. index'[r][n] = index[r][n]
        BY <1>4, <3>2, Zenon
      <4> QED BY <1>5, <3>2, <4>1
    <3> QED BY <3>1, <3>2, Zenon
  <2> QED BY <1>1, <1>2, <1>6, <1>7, <2>1, <2>2, PutNextInv
<1>8. CASE /\ op.old # NullBlock /\ pc' = "erase"
           /\ UNCHANGED <<status, cur, op, dirty, legal>>
  <2>1. cache' = cache /\ \A r \in Replicas : Settled(r)'
    BY <1>2, FlushEffect DEF ControlInv, Settled
  <2>2. MediaInv' /\ LegalInv'
    BY <1>2, <1>8, FlushMedia, FlushLegal
  <2>3. ControlInv'
    BY <1>2, <1>8, <2>1 DEF ControlInv
  <2>4. TidyInv'
    BY <1>2, <1>8, <2>1 DEF TidyInv
  <2>5. IndexInv'
    <3>1. ASSUME NEW r \in Replicas, NEW n \in IndexKey
          PROVE  Records(cache'[r], n) = ExpectedRecords(r, n)'
      <4>1. CASE r = cur /\ n = m
        BY <1>3, <1>8, <2>1, <4>1 DEF ExpectedRecords
      <4>2. CASE r # cur \/ n # m
        <5>1. ExpectedRecords(r, n)' = {index'[r][n].block} \ {NullBlock}
          BY <1>8, <4>2 DEF ExpectedRecords
        <5>2. Records(cache[r], n) = {index[r][n].block} \ {NullBlock}
          BY <1>5, <4>2
        <5>3. index'[r][n] = index[r][n]
          BY <1>4, <4>2, Zenon
        <5> QED BY <2>1, <5>1, <5>2, <5>3
      <4> QED BY <4>1, <4>2
    <3> QED BY <1>6, <2>1, <3>1, Zenon DEF IndexInv
  <2>6. ProgressInv'
    BY <1>2, <1>4, <1>8, <2>1 DEF ProgressInv, PutPc, DeletePc
  <2> QED BY <1>1, <2>2, <2>3, <2>4, <2>5, <2>6 DEF Inv
<1> QED BY <1>7, <1>8 DEF PutCommit

(* put frees the old record: the new one is durable by then, so no key     *)
(* loses its last record.                                                  *)
LEMMA PutEraseInv == Inv /\ PutErase => Inv'
<1> SUFFICES ASSUME Inv, PutErase PROVE Inv'
  OBVIOUS
<1> DEFINE m == KeyStr[op.key]
           img == cache[cur]
<1>1. TypeOK'
  BY PutType DEF Inv
<1>2. TypeOK /\ MediaInv /\ LegalInv /\ ControlInv /\ TidyInv /\ IndexInv /\ ProgressInv
  BY DEF Inv
<1>3. pc = "erase" /\ FreeRecord(op.old)
  BY DEF PutErase
<1>4. op \in PutOp /\ cur \in Replicas
  BY <1>2, <1>3 DEF TypeOK, DeletePc, OtherPc
<1>5. status = "ready" /\ ~dirty /\ Settled(cur)
  BY <1>2, <1>3, <1>4 DEF ControlInv, PutPc, FlushPc
<1>6. m \in IndexKey
  BY <1>4 DEF PutOp, IndexKey
<1>7. /\ op.block \in Records(img, m) /\ op.block # op.old /\ op.old # NullBlock
      /\ index[cur][m].block = op.block
  BY <1>2, <1>3, Zenon DEF ProgressInv
<1>8. Records(img, m) = {op.block, op.old}
  <2>1. Records(img, m) = {op.block, op.old} \ {NullBlock}
    BY <1>2, <1>3, <1>4, <1>5, <1>6, IndexedRecords, Zenon
  <2> QED BY <1>7, <2>1, Zenon
<1>9. op.old \in Records(img, m)
  BY <1>8
<1>10. \A r \in Replicas : r # cur => cache'[r] = cache[r] /\ media'[r] = media[r]
  BY <1>2, <1>3, <1>9, FreeRecordRecords, Zenon
<1>11. Records(cache'[cur], m) = Records(img, m) \ {op.old}
  BY <1>2, <1>3, <1>9, FreeRecordRecords
<1>12. \A n : n # m => Records(cache'[cur], n) = Records(img, n)
  BY <1>2, <1>3, <1>9, FreeRecordRecords
<1>13. \A n : \A e \in Records(cache'[cur], n) : cache'[cur][e] = img[e]
  BY <1>2, <1>3, <1>9, FreeRecordRecords
<1>14. Tidy(cache'[cur])
  BY <1>2, <1>3, <1>4, <1>5, <1>9, FreeRecordRecords DEF TidyInv
<1>15. /\ pc' = "eraseFlush" /\ index' = index /\ status' = status /\ cur' = cur
       /\ op' = op /\ dirty' = dirty /\ legal' = legal
  BY DEF PutErase
<1>16. Records(cache'[cur], m) = {op.block}
  BY <1>7, <1>8, <1>11, Zenon
<1>17. MediaInv' /\ LegalInv'
  BY <1>2, <1>3, <1>5, <1>7, <1>9, <1>15, FreeRecordLegal
<1>18. ControlInv'
  BY <1>2, <1>5, <1>10, <1>15 DEF ControlInv, FlushPc, Settled
<1>19. TidyInv'
  BY <1>2, <1>5, <1>10, <1>14, <1>15 DEF TidyInv
<1>20. IndexInv'
  <2>1. ASSUME NEW r \in Replicas, NEW n \in IndexKey
        PROVE  Records(cache'[r], n) = ExpectedRecords(r, n)'
    <3>1. ExpectedRecords(r, n)' = {index[r][n].block} \ {NullBlock}
      BY <1>15 DEF ExpectedRecords
    <3>2. CASE r = cur /\ n = m
      BY <1>7, <1>16, <3>1, <3>2, BlockZero DEF Records
    <3>3. CASE r # cur \/ n # m
      <4>1. Records(cache'[r], n) = Records(cache[r], n)
        BY <1>10, <1>12, <3>3, Zenon
      <4>2. Records(cache[r], n) = {index[r][n].block} \ {NullBlock}
        BY <1>2, <1>5, <3>3, IndexedRecords, Zenon
      <4> QED BY <3>1, <4>1, <4>2, Zenon
    <3> QED BY <3>2, <3>3
  <2>2. ASSUME NEW r \in Replicas, NEW n \in IndexKey,
               index'[r][n].block \in Records(cache'[r], n)
        PROVE  index'[r][n].generation = cache'[r][index'[r][n].block].generation
    BY <1>2, <1>3, <1>5, <1>9, <1>15, <2>2, FreeRecordIndex
  <2> QED BY <1>2, <1>15, <2>1, <2>2 DEF IndexInv
<1>21. ProgressInv'
  <2>1. \A r \in Replicas : r < cur => cache'[r] = cache[r]
    BY <1>10 DEF Replicas
  <2>2. op.block \in Records(cache'[cur], m) /\ cache'[cur][op.block] = img[op.block]
    BY <1>13, <1>16
  <2> QED BY <1>2, <1>3, <1>15, <2>1, <2>2 DEF ProgressInv, PutPc, DeletePc
<1> QED BY <1>1, <1>17, <1>18, <1>19, <1>20, <1>21 DEF Inv

(* put flushes the erasure of the old record and is done with the replica. *)
LEMMA PutEraseFlushInv == Inv /\ PutEraseFlush => Inv'
<1> SUFFICES ASSUME Inv, PutEraseFlush PROVE Inv'
  OBVIOUS
<1> DEFINE m == KeyStr[op.key]
<1>1. TypeOK'
  BY PutType DEF Inv
<1>2. /\ TypeOK /\ ControlInv /\ IndexInv /\ ProgressInv
      /\ pc = "eraseFlush" /\ op \in PutOp /\ cur \in Replicas /\ status = "ready"
      /\ m \in IndexKey /\ Flush(cur) /\ PutNext /\ index' = index
  <2>1. pc = "eraseFlush" /\ Flush(cur) /\ PutNext /\ index' = index
    BY DEF PutEraseFlush
  <2>2. op \in PutOp /\ cur \in Replicas
    BY <2>1 DEF Inv, TypeOK, DeletePc, OtherPc
  <2>3. status = "ready"
    BY <2>1 DEF Inv, ControlInv, PutPc
  <2>4. m \in IndexKey
    BY <2>2 DEF PutOp, IndexKey
  <2> QED BY <2>1, <2>2, <2>3, <2>4 DEF Inv
<1>3. \A r \in Replicas, n \in IndexKey :
        Records(cache[r], n) = {index[r][n].block} \ {NullBlock}
  BY <1>2, IndexedRecords, Zenon
<1>4. index[cur][m].block = op.block /\ op.block \in Records(cache[cur], m)
  BY <1>2, Zenon DEF ProgressInv
<1>5. Records(cache[cur], m) = {op.block}
  BY <1>2, <1>3, <1>4, Zenon
<1>6. \A r \in Replicas, n \in IndexKey :
        /\ index'[r][n].block = NullBlock => index'[r][n] = NoEntry
        /\ Records(cache[r], n) = {index'[r][n].block} \ {NullBlock}
        /\ index'[r][n].block \in Records(cache[r], n) =>
             index'[r][n].generation = cache[r][index'[r][n].block].generation
  BY <1>2, <1>3, IndexedEntries, Zenon
<1> QED BY <1>1, <1>2, <1>5, <1>6, PutNextInv

(* delete starts at the first replica.                                     *)
LEMMA DeleteBeginInv == ASSUME NEW k \in Keys, Inv, DeleteBegin(k) PROVE Inv'
<1>1. TypeOK'
  BY DeleteType DEF Inv
<1>2. /\ pc = "idle" /\ pc' = "delete" /\ status = "ready" /\ cur = 1
      /\ UNCHANGED <<cache, media, index, status, cur, dirty, legal>>
  BY Zenon DEF Inv, ControlInv, DeleteBegin, Ready
<1>3. MediaInv' /\ LegalInv'
  BY <1>2, SameDevices DEF Inv
<1>4. ControlInv'
  BY <1>2 DEF Inv, ControlInv, FlushPc, Settled
<1>5. TidyInv'
  BY <1>2 DEF Inv, TidyInv
<1>6. IndexInv'
  BY <1>2, SameIndex DEF Inv
<1>7. ProgressInv'
  BY <1>2 DEF Replicas, ProgressInv
<1> QED BY <1>1, <1>3, <1>4, <1>5, <1>6, <1>7 DEF Inv

(* What is left to show when a delete is done with a replica.  Where it    *)
(* ends there is no descriptor of the key on any medium.                   *)
LEMMA DeleteNextInv ==
  ASSUME Inv, TypeOK', MediaInv', DeleteNext, pc \in {"delete", "deleteFlush"}, cache' = cache,
         \A r \in Replicas, b \in Block : media'[r][b] \subseteq media[r][b],
         \A r \in Replicas : Settled(r)',
         Records(cache[cur], KeyStr[op.key]) = {},
         \A r \in Replicas, n \in IndexKey :
           /\ index'[r][n].block = NullBlock => index'[r][n] = NoEntry
           /\ Records(cache[r], n) = {index'[r][n].block} \ {NullBlock}
           /\ index'[r][n].block \in Records(cache[r], n) =>
                index'[r][n].generation = cache[r][index'[r][n].block].generation
  PROVE  Inv'
<1>1. /\ TypeOK /\ MediaInv /\ LegalInv /\ ControlInv /\ TidyInv /\ ProgressInv
      /\ op \in DeleteOp /\ cur \in Replicas /\ status = "ready" /\ ~dirty
  BY Zenon DEF Inv, TypeOK, ControlInv, PutPc, OtherPc
<1>2. status' = status /\ dirty' = dirty
  BY Zenon DEF DeleteNext, NextReplica
<1>3. \/ cur' = cur + 1 /\ pc' = "delete" /\ op' = op /\ legal' = legal
      \/ /\ cur = ReplicaCount /\ cur' = 1 /\ pc' = "idle" /\ op' = NoOp
         /\ legal' = [legal EXCEPT ![op.key] = {Absent}]
  BY Zenon DEF DeleteNext, NextReplica, Finish
<1>4. \A r \in Replicas : r <= cur => Records(cache[r], KeyStr[op.key]) = {}
  <2>1. \A r \in Replicas : r <= cur => r < cur \/ r = cur
    BY <1>1 DEF Replicas
  <2> QED BY <1>1, <2>1, Zenon DEF ProgressInv, DeletePc
<1>5. \A k \in Keys : Absent \notin legal'[k] => Absent \notin legal[k]
  <2>1. CASE legal' = legal
    BY <2>1, Zenon
  <2>2. CASE legal' = [legal EXCEPT ![op.key] = {Absent}]
    BY <2>2
  <2> QED BY <1>3, <2>2
<1>6. LegalInv'
  <2>1. ASSUME NEW r \in Replicas, NEW d \in Block, NEW c \in media'[r][d],
               c.type = "descriptor"
        PROVE  c.payload \in legal'[c.key]
    <3>1. c.payload \in legal[c.key]
      BY <1>1, <2>1, Zenon DEF LegalInv
    <3>2. CASE legal' = legal
      BY <3>1, <3>2
    <3>3. CASE cur = ReplicaCount /\ legal' = [legal EXCEPT ![op.key] = {Absent}]
      <4>1. Tidy(cache'[r])
        BY <1>1, Zenon DEF TidyInv
      <4>2. c.key \in Keys /\ d \in Records(cache[r], KeyStr[c.key])
        BY <2>1, <4>1, SettledDescriptor
      <4>3. r <= cur
        BY <3>3 DEF Replicas
      <4>4. c.key # op.key
        BY <1>4, <4>2, <4>3
      <4> QED BY <3>1, <3>3, <4>4
    <3> QED BY <1>3, <3>2, <3>3
  <2>2. ASSUME NEW r \in Replicas, NEW k \in Keys, Absent \notin legal'[k]
        PROVE  \E d \in Records(cache'[r], KeyStr[k]) :
                 \A b \in RecordBlocks(cache'[r], d) : media'[r][b] = {cache'[r][b]}
    <3>1. PICK d \in Records(cache[r], KeyStr[k]) : TRUE
      BY <1>1, <1>5, <2>2, Zenon DEF LegalInv
    <3> QED BY <3>1, Zenon DEF Settled, RecordBlocks
  <2> QED BY <2>1, <2>2 DEF LegalInv, Durable
<1>7. ControlInv'
  BY <1>1, <1>2, <1>3, Zenon DEF ControlInv
<1>8. TidyInv'
  BY <1>1, <1>2 DEF TidyInv
<1>9. IndexInv'
  BY <1>3, NextIndex
<1>10. ProgressInv'
  <2>1. \A r \in Replicas : r < cur + 1 => r <= cur
    BY <1>1 DEF Replicas
  <2> QED BY <1>3, <1>4, <2>1, Zenon DEF ProgressInv, PutPc, DeletePc
<1> QED BY <1>6, <1>7, <1>8, <1>9, <1>10 DEF Inv

(* delete on a replica that has no entry for the key.                      *)
LEMMA DeleteSkipInv == Inv /\ DeleteSkip => Inv'
<1> SUFFICES ASSUME Inv, DeleteSkip PROVE Inv'
  OBVIOUS
<1> DEFINE m == KeyStr[op.key]
<1>1. TypeOK'
  BY DeleteType DEF Inv
<1>2. /\ TypeOK /\ MediaInv /\ ControlInv /\ IndexInv
      /\ pc = "delete" /\ op \in DeleteOp /\ cur \in Replicas /\ status = "ready"
      /\ m \in IndexKey /\ index[cur][m] = NoEntry
      /\ cache' = cache /\ media' = media /\ index' = index /\ DeleteNext
  <2>1. /\ pc = "delete" /\ index[cur][m] = NoEntry /\ DeleteNext
        /\ cache' = cache /\ media' = media /\ index' = index
    BY DEF DeleteSkip
  <2>2. op \in DeleteOp /\ cur \in Replicas
    BY <2>1 DEF Inv, TypeOK, PutPc, OtherPc
  <2>3. status = "ready"
    BY <2>1 DEF Inv, ControlInv, DeletePc
  <2>4. m \in IndexKey
    BY <2>2 DEF DeleteOp, IndexKey
  <2> QED BY <2>1, <2>2, <2>3, <2>4 DEF Inv
<1>3. \A r \in Replicas, n \in IndexKey :
        Records(cache[r], n) = {index[r][n].block} \ {NullBlock}
  BY <1>2, IndexedRecords, Zenon
<1>4. Records(cache[cur], m) = {}
  BY <1>2, <1>3 DEF NoEntry
<1>5. MediaInv' /\ \A r \in Replicas : Settled(r)'
  BY <1>2 DEF MediaInv, ControlInv, FlushPc, Settled
<1>6. \A r \in Replicas, n \in IndexKey :
        /\ index'[r][n].block = NullBlock => index'[r][n] = NoEntry
        /\ Records(cache[r], n) = {index'[r][n].block} \ {NullBlock}
        /\ index'[r][n].block \in Records(cache[r], n) =>
             index'[r][n].generation = cache[r][index'[r][n].block].generation
  BY <1>2, <1>3, IndexedEntries, Zenon
<1> QED BY <1>1, <1>2, <1>4, <1>5, <1>6, DeleteNextInv

(* delete frees the record: from here on the key may be absent after a     *)
(* power loss.                                                             *)
LEMMA DeleteEraseInv == ASSUME KeysDistinct, Inv, DeleteErase PROVE Inv'
<1> DEFINE m == KeyStr[op.key]
           img == cache[cur]
           d == index[cur][m].block
<1>1. TypeOK'
  BY DeleteType DEF Inv
<1>2. TypeOK /\ MediaInv /\ LegalInv /\ ControlInv /\ TidyInv /\ IndexInv /\ ProgressInv
  BY DEF Inv
<1>3. pc = "delete" /\ index[cur][m] # NoEntry /\ FreeRecord(d)
  BY Zenon DEF DeleteErase
<1>4. op \in DeleteOp /\ cur \in Replicas
  BY <1>2, <1>3, Zenon DEF TypeOK, PutPc, OtherPc
<1>5. status = "ready" /\ ~dirty /\ Settled(cur)
  BY <1>2, <1>3, <1>4, Zenon DEF ControlInv, DeletePc, FlushPc
<1>6. op.key \in Keys /\ m \in IndexKey
  BY <1>4 DEF DeleteOp, IndexKey
<1>7. \A r \in Replicas, n \in IndexKey :
        Records(cache[r], n) = {index[r][n].block} \ {NullBlock}
  BY <1>2, <1>3, <1>5 DEF IndexInv, ExpectedRecords
<1>8. d # NullBlock
  BY <1>2, <1>3, <1>4, <1>6 DEF IndexInv
<1>9. Records(img, m) = {d}
  BY <1>4, <1>6, <1>7, <1>8
<1> HIDE DEF d
<1>10. d \in Records(img, m)
  BY <1>9
<1>11. \A r \in Replicas : r # cur => cache'[r] = cache[r] /\ media'[r] = media[r]
  BY <1>2, <1>3, <1>10, FreeRecordRecords
<1>12. Records(cache'[cur], m) = Records(img, m) \ {d}
  BY <1>2, <1>3, <1>10, FreeRecordRecords
<1>13. \A n : n # m => Records(cache'[cur], n) = Records(img, n)
  BY <1>2, <1>3, <1>10, FreeRecordRecords
<1>14. Tidy(cache'[cur])
  BY <1>2, <1>3, <1>4, <1>5, <1>10, FreeRecordRecords DEF TidyInv
<1>15. /\ pc' = "deleteFlush" /\ index' = index /\ status' = status /\ cur' = cur
       /\ op' = op /\ dirty' = dirty
       /\ legal' = [legal EXCEPT ![op.key] = @ \cup {Absent}]
  BY Zenon DEF DeleteErase
<1>16. MediaInv' /\ LegalInv'
  <2>1. \A k \in Keys : legal[k] \subseteq legal'[k]
    BY <1>15
  <2>2. Absent \in legal'[op.key]
    BY <1>2, <1>6, <1>15 DEF TypeOK
  <2>3. \A k \in Keys : Absent \in legal'[k] \/ KeyStr[k] # m
    BY <1>6, <2>2 DEF KeysDistinct
  <2> QED BY <1>2, <1>3, <1>5, <1>10, <2>1, <2>3, FreeRecordLegal
<1>17. ControlInv'
  BY <1>2, <1>5, <1>11, <1>15 DEF ControlInv, FlushPc, Settled
<1>18. TidyInv'
  BY <1>2, <1>5, <1>11, <1>14, <1>15 DEF TidyInv
<1>19. IndexInv'
  <2>1. ASSUME NEW r \in Replicas, NEW n \in IndexKey
        PROVE  Records(cache'[r], n) = ExpectedRecords(r, n)'
    <3>1. CASE r = cur /\ n = m
      BY <1>9, <1>12, <1>15, <3>1 DEF ExpectedRecords
    <3>2. CASE r # cur \/ n # m
      <4>1. ExpectedRecords(r, n)' = {index[r][n].block} \ {NullBlock}
        BY <1>15, <3>2 DEF ExpectedRecords
      <4>2. Records(cache'[r], n) = Records(cache[r], n)
        BY <1>11, <1>13, <3>2
      <4> QED BY <1>7, <4>1, <4>2
    <3> QED BY <3>1, <3>2
  <2>2. ASSUME NEW r \in Replicas, NEW n \in IndexKey,
               index'[r][n].block \in Records(cache'[r], n)
        PROVE  index'[r][n].generation = cache'[r][index'[r][n].block].generation
    <3>1. index[r][n].block \in Records(cache'[r], n) /\ UNCHANGED index
      BY <1>15, <2>2, Zenon
    <3> QED BY <1>2, <1>3, <1>5, <1>10, <3>1, FreeRecordIndex, Zenon
  <2> QED BY <1>2, <1>15, <2>1, <2>2 DEF IndexInv
<1>20. ProgressInv'
  <2>1. \A r \in Replicas : r < cur => cache'[r] = cache[r]
    BY <1>4, <1>11 DEF Replicas
  <2> QED BY <1>2, <1>3, <1>15, <2>1, Zenon DEF ProgressInv, PutPc, DeletePc
<1> QED BY <1>1, <1>16, <1>17, <1>18, <1>19, <1>20 DEF Inv

(* delete flushes the erasure and drops the entry.                         *)
LEMMA DeleteFlushInv == Inv /\ DeleteFlush => Inv'
<1> SUFFICES ASSUME Inv, DeleteFlush PROVE Inv'
  OBVIOUS
<1> DEFINE m == KeyStr[op.key]
<1>1. TypeOK'
  BY DeleteType DEF Inv
<1>2. /\ TypeOK /\ MediaInv /\ ControlInv /\ IndexInv
      /\ pc = "deleteFlush" /\ op \in DeleteOp /\ cur \in Replicas /\ status = "ready"
      /\ m \in IndexKey /\ Flush(cur) /\ DeleteNext
  <2>1. pc = "deleteFlush" /\ Flush(cur) /\ DeleteNext
    BY DEF DeleteFlush
  <2>2. op \in DeleteOp /\ cur \in Replicas
    BY <2>1 DEF Inv, TypeOK, PutPc, DeletePc, OtherPc
  <2>3. status = "ready"
    BY <2>1 DEF Inv, ControlInv, DeletePc
  <2>4. m \in IndexKey
    BY <2>2 DEF DeleteOp, IndexKey
  <2> QED BY <2>1, <2>2, <2>3, <2>4 DEF Inv
<1>3. Records(cache[cur], m) = {}
  BY <1>2, IndexedRecords, Zenon
<1>4. \A r \in Replicas, n \in IndexKey : r # cur \/ n # m =>
        Records(cache[r], n) = {index[r][n].block} \ {NullBlock}
  BY <1>2, IndexedRecords, Zenon
<1>5. /\ index'[cur][m] = NoEntry
      /\ \A r \in Replicas, n \in IndexKey : r # cur \/ n # m => index'[r][n] = index[r][n]
  BY <1>2, Zenon DEF DeleteFlush, TypeOK
<1>6. ASSUME NEW r \in Replicas, NEW n \in IndexKey
      PROVE  /\ index'[r][n].block = NullBlock => index'[r][n] = NoEntry
             /\ Records(cache[r], n) = {index'[r][n].block} \ {NullBlock}
             /\ index'[r][n].block \in Records(cache[r], n) =>
                  index'[r][n].generation = cache[r][index'[r][n].block].generation
  <2>1. CASE r = cur /\ n = m
    <3>1. NoEntry.block = NullBlock
      BY DEF NoEntry
    <3>2. index'[r][n] = NoEntry /\ Records(cache[r], n) = {}
      BY <1>3, <1>5, <2>1, Zenon
    <3> HIDE DEF m
    <3> QED BY <3>1, <3>2
  <2>2. CASE r # cur \/ n # m
    <3>1. index'[r][n] = index[r][n]
      BY <1>5, <2>2, Zenon
    <3>2. /\ Records(cache[r], n) = {index[r][n].block} \ {NullBlock}
          /\ index[r][n].block = NullBlock => index[r][n] = NoEntry
          /\ index[r][n].block \in Records(cache[r], n) =>
               index[r][n].generation = cache[r][index[r][n].block].generation
      BY <1>2, <1>4, <2>2, IndexedEntries, Zenon
    <3> QED BY <3>1, <3>2
  <2> QED BY <2>1, <2>2, Zenon
<1>7. /\ cache' = cache
      /\ \A r \in Replicas : Settled(r)'
      /\ \A r \in Replicas, b \in Block : media'[r][b] \subseteq media[r][b]
  BY <1>2, FlushEffect DEF ControlInv, Settled, MediaInv
<1>8. MediaInv'
  BY <1>2, FlushMedia
<1> QED BY <1>1, <1>2, <1>3, <1>6, <1>7, <1>8, DeleteNextInv, Zenon

-----------------------------------------------------------------------------
(* Whatever combination of contents a medium comes back with, a record the *)
(* reader accepts on it has a legal value, which is not "absent".           *)
LEMMA RecordLegal ==
  ASSUME KeysDistinct, Inv, NEW r \in Replicas, NEW img \in Image,
         \A b \in Block : img[b] \in media[r][b],
         NEW k \in Keys, NEW d \in Records(img, KeyStr[k])
  PROVE  RecordValue(img, d) \in legal[k] \ {Absent}
<1>1. d \in Block /\ Complete(img, d) /\ KeyStr[img[d].key] = KeyStr[k]
  BY BlockZero DEF Records
<1>2. img[d].type = "descriptor" /\ img[d].key \in Keys
  BY <1>1, RecordBlocksFacts DEF RecordDescriptor
<1>3. img[d].key = k
  BY <1>1, <1>2 DEF KeysDistinct
<1>4. img[d].payload \in legal[k]
  BY <1>1, <1>2, <1>3 DEF Inv, LegalInv
<1>5. \A b \in RecordBlocks(img, d) : img[b].payload = img[d].payload
  BY <1>1, RecordPayload
<1>6. img[d].payload # Absent
  BY <1>1, RecordBlocksFacts, ResultsAssumption DEF RecordDescriptor
<1> QED BY <1>4, <1>5, <1>6 DEF RecordValue

(* The invariant implies that recovery after a power loss yields a legal   *)
(* value of every key.                                                     *)
LEMMA InvPowerLossSafe == ASSUME KeysDistinct, Inv PROVE PowerLossSafe
<1> SUFFICES ASSUME NEW disks \in AfterPowerLoss, NEW r \in Replicas, NEW k \in Keys
             PROVE  Recovered(disks[r], k) \subseteq legal[k]
  BY DEF PowerLossSafe
<1> DEFINE img == disks[r]
<1>1. img \in Image /\ \A b \in Block : img[b] \in media[r][b]
  BY PowerLossEffect DEF Inv
<1> HIDE DEF img
<1>2. CASE Records(img, KeyStr[k]) # {}
  BY <1>1, <1>2, RecordLegal DEF Newest, Recovered, img
<1>3. CASE Records(img, KeyStr[k]) = {}
  <2>1. ASSUME Absent \notin legal[k] PROVE FALSE
    <3>1. PICK d \in Records(cache[r], KeyStr[k]) : Durable(r, d)
      BY <2>1 DEF Inv, LegalInv
    <3>2. d \in DataBlock /\ d \in Block /\ Complete(cache[r], d) /\ cache[r] \in Image
      BY BlockZero DEF Records, Inv, TypeOK
    <3>3. \A b \in RecordBlocks(cache[r], d) : img[b] = cache[r][b]
      BY <1>1, <3>1 DEF Durable, RecordBlocks
    <3>4. Complete(img, d) /\ img[d] = cache[r][d]
      BY <1>1, <3>2, <3>3, RecordFrame, RecordBlocksFacts
    <3> QED BY <1>3, <3>4, Zenon DEF Records
  <2> QED BY <1>3, <2>1 DEF Recovered, img
<1> QED BY <1>2, <1>3

(* The invariant implies that the index is what a scan of the replica      *)
(* finds.                                                                  *)
LEMMA InvIndexIsScan == ASSUME Inv PROVE IndexIsScan
<1> SUFFICES ASSUME Ready, NEW r \in Replicas
             PROVE  index[r] = ScanIndex(cache[r])
  BY DEF IndexIsScan
<1>1. cache[r] \in Image /\ Unique(cache[r]) /\ index[r] \in [IndexKey -> Entry]
  BY ReadyUnique DEF Inv, TypeOK, Ready
<1>2. ScanIndex(cache[r]) \in [IndexKey -> Entry]
  BY <1>1, ScanIndexType
<1>3. ASSUME NEW n \in IndexKey PROVE index[r][n] = ScanIndex(cache[r])[n]
  <2> DEFINE e == ScanIndex(cache[r])[n]
  <2>1. /\ Records(cache[r], n) = {e.block} \ {NullBlock}
        /\ e.block = NullBlock => e = NoEntry
        /\ e.block \in Records(cache[r], n) => e.generation = cache[r][e.block].generation
    BY <1>1, ScanOfUnique, Zenon
  <2>2. /\ Records(cache[r], n) = {index[r][n].block} \ {NullBlock}
        /\ index[r][n].block = NullBlock => index[r][n] = NoEntry
        /\ index[r][n].block \in Records(cache[r], n) =>
             index[r][n].generation = cache[r][index[r][n].block].generation
    BY DEF Inv, IndexInv, ExpectedRecords, Ready
  <2>3. e \in Entry /\ index[r][n] \in Entry
    BY <1>1, <1>2
  <2> HIDE DEF e
  <2>4. e.block = index[r][n].block
    BY <2>1, <2>2, Zenon
  <2>5. CASE e.block = NullBlock
    BY <2>1, <2>2, <2>5, Zenon DEF e
  <2>6. CASE e.block # NullBlock
    <3>1. e.block \in Records(cache[r], n)
      BY <2>1, <2>6
    <3>2. e.generation = index[r][n].generation
      BY <2>1, <2>2, <2>4, <3>1, Zenon
    <3>3. e = index[r][n]
      BY <2>3, <2>4, <3>2 DEF Entry
    <3> QED BY <3>3, Zenon DEF e
  <2> QED BY <2>5, <2>6, Zenon
<1> QED BY <1>1, <1>2, <1>3

(* The invariant implies that every block of an idle store is free or part *)
(* of an indexed record.                                                   *)
LEMMA InvNoLeakedBlocks == ASSUME Inv PROVE NoLeakedBlocks
<1> SUFFICES ASSUME Ready, ~dirty, NEW r \in Replicas, NEW b \in DataBlock, cache[r][b] # Free
             PROVE  \E n \in IndexKey : \E d \in Newest(cache[r], n) :
                      b \in RecordBlocks(cache[r], d)
  BY DEF NoLeakedBlocks
<1>1. cache[r] \in Image /\ Unique(cache[r]) /\ Tidy(cache[r])
  BY ReadyUnique DEF Inv, TypeOK, Ready, TidyInv
<1>2. PICK d \in DataBlock : Complete(cache[r], d) /\ b \in RecordBlocks(cache[r], d)
  BY <1>1 DEF Tidy
<1>3. cache[r][d].key \in Keys
  BY <1>1, <1>2, BlockZero, RecordBlocksFacts DEF RecordDescriptor
<1>4. /\ KeyStr[cache[r][d].key] \in IndexKey
      /\ d \in Records(cache[r], KeyStr[cache[r][d].key])
  BY <1>2, <1>3, Zenon DEF IndexKey, Records
<1> QED BY <1>1, <1>2, <1>4, UniqueNewest, Zenon

(* On a ready store get returns what some replica that can be read has for *)
(* the key, if any of them indexes it, and nothing otherwise.              *)
LEMMA ReadyGet ==
  ASSUME KeysDistinct, Inv, Ready, NEW k \in Keys, NEW R \in SUBSET Replicas
  PROVE  /\ (\E r \in R : index[r][KeyStr[k]] # NoEntry) =>
              GetFrom(R, k) \in legal[k] \ {Absent}
         /\ (\A r \in R : index[r][KeyStr[k]] = NoEntry) =>
              GetFrom(R, k) = Absent /\ \A r \in R : Records(cache[r], KeyStr[k]) = {}
<1> DEFINE n == KeyStr[k]
           S == {r \in R : Readable(r, n)}
           best == {r \in R : Readable(r, n) /\ \A s \in R :
                      Readable(s, n) =>
                        \/ index[s][n].generation < index[r][n].generation
                        \/ index[s][n].generation = index[r][n].generation /\ r <= s}
<1>1. n \in IndexKey
  BY DEF IndexKey
<1>2. ASSUME NEW r \in Replicas
      PROVE  /\ Records(cache[r], n) = {index[r][n].block} \ {NullBlock}
             /\ index[r][n].block = NullBlock => index[r][n] = NoEntry
             /\ index[r][n].generation \in Generation
  <2>1. index[r][n] \in Entry
    BY <1>1 DEF Inv, TypeOK
  <2>2. /\ Records(cache[r], n) = {index[r][n].block} \ {NullBlock}
        /\ index[r][n].block = NullBlock => index[r][n] = NoEntry
    BY <1>1, IndexedRecords, IndexedEntries, Zenon DEF Inv, Ready
  <2> QED BY <2>1, <2>2 DEF Entry
<1>3. ASSUME NEW r \in best PROVE RecordValue(cache[r], index[r][n].block) \in legal[k] \ {Absent}
  <2>1. r \in Replicas /\ index[r][n].block \in Records(cache[r], n)
    BY <1>2, <1>3, Zenon DEF Readable, NoEntry
  <2>2. cache[r] \in Image /\ \A b \in Block : cache[r][b] \in media[r][b]
    BY <2>1, Zenon DEF Inv, TypeOK, MediaInv
  <2> QED BY <2>1, <2>2, RecordLegal, Zenon
<1>4. ASSUME NEW r \in R, index[r][n] # NoEntry PROVE best # {}
  <2>1. Readable(r, n)
    BY <1>2, <1>4 DEF Readable, Records
  <2> DEFINE g == [s \in S |-> index[s][n].generation]
  <2>2. S # {} /\ S \subseteq Nat /\ g \in [S -> Generation]
    <3>1. r \in S /\ S \subseteq Replicas
      BY <2>1, Zenon
    <3>2. \A s \in S : index[s][n].generation \in Generation
      BY <1>2, <3>1, Zenon
    <3>3. Replicas \subseteq Nat
      BY DEF Replicas
    <3> HIDE DEF S
    <3> QED BY <3>1, <3>2, <3>3, Zenon
  <2>3. PICK s \in S : \A t \in S : g[t] < g[s] \/ (g[t] = g[s] /\ s <= t)
    <3> HIDE DEF S, g
    <3> QED BY <2>2, HighestFirst, Zenon
  <2>4. \A t \in S : g[t] = index[t][n].generation
    OBVIOUS
  <2>5. s \in best
    <3> HIDE DEF g
    <3> QED BY <2>3, <2>4
  <2> QED BY <2>5, Zenon
<1>5. GetFrom(R, k) = IF best = {} THEN Absent
                      ELSE LET r == CHOOSE r \in best : TRUE
                           IN  RecordValue(cache[r], index[r][n].block)
  BY DEF GetFrom
<1>6. ASSUME \A r \in R : index[r][n] = NoEntry
      PROVE  best = {} /\ \A r \in R : Records(cache[r], n) = {}
  <2>1. best = {}
    BY <1>6, Zenon DEF Readable
  <2>2. NoEntry.block = NullBlock
    BY DEF NoEntry
  <2>3. ASSUME NEW r \in R PROVE Records(cache[r], n) = {}
    BY <1>2, <1>6, <2>2
  <2> QED BY <2>1, <2>3, Zenon
<1> HIDE DEF best
<1> QED BY <1>3, <1>4, <1>5, <1>6

(* The invariant implies that get returns a legal value, as long as it can *)
(* read one replica.                                                       *)
LEMMA InvAnyReplica == ASSUME KeysDistinct, Inv PROVE AnyReplicaSuffices
<1> SUFFICES ASSUME Ready, NEW R \in SUBSET Replicas, R # {}, NEW k \in Keys
             PROVE  GetFrom(R, k) \in legal[k]
  BY Zenon DEF AnyReplicaSuffices
<1>1. CASE \E r \in R : index[r][KeyStr[k]] # NoEntry
  BY <1>1, ReadyGet, Zenon
<1>2. CASE \A r \in R : index[r][KeyStr[k]] = NoEntry
  <2>1. PICK r \in R : Records(cache[r], KeyStr[k]) = {} /\ GetFrom(R, k) = Absent
    BY <1>2, ReadyGet, Zenon
  <2>2. r \in Replicas
    OBVIOUS
  <2> QED BY <2>1, <2>2 DEF Inv, LegalInv
<1> QED BY <1>1, <1>2

(* In particular get returns a legal value when it can read them all.      *)
LEMMA InvReadsLegal == ASSUME KeysDistinct, Inv PROVE ReadsLegal
<1>1. Replicas # {}
  BY ReplicaCountAssumption DEF Replicas
<1> QED BY <1>1, InvAnyReplica, Zenon DEF ReadsLegal, AnyReplicaSuffices, Get

(* The invariant implies that get says not found when none of the replicas *)
(* it can read indexes the key, and only then.                             *)
LEMMA InvNotFound == ASSUME KeysDistinct, Inv PROVE NotFoundExactly
<1> SUFFICES ASSUME Ready, NEW R \in SUBSET Replicas, NEW k \in Keys
             PROVE  GetFrom(R, k) = Absent <=> \A r \in R : index[r][KeyStr[k]] = NoEntry
  BY Zenon DEF NotFoundExactly
<1> QED BY ReadyGet, Zenon

(* The invariant implies that the listed keys are those get finds.         *)
LEMMA InvKeysAreReadable == ASSUME KeysDistinct, Inv PROVE KeysAreReadable
<1> SUFFICES ASSUME Ready
             PROVE  ListedKeys = {KeyStr[k] : k \in {k \in Keys : Get(k) # Absent}}
  BY DEF KeysAreReadable
<1>1. \A k \in Keys : KeyStr[k] \in ListedKeys <=> Get(k) # Absent
  <2>1. \A k \in Keys : Get(k) = Absent <=> \A r \in Replicas : index[r][KeyStr[k]] = NoEntry
    BY InvNotFound, Zenon DEF NotFoundExactly, Get
  <2> QED BY <2>1 DEF IndexKey, ListedKeys
<1>2. ListedKeys \subseteq {KeyStr[k] : k \in Keys}
  BY DEF ListedKeys, IndexKey
<1> HIDE DEF ListedKeys
<1> QED BY <1>1, <1>2

(* The invariants imply that a put whose record is flushed survives.       *)
LEMMA InvFlushedPutSurvives ==
  ASSUME Inv, IndexedInv, NewestInv
  PROVE  FlushedPutSurvives
<1> SUFFICES ASSUME pc \in {"erase", "eraseFlush"}, op.generation # 0,
                    NEW disks \in AfterPowerLoss
             PROVE  Recovered(disks[cur], op.key) = {op.value}
  BY DEF FlushedPutSurvives
<1> DEFINE img == disks[cur]
           m == KeyStr[op.key]
           d == op.block
<1>1. /\ TypeOK /\ cur \in Replicas /\ cache[cur] \in Image
      /\ img \in Image /\ \A b \in Block : img[b] \in media[cur][b]
  BY PowerLossEffect, Zenon DEF Inv, TypeOK
<1>2. op \in PutOp /\ m \in IndexKey /\ op.generation \in Nat
  <2>1. op \in PutOp
    BY <1>1 DEF TypeOK, DeletePc, OtherPc
  <2> QED BY <2>1 DEF PutOp, IndexKey, Generation
<1>3. /\ d \in Records(cache[cur], m) /\ index[cur][m].block = d
      /\ cache[cur][d].payload = op.value /\ cache[cur][d].generation = op.generation
  BY Zenon DEF Inv, ProgressInv
<1>4. d \in DataBlock /\ d \in Block /\ Complete(cache[cur], d) /\ KeyStr[cache[cur][d].key] = m
  BY <1>3, BlockZero, Zenon DEF Records
<1>5. \A b \in RecordBlocks(cache[cur], d) : img[b] = cache[cur][b]
  <2>1. NoEntry.block # d
    BY <1>4 DEF NoEntry, NullBlock, Block
  <2>2. Durable(cur, d)
    BY <1>1, <1>2, <1>3, <1>4, <2>1, Zenon DEF Readable, IndexedInv
  <2> QED BY <1>1, <2>2 DEF Durable, RecordBlocks
<1>6. Complete(img, d) /\ img[d] = cache[cur][d]
  <2>1. d \in RecordBlocks(cache[cur], d) /\ cache[cur] \in Image /\ img \in Image
    BY <1>1, <1>4, RecordBlocksFacts, Zenon
  <2> QED BY <1>4, <1>5, <2>1, RecordFrame, Zenon
<1> HIDE DEF img
<1>7. d \in Records(img, m)
  BY <1>4, <1>6 DEF Records
<1>8. \A e \in Records(img, m) : e # d => img[e].generation < op.generation
  BY <1>1, BlockZero DEF NewestInv, Records, Complete
<1>9. Newest(img, m) = {d}
  <2>1. d \in Nat /\ op.generation \in Nat /\ img[d].generation = op.generation
    <3>1. d \in Nat
      BY <1>4 DEF DataBlock
    <3> QED BY <1>2, <1>3, <1>6, <3>1, Zenon
  <2>2. d \in Newest(img, m)
    BY <1>7, <1>8, <2>1 DEF Newest
  <2>3. ASSUME NEW e \in Newest(img, m), e # d PROVE FALSE
    <3>1. /\ e \in Records(img, m) /\ e \in Block
          /\ \/ img[d].generation < img[e].generation
             \/ img[d].generation = img[e].generation
      BY <1>7, BlockZero, Zenon DEF Newest, Records
    <3>2. img[e].generation < op.generation
      BY <1>8, <2>3, <3>1
    <3>3. img[e].generation \in Nat
      BY <1>1, <3>1, RecordBlocksFacts DEF Records, RecordDescriptor, Generation
    <3> QED BY <2>1, <3>1, <3>2, <3>3
  <2> QED BY <2>2, <2>3
<1>10. RecordValue(img, d) = op.value
  <2>1. img[d].payload = op.value
    BY <1>3, <1>6, Zenon
  <2> QED BY <1>1, <1>4, <1>6, <2>1, RecordPayload DEF RecordValue
<1> QED BY <1>7, <1>9, <1>10 DEF Recovered, img

=============================================================================
