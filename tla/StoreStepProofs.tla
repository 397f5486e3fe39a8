-------------------------- MODULE StoreStepProofs ---------------------------
(***************************************************************************)
(* Blank devices satisfy the invariant; the first steps of put, format,    *)
(* open, close, build_index, recover and power loss keep it.  Every step   *)
(* keeps the generation of a put above those of the records it supersedes. *)
(***************************************************************************)
EXTENDS StoreDeviceProofs

(* put starts: it picks a generation and goes to the first replica.        *)
LEMMA PutBeginInv == ASSUME NEW k \in Keys, NEW v \in Values, Inv, PutBegin(k, v) PROVE Inv'
<1>1. TypeOK'
  BY PutType DEF Inv
<1>2. /\ pc = "idle" /\ pc' = "write" /\ status = "ready" /\ cur = 1
      /\ UNCHANGED <<cache, media, index, status, cur, dirty, legal>>
  BY Zenon DEF Inv, ControlInv, PutBegin, Ready
<1>3. MediaInv' /\ LegalInv'
  BY <1>2, SameDevices DEF Inv
<1>4. ControlInv'
  BY <1>2, Zenon DEF Inv, ControlInv, FlushPc, Settled
<1>5. TidyInv'
  BY <1>2 DEF Inv, TidyInv
<1>6. IndexInv'
  BY <1>2, SameIndex DEF Inv
<1>7. ProgressInv'
  BY <1>2 DEF Replicas, ProgressInv
<1> QED BY <1>1, <1>3, <1>4, <1>5, <1>6, <1>7 DEF Inv

(* A put that finds no room for its record fails and changes nothing.      *)
LEMMA PutFullInv == Inv /\ PutFull => Inv'
<1> SUFFICES ASSUME Inv, PutFull PROVE Inv'
  OBVIOUS
<1>1. TypeOK'
  BY PutType DEF Inv
<1>2. /\ pc = "write" /\ pc' = "idle" /\ cur' = 1
      /\ UNCHANGED <<cache, media, index, status, dirty, legal>>
  BY DEF PutFull, Fail, Finish
<1>3. MediaInv' /\ LegalInv'
  BY <1>2, SameDevices DEF Inv
<1>4. ControlInv'
  BY <1>2, Zenon DEF Inv, ControlInv, PutPc, FlushPc, Settled
<1>5. TidyInv'
  BY <1>2 DEF Inv, TidyInv
<1>6. IndexInv'
  BY <1>2, SameIndex DEF Inv
<1>7. ProgressInv'
  BY <1>2 DEF ProgressInv, PutPc, DeletePc
<1> QED BY <1>1, <1>3, <1>4, <1>5, <1>6, <1>7 DEF Inv

(* The write of the new record: what may be on the medium of the replica.  *)
LEMMA PutWriteMedia ==
  ASSUME TypeOK, MediaInv, LegalInv, Settled(cur), Tidy(cache[cur]),
         NEW k \in Keys, NEW v \in Values, NEW g \in Generation,
         NEW f \in Allocations(cache[cur], NeededBlocks[v]),
         WriteBlocks(cur, WriteRecord(cache[cur], f, k, g, v)),
         legal' = [legal EXCEPT ![k] = @ \cup {v}]
  PROVE  MediaInv' /\ LegalInv'
<1> DEFINE img == cache[cur]
           new == WriteRecord(img, f, k, g, v)
           S == {f[i] : i \in 1 .. NeededBlocks[v]}
<1>1. cur \in Replicas /\ img \in Image /\ new \in Image
  BY WriteRecordType, Zenon DEF TypeOK, Allocations
<1>2. /\ f[1] \in DataBlock /\ f[1] \in S /\ S \subseteq DataBlock
      /\ \A b \in S : img[b] = Free
      /\ \A b \in Block \ S : new[b] = img[b]
      /\ new[f[1]].type = "descriptor" /\ new[f[1]].key = k /\ new[f[1]].payload = v
      /\ \A b \in S \ {f[1]} : new[b].type = "chunk" /\ new[b].payload = v
      /\ Complete(new, f[1]) /\ RecordBlocks(new, f[1]) = S
  <2>1. f[1] \in S
    BY NeededBlocksAssumption
  <2>2. /\ f[1] \in DataBlock /\ S \subseteq DataBlock
        /\ \A b \in S : img[b] = Free
        /\ \A b \in Block \ S : new[b] = img[b]
    BY <1>1, WrittenRecord
  <2>3. /\ new[f[1]].type = "descriptor" /\ new[f[1]].key = k /\ new[f[1]].payload = v
        /\ Complete(new, f[1])
    BY <1>1, WrittenRecord
  <2>4. RecordBlocks(new, f[1]) = S
    <3>1. ASSUME NEW b
          PROVE  b \in RecordBlocks(new, f[1]) <=> \E i \in 1 .. NeededBlocks[v] : b = f[i]
      <4>1. new = WriteRecord(img, f, k, g, v) /\ new \in Image /\ img \in Image
        BY <1>1
      <4>2. f \in Allocations(img, NeededBlocks[v])
        OBVIOUS
      <4> HIDE DEF new, img
      <4> QED BY <4>1, <4>2, WrittenBlocks
    <3> HIDE DEF new
    <3> QED BY <3>1
  <2>5. ASSUME NEW b \in S \ {f[1]}
        PROVE  new[b].type = "chunk" /\ new[b].payload = v
    BY <1>1, WrittenRecord
  <2> HIDE DEF S, new
  <2> QED BY <2>1, <2>2, <2>3, <2>4, <2>5, Zenon
<1>3. /\ \A d \in DataBlock : Complete(new, d) <=> Complete(img, d) \/ d = f[1]
      /\ \A d \in DataBlock : Complete(img, d) =>
           /\ RecordBlocks(new, d) = RecordBlocks(img, d)
           /\ \A b \in RecordBlocks(img, d) : new[b] = img[b]
      /\ Tidy(new)
  BY <1>1, WrittenImage
<1>4. WriteBlocks(cur, new)
  OBVIOUS
<1> HIDE DEF new, S
<1>5. /\ cache'[cur] = new
      /\ \A b \in Block : new[b] = img[b] => media'[cur][b] = media[cur][b]
      /\ \A b \in Block : new[b] # img[b] =>
           \A c : c \in media'[cur][b] <=> c \in media[cur][b] \/ c = new[b] \/ c \in Torn
      /\ \A r \in Replicas : r # cur => cache'[r] = cache[r] /\ media'[r] = media[r]
  BY <1>1, <1>4, WriteEffect, Zenon
<1>6. \A b \in Block : media[cur][b] = {img[b]}
  BY DEF Settled
<1>7. ASSUME NEW b \in Block, NEW c \in media'[cur][b], c.type \in {"descriptor", "chunk"}
      PROVE  c = new[b]
  <2>1. c # Free /\ c \notin Torn
    BY <1>7 DEF Torn, Free, Garbage
  <2>2. CASE new[b] = img[b]
    BY <1>5, <1>6, <2>2, Zenon
  <2>3. CASE new[b] # img[b]
    <3>1. img[b] = Free
      BY <1>2, <2>3, Zenon
    <3> QED BY <1>5, <1>6, <2>1, <2>3, <3>1, Zenon
  <2> QED BY <2>2, <2>3, Zenon
<1>8. 0 \in Block /\ new[0] = img[0] /\ media'[cur][0] = media[cur][0]
  <2>1. 0 \in Block \ S
    BY <1>2, BlockZero DEF DataBlock
  <2> QED BY <1>2, <1>5, <2>1, Zenon
<1>9. img[0].type \notin {"descriptor", "chunk"}
  BY <1>1, BlockZero DEF MediaInv, Free, Garbage, Header
<1>10. ASSUME NEW d \in Block, NEW b \in Block, NEW c \in media'[cur][d], NEW e \in media'[cur][b],
             c.type = "descriptor", e.type = "chunk", e.owner = d
       PROVE  e.payload = c.payload
  <2>1. c = new[d] /\ e = new[b] /\ b # 0 /\ d # 0
    BY <1>7, <1>8, <1>9, <1>10, Zenon
  <2>2. b \in DataBlock /\ d \in DataBlock
    BY <2>1, BlockZero, Zenon
  <2>3. Complete(new, d) /\ b \in RecordBlocks(new, d)
    BY <1>1, <1>3, <1>10, <2>1, <2>2, TidyBlocks, Zenon
  <2>4. CASE d = f[1]
    BY <1>2, <2>1, <2>3, <2>4, Zenon
  <2>5. CASE d # f[1]
    <3>1. Complete(img, d) /\ b \in RecordBlocks(img, d) /\ d \in RecordBlocks(img, d)
      BY <1>1, <1>3, <2>2, <2>3, <2>5, RecordBlocksFacts
    <3>2. c \in media[cur][d] /\ e \in media[cur][b]
      BY <1>3, <1>6, <2>1, <2>2, <3>1, Zenon
    <3> QED BY <1>1, <1>10, <3>2 DEF MediaInv
  <2> QED BY <2>4, <2>5
<1>11. MediaInv'
  BY <1>5, <1>8, <1>10 DEF MediaInv
<1>12. \A l \in Keys : legal[l] \subseteq legal'[l] /\ (Absent \in legal'[l] => Absent \in legal[l])
  BY ResultsAssumption
<1>13. ASSUME NEW r \in Replicas, NEW d \in Block, NEW c \in media'[r][d], c.type = "descriptor"
       PROVE  c.payload \in legal'[c.key]
  <2>1. CASE c \in media[r][d]
    BY <1>13, <2>1 DEF LegalInv
  <2>2. CASE c \notin media[r][d]
    <3>1. r = cur
      BY <1>5, <2>2, Zenon
    <3>2. c = new[d]
      BY <1>7, <1>13, <3>1
    <3>3. d = f[1]
      BY <1>2, <1>6, <1>13, <2>2, <3>1, <3>2, Zenon
    <3> QED BY <1>2, <3>2, <3>3 DEF TypeOK
  <2> QED BY <2>1, <2>2, Zenon
<1>14. ASSUME NEW r \in Replicas, NEW l \in Keys, Absent \notin legal'[l]
       PROVE  \E d \in Records(cache'[r], KeyStr[l]) :
                \A b \in RecordBlocks(cache'[r], d) : media'[r][b] = {cache'[r][b]}
  <2>1. Absent \notin legal[l]
    BY <1>14
  <2>2. PICK d \in Records(cache[r], KeyStr[l]) : Durable(r, d)
    BY <2>1, Zenon DEF LegalInv
  <2>3. CASE r = cur
    <3>1. d \in DataBlock /\ d \in Block /\ Complete(img, d) /\ KeyStr[img[d].key] = KeyStr[l]
      BY <2>3, BlockZero, Zenon DEF Records
    <3>2. d \in RecordBlocks(img, d) /\ RecordBlocks(img, d) \subseteq Block
      BY <1>1, <3>1, RecordBlocksFacts, Zenon
    <3>3. Complete(new, d) /\ new[d] = img[d] /\ RecordBlocks(new, d) = RecordBlocks(img, d)
      BY <1>3, <3>1, <3>2, Zenon
    <3>4. ASSUME NEW b \in RecordBlocks(new, d)
          PROVE  media'[cur][b] = {new[b]}
      <4>1. b \in Block /\ new[b] = img[b]
        BY <1>3, <3>1, <3>2, <3>3, Zenon
      <4> QED BY <1>5, <1>6, <4>1, Zenon
    <3>5. d \in Records(new, KeyStr[l])
      BY <3>1, <3>3, Zenon DEF Records
    <3> QED BY <1>5, <2>3, <3>4, <3>5, Zenon
  <2>4. CASE r # cur
    BY <1>5, <2>2, <2>4, Zenon DEF Durable
  <2> QED BY <2>3, <2>4, Zenon
<1>15. LegalInv'
  BY <1>13, <1>14, Zenon DEF LegalInv, Durable
<1> QED BY <1>11, <1>15

(* put writes the new record into blocks that were free, beside the one it *)
(* replaces.                                                               *)
LEMMA PutWriteInv == Inv /\ PutWrite => Inv'
<1> SUFFICES ASSUME Inv, PutWrite PROVE Inv'
  OBVIOUS
<1> DEFINE k == op.key
           v == op.value
           img == cache[cur]
<1>1. TypeOK'
  BY PutType DEF Inv
<1>2. /\ TypeOK /\ MediaInv /\ LegalInv /\ ControlInv /\ TidyInv /\ IndexInv /\ ProgressInv
      /\ pc = "write" /\ op \in PutOp /\ cur \in Replicas /\ img \in Image
      /\ status = "ready" /\ ~dirty
  BY Zenon DEF Inv, TypeOK, ControlInv, PutWrite, DeletePc, OtherPc
<1>3. k \in Keys /\ v \in Values /\ op.generation \in Generation /\ KeyStr[k] \in IndexKey
  BY <1>2 DEF PutOp, IndexKey
<1>4. PICK f \in Allocations(img, NeededBlocks[v]) :
        /\ WriteBlocks(cur, WriteRecord(img, f, k, op.generation, v))
        /\ op' = [op EXCEPT !.block = f[1], !.old = index[cur][KeyStr[k]].block]
  BY Zenon DEF PutWrite
<1> DEFINE new == WriteRecord(img, f, k, op.generation, v)
<1>5. new \in Image
  BY <1>2, <1>3, WriteRecordType, Zenon DEF Allocations
<1>6. /\ f[1] \in DataBlock /\ f[1] # NullBlock /\ img[f[1]] = Free
      /\ new[f[1]].payload = v /\ new[f[1]].generation = op.generation
  <2>1. f[1] \in {f[i] : i \in 1 .. NeededBlocks[v]}
    BY <1>3, NeededBlocksAssumption
  <2>2. /\ f[1] \in DataBlock
        /\ \A b \in {f[i] : i \in 1 .. NeededBlocks[v]} : img[b] = Free
        /\ new[f[1]].payload = v /\ new[f[1]].generation = op.generation
    BY <1>2, <1>3, <1>5, WrittenRecord
  <2> HIDE DEF new, v
  <2> QED BY <2>1, <2>2, BlockZero, Zenon
<1>7. \A n : Records(new, n) = Records(img, n) \cup (IF n = KeyStr[k] THEN {f[1]} ELSE {})
  BY <1>2, <1>3, <1>5, WrittenRecords
<1>8. \A d \in DataBlock : Complete(img, d) => new[d] = img[d]
  <2>1. ASSUME NEW d \in DataBlock, Complete(img, d)
        PROVE  new[d] = img[d]
    <3>1. \A b \in RecordBlocks(img, d) : new[b] = img[b]
      BY <1>2, <1>3, <1>5, <2>1, WrittenImage
    <3>2. d \in RecordBlocks(img, d)
      BY <1>2, <2>1, RecordBlocksFacts, BlockZero, Zenon
    <3> QED BY <3>1, <3>2, Zenon
  <2> QED BY <2>1, Zenon
<1>9. Settled(cur) /\ Tidy(img)
  BY <1>2 DEF ControlInv, FlushPc, TidyInv
<1>10. Tidy(new)
  BY <1>2, <1>3, <1>5, <1>9, WrittenImage
<1>11. MediaInv' /\ LegalInv'
  BY <1>2, <1>3, <1>9, PutWriteMedia, Zenon DEF PutWrite
<1>12. WriteBlocks(cur, new)
  BY <1>4
<1> HIDE DEF new
<1>13. /\ cache'[cur] = new
       /\ \A r \in Replicas : r # cur => cache'[r] = cache[r] /\ media'[r] = media[r]
  BY <1>2, <1>5, <1>12, WriteEffect, Zenon
<1>14. /\ pc' = "commit" /\ index' = index /\ status' = status /\ cur' = cur /\ dirty' = dirty
       /\ op'.key = k /\ op'.value = v /\ op'.generation = op.generation
       /\ op'.block = f[1] /\ op'.old = index[cur][KeyStr[k]].block
  BY <1>2, <1>4, Zenon DEF PutWrite, PutOp
<1>15. ControlInv'
  BY <1>2, <1>13, <1>14 DEF ControlInv, FlushPc, Settled
<1>16. TidyInv'
  BY <1>2, <1>10, <1>13, <1>14, Zenon DEF TidyInv
<1>17. \A n \in IndexKey : Records(img, n) = {index[cur][n].block} \ {NullBlock}
  BY <1>2, IndexedRecords, Zenon
<1>18. \A n \in IndexKey : f[1] \notin Records(img, n) /\ index[cur][n].block # f[1]
  <2>1. ~Complete(img, f[1])
    BY <1>6 DEF Complete, Free
  <2>2. \A n : f[1] \notin Records(img, n)
    BY <2>1, Zenon DEF Records
  <2> QED BY <1>6, <1>17, <2>2, Zenon
<1>19. IndexInv'
  <2>1. ASSUME NEW r \in Replicas, NEW n \in IndexKey
        PROVE  Records(cache'[r], n) = ExpectedRecords(r, n)'
    <3>1. CASE r # cur
      <4>1. ExpectedRecords(r, n)' = {index[r][n].block} \ {NullBlock}
        BY <1>14, <3>1, Zenon DEF ExpectedRecords
      <4>2. Records(cache[r], n) = {index[r][n].block} \ {NullBlock}
        BY <1>2, <3>1, IndexedRecords, Zenon
      <4> QED BY <1>13, <3>1, <4>1, <4>2, Zenon
    <3>2. CASE r = cur /\ n = KeyStr[k]
      <4>1. ExpectedRecords(r, n)' = {f[1], index[cur][n].block} \ {NullBlock}
        BY <1>14, <3>2, Zenon DEF ExpectedRecords
      <4>2. Records(cache'[r], n) = ({index[cur][n].block} \ {NullBlock}) \cup {f[1]}
        BY <1>7, <1>13, <1>17, <3>2, Zenon
      <4> QED BY <1>6, <4>1, <4>2
    <3>3. CASE r = cur /\ n # KeyStr[k]
      <4>1. ExpectedRecords(r, n)' = {index[cur][n].block} \ {NullBlock}
        BY <1>14, <3>3, Zenon DEF ExpectedRecords
      <4>2. Records(new, n) = Records(img, n)
        BY <1>7, <3>3, Zenon
      <4> QED BY <1>13, <1>17, <3>3, <4>1, <4>2, Zenon
    <3> QED BY <3>1, <3>2, <3>3
  <2>2. ASSUME NEW r \in Replicas, NEW n \in IndexKey,
               index[r][n].block \in Records(cache'[r], n)
        PROVE  index[r][n].generation = cache'[r][index[r][n].block].generation
    <3>1. CASE r # cur
      <4>1. cache'[r] = cache[r]
        BY <1>13, <3>1, Zenon
      <4>2. index[r][n].block \in Records(cache[r], n)
        BY <2>2, <4>1, Zenon
      <4> QED BY <1>2, <4>1, <4>2, IndexedEntries, Zenon
    <3>2. CASE r = cur
      <4>1. index[cur][n].block \in Records(img, n)
        BY <1>7, <1>13, <1>18, <2>2, <3>2
      <4>2. new[index[cur][n].block] = img[index[cur][n].block]
        BY <1>8, <4>1, Zenon DEF Records
      <4> QED BY <1>2, <1>13, <3>2, <4>1, <4>2 DEF IndexInv
    <3> QED BY <3>1, <3>2, Zenon
  <2> QED BY <1>2, <1>14, <2>1, <2>2 DEF IndexInv
<1>20. ProgressInv'
  <2>1. \A r \in Replicas : r < cur => cache'[r] = cache[r]
    BY <1>2, <1>13 DEF Replicas
  <2>2. ASSUME NEW r \in Replicas, r < cur
        PROVE  /\ Records(cache'[r], KeyStr[k]) # {}
               /\ \A d \in Records(cache'[r], KeyStr[k]) : cache'[r][d].payload = v
    BY <1>2, <2>1, <2>2, Zenon DEF ProgressInv, PutPc
  <2>3. Records(new, KeyStr[k]) = Records(img, KeyStr[k]) \cup {f[1]}
    BY <1>7, Zenon
  <2>4. /\ f[1] \in Records(cache'[cur], KeyStr[k])
        /\ cache'[cur][f[1]].payload = v
        /\ cache'[cur][f[1]].generation = op.generation
    BY <1>6, <1>13, <2>3, Zenon
  <2>5. op'.old # op'.block
    BY <1>3, <1>14, <1>18, Zenon
  <2> QED BY <1>14, <2>2, <2>4, <2>5, Zenon DEF ProgressInv, PutPc, DeletePc
<1> QED BY <1>1, <1>11, <1>15, <1>16, <1>19, <1>20 DEF Inv

-----------------------------------------------------------------------------

(* Blank devices, no store open.                                           *)
LEMMA InitInv == Init => Inv
<1> SUFFICES ASSUME Init PROVE Inv
  OBVIOUS
<1>1. TypeOK
  BY InitTypes
<1>2. MediaInv
  BY BlockZero DEF Init, MediaInv
<1>3. LegalInv
  BY DEF Init, LegalInv, Free
<1>4. ControlInv
  BY BlockZero DEF Init, ControlInv, PutPc, DeletePc, Settled
<1>5. TidyInv
  BY DEF Init, TidyInv
<1>6. IndexInv
  BY DEF Init, IndexInv, EmptyIndex
<1>7. ProgressInv
  BY DEF Init, ProgressInv, PutPc, DeletePc
<1> QED BY <1>1, <1>2, <1>3, <1>4, <1>5, <1>6, <1>7 DEF Inv

(* format, open, close and build_index.                                    *)
LEMMA FormatBeginInv == Inv /\ FormatBegin => Inv'
<1> SUFFICES ASSUME Inv, FormatBegin PROVE Inv'
  OBVIOUS
<1> USE DEF FormatBegin
<1>1. TypeOK'
  BY LifecycleType DEF Inv
<1>2. MediaInv' /\ LegalInv'
  BY SameDevices DEF Inv
<1>3. ControlInv'
  BY Zenon DEF Inv, ControlInv, PutPc, DeletePc, FlushPc, Settled
<1>4. TidyInv'
  BY DEF TidyInv
<1>5. IndexInv'
  BY Zenon DEF Inv, IndexInv
<1>6. ProgressInv'
  BY DEF ProgressInv, PutPc, DeletePc
<1> QED BY <1>1, <1>2, <1>3, <1>4, <1>5, <1>6 DEF Inv

(* format writes a header block.                                           *)
LEMMA FormatWriteInv == Inv /\ FormatWrite => Inv'
<1> SUFFICES ASSUME Inv, FormatWrite PROVE Inv'
  OBVIOUS
<1> DEFINE new == [cache[cur] EXCEPT ![0] = Header]
<1>1. TypeOK'
  BY LifecycleType DEF Inv
<1>2. /\ TypeOK /\ MediaInv /\ LegalInv /\ ControlInv
      /\ status = "raw" /\ pc = "format"
  BY Zenon DEF Inv, ControlInv, FormatWrite
<1>3. /\ cur \in Replicas /\ new \in Image /\ WriteBlocks(cur, new)
      /\ \A b \in Block : new[b] = IF b = 0 THEN Header ELSE cache[cur][b]
  BY <1>2, BlockZero, PlainContents DEF TypeOK, Image, FormatWrite
<1> HIDE DEF new
<1>4. /\ MediaInv'
      /\ \A r \in Replicas, b \in Block : \A c \in media'[r][b] :
           c.type \in {"descriptor", "chunk"} => c \in media[r][b]
  BY <1>2, <1>3, BlockZero, PlainWriteMedia DEF Header
<1>5. LegalInv'
  BY <1>2, <1>4, Zenon DEF LegalInv, ControlInv, FormatWrite
<1>6. ControlInv'
  BY <1>2, <1>3, WriteEffect, BlockZero DEF ControlInv, Settled, DataBlock, FormatWrite, PutPc,
     DeletePc, FlushPc
<1>7. TidyInv'
  BY <1>2 DEF TidyInv, FormatWrite
<1>8. IndexInv'
  BY <1>2, Zenon DEF Inv, IndexInv, FormatWrite
<1>9. ProgressInv'
  BY Zenon DEF ProgressInv, FormatWrite, PutPc, DeletePc
<1> QED BY <1>1, <1>4, <1>5, <1>6, <1>7, <1>8, <1>9 DEF Inv

(* format flushes a replica it has written the header of.                  *)
LEMMA FormatFlushInv == Inv /\ FormatFlush => Inv'
<1> SUFFICES ASSUME Inv, FormatFlush PROVE Inv'
  OBVIOUS
<1>1. TypeOK'
  BY LifecycleType DEF Inv
<1>2. /\ TypeOK /\ MediaInv /\ LegalInv /\ ControlInv
      /\ status = "raw" /\ pc = "formatFlush" /\ Flush(cur)
  BY DEF Inv, ControlInv, FormatFlush
<1>3. /\ cache' = cache /\ legal' = legal
      /\ \A r \in Replicas : Settled(r)'
  BY <1>2, FlushEffect DEF ControlInv, Settled, FormatFlush, NextReplica
<1>4. MediaInv' /\ LegalInv'
  BY <1>2, <1>3, FlushMedia, FlushLegal
<1>5. \A r \in Replicas, b \in DataBlock : cache[r][b] = Free
  BY <1>2, BlockZero DEF ControlInv, MediaInv
<1>6. ControlInv'
  BY <1>2, <1>3, <1>5, BlockZero DEF Settled, ControlInv, FormatFlush, NextReplica, Finish, PutPc,
     DeletePc
<1>7. TidyInv'
  <2>1. ASSUME NEW r \in Replicas PROVE Tidy(cache[r]) /\ Unique(cache[r])
    BY <1>5 DEF Complete, Free, Tidy, Unique, Records
  <2> QED BY <1>3, <2>1 DEF TidyInv
<1>8. IndexInv'
  BY <1>2, Zenon DEF Inv, IndexInv, FormatFlush, NextReplica
<1>9. ProgressInv'
  BY Zenon DEF ProgressInv, FormatFlush, NextReplica, Finish, PutPc, DeletePc
<1> QED BY <1>1, <1>4, <1>6, <1>7, <1>8, <1>9 DEF Inv

(* open reads the headers.                                                 *)
LEMMA OpenInv == Inv /\ Open => Inv'
<1> SUFFICES ASSUME Inv, Open PROVE Inv'
  OBVIOUS
<1> USE DEF Open
<1>1. TypeOK'
  BY LifecycleType DEF Inv
<1>2. MediaInv' /\ LegalInv'
  BY SameDevices DEF Inv
<1>3. ControlInv'
  BY Zenon DEF Inv, ControlInv, Settled
<1>4. TidyInv'
  BY DEF Inv, TidyInv
<1>5. IndexInv'
  BY DEF IndexInv, EmptyIndex
<1>6. ProgressInv'
  BY Zenon DEF Inv, ProgressInv
<1> QED BY <1>1, <1>2, <1>3, <1>4, <1>5, <1>6 DEF Inv

(* close drops the index.                                                  *)
LEMMA CloseInv == Inv /\ Close => Inv'
<1> SUFFICES ASSUME Inv, Close PROVE Inv'
  OBVIOUS
<1>1. TypeOK'
  BY LifecycleType DEF Inv
<1>2. MediaInv' /\ LegalInv'
  BY SameDevices DEF Inv, Close
<1>3. ControlInv'
  BY DEF Inv, Close, ControlInv, PutPc, DeletePc, Settled
<1>4. TidyInv'
  BY ReadyUnique DEF Inv, Close, TidyInv
<1>5. IndexInv'
  BY DEF Close, IndexInv, EmptyIndex
<1>6. ProgressInv'
  BY DEF Close, ProgressInv, PutPc, DeletePc
<1> QED BY <1>1, <1>2, <1>3, <1>4, <1>5, <1>6 DEF Inv

(* build_index scans a store that needs no recovery; a client that         *)
(* recovers after every power loss calls it on no other.                   *)
LEMMA BuildIndexInv ==
  ASSUME RecoveryRequired, Inv, BuildIndex
  PROVE  Inv'
<1>1. TypeOK'
  BY LifecycleType DEF Inv
<1>2. MediaInv' /\ LegalInv'
  BY SameDevices DEF Inv, BuildIndex
<1>3. ControlInv'
  BY Zenon DEF Inv, BuildIndex, ControlInv, Settled
<1>4. TidyInv'
  BY DEF Inv, BuildIndex, TidyInv
<1>5. IndexInv'
  <2>1. ASSUME NEW r \in Replicas
        PROVE  Unique(cache[r]) /\ cache[r] \in Image /\ index'[r] = ScanIndex(cache[r])
    BY ReadyUnique, Zenon DEF Inv, BuildIndex, TidyInv, TypeOK
  <2>2. ASSUME NEW r \in Replicas, NEW n \in IndexKey
        PROVE  /\ index'[r][n].block = NullBlock => index'[r][n] = NoEntry
               /\ Records(cache[r], n) = {index'[r][n].block} \ {NullBlock}
               /\ index'[r][n].block \in Records(cache[r], n) =>
                    index'[r][n].generation = cache[r][index'[r][n].block].generation
    BY <2>1, ScanOfUnique
  <2>3. cache' = cache /\ pc' \notin {"commit", "erase", "deleteFlush"}
    BY Zenon DEF BuildIndex
  <2> QED BY <2>2, <2>3, NextIndex, Zenon
<1>6. ProgressInv'
  BY Zenon DEF BuildIndex, ProgressInv, PutPc, DeletePc
<1> QED BY <1>1, <1>2, <1>3, <1>4, <1>5, <1>6 DEF Inv

(* recover.                                                                *)
LEMMA RecoverBeginInv == Inv /\ RecoverBegin => Inv'
<1> SUFFICES ASSUME Inv, RecoverBegin PROVE Inv'
  OBVIOUS
<1>1. TypeOK'
  BY RecoverType DEF Inv
<1>2. MediaInv' /\ LegalInv'
  BY SameDevices DEF Inv, RecoverBegin
<1>3. ControlInv'
  BY Zenon DEF Inv, RecoverBegin, ControlInv, PutPc, DeletePc, FlushPc, Settled
<1>4. TidyInv'
  BY DEF Inv, ControlInv, RecoverBegin, Replicas, TidyInv
<1>5. IndexInv'
  <2>1. \A r \in Replicas, n \in IndexKey : ExpectedRecords(r, n)' = ExpectedRecords(r, n)
    BY Zenon DEF RecoverBegin, ExpectedRecords
  <2> QED BY <2>1, Zenon DEF Inv, RecoverBegin, IndexInv
<1>6. ProgressInv'
  BY DEF RecoverBegin, ProgressInv, PutPc, DeletePc
<1> QED BY <1>1, <1>2, <1>3, <1>4, <1>5, <1>6 DEF Inv

(* What is left to show when recovery is done with a replica.              *)
LEMMA RecoverNextInv ==
  ASSUME Inv, TypeOK', MediaInv', LegalInv', RecoverNext, pc \in {"recover", "recoverFlush"},
         UNCHANGED <<cache, index>>, \A r \in Replicas : Settled(r)',
         Tidy(cache[cur]), Unique(cache[cur])
  PROVE  Inv'
<1>1. /\ status \in {"opened", "ready"} /\ status' = status /\ pc' \in {"recover", "idle"}
      /\ cur \in Replicas /\ TidyInv
      /\ legal' = legal
  BY Zenon DEF Inv, TypeOK, ControlInv, RecoverNext, NextReplica, Finish
<1>2. \/ cur' = cur + 1 /\ pc' = "recover" /\ dirty' = dirty
      \/ cur = ReplicaCount /\ cur' = 1 /\ pc' = "idle" /\ dirty' = FALSE
  BY DEF RecoverNext, NextReplica, Finish
<1>3. ControlInv'
  BY <1>1, <1>2 DEF Inv, ControlInv, PutPc, DeletePc
<1>4. TidyInv'
  BY <1>1, <1>2 DEF Replicas, TidyInv
<1>5. IndexInv'
  BY <1>1, SameIndex DEF Inv
<1>6. ProgressInv'
  BY <1>1, Zenon DEF ProgressInv, PutPc, DeletePc
<1> QED BY <1>3, <1>4, <1>5, <1>6 DEF Inv

(* recover on a replica that needs no repair.                              *)
LEMMA RecoverCleanInv == Inv /\ RecoverClean => Inv'
<1> SUFFICES ASSUME Inv, RecoverClean PROVE Inv'
  OBVIOUS
<1>1. TypeOK'
  BY RecoverType DEF Inv
<1>2. MediaInv' /\ LegalInv'
  BY SameDevices DEF Inv, RecoverClean, RecoverNext, NextReplica
<1>3. \A r \in Replicas : Settled(r)'
  BY DEF Inv, ControlInv, RecoverClean, FlushPc, Settled
<1>4. Tidy(cache[cur]) /\ Unique(cache[cur])
  BY NoGarbageTidy DEF Inv, TypeOK, RecoverClean
<1> QED BY <1>1, <1>2, <1>3, <1>4, RecoverNextInv DEF RecoverClean

(* recover frees what is incomplete or superseded.                         *)
LEMMA RecoverEraseInv == Inv /\ RecoverErase => Inv'
<1> SUFFICES ASSUME Inv, RecoverErase PROVE Inv'
  OBVIOUS
<1> DEFINE img == cache[cur]
           G == GarbageBlocks(img)
           new == Erase(img, G)
<1>1. TypeOK'
  BY RecoverType DEF Inv
<1>2. /\ TypeOK /\ MediaInv /\ LegalInv /\ ControlInv /\ TidyInv /\ IndexInv
      /\ pc = "recover" /\ cur \in Replicas /\ img \in Image /\ new \in Image
      /\ G # {} /\ WriteBlocks(cur, new)
  BY EraseType DEF Inv, TypeOK, RecoverErase
<1>3. Settled(cur)
  BY <1>2 DEF ControlInv, FlushPc
<1>4. dirty
  BY <1>2, ReadyUnique, TidyNoGarbage, Zenon DEF ControlInv, TidyInv
<1>5. MediaInv' /\ LegalInv'
  <2>1. 0 \notin G
    BY DEF GarbageBlocks, DataBlock
  <2>2. ASSUME NEW k \in Keys, Absent \notin legal[k]
        PROVE  \E d \in Records(img, KeyStr[k]) : RecordBlocks(img, d) \cap G = {}
    <3>1. PICK d \in Newest(img, KeyStr[k]) : TRUE
      BY <1>2, <2>2, NewestExists, Zenon DEF LegalInv
    <3>2. d \in Records(img, KeyStr[k]) /\ KeyStr[k] \in IndexKey
      BY <3>1, Zenon DEF Newest, IndexKey
    <3> QED BY <1>2, <3>1, <3>2, RecoveredImage
  <2>3. legal' = legal
    BY DEF RecoverErase
  <2> HIDE DEF G
  <2> QED BY <1>2, <1>3, <2>1, <2>2, <2>3, EraseLegal, Zenon
<1>6. Tidy(new) /\ Unique(new)
  BY <1>2, RecoveredImage
<1> HIDE DEF new
<1>7. /\ cache'[cur] = new
      /\ \A r \in Replicas : r # cur => cache'[r] = cache[r] /\ media'[r] = media[r]
  BY <1>2, WriteEffect, Zenon
<1>8. /\ pc' = "recoverFlush" /\ status' = status /\ dirty' = dirty /\ cur' = cur
      /\ index' = index /\ legal' = legal
      /\ status = "opened" /\ dirty
  BY <1>2, <1>4, Zenon DEF RecoverErase, ControlInv
<1>9. ControlInv'
  BY <1>2, <1>7, <1>8 DEF ControlInv, Settled, PutPc, DeletePc, FlushPc
<1>10. TidyInv'
  BY <1>2, <1>6, <1>7, <1>8 DEF Replicas, TidyInv
<1>11. IndexInv'
  BY <1>8 DEF Inv, IndexInv
<1>12. ProgressInv'
  BY <1>8 DEF ProgressInv, PutPc, DeletePc
<1> QED BY <1>1, <1>5, <1>9, <1>10, <1>11, <1>12 DEF Inv

(* recover flushes a replica it has repaired.                              *)
LEMMA RecoverFlushInv == Inv /\ RecoverFlush => Inv'
<1> SUFFICES ASSUME Inv, RecoverFlush PROVE Inv'
  OBVIOUS
<1>1. TypeOK'
  BY RecoverType DEF Inv
<1>2. /\ TypeOK /\ MediaInv /\ LegalInv /\ ControlInv /\ TidyInv
      /\ pc = "recoverFlush" /\ Flush(cur) /\ legal' = legal /\ cur \in Replicas
  BY DEF Inv, TypeOK, RecoverFlush, RecoverNext, NextReplica
<1>3. cache' = cache /\ \A r \in Replicas : Settled(r)'
  BY <1>2, FlushEffect DEF ControlInv, Settled
<1>4. MediaInv' /\ LegalInv'
  BY <1>2, FlushMedia, FlushLegal
<1>5. Tidy(cache[cur]) /\ Unique(cache[cur])
  BY <1>2 DEF TidyInv, ControlInv, Replicas
<1> QED BY <1>1, <1>3, <1>4, <1>5, RecoverNextInv DEF RecoverFlush

(* Power loss at any step: the replicas hold one of the contents that      *)
(* could be on the media, and the store is closed and dirty.               *)
LEMMA PowerLossInv == Inv /\ PowerLoss => Inv'
<1> SUFFICES ASSUME Inv, PowerLoss PROVE Inv'
  OBVIOUS
<1>1. TypeOK'
  BY PowerLossKeepsTypes DEF Inv
<1>2. MediaInv' /\ LegalInv'
  BY PowerLossMedia DEF Inv
<1>3. /\ \A r \in Replicas, b \in Block :
           media'[r][b] = {cache'[r][b]} /\ cache'[r][b] \in media[r][b]
      /\ pc' = "idle" /\ cur' = 1 /\ dirty' = TRUE /\ legal' = legal
      /\ index' = [r \in Replicas |-> EmptyIndex]
      /\ status' = IF status = "raw" THEN "raw" ELSE "closed"
  BY PowerLossEffect DEF Inv, PowerLoss, Finish
<1>4. ControlInv'
  BY <1>3, BlockZero DEF Inv, ControlInv, Settled, PutPc, DeletePc
<1>5. TidyInv'
  BY <1>3 DEF TidyInv
<1>6. IndexInv'
  BY <1>3 DEF IndexInv, EmptyIndex
<1>7. ProgressInv'
  BY <1>3, Zenon DEF ProgressInv, PutPc, DeletePc
<1> QED BY <1>1, <1>2, <1>4, <1>5, <1>6, <1>7 DEF Inv

(* The generation of a put stays above those of the records it supersedes, *)
(* unless it came round to 0.                                              *)
LEMMA NewestStep ==
  ASSUME Inv, NewestInv, Next, Inv'
  PROVE  NewestInv'
<1> DEFINE m == KeyStr[op.key]
<1>1. TypeOK /\ cur \in Replicas /\ Replicas \subseteq Nat
  BY DEF Inv, TypeOK, Replicas
<1>2. ASSUME pc \in PutPc
      PROVE  op \in PutOp /\ m \in IndexKey /\ op.generation \in Generation /\ status = "ready"
  <2>1. op \in PutOp
    BY <1>1, <1>2 DEF TypeOK, PutPc, DeletePc, OtherPc
  <2> QED BY <1>2, <2>1, Zenon DEF PutOp, IndexKey, Inv, ControlInv
<1>3. ASSUME NEW k \in Keys, NEW v \in Values, PutBegin(k, v)
      PROVE  NewestInv'
  <2>1. PICK r \in Replicas :
          /\ \A s \in Replicas : index[s][KeyStr[k]].generation <= index[r][KeyStr[k]].generation
          /\ index[r][KeyStr[k]].generation < MaxGen
          /\ op' = [type |-> "put", key |-> k, value |-> v,
                    generation |-> (index[r][KeyStr[k]].generation + 1) % GenLimit,
                    block |-> NullBlock, old |-> NullBlock]
    BY <1>3, Zenon DEF PutBegin
  <2> DEFINE g(s) == index[s][KeyStr[k]].generation
  <2>2. \A s \in Replicas : g(s) \in Nat /\ g(s) < GenLimit
    <3>1. \A s \in Replicas : index[s][KeyStr[k]] \in Entry
      BY <1>1, Zenon DEF TypeOK, IndexKey
    <3> QED BY <3>1, GenLimitAssumption DEF Entry, Generation
  <2>3. ASSUME NEW x \in Nat, x < GenLimit, (x + 1) % GenLimit # 0
        PROVE  (x + 1) % GenLimit = x + 1
    BY <2>3, GenLimitAssumption
  <2>4. op'.generation = (g(r) + 1) % GenLimit /\ op'.key = k
    BY <2>1, Zenon
  <2>5. g(r) \in Nat /\ g(r) < GenLimit /\ \A s \in Replicas : g(s) <= g(r)
    BY <2>1, <2>2, Zenon
  <2>6. pc' = "write" /\ index' = index
    BY <1>3, Zenon DEF PutBegin
  <2>7. op'.generation # 0 => \A s \in Replicas : g(s) < op'.generation
    <3> HIDE DEF g
    <3> QED BY <2>2, <2>3, <2>4, <2>5
  <2> QED BY <2>4, <2>6, <2>7, Zenon DEF NewestInv
<1>10. ASSUME PutWrite \/ PutCommit \/ PutErase \/ PutEraseFlush, op.generation = 0
       PROVE  NewestInv'
  <2>1. pc \in PutPc /\ op \in PutOp
    BY <1>2, <1>10, Zenon DEF PutWrite, PutCommit, PutErase, PutEraseFlush, PutPc
  <2>2. pc' \notin PutPc \/ op'.generation = 0
    BY <1>10, <2>1, Zenon DEF PutWrite, PutCommit, PutErase, PutEraseFlush, PutNext, NextReplica,
       Finish, PutOp, PutPc
  <2>3. pc' = "commit" => op'.old = index'[cur'][KeyStr[op'.key]].block
    BY <1>10, <2>1, Zenon DEF PutWrite, PutCommit, PutErase, PutEraseFlush, PutNext, NextReplica,
       Finish, PutOp
  <2> QED BY <2>2, <2>3, Zenon DEF NewestInv, PutPc
<1>4. CASE PutWrite /\ op.generation # 0
  <2>1. pc = "write" /\ pc' = "commit" /\ cur' = cur /\ index' = index /\ op.generation # 0
    BY <1>4, Zenon DEF PutWrite
  <2>2. /\ op'.key = op.key /\ op'.generation = op.generation
        /\ op'.old = index[cur][KeyStr[op.key]].block
    BY <1>2, <1>4, <2>1, Zenon DEF PutWrite, PutPc, PutOp
  <2> QED BY <2>1, <2>2, Zenon DEF NewestInv
<1>5. ASSUME NextReplica("write"), pc \in PutPc,
             \A r \in Replicas : r > cur =>
               index'[r][m].generation < op.generation
      PROVE  NewestInv'
  <2>1. cur' = cur + 1 /\ pc' = "write" /\ op' = op
    BY <1>5, Zenon DEF NextReplica
  <2>2. \A r \in Replicas : r >= cur + 1 => r > cur
    BY <1>1
  <2> QED BY <1>5, <2>1, <2>2, Zenon DEF NewestInv
<1>6. CASE PutCommit /\ op.generation # 0
  <2>1. /\ pc = "commit" /\ Flush(cur) /\ pc \in PutPc /\ op.generation # 0
        /\ index' = [index EXCEPT ![cur][m] =
                       [generation |-> op.generation, block |-> op.block]]
    BY <1>6 DEF PutCommit, PutPc
  <2>2. ASSUME NEW r \in Replicas, r > cur
        PROVE  index'[r][m].generation < op.generation
    <3>1. r # cur /\ r >= cur
      BY <1>1, <2>2
    <3>2. index'[r] = index[r]
      BY <1>1, <2>1, <3>1, Zenon DEF TypeOK
    <3> QED BY <2>1, <3>1, <3>2, Zenon DEF NewestInv
  <2>3. CASE op.old = NullBlock /\ PutNext
    BY <1>5, <2>1, <2>2, <2>3, Zenon DEF PutNext, Finish, NewestInv
  <2>4. CASE op.old # NullBlock /\ pc' = "erase" /\ UNCHANGED <<cur, op>>
    <3>1. ASSUME NEW d \in Block, NEW c \in media'[cur][d], c.type = "descriptor",
                 KeyStr[c.key] = m, d # op.block
          PROVE  c.generation < op.generation
      <4>1. PICK r \in Replicas : r = cur
        BY <1>1
      <4>2. Settled(r)' /\ Tidy(cache'[r])
        BY <2>4, Zenon DEF Inv, ControlInv, TidyInv, FlushPc, PutPc
      <4>3. c = cache'[cur][d] /\ d \in Records(cache'[cur], m)
        BY <3>1, <4>1, <4>2, SettledDescriptor DEF Inv
      <4>4. cache' = cache
        BY <2>1, Zenon DEF Flush
      <4>5. Records(cache[cur], m) = {op.block, op.old} \ {NullBlock}
        BY <1>1, <1>2, <2>1, IndexedRecords, Zenon DEF Inv
      <4>6. d = op.old /\ d = index[cur][m].block
        BY <2>1, <3>1, <4>3, <4>4, <4>5 DEF NewestInv
      <4>7. index[cur][m].generation = cache[cur][d].generation
        BY <1>1, <1>2, <2>1, <4>3, <4>4, <4>6, IndexedEntries, Zenon DEF Inv
      <4>8. index[cur][m].generation < op.generation
        <5>1. \A q \in Replicas : q >= cur => index[q][m].generation < op.generation
          BY <2>1, Zenon DEF NewestInv
        <5>2. \A q \in Nat : q >= q
          OBVIOUS
        <5> QED BY <1>1, <5>1, <5>2, Zenon
      <4> QED BY <4>3, <4>4, <4>7, <4>8, Zenon
    <3> QED BY <2>2, <2>4, <3>1, Zenon DEF NewestInv
  <2> QED BY <1>6, <2>3, <2>4 DEF PutCommit
<1>7. CASE PutErase /\ op.generation # 0
  <2>1. /\ pc = "erase" /\ pc' = "eraseFlush" /\ FreeRecord(op.old) /\ op.generation # 0
        /\ index' = index /\ cur' = cur /\ op' = op
    BY <1>7 DEF PutErase
  <2>2. PICK S : WriteBlocks(cur, Erase(cache[cur], S))
    BY <2>1, Zenon DEF FreeRecord, NextWords
  <2> DEFINE new == Erase(cache[cur], S)
  <2>3. new \in Image
    BY <1>1, EraseType DEF TypeOK
  <2>4. ASSUME NEW d \in Block, NEW c \in media'[cur][d], c.type = "descriptor"
        PROVE  c \in media[cur][d]
    <3>1. new[d] = cache[cur][d] \/ new[d] = Free
      BY DEF Erase
    <3> HIDE DEF new
    <3>2. c \in media[cur][d] \/ c = Free \/ c \in Torn
      BY <1>1, <2>2, <2>3, <3>1, WriteEffect DEF new
    <3> QED BY <2>4, <3>2 DEF Torn, Free, Garbage
  <2> QED BY <2>1, <2>4, Zenon DEF NewestInv
<1>8. CASE PutEraseFlush /\ op.generation # 0
  BY <1>5, <1>8, Zenon DEF PutEraseFlush, PutPc, NewestInv, PutNext, Finish
<1>9. CASE ~(\/ \E k \in Keys, v \in Values : PutBegin(k, v)
            \/ PutWrite \/ PutCommit \/ PutErase \/ PutEraseFlush)
  <2>1. pc' \notin {"write", "commit", "erase", "eraseFlush"}
    BY <1>9, Zenon DEF Next, Step, FormatBegin, FormatWrite, FormatFlush, Open, Close, BuildIndex,
       RecoverBegin, RecoverClean, RecoverErase, RecoverFlush, RecoverNext, PutFull, Fail,
       DeleteBegin, DeleteSkip, DeleteErase, DeleteFlush, DeleteNext, NextReplica, Finish, PowerLoss
  <2> QED BY <2>1, Zenon DEF NewestInv
<1> QED BY <1>3, <1>4, <1>6, <1>7, <1>8, <1>9, <1>10

(* No put is the one whose generation comes round, while none gets so far. *)
LEMMA NotWrappedStep ==
  ASSUME MaxGen < GenLimit, Inv, NotWrapped, Next
  PROVE  NotWrapped'
<1>1. ASSUME NEW k \in Keys, NEW v \in Values, PutBegin(k, v)
      PROVE  op'.generation # 0
  <2>1. PICK r \in Replicas :
          /\ index[r][KeyStr[k]].generation < MaxGen
          /\ op' = [type |-> "put", key |-> k, value |-> v,
                    generation |-> (index[r][KeyStr[k]].generation + 1) % GenLimit,
                    block |-> NullBlock, old |-> NullBlock]
    BY <1>1, Zenon DEF PutBegin
  <2>2. index[r][KeyStr[k]].generation \in Nat
    <3>1. index[r][KeyStr[k]] \in Entry
      BY Zenon DEF Inv, TypeOK, IndexKey
    <3> QED BY <3>1 DEF Entry, Generation
  <2>3. ASSUME NEW x \in Nat, x < MaxGen
        PROVE  (x + 1) % GenLimit # 0
    BY <2>3, GenLimitAssumption, MaxGenAssumption
  <2> QED BY <2>1, <2>2, <2>3, Zenon
<1>2. CASE PutWrite \/ PutCommit \/ PutErase \/ PutEraseFlush
  <2>1. pc \in PutPc
    BY <1>2, Zenon DEF PutWrite, PutCommit, PutErase, PutEraseFlush, PutPc
  <2>2. op \in PutOp /\ op.generation # 0
    BY <2>1 DEF Inv, TypeOK, PutPc, DeletePc, OtherPc, NotWrapped
  <2>3. pc' \notin PutPc \/ op'.generation = op.generation
    BY <1>2, <2>2, Zenon DEF PutWrite, PutCommit, PutErase, PutEraseFlush, PutNext, NextReplica,
       Finish, PutOp, PutPc
  <2> QED BY <2>2, <2>3, Zenon DEF NotWrapped
<1>3. CASE ~(\/ \E k \in Keys, v \in Values : PutBegin(k, v)
            \/ PutWrite \/ PutCommit \/ PutErase \/ PutEraseFlush)
  BY <1>3, Zenon DEF Next, Step, FormatBegin, FormatWrite, FormatFlush, Open, Close, BuildIndex,
     RecoverBegin, RecoverClean, RecoverErase, RecoverFlush, RecoverNext, PutFull, Fail, NotWrapped,
     DeleteBegin, DeleteSkip, DeleteErase, DeleteFlush, DeleteNext, NextReplica, Finish, PowerLoss,
     PutPc
<1> QED BY <1>1, <1>2, <1>3, Zenon DEF NotWrapped

=============================================================================
