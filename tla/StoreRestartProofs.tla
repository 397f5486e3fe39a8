------------------------ MODULE StoreRestartProofs --------------------------
(***************************************************************************)
(* What is there when the store starts again: after a fault that ends the  *)
(* process, the invariant on the devices; on a store with one replica, at  *)
(* every step, the contents that StoreRefinesKV computes from the devices. *)
(***************************************************************************)
EXTENDS StoreFaults, StoreRefinesKV, StoreDeviceProofs

(* A medium that holds what is read, record parts that agree and records   *)
(* of all the keys that have to be there, is what a restart needs.         *)
LEMMA EndedInv ==
  ASSUME Inv, "power" \notin FaultKinds, NEW img \in Image, EndsWith(img), ProcessEnds,
         img[0] \in {Free, Garbage, Header}, PartsAgree(img),
         \A d \in Block : img[d].type = "descriptor" => img[d].payload \in legal'[img[d].key],
         \A k \in Keys : Absent \notin legal'[k] => Records(img, KeyStr[k]) # {},
         status = "raw" => \A b \in DataBlock : img[b] = Free,
         legal' \in [Keys -> SUBSET Results], \A k \in Keys : legal[k] \subseteq legal'[k]
  PROVE  Inv'
<1>1. /\ TypeOK /\ MediaInv /\ LegalInv /\ ControlInv
      /\ cur \in Replicas /\ cache \in [Replicas -> Image]
  BY Zenon DEF Inv, TypeOK
<1>2. /\ cache' = [cache EXCEPT ![cur] = img]
      /\ media' = [r \in Replicas |-> [b \in Block |-> {cache'[r][b]}]]
  BY Zenon DEF EndsWith
<1>3. /\ cache'[cur] = img /\ \A r \in Replicas : r # cur => cache'[r] = cache[r]
      /\ \A r \in Replicas, b \in Block : media'[r][b] = {cache'[r][b]}
      /\ cache' \in [Replicas -> Image]
  BY <1>1, <1>2, Zenon
<1>4. /\ pc' = "idle" /\ cur' = 1 /\ op' = NoOp /\ dirty' = TRUE
      /\ index' = [r \in Replicas |-> EmptyIndex]
      /\ status' = IF status = "raw" THEN "raw" ELSE "closed"
  BY DEF ProcessEnds, Finish
<1>5. TypeOK'
  <2>1. media' \in [Replicas -> [Block -> SUBSET Content]]
    BY <1>2, <1>3 DEF Image
  <2>2. 1 \in Replicas
    BY ReplicaCountAssumption DEF Replicas
  <2>3. index' \in [Replicas -> [IndexKey -> Entry]]
    BY <1>4, EmptyIndexType, Zenon
  <2>4. status' \in {"raw", "closed", "opened", "ready"}
    BY <1>4, Zenon
  <2> QED BY <1>3, <1>4, <2>1, <2>2, <2>3, <2>4, Zenon DEF TypeOK, OtherPc
<1>6. ASSUME NEW r \in Replicas
      PROVE  /\ cache'[r][0] \in {Free, Garbage, Header}
             /\ PartsAgree(cache'[r])
  <2>1. CASE r = cur
    BY <1>3, <2>1, Zenon
  <2>2. CASE r # cur
    <3>1. cache'[r] = cache[r]
      BY <1>3, <2>2, Zenon
    <3>2. cache[r][0] \in {Free, Garbage, Header} /\ PartsAgree(cache[r])
      BY <1>1, BlockZero DEF MediaInv, PartsAgree
    <3> QED BY <3>1, <3>2, Zenon
  <2> QED BY <2>1, <2>2, Zenon
<1>7. MediaInv'
  BY <1>3, <1>6, BlockZero DEF MediaInv, PartsAgree
<1>8. ASSUME NEW r \in Replicas, NEW d \in Block, cache'[r][d].type = "descriptor"
      PROVE  cache'[r][d].payload \in legal'[cache'[r][d].key]
  <2>1. CASE r = cur
    BY <1>3, <1>8, <2>1
  <2>2. CASE r # cur
    <3>1. cache[r][d] \in media[r][d] /\ cache[r][d] \in Content
      BY <1>1 DEF MediaInv, Image
    <3>2. cache[r][d].key \in Keys
      BY <1>3, <1>8, <2>2, <3>1, ContentCases DEF RecordDescriptor
    <3>3. cache[r][d].payload \in legal[cache[r][d].key]
      BY <1>1, <1>3, <1>8, <2>2, <3>1 DEF LegalInv
    <3> QED BY <1>3, <2>2, <3>2, <3>3
  <2> QED BY <2>1, <2>2, Zenon
<1>9. ASSUME NEW r \in Replicas, NEW k \in Keys, Absent \notin legal'[k]
      PROVE  \E d \in Records(cache'[r], KeyStr[k]) :
               \A b \in RecordBlocks(cache'[r], d) : media'[r][b] = {cache'[r][b]}
  <2>1. Records(cache'[r], KeyStr[k]) # {}
    BY <1>1, <1>3, <1>9, Zenon DEF LegalInv
  <2> QED BY <1>3, <2>1, Zenon DEF RecordBlocks
<1>10. LegalInv'
  <2>1. ASSUME NEW r \in Replicas, NEW d \in Block, NEW c \in media'[r][d],
               c.type = "descriptor"
        PROVE  c.payload \in legal'[c.key]
    <3>1. c = cache'[r][d]
      BY <1>3
    <3> QED BY <1>8, <2>1, <3>1
  <2> QED BY <1>9, <2>1, Zenon DEF LegalInv, Durable
<1>11. ControlInv'
  <2>1. \A r \in Replicas : Settled(r)'
    BY <1>3, Zenon DEF Settled
  <2>2. ASSUME status' = "raw", NEW r \in Replicas, NEW b \in DataBlock
        PROVE  media'[r][b] = {Free}
    <3>1. CASE r = cur
      <4>1. img[b] = Free
        BY <1>4, <2>2, Zenon
      <4> QED BY <1>3, <3>1, <4>1, BlockZero, Zenon
    <3>2. CASE r # cur
      <4>1. cache[r][b] \in media[r][b] /\ media[r][b] = {Free}
        BY <1>1, <1>4, <2>2, BlockZero, Zenon DEF ControlInv, MediaInv
      <4>2. cache'[r][b] = Free
        BY <1>3, <3>2, <4>1
      <4> QED BY <1>3, <4>2, BlockZero, Zenon
    <3> QED BY <3>1, <3>2, Zenon
  <2>3. status' = "raw" => \A k \in Keys : Absent \in legal'[k]
    BY <1>1, <1>4, Zenon DEF ControlInv
  <2> QED BY <1>4, <2>1, <2>2, <2>3, Zenon DEF ControlInv, PutPc, DeletePc
<1>12. TidyInv' /\ ProgressInv'
  BY <1>4, Zenon DEF TidyInv, ProgressInv, PutPc, DeletePc
<1>13. IndexInv'
  BY <1>4, Zenon DEF IndexInv, EmptyIndex
<1> QED BY <1>5, <1>7, <1>10, <1>11, <1>12, <1>13 DEF Inv

(* What is read from the current replica is in order.                      *)
LEMMA CurrentImage ==
  ASSUME Inv
  PROVE  /\ cache[cur] \in Image /\ cache[cur][0] \in {Free, Garbage, Header}
         /\ PartsAgree(cache[cur])
         /\ \A d \in Block : cache[cur][d].type = "descriptor" =>
              /\ cache[cur][d].key \in Keys
              /\ cache[cur][d].payload \in legal[cache[cur][d].key]
         /\ \A k \in Keys : Absent \notin legal[k] => Records(cache[cur], KeyStr[k]) # {}
         /\ status = "raw" => \A b \in DataBlock : cache[cur][b] = Free
         /\ legal \in [Keys -> SUBSET Results]
<1>1. /\ TypeOK /\ MediaInv /\ LegalInv /\ ControlInv
      /\ cur \in Replicas /\ cache[cur] \in Image /\ legal \in [Keys -> SUBSET Results]
  BY DEF Inv, TypeOK
<1>2. \A b \in Block : cache[cur][b] \in media[cur][b] /\ cache[cur][b] \in Content
  BY <1>1 DEF MediaInv, Image
<1>3. cache[cur][0] \in {Free, Garbage, Header}
  BY <1>1, BlockZero DEF MediaInv
<1>4. PartsAgree(cache[cur])
  BY <1>1 DEF MediaInv, PartsAgree
<1>5. \A d \in Block : cache[cur][d].type = "descriptor" =>
        /\ cache[cur][d].key \in Keys
        /\ cache[cur][d].payload \in legal[cache[cur][d].key]
  BY <1>1, <1>2, ContentCases DEF LegalInv, RecordDescriptor
<1>6. \A k \in Keys : Absent \notin legal[k] => Records(cache[cur], KeyStr[k]) # {}
  BY <1>1 DEF LegalInv
<1>7. status = "raw" => \A b \in DataBlock : cache[cur][b] = Free
  BY <1>1, <1>2, BlockZero, Zenon DEF ControlInv
<1> QED BY <1>1, <1>3, <1>4, <1>5, <1>6, <1>7

(* The process ends between two writes, or before a flush.                 *)
LEMMA StoppedInv ==
  ASSUME Inv, "power" \notin FaultKinds, EndsWith(cache[cur]), ProcessEnds, UNCHANGED legal
  PROVE  Inv'
BY CurrentImage, EndedInv, Zenon

(* Where clients reopen after an error, whatever interrupts an operation   *)
(* ends the process.                                                       *)
LEMMA InterruptedEnds ==
  ASSUME ReopenAfterError, NEW img, Interrupted(img)
  PROVE  EndsWith(img) /\ ProcessEnds
BY Zenon DEF Interrupted, ReturnError

(* format stops: there is nothing but the header to lose.                  *)
LEMMA FormatStopsInv ==
  ASSUME Inv, "power" \notin FaultKinds, ReopenAfterError, FormatStops
  PROVE  Inv'
<1> DEFINE old == cache[cur]
<1>1. PICK c \in {old[0]} \cup Torn : Interrupted([old EXCEPT ![0] = c])
  BY Zenon DEF FormatStops, Unwritten
<1> DEFINE img == [old EXCEPT ![0] = c]
<1>2. EndsWith(img) /\ ProcessEnds /\ legal' = legal
  BY <1>1, InterruptedEnds, Zenon DEF FormatStops
<1>3. status = "raw" /\ (\A k \in Keys : Absent \in legal[k])
  BY Zenon DEF Inv, ControlInv, FormatStops
<1>4. old \in Image /\ \A b \in DataBlock : old[b] = Free
  BY <1>3, CurrentImage, Zenon
<1>5. c \in {Free, Garbage, Header}
  BY CurrentImage, Zenon DEF Torn
<1>6. /\ img \in Image /\ img[0] = c
      /\ \A b \in DataBlock : img[b] = Free
  BY <1>4, <1>5, BlockZero, PlainContents DEF Image, DataBlock
<1> HIDE DEF img
<1>7. \A b \in Block : img[b] \in {Free, Garbage, Header}
  BY <1>5, <1>6, BlockZero DEF Block, DataBlock
<1>8. \A b \in Block : img[b].type \notin {"descriptor", "chunk"}
  BY <1>7 DEF Free, Garbage, Header
<1>9. PartsAgree(img)
  BY <1>8, Zenon DEF PartsAgree
<1>10. legal \in [Keys -> SUBSET Results]
  BY CurrentImage, Zenon
<1> QED BY <1>2, <1>3, <1>5, <1>6, <1>8, <1>9, <1>10, EndedInv, Zenon

(* The process ends with some of the blocks in S erased or torn.           *)
LEMMA PartlyErasedInv ==
  ASSUME Inv, "power" \notin FaultKinds, NEW S, 0 \notin S, status # "raw",
         NEW img \in Image, EndsWith(img), ProcessEnds, HasErased(img, cache[cur], S),
         legal' \in [Keys -> SUBSET Results], \A k \in Keys : legal[k] \subseteq legal'[k],
         \A k \in Keys : Absent \notin legal'[k] =>
           \E d \in Records(cache[cur], KeyStr[k]) : RecordBlocks(cache[cur], d) \cap S = {}
  PROVE  Inv'
<1>1. \A b \in Block : img[b].type \in {"descriptor", "chunk"} => img[b] = cache[cur][b]
  BY DEF HasErased, Torn, Free, Garbage
<1>2. img[0] \in {Free, Garbage, Header}
  BY CurrentImage, BlockZero, Zenon DEF HasErased
<1>3. PartsAgree(img)
  <2>1. PartsAgree(cache[cur])
    BY CurrentImage, Zenon
  <2> QED BY <1>1, <2>1 DEF PartsAgree
<1>4. \A d \in Block : img[d].type = "descriptor" => img[d].payload \in legal'[img[d].key]
  BY <1>1, CurrentImage, Zenon
<1>5. ASSUME NEW k \in Keys, Absent \notin legal'[k]
      PROVE  Records(img, KeyStr[k]) # {}
  BY <1>5, BlockZero, CurrentImage, RecordFrame DEF Records, RecordBlocks, HasErased
<1> QED BY <1>2, <1>3, <1>4, <1>5, EndedInv

(* write_record stops: the new record is torn, and the others are whole.   *)
LEMMA RecordStopsInv ==
  ASSUME Inv, "power" \notin FaultKinds, ReopenAfterError, RecordStops
  PROVE  Inv'
<1> DEFINE old == cache[cur]
<1>1. /\ TypeOK /\ TidyInv /\ ControlInv /\ pc = "write" /\ cur \in Replicas
      /\ op \in PutOp /\ op.key \in Keys /\ op.value \in Values /\ op.generation \in Generation
  BY Zenon DEF Inv, RecordStops, TypeOK, DeletePc, OtherPc, PutOp
<1>2. status = "ready" /\ Tidy(old)
  BY <1>1 DEF ControlInv, TidyInv, PutPc
<1>3. PICK f \in Allocations(old, NeededBlocks[op.value]) :
        \E j \in DOMAIN f : \E c \in {old[f[j]]} \cup Torn :
          Interrupted([b \in Block |->
            IF \E i \in DOMAIN f : f[i] = b /\ i > j THEN old[b]
            ELSE IF b = f[j] THEN c
            ELSE WriteRecord(old, f, op.key, op.generation, op.value)[b]])
  BY Zenon DEF RecordStops, Unwritten
<1> DEFINE new == WriteRecord(old, f, op.key, op.generation, op.value)
<1>4. PICK j \in DOMAIN f : \E c \in {old[f[j]]} \cup Torn :
        Interrupted([b \in Block |-> IF \E i \in DOMAIN f : f[i] = b /\ i > j THEN old[b]
                                     ELSE IF b = f[j] THEN c ELSE new[b]])
  BY <1>3, Zenon
<1>14. PICK c \in {old[f[j]]} \cup Torn :
        Interrupted([b \in Block |-> IF \E i \in DOMAIN f : f[i] = b /\ i > j THEN old[b]
                                     ELSE IF b = f[j] THEN c ELSE new[b]])
  BY <1>4, Zenon
<1> DEFINE img == [b \in Block |-> IF \E i \in DOMAIN f : f[i] = b /\ i > j THEN old[b]
                                  ELSE IF b = f[j] THEN c ELSE new[b]]
<1>5. /\ old \in Image /\ new \in Image /\ DOMAIN f = 1 .. NeededBlocks[op.value]
      /\ new = WriteRecord(old, f, op.key, op.generation, op.value)
  BY <1>1, CurrentImage, WriteRecordType DEF Allocations
<1>6. EndsWith(img) /\ HasPartOf(img, old, new, f)
  <2>1. ASSUME NEW b \in Block, ~ \E i \in DOMAIN f : f[i] = b
        PROVE  img[b] = old[b]
    BY <2>1 DEF WriteRecord
  <2> HIDE DEF new
  <2>2. \A b \in Block : img[b] = old[b] \/ img[b] \in {new[b]} \cup Torn
    OBVIOUS
  <2>3. EndsWith(img)
    BY <1>14, InterruptedEnds, Zenon
  <2> HIDE DEF img
  <2> QED BY <2>1, <2>2, <2>3 DEF HasPartOf
<1>7. img \in Image
  <2> HIDE DEF new
  <2> QED BY <1>5, PlainContents, Zenon DEF Image, Torn
<1> HIDE DEF img
<1>8. /\ img[0] = old[0] /\ PartsAgree(img)
      /\ \A d \in Block : img[d].type = "descriptor" =>
           img[d] = old[d] \/ (img[d].key = op.key /\ img[d].payload = op.value)
      /\ \A n : Records(old, n) \subseteq Records(img, n)
  <2>1. Tidy(old) /\ PartsAgree(old) /\ old[0] \in {Free, Garbage, Header}
    BY <1>2, CurrentImage, Zenon
  <2>2. /\ new = WriteRecord(old, f, op.key, op.generation, op.value) /\ new \in Image
        /\ old \in Image /\ f \in Allocations(old, NeededBlocks[op.value])
    BY <1>5, Zenon
  <2>3. op.key \in Keys /\ op.value \in Values /\ op.generation \in Generation
    BY <1>1
  <2> HIDE DEF new, old
  <2> QED BY <1>6, <1>7, <2>1, <2>2, <2>3, PartlyWritten
<1>9. /\ legal' = [legal EXCEPT ![op.key] = @ \cup {op.value}] /\ ProcessEnds
      /\ legal \in [Keys -> SUBSET Results]
  BY <1>1, <1>14, InterruptedEnds, Zenon DEF RecordStops, TypeOK
<1>10. /\ legal' \in [Keys -> SUBSET Results] /\ op.value \in legal'[op.key]
       /\ \A k \in Keys : legal[k] \subseteq legal'[k]
  BY <1>1, <1>9 DEF Results
<1>11. \A d \in Block : img[d].type = "descriptor" => img[d].payload \in legal'[img[d].key]
  BY <1>8, <1>10, CurrentImage
<1>12. \A k \in Keys : Absent \notin legal'[k] => Records(img, KeyStr[k]) # {}
  BY <1>8, <1>10, CurrentImage
<1>13. img[0] \in {Free, Garbage, Header}
  BY <1>8, CurrentImage, Zenon
<1> QED BY <1>2, <1>6, <1>7, <1>8, <1>9, <1>10, <1>11, <1>12, <1>13, EndedInv

(* The record that put replaces, or delete erases, is one of the key.      *)
LEMMA ErasedRecords ==
  ASSUME Inv, NEW d, \/ pc = "erase" /\ d = op.old
                     \/ /\ pc = "delete" /\ index[cur][KeyStr[op.key]] # NoEntry
                        /\ d = index[cur][KeyStr[op.key]].block
  PROVE  /\ op.key \in Keys /\ status = "ready" /\ d \in Records(cache[cur], KeyStr[op.key])
         /\ pc = "erase" => op.block \in Records(cache[cur], KeyStr[op.key]) /\ op.block # d
<1> DEFINE m == KeyStr[op.key]
<1>1. TypeOK /\ ControlInv /\ IndexInv /\ ProgressInv /\ cur \in Replicas
  BY Zenon DEF Inv, TypeOK
<1>2. op.key \in Keys /\ m \in IndexKey
  BY <1>1, Zenon DEF TypeOK, OtherPc, PutOp, DeleteOp, IndexKey
<1>3. status = "ready"
  BY <1>1, Zenon DEF ControlInv, PutPc, DeletePc
<1>4. CASE pc = "erase"
  BY <1>1, <1>2, <1>3, <1>4, IndexedRecords, Zenon DEF ProgressInv
<1>5. CASE pc = "delete"
  <2>1. index[cur][m].block # NullBlock
    BY <1>1, <1>2, <1>3, <1>5, IndexedEntries, Zenon
  <2>2. Records(cache[cur], m) = {index[cur][m].block} \ {NullBlock}
    BY <1>1, <1>2, <1>3, <1>5, IndexedRecords, Zenon
  <2> HIDE DEF m
  <2>3. index[cur][m].block \in Records(cache[cur], m)
    BY <2>1, <2>2
  <2> QED BY <1>2, <1>3, <1>5, <2>3, Zenon DEF m
<1> QED BY <1>4, <1>5, Zenon

(* free_record stops at the descriptor, or in the middle of the chain.     *)
LEMMA EraseStopsInv ==
  ASSUME Inv, KeysDistinct, "power" \notin FaultKinds, ReopenAfterError, EraseStops
  PROVE  Inv'
<1> DEFINE old == cache[cur]
           m == KeyStr[op.key]
<1>1. PICK d \in DataBlock :
        /\ \/ pc = "erase" /\ d = op.old
           \/ pc = "delete" /\ d = index[cur][m].block
        /\ \E first \in NextWords(old[d]) :
             \E stop \in {d} \cup ErasedFrom(old, first, d, cur - 1) : EraseStopsAt(d, first, stop)
  BY Zenon DEF EraseStops
<1>3. pc = "delete" => index[cur][m] # NoEntry
  BY <1>1, BlockZero DEF NoEntry
<1>4. /\ op.key \in Keys /\ status = "ready" /\ d \in Records(old, m)
      /\ pc = "erase" => op.block \in Records(old, m) /\ op.block # d
  BY <1>1, <1>3, ErasedRecords, Zenon
<1>5. old \in Image /\ d \in Block /\ Complete(old, d)
  BY <1>4, CurrentImage, BlockZero, Zenon DEF Records
<1> DEFINE first == old[d].next
<1>2. PICK stop \in {d} \cup ErasedFrom(old, first, d, cur - 1) : EraseStopsAt(d, first, stop)
  BY <1>1, <1>5, Zenon DEF NextWords, Complete
<1> DEFINE S == RecordBlocks(old, d)
           E == IF stop = d THEN {}
                ELSE {d} \cup ErasedFrom([old EXCEPT ![stop] = Garbage], first, d, cur - 1)
<1>6. S = {d} \cup ErasedFrom(old, first, d, cur - 1)
  BY <1>5, ErasedRecord
<1>7. stop \in Block /\ stop \in S
  BY <1>6 DEF RecordBlocks
<1>8. E \subseteq S
  BY <1>5, <1>6, <1>7, StoppedErase, Zenon
<1>16. PICK c \in {old[stop]} \cup Torn : Interrupted([Erase(old, E) EXCEPT ![stop] = c])
  BY <1>2, Zenon DEF EraseStopsAt, Unwritten
<1> DEFINE img == [Erase(old, E) EXCEPT ![stop] = c]
<1>9. EndsWith(img) /\ ProcessEnds
  BY <1>16, InterruptedEnds, Zenon
<1> HIDE DEF E, S
<1>10. img \in Image
  BY <1>5, <1>7, EraseType, PlainContents DEF Image, Torn
<1>11. HasErased(img, old, S)
  BY <1>7, <1>8 DEF Erase, Torn, HasErased
<1> USE DEF S
<1>12. 0 \notin S
  <2>1. old[0].type \notin {"descriptor", "chunk"}
    BY CurrentImage DEF Free, Garbage, Header
  <2>2. \A b \in S : old[b].type \in {"descriptor", "chunk"}
    BY <1>5, RecordBlocksFacts DEF RecordDescriptor
  <2> QED BY <2>1, <2>2, Zenon
<1> HIDE DEF S, img
<1>13. /\ legal' = IF pc = "delete" THEN [legal EXCEPT ![op.key] = @ \cup {Absent}] ELSE legal
       /\ legal \in [Keys -> SUBSET Results]
  BY Zenon DEF EraseStops, Inv, TypeOK
<1>14. /\ legal' \in [Keys -> SUBSET Results]
       /\ \A k \in Keys : legal[k] \subseteq legal'[k]
       /\ pc = "delete" => Absent \in legal'[op.key]
  BY <1>4, <1>13 DEF Results
<1>15. ASSUME NEW k \in Keys, Absent \notin legal'[k]
       PROVE  \E e \in Records(old, KeyStr[k]) : RecordBlocks(old, e) \cap S = {}
  <2>1. \E e \in Records(old, KeyStr[k]) : e # d
    <3>1. PICK e \in Records(old, KeyStr[k]) : TRUE
      BY <1>14, <1>15, CurrentImage, Zenon
    <3>2. CASE KeyStr[k] # m
      BY <1>4, <3>1, <3>2, Zenon DEF Records
    <3>3. CASE KeyStr[k] = m
      <4>1. k = op.key
        BY <1>4, <3>3, Zenon DEF KeysDistinct
      <4>2. pc = "erase"
        BY <1>1, <1>14, <1>15, <4>1, Zenon
      <4> QED BY <1>4, <3>3, <4>2, Zenon
    <3> QED BY <3>2, <3>3, Zenon
  <2>2. PICK e \in Records(old, KeyStr[k]) : e # d
    BY <2>1
  <2>3. e \in Block /\ Complete(old, e)
    BY BlockZero, Zenon DEF Records
  <2> QED BY <1>5, <2>2, <2>3, RecordsDisjoint DEF S
<1> QED BY <1>4, <1>9, <1>10, <1>11, <1>12, <1>13, <1>14, <1>15, PartlyErasedInv

(* recover stops before it has erased all it would.                        *)
LEMMA RecoverStopsInv ==
  ASSUME Inv, "power" \notin FaultKinds, ReopenAfterError, RecoverStops
  PROVE  Inv'
<1> DEFINE old == cache[cur]
           S == GarbageBlocks(old)
<1>1. PICK j \in S : \E c \in {old[j]} \cup Torn :
        Interrupted([Erase(old, {b \in S : b < j}) EXCEPT ![j] = c])
  BY Zenon DEF RecoverStops, Unwritten
<1> DEFINE below == {b \in S : b < j}
<1>6. PICK c \in {old[j]} \cup Torn : Interrupted([Erase(old, below) EXCEPT ![j] = c])
  BY <1>1, Zenon
<1> DEFINE img == [Erase(old, below) EXCEPT ![j] = c]
<1>7. j \in Block /\ 0 \notin S
  BY BlockZero DEF GarbageBlocks, DataBlock, Block
<1>8. below \subseteq S
  OBVIOUS
<1> HIDE DEF below, S
<1>2. EndsWith(img) /\ img \in Image /\ old \in Image
  <2>1. old \in Image /\ Erase(old, below) \in Image
    BY CurrentImage, EraseType, Zenon
  <2>2. img \in Image
    BY <1>7, <2>1, PlainContents DEF Image, Torn
  <2> QED BY <1>6, <2>1, <2>2, InterruptedEnds, Zenon
<1>3. HasErased(img, old, S)
  BY <1>7, <1>8 DEF Erase, Torn, HasErased
<1>4. /\ status # "raw" /\ ProcessEnds /\ legal' = legal /\ legal \in [Keys -> SUBSET Results]
  BY <1>6, InterruptedEnds, Zenon DEF RecoverStops, Inv, ControlInv, TypeOK
<1>5. ASSUME NEW k \in Keys, Absent \notin legal[k]
      PROVE  \E d \in Records(old, KeyStr[k]) : RecordBlocks(old, d) \cap S = {}
  <2>1. KeyStr[k] \in IndexKey /\ Records(old, KeyStr[k]) # {}
    BY <1>5, CurrentImage, Zenon DEF IndexKey
  <2>2. PICK d \in Newest(old, KeyStr[k]) : TRUE
    BY <1>2, <2>1, NewestExists, Zenon
  <2>3. d \in Records(old, KeyStr[k]) /\ RecordBlocks(old, d) \cap GarbageBlocks(old) = {}
    BY <1>2, <2>1, <2>2, RecoveredImage, Zenon DEF Newest
  <2> QED BY <2>3, Zenon DEF S
<1> HIDE DEF img
<1> QED BY <1>2, <1>3, <1>4, <1>5, <1>7, PartlyErasedInv

(* free_record finds the descriptor it erases intact.                      *)
LEMMA EraseNeverFails == Inv => ~EraseFails
<1> SUFFICES ASSUME Inv, EraseFails PROVE FALSE
  OBVIOUS
<1>1. PICK d : /\ ~CrcValid(cache[cur][d])
               /\ \/ pc = "erase" /\ d = op.old
                  \/ /\ pc = "delete" /\ index[cur][KeyStr[op.key]] # NoEntry
                     /\ d = index[cur][KeyStr[op.key]].block
  BY Zenon DEF EraseFails
<1>2. d \in Records(cache[cur], KeyStr[op.key])
  BY <1>1, ErasedRecords, Zenon
<1> QED BY <1>1, <1>2, Zenon DEF Records, Complete, CrcValid

(* No step breaks the invariant but the loss of a block that is at rest,   *)
(* where clients reopen and recover after an I/O error.                    *)
LEMMA FaultInv ==
  ASSUME Inv, KeysDistinct, ReopenAfterError, FaultKinds \subseteq {"error", "kill"}, Fault
  PROVE  Inv'
<1>1. "power" \notin FaultKinds /\ "decay" \notin FaultKinds
  OBVIOUS
<1>2. CASE StopsBetweenWrites
  BY <1>1, <1>2, StoppedInv, Zenon DEF StopsBetweenWrites, ReturnError
<1>3. CASE BuildIndexFails
  BY <1>1, <1>3, StoppedInv, Zenon DEF BuildIndexFails
<1>4. CASE FormatStops
  BY <1>1, <1>4, FormatStopsInv
<1>5. CASE RecordStops
  BY <1>1, <1>5, RecordStopsInv
<1>6. CASE EraseStops
  BY <1>1, <1>6, EraseStopsInv
<1>7. CASE RecoverStops
  BY <1>1, <1>7, RecoverStopsInv
<1> QED BY <1>1, <1>2, <1>3, <1>4, <1>5, <1>6, <1>7 DEF Fault

-----------------------------------------------------------------------------
(* A store with one replica.                                               *)
LEMMA OneReplica ==
  ASSUME ReplicaCount = 1
  PROVE  Replicas = {1} /\ (TypeOK => cur = 1 /\ cache[1] \in Image)
BY DEF Replicas, TypeOK

(* With one replica, what is found over the replicas is what the scan of   *)
(* that one finds.                                                         *)
LEMMA FoundIsRecovered ==
  ASSUME ReplicaCount = 1, NEW disks \in [Replicas -> Image], NEW k \in Keys
  PROVE  Found(disks, k) = Recovered(disks[1], k)
<1> DEFINE img == disks[1]
           n == KeyStr[k]
           L == Located(disks, k)
           gen(x) == disks[x[1]][x[2]].generation
           best == {x \in L : \A y \in L :
                      gen(y) < gen(x) \/ (gen(y) = gen(x) /\ x[1] <= y[1])}
<1>1. Replicas = {1} /\ img \in Image
  BY OneReplica
<1>2. Found(disks, k) =
        IF best = {} THEN {Absent} ELSE {RecordValue(disks[x[1]], x[2]) : x \in best}
  BY Zenon DEF Found
<1>3. CASE Newest(img, n) = {} /\ Recovered(img, k) = {Absent}
  <2>1. L = {}
    BY <1>1, <1>3 DEF Located
  <2> QED BY <1>2, <1>3, <2>1, Zenon
<1>4. ASSUME NEW d \in Newest(img, n), Newest(img, n) = {d},
             Recovered(img, k) = {RecordValue(img, d)}
      PROVE  Found(disks, k) = Recovered(img, k)
  <2>1. d \in DataBlock
    BY Zenon DEF Newest, Records
  <2>2. L = {<<1, d>>}
    <3>1. \A x : x \in L <=> x \in Replicas \X DataBlock /\ x[2] \in Newest(disks[x[1]], n)
      BY DEF Located
    <3>2. <<1, d>> \in L
      BY <1>1, <2>1, <3>1
    <3>3. ASSUME NEW x \in L PROVE x = <<1, d>>
      BY <1>1, <1>4, <3>1
    <3> HIDE DEF L
    <3> QED BY <3>2, <3>3
  <2> HIDE DEF L
  <2>3. best = {<<1, d>>}
    BY <2>2
  <2> HIDE DEF best
  <2> QED BY <1>2, <1>4, <2>3
<1> QED BY <1>1, <1>3, <1>4, RecoveredSingle

(* Nothing need be lost in a power loss.                                   *)
LEMMA CacheSurvives ==
  TypeOK /\ MediaInv => cache \in AfterPowerLoss
<1> SUFFICES ASSUME TypeOK, MediaInv PROVE cache \in AfterPowerLoss
  OBVIOUS
<1> DEFINE p == [x \in Pending |-> cache[x[1]][x[2]]]
<1>1. \A x \in Pending : x[1] \in Replicas /\ x[2] \in Block
  BY DEF Pending
<1>2. \A x \in Pending : p[x] \in media[x[1]][x[2]]
  BY <1>1 DEF MediaInv
<1>3. p \in [Pending -> UNION {media[x[1]][x[2]] : x \in Pending}]
  BY <1>2, Zenon
<1>4. p \in Survivors
  BY <1>2, Zenon DEF Survivors
<1> DEFINE q == [r \in Replicas |-> [b \in Block |->
                   IF <<r, b>> \in Pending THEN p[<<r, b>>] ELSE cache[r][b]]]
<1>5. q \in AfterPowerLoss
  BY <1>4 DEF AfterPowerLoss
<1>6. ASSUME NEW r \in Replicas PROVE q[r] = cache[r]
  BY DEF TypeOK, Image
<1>7. q = cache
  BY <1>6 DEF TypeOK
<1> QED BY <1>5, <1>7, Zenon

(* A medium may come back from a power loss with this image.               *)
MayHold(medium, img) == \A b \in Block : img[b] \in medium[b]

(* The abstract contents: what a scan finds now is one of the results, and *)
(* each result is what a scan of some image the medium may hold finds.     *)
ContentsBounded ==
  \A k \in Keys :
    /\ Recovered(cache[1], k) \subseteq Contents[k]
    /\ \A x \in Contents[k] : \E disks \in AfterPowerLoss :
         /\ x \in Recovered(disks[1], k)
         /\ disks[1] \in Image /\ MayHold(media[1], disks[1])
    /\ \A disks \in AfterPowerLoss : Recovered(disks[1], k) \subseteq Contents[k]

(* Types and what the media may hold give these bounds.                    *)
LEMMA ContentsAreBounded ==
  ASSUME ReplicaCount = 1
  PROVE  TypeOK /\ MediaInv => ContentsBounded
<1> SUFFICES ASSUME TypeOK, MediaInv, NEW k \in Keys
             PROVE  /\ Recovered(cache[1], k) \subseteq Contents[k]
                    /\ \A x \in Contents[k] : \E disks \in AfterPowerLoss :
                         /\ x \in Recovered(disks[1], k)
                         /\ disks[1] \in Image /\ MayHold(media[1], disks[1])
                    /\ \A disks \in AfterPowerLoss : Recovered(disks[1], k) \subseteq Contents[k]
  BY DEF ContentsBounded
<1>1. Replicas = {1}
  BY OneReplica
<1>2. Contents[k] = UNION {Found(disks, k) : disks \in AfterPowerLoss}
  BY DEF Contents
<1>3. ASSUME NEW disks \in AfterPowerLoss
      PROVE  /\ Found(disks, k) = Recovered(disks[1], k)
             /\ disks[1] \in Image /\ MayHold(media[1], disks[1])
  BY <1>1, FoundIsRecovered, PowerLossType, PowerLossEffect DEF MayHold
<1>4. cache \in AfterPowerLoss
  BY CacheSurvives
<1> QED BY <1>2, <1>3, <1>4

(* The same of the next state.                                             *)
LEMMA NextContentsBounded ==
  ASSUME ReplicaCount = 1
  PROVE  TypeOK' /\ MediaInv' => ContentsBounded'
BY ContentsAreBounded, PTL

(* Each image a medium may hold has one of the results X for key k.        *)
RestartsWithin(medium, k, X) ==
  \A rest \in Image : MayHold(medium, rest) => Recovered(rest, k) \subseteq X

(* Bounds on what a restart finds bound the abstract contents.             *)
LEMMA KeptBy ==
  ASSUME ReplicaCount = 1, TypeOK', MediaInv', NEW k \in Keys, NEW X,
         RestartsWithin(media'[1], k, X)
  PROVE  /\ Contents'[k] \subseteq X
         /\ \A x : X = {x} => Contents'[k] = X /\ Recovered(cache'[1], k) = X
<1>1. ContentsBounded'
  BY NextContentsBounded
<1>2. /\ Recovered(cache'[1], k) \subseteq Contents'[k]
      /\ \A x \in Contents'[k] : \E img \in Image :
           x \in Recovered(img, k) /\ MayHold(media'[1], img)
  BY <1>1 DEF ContentsBounded
<1>3. Contents'[k] \subseteq X
  BY <1>2 DEF RestartsWithin
<1>4. Recovered(cache'[1], k) # {}
  <2>1. cache'[1] \in Image
    BY OneReplica DEF TypeOK
  <2> QED BY <2>1, RecoveredSingle
<1> QED BY <1>2, <1>3, <1>4

(* A restart finds something.                                              *)
LEMMA KeptSome ==
  ASSUME ReplicaCount = 1, TypeOK', MediaInv', NEW k \in Keys
  PROVE  Contents'[k] # {}
<1>1. Recovered(cache'[1], k) \subseteq Contents'[k]
  BY NextContentsBounded DEF ContentsBounded
<1>2. cache'[1] \in Image
  BY OneReplica DEF TypeOK
<1> QED BY <1>1, <1>2, RecoveredSingle, Zenon

(* When nothing is pending a restart finds what a scan finds.              *)
LEMMA KeptSettled ==
  ASSUME ReplicaCount = 1, Inv', pc' \notin FlushPc, NEW k \in Keys
  PROVE  Contents'[k] = Recovered(cache'[1], k)
<1>1. TypeOK' /\ MediaInv' /\ cache'[1] \in Image
  BY OneReplica, Zenon DEF Inv, TypeOK
<1>2. Settled(1)'
  BY OneReplica DEF Inv, ControlInv
<1>3. ASSUME NEW rest \in Image, MayHold(media'[1], rest)
      PROVE  Recovered(rest, k) \subseteq Recovered(cache'[1], k)
  BY <1>1, <1>2, <1>3 DEF Settled, MayHold, Image
<1>4. RestartsWithin(media'[1], k, Recovered(cache'[1], k))
  BY <1>3 DEF RestartsWithin
<1>5. \E x : Recovered(cache'[1], k) = {x}
  BY <1>1, RecoveredSingle, Zenon
<1> QED BY <1>1, <1>4, <1>5, KeptBy

(* What a restart may find while an erasure is pending.                    *)
LEMMA ErasedRestarts ==
  ASSUME ReplicaCount = 1, TypeOK, Settled(1), NEW S, WriteBlocks(cur, Erase(cache[cur], S)),
         NEW rest \in Image, MayHold(media'[1], rest), NEW k \in Keys
  PROVE  /\ \A d \in Records(rest, KeyStr[k]) :
              /\ d \in Records(cache[1], KeyStr[k]) /\ rest[d] = cache[1][d]
              /\ RecordValue(rest, d) = RecordValue(cache[1], d)
         /\ (\A d \in Newest(cache[1], KeyStr[k]) : RecordBlocks(cache[1], d) \cap S = {}) =>
              Recovered(rest, k) = Recovered(cache[1], k)
<1> DEFINE img == cache[1]
           new == Erase(img, S)
<1>1. cur = 1 /\ img \in Image /\ new \in Image
  BY OneReplica, EraseType
<1>2. ASSUME NEW b \in Block
      PROVE  rest[b] = img[b] \/ (b \in S /\ rest[b] \in Torn)
  <2>1. new[b] = img[b] \/ (b \in S /\ new[b] = Free)
    BY DEF Erase
  <2>2. media[1][b] = {img[b]}
    BY DEF Settled
  <2> HIDE DEF new
  <2>3. rest[b] = img[b] \/ (new[b] # img[b] /\ (rest[b] = new[b] \/ rest[b] \in Torn))
    BY <1>1, <2>2, WriteEffect DEF new, MayHold
  <2> QED BY <2>1, <2>3 DEF Torn
<1>3. HasErased(rest, img, S)
  BY <1>2 DEF HasErased
<1> QED BY <1>1, <1>3, ErasedRecovers

(* What a restart may find while a new record is pending.                  *)
LEMMA WrittenRestarts ==
  ASSUME ReplicaCount = 1, KeysDistinct, TypeOK, MediaInv', Settled(1), Unique(cache[1]),
         NEW l \in Keys, NEW v \in Values, NEW g \in Generation,
         NEW f \in Allocations(cache[cur], NeededBlocks[v]),
         WriteBlocks(cur, WriteRecord(cache[cur], f, l, g, v)),
         NEW rest \in Image, MayHold(media'[1], rest), NEW k \in Keys
  PROVE  /\ k # l => Recovered(rest, k) = Recovered(cache[1], k)
         /\ Recovered(rest, k) \subseteq Recovered(cache[1], k) \cup {v}
<1> DEFINE img == cache[1]
           new == WriteRecord(img, f, l, g, v)
<1>1. cur = 1 /\ img \in Image /\ f \in Allocations(img, NeededBlocks[v])
  BY OneReplica
<1>2. new \in Image /\ WriteBlocks(cur, new) /\ new = WriteRecord(img, f, l, g, v)
  BY <1>1, WriteRecordType, Zenon DEF Allocations
<1>3. ASSUME NEW b \in Block
      PROVE  rest[b] = img[b] \/ (rest[b] \in {new[b]} \cup Torn /\ \E i \in DOMAIN f : f[i] = b)
  <2>1. media[1][b] = {img[b]}
    BY DEF Settled
  <2>2. new[b] # img[b] => \E i \in DOMAIN f : f[i] = b
    BY Zenon DEF WriteRecord
  <2> HIDE DEF new
  <2>3. rest[b] = img[b] \/ (new[b] # img[b] /\ (rest[b] = new[b] \/ rest[b] \in Torn))
    <3>1. /\ new[b] = img[b] => media'[1][b] = media[1][b]
          /\ new[b] # img[b] =>
               \A c : c \in media'[1][b] <=> c \in media[1][b] \/ c = new[b] \/ c \in Torn
      BY <1>1, <1>2, WriteEffect, Zenon
    <3>2. rest[b] \in media'[1][b]
      BY Zenon DEF MayHold
    <3> QED BY <2>1, <3>1, <3>2
  <2> QED BY <2>2, <2>3, Zenon
<1> HIDE DEF new, img
<1>4. HasPartOf(rest, img, new, f)
  BY <1>3 DEF HasPartOf
<1>5. PartsAgree(rest)
  BY OneReplica DEF MediaInv, PartsAgree, MayHold
<1>6. Unique(img) /\ cache[1] = img
  BY DEF img
<1> QED BY <1>1, <1>2, <1>4, <1>5, <1>6, WrittenRecovers

(* Only while the write of an operation is pending can a restart find for  *)
(* its key anything but what a scan finds now.                             *)
KeptInv ==
  \A k \in Keys : (pc \in {"commit", "deleteFlush"} => k # op.key) =>
    Contents[k] = Recovered(cache[1], k)

(* An image of free blocks has no records.                                 *)
LEMMA RawStore ==
  ASSUME ReplicaCount = 1, NEW img \in Image, NEW k \in Keys,
         \A b \in DataBlock : img[b] = Free
  PROVE  Recovered(img, k) = {Absent}
<1>1. Records(img, KeyStr[k]) = {}
  BY DEF Records, Complete, Free
<1> QED BY <1>1 DEF Recovered

(* An unformatted store has no records, before or after a step of format.  *)
LEMMA FormatKept ==
  ASSUME ReplicaCount = 1, Inv, Inv', status = "raw", status' = "raw", NEW k \in Keys
  PROVE  /\ Contents'[k] = {Absent} /\ Recovered(cache'[1], k) = {Absent}
         /\ Recovered(cache[1], k) = {Absent}
<1>1. /\ TypeOK' /\ MediaInv' /\ cache[1] \in Image
      /\ \A b \in DataBlock : media[1][b] = {Free} /\ cache[1][b] \in media[1][b]
      /\ \A b \in DataBlock : media'[1][b] = {Free}
  BY OneReplica, BlockZero DEF Inv, ControlInv, MediaInv
<1>2. Recovered(cache[1], k) = {Absent}
  BY <1>1, RawStore
<1>3. ASSUME NEW rest \in Image, MayHold(media'[1], rest)
      PROVE  Recovered(rest, k) \subseteq {Absent}
  BY <1>1, <1>3, RawStore, BlockZero DEF MayHold
<1>4. RestartsWithin(media'[1], k, {Absent})
  BY <1>3 DEF RestartsWithin
<1> QED BY <1>1, <1>2, <1>4, KeptBy

(* recover erases nothing of a newest record.                              *)
LEMMA RecoverEraseKept ==
  ASSUME ReplicaCount = 1, Inv, Inv', RecoverErase, NEW k \in Keys
  PROVE  /\ Contents'[k] = Recovered(cache[1], k)
         /\ Recovered(cache'[1], k) = Recovered(cache[1], k)
<1> DEFINE S == GarbageBlocks(cache[cur])
<1>1. /\ TypeOK /\ TypeOK' /\ MediaInv' /\ cur = 1 /\ cache[1] \in Image /\ Settled(1)
      /\ WriteBlocks(cur, Erase(cache[cur], S))
  BY OneReplica DEF Inv, RecoverErase, ControlInv, FlushPc
<1>2. \A d \in Newest(cache[1], KeyStr[k]) : RecordBlocks(cache[1], d) \cap S = {}
  BY <1>1, RecoveredImage DEF IndexKey
<1> HIDE DEF S
<1>3. RestartsWithin(media'[1], k, Recovered(cache[1], k))
  BY <1>1, <1>2, ErasedRestarts DEF RestartsWithin
<1>4. \E x : Recovered(cache[1], k) = {x}
  BY <1>1, RecoveredSingle, Zenon
<1> QED BY <1>1, <1>3, <1>4, KeptBy, Zenon

(* The write of a put is seen for its own key only.                        *)
LEMMA PutWriteKept ==
  ASSUME ReplicaCount = 1, KeysDistinct, Inv, Inv', PutWrite, NEW k \in Keys
  PROVE  /\ k # op.key => /\ Contents'[k] = Recovered(cache[1], k)
                          /\ Recovered(cache'[1], k) = Recovered(cache[1], k)
         /\ Contents'[k] \subseteq Recovered(cache[1], k) \cup {op.value}
         /\ Contents'[k] # {}
<1>1. /\ TypeOK /\ TypeOK' /\ MediaInv' /\ cur = 1 /\ cache[1] \in Image /\ Settled(1)
      /\ pc = "write" /\ status = "ready" /\ op \in PutOp
  BY OneReplica DEF Inv, PutWrite, ControlInv, FlushPc, TypeOK, DeletePc, OtherPc
<1>2. Unique(cache[1])
  BY <1>1, ReadyUnique, OneReplica DEF Inv
<1>3. op.key \in Keys /\ op.value \in Values /\ op.generation \in Generation
  BY <1>1 DEF PutOp
<1>4. PICK f \in Allocations(cache[cur], NeededBlocks[op.value]) :
        WriteBlocks(cur, WriteRecord(cache[cur], f, op.key, op.generation, op.value))
  BY Zenon DEF PutWrite
<1>5. ASSUME NEW rest \in Image, MayHold(media'[1], rest)
      PROVE  /\ k # op.key => Recovered(rest, k) = Recovered(cache[1], k)
             /\ Recovered(rest, k) \subseteq Recovered(cache[1], k) \cup {op.value}
  BY <1>1, <1>2, <1>3, <1>4, <1>5, WrittenRestarts
<1>6. \E x : Recovered(cache[1], k) = {x}
  BY <1>1, RecoveredSingle, Zenon
<1>7. /\ k # op.key => RestartsWithin(media'[1], k, Recovered(cache[1], k))
      /\ RestartsWithin(media'[1], k, Recovered(cache[1], k) \cup {op.value})
  BY <1>5 DEF RestartsWithin
<1>8. k # op.key => /\ Contents'[k] = Recovered(cache[1], k)
                    /\ Recovered(cache'[1], k) = Recovered(cache[1], k)
  BY <1>1, <1>6, <1>7, KeptBy
<1>9. Contents'[k] \subseteq Recovered(cache[1], k) \cup {op.value} /\ Contents'[k] # {}
  BY <1>1, <1>7, KeptBy, KeptSome
<1> QED BY <1>8, <1>9, Zenon

(* The erasure of one record is seen for its key only, and for that as the *)
(* record or what is left without it.                                      *)
LEMMA FreeRecordKept ==
  ASSUME ReplicaCount = 1, Inv, Inv', Settled(1), NEW m, NEW d \in Records(cache[1], m),
         FreeRecord(d), NEW k \in Keys
  PROVE  /\ KeyStr[k] # m => /\ Contents'[k] = Recovered(cache[1], k)
                             /\ Recovered(cache'[1], k) = Recovered(cache[1], k)
         /\ Records(cache[1], KeyStr[k]) = {d} =>
              Contents'[k] \subseteq Recovered(cache[1], k) \cup {Absent}
         /\ Contents'[k] # {}
<1> DEFINE S == RecordBlocks(cache[cur], d)
           n == KeyStr[k]
<1>1. TypeOK /\ TypeOK' /\ MediaInv' /\ cur = 1 /\ cache[1] \in Image
  BY OneReplica DEF Inv
<1>2. WriteBlocks(cur, Erase(cache[cur], S))
  BY <1>1, FreeRecordEffect, Zenon
<1>3. ASSUME n # m
      PROVE \A e \in Newest(cache[1], n) : RecordBlocks(cache[1], e) \cap S = {}
  BY <1>1, <1>3, FreeRecordEffect DEF Newest, Records
<1> HIDE DEF S
<1>4. ASSUME NEW rest \in Image, MayHold(media'[1], rest)
      PROVE  /\ \A e \in Records(rest, n) :
                  e \in Records(cache[1], n) /\ RecordValue(rest, e) = RecordValue(cache[1], e)
             /\ n # m => Recovered(rest, k) = Recovered(cache[1], k)
  BY <1>1, <1>2, <1>3, <1>4, ErasedRestarts
<1>5. ASSUME Records(cache[1], n) = {d}, NEW rest \in Image,
             MayHold(media'[1], rest)
      PROVE  Recovered(rest, k) \subseteq Recovered(cache[1], k) \cup {Absent}
  <2>1. Recovered(cache[1], k) = {RecordValue(cache[1], d)}
    BY <1>1, <1>5, RecoveredSingle DEF Newest
  <2>2. Recovered(rest, k) \subseteq {RecordValue(cache[1], d), Absent}
    BY <1>4, <1>5, Zenon DEF Recovered, Newest
  <2> QED BY <2>1, <2>2
<1>6. \E x : Recovered(cache[1], k) = {x}
  BY <1>1, RecoveredSingle, Zenon
<1>7. /\ n # m => RestartsWithin(media'[1], k, Recovered(cache[1], k))
      /\ Records(cache[1], n) = {d} =>
           RestartsWithin(media'[1], k, Recovered(cache[1], k) \cup {Absent})
  BY <1>4, <1>5, Zenon DEF RestartsWithin
<1>8. n # m => /\ Contents'[k] = Recovered(cache[1], k)
               /\ Recovered(cache'[1], k) = Recovered(cache[1], k)
  BY <1>1, <1>6, <1>7, KeptBy
<1>9. Records(cache[1], n) = {d} => Contents'[k] \subseteq Recovered(cache[1], k) \cup {Absent}
  BY <1>1, <1>7, KeptBy
<1>10. Contents'[k] # {}
  BY <1>1, KeptSome
<1> QED BY <1>8, <1>9, <1>10

(* A flushed put is what every restart finds.                              *)
LEMMA FlushedContents ==
  ASSUME ReplicaCount = 1, Inv', FlushedPutSurvives', NotWrapped', pc' \in {"erase", "eraseFlush"},
         NEW k \in Keys, k = op'.key
  PROVE  Contents'[k] = {op'.value} /\ Recovered(cache'[1], k) = {op'.value}
<1>1. TypeOK' /\ MediaInv' /\ cache'[1] \in Image /\ cur' = 1
  BY OneReplica DEF Inv, TypeOK
<1>2. \A disks \in AfterPowerLoss' : Recovered(disks[1], k) = {op'.value}
  BY <1>1 DEF FlushedPutSurvives, NotWrapped, PutPc
<1>3. /\ Recovered(cache'[1], k) \subseteq Contents'[k]
      /\ \A x \in Contents'[k] : \E disks \in AfterPowerLoss' : x \in Recovered(disks[1], k)
  BY <1>1, NextContentsBounded DEF ContentsBounded
<1>4. \E x : Recovered(cache'[1], k) = {x}
  BY <1>1, RecoveredSingle, Zenon
<1> QED BY <1>2, <1>3, <1>4

(* Erasing the old record of an update changes no result.                  *)
LEMMA PutEraseKept ==
  ASSUME ReplicaCount = 1, KeysDistinct, Inv, Inv', FlushedPutSurvives', NotWrapped', PutErase,
         NEW k \in Keys
  PROVE  /\ Contents'[k] = Recovered(cache'[1], k)
         /\ k # op.key => Contents'[k] = Recovered(cache[1], k)
         /\ k = op.key => Contents'[k] = {op.value}
<1> DEFINE m == KeyStr[op.key]
<1>1. pc = "erase" /\ pc' = "eraseFlush" /\ op' = op /\ FreeRecord(op.old)
  BY DEF PutErase
<1>2. TypeOK /\ cur = 1 /\ 1 \in Replicas /\ op \in PutOp /\ status = "ready" /\ Settled(1)
  <2>1. TypeOK /\ cur = 1 /\ 1 \in Replicas
    BY OneReplica DEF Inv
  <2> QED BY <1>1, <2>1, Zenon DEF Inv, ControlInv, FlushPc, TypeOK, PutPc, DeletePc, OtherPc
<1>3. op.key \in Keys /\ m \in IndexKey
  BY <1>2 DEF PutOp, IndexKey
<1>4. op.old \in Records(cache[1], m)
  <2>1. Records(cache[1], m) = {op.block, op.old} \ {NullBlock}
    BY <1>1, <1>2, <1>3, IndexedRecords, Zenon DEF Inv
  <2>2. op.old # NullBlock
    BY <1>1, Zenon DEF Inv, ProgressInv
  <2> QED BY <2>1, <2>2, Zenon
<1>5. CASE k # op.key
  <2>1. KeyStr[k] # m
    BY <1>3, <1>5 DEF KeysDistinct
  <2> HIDE DEF m
  <2> QED BY <1>1, <1>2, <1>4, <1>5, <2>1, FreeRecordKept, Zenon
<1>6. CASE k = op.key
  BY <1>1, <1>6, FlushedContents
<1> QED BY <1>5, <1>6

(* Erasing a deleted record is seen for its key only.                      *)
LEMMA DeleteEraseKept ==
  ASSUME ReplicaCount = 1, KeysDistinct, Inv, Inv', DeleteErase, NEW k \in Keys
  PROVE  /\ k # op.key => /\ Contents'[k] = Recovered(cache[1], k)
                          /\ Recovered(cache'[1], k) = Recovered(cache[1], k)
         /\ k = op.key => Contents'[k] \subseteq Recovered(cache[1], k) \cup {Absent}
         /\ Contents'[k] # {}
<1> DEFINE m == KeyStr[op.key]
           d == index[cur][m].block
<1>1. pc = "delete" /\ index[cur][m] # NoEntry /\ FreeRecord(d)
  BY Zenon DEF DeleteErase
<1>2. TypeOK /\ cur = 1 /\ 1 \in Replicas /\ op \in DeleteOp /\ status = "ready" /\ Settled(1)
  <2>1. TypeOK /\ cur = 1 /\ 1 \in Replicas
    BY OneReplica DEF Inv
  <2> QED BY <1>1, <2>1, Zenon DEF Inv, ControlInv, FlushPc, TypeOK, PutPc, DeletePc, OtherPc
<1>3. op.key \in Keys /\ m \in IndexKey
  BY <1>2 DEF DeleteOp, IndexKey
<1>4. Records(cache[1], m) = {d}
  <2>1. Records(cache[1], m) = {d} \ {NullBlock}
    BY <1>1, <1>2, <1>3, IndexedRecords, Zenon DEF Inv
  <2>2. d # NullBlock
    BY <1>1, <1>2, <1>3, Zenon DEF Inv, IndexInv
  <2> QED BY <2>1, <2>2, Zenon
<1> HIDE DEF d
<1>5. k # op.key => KeyStr[k] # m
  BY <1>3 DEF KeysDistinct
<1> QED BY <1>1, <1>2, <1>4, <1>5, FreeRecordKept

(* In every state but between a write and its flush, and then for all keys *)
(* but one, a restart finds what a scan finds.                             *)
LEMMA KeptStep ==
  ASSUME ReplicaCount = 1, KeysDistinct, Inv, Inv', FlushedPutSurvives', NotWrapped', Next
  PROVE  KeptInv'
<1> SUFFICES ASSUME NEW k \in Keys, pc' \in {"commit", "deleteFlush"} => k # op'.key
             PROVE  Contents'[k] = Recovered(cache'[1], k)
  BY DEF KeptInv
<1>1. CASE pc' \notin FlushPc
  BY <1>1, KeptSettled
<1>2. CASE FormatWrite
  BY <1>2, FormatKept, Zenon DEF FormatWrite, Inv, ControlInv
<1>3. CASE RecoverErase
  BY <1>3, RecoverEraseKept
<1>4. CASE PutWrite
  BY <1>4, PutWriteKept, Zenon DEF PutWrite, Inv, TypeOK, DeletePc, PutOp
<1>5. CASE PutErase
  BY <1>5, PutEraseKept
<1>6. CASE DeleteErase
  BY <1>6, DeleteEraseKept, Zenon DEF DeleteErase
<1>7. pc' \notin FlushPc \/ FormatWrite \/ RecoverErase \/ PutWrite \/ PutErase \/ DeleteErase
  BY Zenon DEF Next, Step, FlushPc, FormatBegin, FormatFlush, Open, Close, BuildIndex, RecoverBegin,
     RecoverClean, RecoverFlush, RecoverNext, PutBegin, PutFull, Fail, PutCommit, PutEraseFlush,
     PutNext, DeleteBegin, DeleteSkip, DeleteFlush, DeleteNext, NextReplica, Finish, PowerLoss
<1> QED BY <1>1, <1>2, <1>3, <1>4, <1>5, <1>6, <1>7
=============================================================================
