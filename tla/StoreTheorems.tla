--------------------------- MODULE StoreTheorems ----------------------------
(***************************************************************************)
(* The theorems about the store, for every device size, any keys, values   *)
(* and number of replicas: the invariant of StoreInvariant holds, through  *)
(* power loss and through faults of the devices; reads are legal; records  *)
(* that can be read through the index are left alone; a put survives once  *)
(* its record is flushed; and the store on one replica implements KVStore. *)
(***************************************************************************)
EXTENDS StoreFaults, StoreRefinesKV, StoreStepProofs, StoreUpdateProofs, StoreRestartProofs

(***************************************************************************)
(* The invariant is inductive, for clients that recover after a power loss *)
(* and whose keys are told apart by the index.                             *)
(***************************************************************************)
THEOREM InvStep ==
  ASSUME RecoveryRequired, KeysDistinct
  PROVE  Inv /\ [Next]_vars => Inv'
<1> SUFFICES ASSUME Inv, [Next]_vars PROVE Inv'
  OBVIOUS
<1>1. CASE Step
  <2>1. CASE FormatBegin \/ FormatWrite \/ FormatFlush \/ Open \/ Close \/ BuildIndex
    BY <2>1, FormatBeginInv, FormatWriteInv, FormatFlushInv, OpenInv, CloseInv, BuildIndexInv
  <2>2. CASE RecoverBegin \/ RecoverClean \/ RecoverErase \/ RecoverFlush
    BY <2>2, RecoverBeginInv, RecoverCleanInv, RecoverEraseInv, RecoverFlushInv
  <2>3. CASE \/ \E k \in Keys, v \in Values : PutBegin(k, v)
             \/ PutWrite \/ PutFull \/ PutCommit \/ PutErase \/ PutEraseFlush
    BY <2>3, PutBeginInv, PutWriteInv, PutFullInv, PutCommitInv, PutEraseInv, PutEraseFlushInv
  <2>4. CASE (\E k \in Keys : DeleteBegin(k)) \/ DeleteSkip \/ DeleteErase \/ DeleteFlush
    BY <2>4, DeleteBeginInv, DeleteSkipInv, DeleteEraseInv, DeleteFlushInv
  <2> QED BY <1>1, <2>1, <2>2, <2>3, <2>4 DEF Step
<1>2. CASE PowerLoss
  BY <1>2, PowerLossInv
<1>3. CASE UNCHANGED vars
  <2>1. UNCHANGED <<cache, media, index, status, pc, cur, op, dirty, legal>>
    BY <1>3 DEF vars
  <2>2. TypeOK' /\ MediaInv' /\ LegalInv'
    <3>1. MediaInv' /\ LegalInv'
      BY <2>1, SameDevices, Zenon DEF Inv
    <3> QED BY <1>3, <3>1, TypeStep, Zenon DEF Inv
  <2>3. ControlInv' /\ TidyInv' /\ ProgressInv'
    BY <2>1 DEF Inv, ControlInv, TidyInv, ProgressInv, Settled
  <2>4. IndexInv'
    BY <2>1, SameIndex DEF Inv
  <2> QED BY <2>2, <2>3, <2>4 DEF Inv
<1> QED BY <1>1, <1>2, <1>3 DEF Next

-----------------------------------------------------------------------------

(* The call of the abstract store, by the step of the operation.           *)
CallKnown ==
  /\ pc \in PutPc =>
       Call = [active |-> TRUE, key |-> op.key, result |-> op.value] /\ op.key \in Keys
  /\ pc \in DeletePc =>
       Call = [active |-> TRUE, key |-> op.key, result |-> Absent] /\ op.key \in Keys
  /\ pc \in OtherPc => Call = [active |-> FALSE]

(* The types decide what the call is.                                      *)
LEMMA CallIsKnown == TypeOK => CallKnown
<1> SUFFICES ASSUME TypeOK PROVE CallKnown
  OBVIOUS
<1>1. ASSUME op \in PutOp
      PROVE Call = [active |-> TRUE, key |-> op.key, result |-> op.value] /\ op.key \in Keys
  BY <1>1 DEF Call, PutOp
<1>2. ASSUME op \in DeleteOp
      PROVE Call = [active |-> TRUE, key |-> op.key, result |-> Absent] /\ op.key \in Keys
  BY <1>2 DEF Call, DeleteOp
<1>3. ASSUME op = NoOp PROVE Call = [active |-> FALSE]
  BY <1>3 DEF Call, NoOp
<1>4. /\ pc \in PutPc => op \in PutOp
      /\ pc \in DeletePc => op \in DeleteOp
      /\ pc \in OtherPc => op = NoOp
  BY DEF TypeOK, PutPc, DeletePc, OtherPc
<1> QED BY <1>1, <1>2, <1>3, <1>4 DEF CallKnown

(* The same of the next state.                                             *)
LEMMA NextCallKnown == TypeOK' => CallKnown'
BY CallIsKnown, PTL

(* The contents are compared key by key.                                   *)
LEMMA SameContents ==
  ASSUME \A k \in Keys : Contents'[k] = Contents[k]
  PROVE  Contents' = Contents
<1>1. PICK c : c = Contents /\ c = [k \in Keys |-> c[k]]
  BY Zenon DEF Contents
<1>2. PICK d : d = Contents' /\ d = [k \in Keys |-> d[k]]
  BY Zenon DEF Contents
<1> QED BY <1>1, <1>2

(* So is an update of one key.                                             *)
LEMMA UpdatedContents ==
  ASSUME NEW key \in Keys, \A k \in Keys : k # key => Contents'[k] = Contents[k]
  PROVE  Contents' = [Contents EXCEPT ![key] = Contents'[key]]
<1>1. PICK c : c = Contents /\ c = [k \in Keys |-> c[k]]
  BY Zenon DEF Contents
<1>2. PICK d : d = Contents' /\ d = [k \in Keys |-> d[k]]
  BY Zenon DEF Contents
<1>3. d = [c EXCEPT ![key] = d[key]]
  BY <1>1, <1>2
<1> QED BY <1>1, <1>2

(* A step inside an operation that leaves its key with the old or the new  *)
(* result, or either.                                                      *)
LEMMA OperationStep ==
  ASSUME NEW key \in Keys, NEW x, NEW y,
         Call = [active |-> TRUE, key |-> key, result |-> y], Call' = Call,
         \A k \in Keys : k # key => Contents'[k] = Contents[k],
         Contents[key] = {x}, Contents'[key] \subseteq {x, y}, Contents'[key] # {}
  PROVE  [KV!Next]_<<Contents, Call>>
<1>1. Contents' = [Contents EXCEPT ![key] = Contents'[key]]
  BY UpdatedContents
<1>2. Call # KV!NoCall /\ Call.key = key /\ Call.result = y
  BY DEF KV!NoCall
<1>3. Contents'[key] = {x} \/ Contents'[key] = {x} \cup {y} \/ Contents'[key] = {y}
  OBVIOUS
<1>4. CASE Contents'[key] = {x}
  BY <1>4, SameContents
<1>5. CASE Contents'[key] = {x} \cup {y}
  BY <1>1, <1>2, <1>5 DEF KV!Expose, KV!Next
<1>6. CASE Contents'[key] = {y}
  BY <1>1, <1>2, <1>6 DEF KV!Settle, KV!Next
<1> QED BY <1>4, <1>5, <1>6

(* A later step of an operation, after which every restart finds the new   *)
(* result, and the successful end of one.                                  *)
LEMMA OperationSettles ==
  ASSUME NEW key \in Keys, NEW y,
         Call = [active |-> TRUE, key |-> key, result |-> y],
         Call' = Call \/ Call' = [active |-> FALSE],
         \A k \in Keys : k # key => Contents'[k] = Contents[k], Contents'[key] = {y}
  PROVE  KV!Next
<1>1. Contents' = [Contents EXCEPT ![key] = Contents'[key]]
  BY UpdatedContents
<1>2. Call # KV!NoCall /\ Call.key = key /\ Call.result = y
  BY DEF KV!NoCall
<1>3. CASE Call' = Call
  BY <1>1, <1>2, <1>3 DEF KV!Settle, KV!Next
<1>4. CASE Call' = [active |-> FALSE]
  BY <1>1, <1>4 DEF KV!Acknowledge, KV!NoCall, KV!Next
<1> QED BY <1>3, <1>4

(* Steps outside put and delete change no result and belong to no call.    *)
LEMMA MaintenanceRefines ==
  ASSUME ReplicaCount = 1, Inv, Inv', KeptInv, KeptInv',
         \/ FormatBegin \/ FormatWrite \/ FormatFlush \/ Open \/ Close \/ BuildIndex
         \/ RecoverBegin \/ RecoverClean \/ RecoverErase \/ RecoverFlush
  PROVE  UNCHANGED <<Contents, Call>>
<1>1. TypeOK /\ TypeOK' /\ CallKnown /\ CallKnown' /\ cur = 1
  BY OneReplica, CallIsKnown, NextCallKnown DEF Inv
<1>2. pc \in OtherPc /\ pc' \in OtherPc
  BY Zenon DEF FormatBegin, FormatWrite, FormatFlush, Open, Close, BuildIndex, RecoverBegin,
     RecoverClean, RecoverErase, RecoverFlush, RecoverNext, NextReplica, Finish, OtherPc
<1>3. ASSUME NEW k \in Keys
      PROVE  /\ Contents[k] = Recovered(cache[1], k)
             /\ Contents'[k] = Recovered(cache'[1], k)
  BY <1>2 DEF KeptInv, OtherPc
<1>4. ASSUME NEW k \in Keys PROVE Recovered(cache'[1], k) = Recovered(cache[1], k)
  <2>1. CASE cache' = cache
    BY <2>1
  <2>2. CASE FormatWrite
    <3>1. status = "raw" /\ status' = "raw"
      BY <2>2 DEF FormatWrite, Inv, ControlInv
    <3> QED BY <3>1, FormatKept
  <2>3. CASE RecoverErase
    BY <2>3, RecoverEraseKept
  <2> QED BY <2>2, <2>3, Zenon DEF FormatBegin, FormatFlush, Flush, Open, Close, BuildIndex,
             RecoverBegin, RecoverClean, RecoverFlush
<1>5. Contents' = Contents
  BY <1>3, <1>4, SameContents
<1> QED BY <1>1, <1>2, <1>5, Zenon DEF CallKnown

(* put on one replica is an operation of the abstract store.               *)
LEMMA PutRefines ==
  ASSUME ReplicaCount = 1, KeysDistinct, Inv, Inv', KeptInv, KeptInv', FlushedPutSurvives',
         NotWrapped',
         \/ \E k \in Keys, v \in Values : PutBegin(k, v)
         \/ PutWrite \/ PutFull \/ PutCommit \/ PutErase \/ PutEraseFlush
  PROVE  [KV!Next]_<<Contents, Call>>
<1> DEFINE key == op.key
           v == op.value
<1>1. /\ TypeOK /\ TypeOK' /\ CallKnown /\ CallKnown' /\ cur = 1 /\ cache[1] \in Image
      /\ cache'[1] \in Image
  BY OneReplica, CallIsKnown, NextCallKnown DEF Inv, TypeOK
<1>2. ASSUME pc \in PutPc
      PROVE  /\ key \in Keys /\ Call = [active |-> TRUE, key |-> key, result |-> v]
             /\ \A k \in Keys : k # key => Contents[k] = Recovered(cache[1], k)
             /\ pc # "commit" => Contents[key] = Recovered(cache[1], key)
  BY <1>1, <1>2, Zenon DEF CallKnown, KeptInv, PutPc
<1>3. ASSUME pc' \in {"idle", "erase", "eraseFlush"}, NEW k \in Keys
      PROVE  Contents'[k] = Recovered(cache'[1], k)
  BY <1>3 DEF KeptInv
<1>4. ASSUME NEW k \in Keys, NEW w \in Values, PutBegin(k, w)
      PROVE  [KV!Next]_<<Contents, Call>>
  <2>1. /\ pc = "idle" /\ pc' = "write" /\ cache' = cache
        /\ op'.key = k /\ op'.value = w
    <3>1. pc = "idle" /\ pc' = "write" /\ cache' = cache
      BY <1>4, Zenon DEF PutBegin, Ready
    <3>2. PICK g : op' = [type |-> "put", key |-> k, value |-> w, generation |-> g,
                          block |-> NullBlock, old |-> NullBlock]
      BY <1>4, Zenon DEF PutBegin
    <3> QED BY <3>1, <3>2
  <2>2. Contents' = Contents
    BY <2>1, SameContents DEF KeptInv
  <2>3. Call = [active |-> FALSE] /\ Call' = [active |-> TRUE, key |-> k, result |-> w]
    BY <1>1, <2>1, Zenon DEF CallKnown, PutPc, OtherPc
  <2>4. w \in Results
    BY DEF Results
  <2> QED BY <2>2, <2>3, <2>4, Zenon DEF KV!Invoke, KV!NoCall, KV!Next
<1>5. CASE PutFull
  <2>1. pc = "write" /\ pc' = "idle" /\ cache' = cache /\ pc \in PutPc
    BY <1>5 DEF PutFull, Fail, Finish, PutPc
  <2>2. Contents' = Contents
    BY <2>1, SameContents DEF KeptInv
  <2>3. Call' = [active |-> FALSE] /\ Call # [active |-> FALSE]
    BY <1>1, <2>1 DEF CallKnown, OtherPc
  <2> QED BY <2>2, <2>3 DEF KV!Refuse, KV!NoCall, KV!Next
<1>6. CASE PutWrite
  <2>1. pc = "write" /\ pc' = "commit" /\ pc \in PutPc /\ pc' \in PutPc
    BY <1>6, Zenon DEF PutWrite, PutPc
  <2>2. op'.key = key /\ op'.value = v
    <3>1. PICK b : op' = [op EXCEPT !.block = b, !.old = index[cur][KeyStr[op.key]].block]
      BY <1>6, Zenon DEF PutWrite
    <3>2. op \in [type : {op.type}, key : Keys, value : {op.value}, generation : Generation,
                  block : {op.block}, old : {op.old}]
      BY <1>1, <2>1 DEF PutOp, TypeOK, DeletePc, OtherPc
    <3> QED BY <3>1
  <2>3. Call' = Call
    BY <1>1, <2>1, <2>2, Zenon DEF CallKnown
  <2>4. \A k \in Keys : k # key => Contents'[k] = Contents[k]
    BY <1>2, <1>6, <2>1, PutWriteKept
  <2>5. Contents'[key] \subseteq Contents[key] \cup {v} /\ Contents'[key] # {}
    BY <1>2, <1>6, <2>1, PutWriteKept
  <2>6. PICK x : Contents[key] = {x}
    <3>1. key \in Keys /\ Contents[key] = Recovered(cache[1], key)
      BY <1>2, <2>1
    <3>2. \E x : Recovered(cache[1], key) = {x}
      BY <1>1, <3>1, RecoveredSingle, Zenon
    <3> QED BY <3>1, <3>2
  <2>7. Contents'[key] \subseteq {x, v}
    BY <2>5, <2>6
  <2>8. key \in Keys /\ Call = [active |-> TRUE, key |-> key, result |-> v]
    BY <1>2, <2>1, Zenon
  <2> HIDE DEF key, v
  <2> QED BY <2>3, <2>4, <2>5, <2>6, <2>7, <2>8, OperationStep, Zenon
<1>7. CASE PutErase
  <2>1. pc = "erase" /\ pc' = "eraseFlush" /\ op' = op /\ pc \in PutPc /\ pc' \in PutPc
    BY <1>7 DEF PutErase, PutPc
  <2>2. Call' = Call
    BY <1>1, <2>1, Zenon DEF CallKnown
  <2>3. /\ \A k \in Keys : k # key => Contents'[k] = Contents[k]
        /\ Contents'[key] = {v}
    BY <1>2, <1>7, <2>1, PutEraseKept
  <2>4. key \in Keys /\ Call = [active |-> TRUE, key |-> key, result |-> v]
    BY <1>2, <2>1, Zenon
  <2> HIDE DEF key, v
  <2> QED BY <2>2, <2>3, <2>4, OperationSettles, Zenon
<1>8. ASSUME cache' = cache, pc' = "idle", pc \in PutPc, Recovered(cache[1], key) = {v}
      PROVE  [KV!Next]_<<Contents, Call>>
  <2>1. Call' = [active |-> FALSE]
    BY <1>1, <1>8, Zenon DEF CallKnown, OtherPc
  <2>2. key \in Keys /\ Call = [active |-> TRUE, key |-> key, result |-> v]
    BY <1>2, <1>8, Zenon
  <2>3. \A k \in Keys : Contents'[k] = Recovered(cache[1], k)
    BY <1>3, <1>8
  <2>4. \A k \in Keys : k # key => Contents'[k] = Contents[k]
    BY <1>2, <1>8, <2>3
  <2>5. Contents'[key] = {v}
    BY <1>8, <2>2, <2>3, Zenon
  <2> HIDE DEF key, v
  <2> QED BY <2>1, <2>2, <2>4, <2>5, OperationSettles, Zenon
<1>9. ASSUME pc \in {"commit", "eraseFlush"}, Records(cache[1], KeyStr[key]) = {op.block}
      PROVE  Recovered(cache[1], key) = {v}
  <2>1. key \in Keys
    BY <1>2, <1>9 DEF PutPc
  <2>2. Recovered(cache[1], key) = {RecordValue(cache[1], op.block)}
    BY <1>1, <1>9, <2>1, RecoveredSingle, Zenon DEF Newest
  <2>3. op.block \in Block /\ Complete(cache[1], op.block) /\ cache[1][op.block].payload = v
    BY <1>1, <1>9, BlockZero, Zenon DEF Inv, ProgressInv, Records
  <2>4. \A b \in Block : cache[1][b] \in media[1][b]
    BY OneReplica DEF Inv, MediaInv
  <2>5. \A b \in RecordBlocks(cache[1], op.block) : cache[1][b].payload = v
    BY <1>1, <2>3, <2>4, OneReplica, RecordPayload
  <2> QED BY <2>2, <2>3, <2>5 DEF RecordValue
<1>10. CASE PutCommit
  <2>1. pc = "commit" /\ cache' = cache /\ pc \in PutPc
    BY <1>10, Zenon DEF PutCommit, Flush, PutPc
  <2>2. CASE op.old = NullBlock /\ PutNext
    <3>1. pc' = "idle"
      BY <1>1, <2>2 DEF PutNext, NextReplica, Finish
    <3>2. Records(cache[1], KeyStr[key]) = {op.block}
      <4>1. KeyStr[key] \in IndexKey /\ status = "ready" /\ 1 \in Replicas
        BY <1>2, <2>1, OneReplica DEF IndexKey, Inv, ControlInv
      <4>2. Records(cache[1], KeyStr[key]) = {op.block, op.old} \ {NullBlock}
        BY <1>1, <2>1, <4>1, IndexedRecords, Zenon DEF Inv
      <4>3. op.block \in Records(cache[1], KeyStr[key])
        BY <1>1, <2>1 DEF Inv, ProgressInv
      <4> QED BY <2>2, <4>2, <4>3
    <3> QED BY <1>8, <1>9, <2>1, <3>1, <3>2
  <2>3. CASE pc' = "erase" /\ op' = op
    <3>1. Call' = Call
      BY <1>1, <2>1, <2>3, Zenon DEF CallKnown, PutPc
    <3>2. Contents'[key] = {v}
      BY <1>2, <2>1, <2>3, FlushedContents
    <3>3. \A k \in Keys : k # key => Contents'[k] = Contents[k]
      BY <1>2, <1>3, <2>1, <2>3
    <3>4. key \in Keys /\ Call = [active |-> TRUE, key |-> key, result |-> v]
      BY <1>2, <2>1, Zenon
    <3> HIDE DEF key, v
    <3> QED BY <3>1, <3>2, <3>3, <3>4, OperationSettles, Zenon
  <2> QED BY <1>10, <2>2, <2>3 DEF PutCommit
<1>11. CASE PutEraseFlush
  <2>1. pc = "eraseFlush" /\ cache' = cache /\ pc \in PutPc /\ pc' = "idle"
    BY <1>1, <1>11 DEF PutEraseFlush, Flush, PutPc, PutNext, NextReplica, Finish
  <2>2. Records(cache[1], KeyStr[key]) = {op.block}
    <3>1. KeyStr[key] \in IndexKey /\ status = "ready" /\ 1 \in Replicas
      BY <1>2, <2>1, OneReplica DEF IndexKey, Inv, ControlInv
    <3>2. Records(cache[1], KeyStr[key]) = {index[1][KeyStr[key]].block} \ {NullBlock}
      BY <2>1, <3>1, IndexedRecords, Zenon DEF Inv
    <3>3. op.block \in Records(cache[1], KeyStr[key])
      BY <1>1, <2>1, Zenon DEF Inv, ProgressInv
    <3> QED BY <3>2, <3>3
  <2> QED BY <1>8, <1>9, <2>1, <2>2
<1> QED BY <1>4, <1>5, <1>6, <1>7, <1>10, <1>11

(* delete on one replica is an operation of the abstract store.            *)
LEMMA DeleteRefines ==
  ASSUME ReplicaCount = 1, KeysDistinct, Inv, Inv', KeptInv, KeptInv',
         (\E k \in Keys : DeleteBegin(k)) \/ DeleteSkip \/ DeleteErase \/ DeleteFlush
  PROVE  [KV!Next]_<<Contents, Call>>
<1> DEFINE key == op.key
<1>1. TypeOK /\ TypeOK' /\ CallKnown /\ CallKnown' /\ cur = 1 /\ cache[1] \in Image
  BY OneReplica, CallIsKnown, NextCallKnown DEF Inv
<1>2. ASSUME pc \in DeletePc
      PROVE  /\ key \in Keys /\ Call = [active |-> TRUE, key |-> key, result |-> Absent]
             /\ \A k \in Keys : k # key => Contents[k] = Recovered(cache[1], k)
             /\ pc = "delete" => Contents[key] = Recovered(cache[1], key)
             /\ KeyStr[key] \in IndexKey /\ status = "ready" /\ 1 \in Replicas
  <2>1. key \in Keys /\ Call = [active |-> TRUE, key |-> key, result |-> Absent]
    BY <1>1, <1>2 DEF CallKnown
  <2>2. status = "ready" /\ 1 \in Replicas
    BY <1>2, OneReplica DEF Inv, ControlInv
  <2>3. KeyStr[key] \in IndexKey
    BY <2>1 DEF IndexKey
  <2>4. /\ \A k \in Keys : k # key => Contents[k] = Recovered(cache[1], k)
        /\ pc = "delete" => Contents[key] = Recovered(cache[1], key)
    BY <2>1 DEF KeptInv
  <2> QED BY <2>1, <2>2, <2>3, <2>4
<1>3. ASSUME NEW k \in Keys, DeleteBegin(k)
      PROVE  [KV!Next]_<<Contents, Call>>
  <2>1. pc = "idle" /\ pc' = "delete" /\ cache' = cache /\ op'.key = k
    BY <1>3, Zenon DEF DeleteBegin, Ready
  <2>2. Contents' = Contents
    BY <2>1, SameContents DEF KeptInv
  <2>3. Call = [active |-> FALSE] /\ Call' = [active |-> TRUE, key |-> k, result |-> Absent]
    BY <1>1, <2>1, Zenon DEF CallKnown, DeletePc, OtherPc
  <2>4. Absent \in Results
    BY DEF Results
  <2> QED BY <2>2, <2>3, <2>4, Zenon DEF KV!Invoke, KV!NoCall, KV!Next
<1>4. CASE DeleteErase
  <2>1. pc = "delete" /\ pc' = "deleteFlush" /\ op' = op /\ pc \in DeletePc /\ pc' \in DeletePc
    BY <1>4, Zenon DEF DeleteErase, DeletePc
  <2>2. Call' = Call
    BY <1>1, <2>1, Zenon DEF CallKnown
  <2>3. \A k \in Keys : k # key => Contents'[k] = Contents[k]
    BY <1>2, <1>4, <2>1, DeleteEraseKept
  <2>4. Contents'[key] \subseteq Contents[key] \cup {Absent} /\ Contents'[key] # {}
    BY <1>2, <1>4, <2>1, DeleteEraseKept
  <2>5. PICK x : Contents[key] = {x}
    <3>1. key \in Keys /\ Contents[key] = Recovered(cache[1], key)
      BY <1>2, <2>1
    <3>2. \E x : Recovered(cache[1], key) = {x}
      BY <1>1, <3>1, RecoveredSingle, Zenon
    <3> QED BY <3>1, <3>2
  <2>6. Contents'[key] \subseteq {x, Absent}
    BY <2>4, <2>5
  <2>7. key \in Keys /\ Call = [active |-> TRUE, key |-> key, result |-> Absent]
    BY <1>2, <2>1, Zenon
  <2> HIDE DEF key
  <2> QED BY <2>2, <2>3, <2>4, <2>5, <2>6, <2>7, OperationStep, Zenon
<1>5. ASSUME cache' = cache, pc' = "idle", pc \in DeletePc, Records(cache[1], KeyStr[key]) = {}
      PROVE  [KV!Next]_<<Contents, Call>>
  <2>1. Call' = [active |-> FALSE]
    BY <1>1, <1>5, Zenon DEF CallKnown, OtherPc
  <2>2. \A k \in Keys : Contents'[k] = Recovered(cache[1], k)
    BY <1>5 DEF KeptInv
  <2>3. \A k \in Keys : k # key => Contents'[k] = Contents[k]
    BY <1>2, <1>5, <2>2
  <2>4. Contents'[key] = {Absent}
    BY <1>2, <1>5, <2>2, Zenon DEF Recovered
  <2> QED BY <1>2, <1>5, <2>1, <2>3, <2>4, OperationSettles
<1>6. CASE DeleteSkip
  <2>1. /\ pc = "delete" /\ pc \in DeletePc /\ cache' = cache
        /\ index[cur][KeyStr[key]] = NoEntry /\ DeleteNext
    BY <1>6, Zenon DEF DeleteSkip, DeletePc
  <2>2. index[1][KeyStr[key]].block = NullBlock
    BY <1>1, <2>1 DEF NoEntry
  <2>3. Records(cache[1], KeyStr[key]) = {index[1][KeyStr[key]].block} \ {NullBlock}
    BY <1>2, <2>1, IndexedRecords, Zenon DEF Inv
  <2>4. Records(cache[1], KeyStr[key]) = {}
    BY <2>2, <2>3, Zenon
  <2>5. pc' = "idle"
    BY <1>1, <2>1 DEF DeleteNext, NextReplica, Finish
  <2> QED BY <1>5, <2>1, <2>4, <2>5, Zenon
<1>7. CASE DeleteFlush
  <2>1. pc = "deleteFlush" /\ pc \in DeletePc /\ cache' = cache /\ DeleteNext
    BY <1>7, Zenon DEF DeleteFlush, Flush, DeletePc
  <2>2. Records(cache[1], KeyStr[key]) = {}
    BY <1>1, <1>2, <2>1, IndexedRecords, Zenon DEF Inv
  <2>3. pc' = "idle"
    BY <1>1, <2>1 DEF DeleteNext, NextReplica, Finish
  <2> QED BY <1>5, <2>1, <2>2, <2>3, Zenon
<1> QED BY <1>3, <1>4, <1>6, <1>7

(* A power loss decides what it interrupts.                                *)
LEMMA PowerLossRefines ==
  ASSUME ReplicaCount = 1, Inv, Inv', KeptInv', PowerLoss
  PROVE  KV!Next
<1>1. TypeOK /\ MediaInv /\ TypeOK' /\ CallKnown' /\ cache'[1] \in Image
  BY OneReplica, NextCallKnown DEF Inv, TypeOK
<1>2. cache' \in AfterPowerLoss /\ pc' = "idle"
  BY DEF PowerLoss, Finish
<1>3. Call' = [active |-> FALSE]
  BY <1>1, <1>2 DEF CallKnown, OtherPc
<1>4. ASSUME NEW k \in Keys PROVE \E x \in Contents[k] : Contents'[k] = {x}
  <2>1. Recovered(cache'[1], k) \subseteq Contents[k]
    BY <1>1, <1>2, ContentsAreBounded, Zenon DEF ContentsBounded
  <2>2. Contents'[k] = Recovered(cache'[1], k)
    BY <1>2 DEF KeptInv
  <2>3. \E x : Recovered(cache'[1], k) = {x}
    BY <1>1, RecoveredSingle, Zenon
  <2> QED BY <2>1, <2>2, <2>3, Zenon
<1>5. DOMAIN Contents' = Keys
  BY DEF Contents
<1> QED BY <1>3, <1>4, <1>5, Zenon DEF KV!Lose, KV!NoCall, KV!Next

(* Every step of the store is a step of the abstract store, or none.       *)
LEMMA RefineStep ==
  ASSUME ReplicaCount = 1, KeysDistinct, Inv, Inv', KeptInv, KeptInv', FlushedPutSurvives',
         NotWrapped',
         [Next]_vars
  PROVE  [KV!Next]_<<Contents, Call>>
<1>1. CASE \/ FormatBegin \/ FormatWrite \/ FormatFlush \/ Open \/ Close \/ BuildIndex
           \/ RecoverBegin \/ RecoverClean \/ RecoverErase \/ RecoverFlush
  BY <1>1, MaintenanceRefines
<1>2. CASE \/ \E k \in Keys, v \in Values : PutBegin(k, v)
           \/ PutWrite \/ PutFull \/ PutCommit \/ PutErase \/ PutEraseFlush
  BY <1>2, PutRefines
<1>3. CASE (\E k \in Keys : DeleteBegin(k)) \/ DeleteSkip \/ DeleteErase \/ DeleteFlush
  BY <1>3, DeleteRefines
<1>4. CASE PowerLoss
  BY <1>4, PowerLossRefines
<1>5. CASE UNCHANGED vars
  <2>1. cache' = cache /\ media' = media /\ op' = op /\ pc' = pc
    BY <1>5, Zenon DEF vars
  <2>2. AfterPowerLoss' = AfterPowerLoss
    BY <2>1 DEF AfterPowerLoss, Survivors, Pending
  <2>3. Contents' = Contents /\ Call' = Call
    BY <2>1, <2>2, Zenon DEF Contents, Call
  <2> QED BY <2>3, Zenon
<1> QED BY <1>1, <1>2, <1>3, <1>4, <1>5 DEF Next, Step

(* An unformatted device holds nothing, and no restart finds anything.     *)
LEMMA InitContents ==
  ASSUME ReplicaCount = 1, Init
  PROVE  KV!Init /\ KeptInv
<1>1. TypeOK /\ MediaInv /\ CallKnown /\ cache[1] \in Image
  BY InitInv, OneReplica, CallIsKnown DEF Inv
<1>2. ASSUME NEW k \in Keys
      PROVE  Contents[k] = {Absent} /\ Recovered(cache[1], k) = {Absent}
  BY <1>1, OneReplica, RawStore, BlockZero, ContentsAreBounded DEF Init, ContentsBounded, MayHold
<1>3. Contents = [k \in Keys |-> {Absent}]
  BY <1>2 DEF Contents
<1>4. Call = [active |-> FALSE]
  BY <1>1 DEF CallKnown, Init, OtherPc
<1> QED BY <1>2, <1>3, <1>4 DEF KV!Init, KV!NoCall, KeptInv

(* Steps of the store and stuttering keep that a restart finds what a scan *)
(* finds, but for the key of a pending write.                              *)
LEMMA KeptNext ==
  ASSUME ReplicaCount = 1, KeysDistinct, Inv, Inv', KeptInv, FlushedPutSurvives', NotWrapped',
         [Next]_vars
  PROVE  KeptInv'
<1>1. CASE Next
  BY <1>1, KeptStep
<1>2. CASE UNCHANGED vars
  <2>1. cache' = cache /\ media' = media /\ op' = op /\ pc' = pc
    BY <1>2 DEF vars
  <2>2. AfterPowerLoss' = AfterPowerLoss
    BY <2>1 DEF AfterPowerLoss, Survivors, Pending
  <2>3. Contents' = Contents
    BY <2>2 DEF Contents
  <2> QED BY <2>1, <2>3 DEF KeptInv
<1> QED BY <1>1, <1>2

-----------------------------------------------------------------------------
(* The invariant holds in every state of the system.                       *)
THEOREM InvAlways ==
  ASSUME RecoveryRequired, KeysDistinct
  PROVE  Spec => []Inv
BY InitInv, InvStep, PTL DEF Spec

(***************************************************************************)
(* Power loss is safe at every point of format, put, delete and recover:   *)
(* whatever subset of the unflushed block writes survives, whole or torn,  *)
(* a scan of any replica finds a legal result for every key.  For every    *)
(* number and size of replicas, number of blocks per value and generation  *)
(* width, provided clients recover after a power loss and no two keys they *)
(* use are indexed under the same string.                                  *)
(***************************************************************************)
THEOREM PowerLossTheorem ==
  ASSUME RecoveryRequired, KeysDistinct
  PROVE  Spec => []PowerLossSafe
BY InvAlways, InvPowerLossSafe, PTL

(***************************************************************************)
(* Under the same conditions get returns a legal result, from whichever    *)
(* replica it reads: the value of the last successful put, nothing after a *)
(* successful delete.                                                      *)
(***************************************************************************)
THEOREM ReadsTheorem ==
  ASSUME RecoveryRequired, KeysDistinct
  PROVE  Spec => []ReadsLegal
BY InvAlways, InvReadsLegal, PTL

(***************************************************************************)
(* Under the same conditions the result is legal also when some replicas   *)
(* cannot be read, as long as one can.                                     *)
(***************************************************************************)
THEOREM AnyReplicaTheorem ==
  ASSUME RecoveryRequired, KeysDistinct
  PROVE  Spec => []AnyReplicaSuffices
BY InvAlways, InvAnyReplica, PTL

(***************************************************************************)
(* Under the same conditions keys and iterate list exactly the keys get    *)
(* finds, also while replicas disagree.                                    *)
(***************************************************************************)
THEOREM KeysTheorem ==
  ASSUME RecoveryRequired, KeysDistinct
  PROVE  Spec => []KeysAreReadable
BY InvAlways, InvKeysAreReadable, PTL

(***************************************************************************)
(* Under the same conditions the index that put and delete update in place *)
(* is the one build_index would make from the devices.                     *)
(***************************************************************************)
THEOREM IndexTheorem ==
  ASSUME RecoveryRequired, KeysDistinct
  PROVE  Spec => []IndexIsScan
BY InvAlways, InvIndexIsScan, PTL

(***************************************************************************)
(* Under the same conditions a recovered store between operations has no   *)
(* block that is neither free nor part of a newest record.                 *)
(***************************************************************************)
THEOREM NoLeakTheorem ==
  ASSUME RecoveryRequired, KeysDistinct
  PROVE  Spec => []NoLeakedBlocks
BY InvAlways, InvNoLeakedBlocks, PTL

(* Under the same conditions every indexed record that can be read is on   *)
(* the medium, at every step.                                              *)
THEOREM IndexedAlways ==
  ASSUME RecoveryRequired, KeysDistinct
  PROVE  Spec => []IndexedInv
<1>1. Init => IndexedInv
  BY DEF Init, IndexedInv, EmptyIndex, Readable
<1>2. ASSUME Inv, IndexedInv, [Next]_vars PROVE IndexedInv'
  <2>1. CASE Next
    BY <1>2, <2>1, InvStep, IndexedStep
  <2>2. CASE UNCHANGED vars
    BY <1>2, <2>2, Zenon DEF vars, IndexedInv, Readable, Durable
  <2> QED BY <1>2, <2>1, <2>2, Zenon
<1> QED BY InvAlways, <1>1, <1>2, PTL DEF Spec

(***************************************************************************)
(* Under the same conditions no step but the deletion of its key changes a *)
(* block of a record that can be read through the index: allocation takes  *)
(* free blocks only, erasing one record never runs into another, recover   *)
(* on a live store erases nothing.                                         *)
(***************************************************************************)
THEOREM UntouchedTheorem ==
  ASSUME RecoveryRequired, KeysDistinct
  PROVE  Spec => IndexedRecordsUntouched
<1>1. ASSUME Inv, IndexedInv, [Next]_vars
      PROVE  [\A r \in Replicas, n \in IndexKey :
                /\ Readable(r, n)
                /\ \E b \in RecordBlocks(cache[r], index[r][n].block) :
                     cache'[r][b] # cache[r][b]
                => pc = "delete" /\ KeyStr[op.key] = n /\ cur = r]_vars
  BY <1>1, Spared, Zenon
<1> QED BY <1>1, InvAlways, IndexedAlways, PTL DEF Spec, IndexedRecordsUntouched

(* While clients recover, the generation of a put is the highest, unless   *)
(* it came round to 0.                                                     *)
THEOREM NewestAlways ==
  ASSUME RecoveryRequired, KeysDistinct
  PROVE  Spec => []NewestInv
<1>1. Init => NewestInv
  BY DEF Init, NewestInv
<1>2. ASSUME Inv, NewestInv, [Next]_vars PROVE NewestInv'
  <2>1. CASE Next
    BY <1>2, <2>1, InvStep, NewestStep
  <2>2. CASE UNCHANGED vars
    BY <1>2, <2>2, Zenon DEF vars, NewestInv
  <2> QED BY <1>2, <2>1, <2>2, Zenon
<1> QED BY InvAlways, <1>1, <1>2, PTL DEF Spec

(***************************************************************************)
(* For clients that recover, a put that has flushed its record on a        *)
(* replica survives there: whatever a power loss leaves of the erasure of  *)
(* the old record, the scan finds the new value and no other.  The one put *)
(* in 2^32 whose generation comes round to 0 is left out.                  *)
(***************************************************************************)
THEOREM FlushedPutTheorem ==
  ASSUME RecoveryRequired, KeysDistinct
  PROVE  Spec => []FlushedPutSurvives
BY InvAlways, IndexedAlways, NewestAlways, InvFlushedPutSurvives, PTL

(* No put has generation 0 while no generation reaches the end of its      *)
(* counter.                                                                *)
THEOREM NotWrappedAlways ==
  ASSUME RecoveryRequired, KeysDistinct, MaxGen < GenLimit
  PROVE  Spec => []NotWrapped
<1>1. Init => NotWrapped
  BY DEF Init, NotWrapped, PutPc
<1>2. ASSUME Inv, NotWrapped, [Next]_vars PROVE NotWrapped'
  BY <1>2, NotWrappedStep, Zenon DEF vars, NotWrapped
<1> QED BY InvAlways, <1>1, <1>2, PTL DEF Spec

(***************************************************************************)
(* The store on one replica implements the atomic, durable store, while no *)
(* generation reaches the end of its counter: each of its steps, a power   *)
(* loss at any point included, is a step of KVStore or changes neither what *)
(* a restart may find nor the call.  So success is reported only of what no *)
(* power loss takes back, a refused put has changed nothing, and a restart *)
(* decides an interrupted operation once and for all.                      *)
(***************************************************************************)
THEOREM Refinement ==
  ASSUME RecoveryRequired, KeysDistinct, MaxGen < GenLimit, ReplicaCount = 1
  PROVE  Spec => RefinesKV
<1>1. Init => KV!Init /\ KeptInv
  BY InitContents
<1>2. Inv /\ Inv' /\ KeptInv /\ FlushedPutSurvives' /\ NotWrapped' /\ [Next]_vars => KeptInv'
  BY KeptNext
<1>3. Inv /\ Inv' /\ KeptInv /\ KeptInv' /\ FlushedPutSurvives' /\ NotWrapped' /\ [Next]_vars =>
        [KV!Next]_<<Contents, Call>>
  BY RefineStep
<1> QED BY InvAlways, FlushedPutTheorem, NotWrappedAlways, <1>1, <1>2, <1>3, PTL
       DEF Spec, RefinesKV, KV!Spec

(* The index of a ready store leads to records of the key that is asked.   *)
LEMMA InvReadsOwnKey == ASSUME KeysDistinct, Inv PROVE ReadsOwnKey
<1> SUFFICES ASSUME Ready, NEW r \in Replicas, NEW k \in Keys, Readable(r, KeyStr[k])
             PROVE  cache[r][index[r][KeyStr[k]].block].key = k
  BY Zenon DEF ReadsOwnKey
<1> DEFINE n == KeyStr[k]
           d == index[r][n].block
<1>1. TypeOK /\ IndexInv /\ status = "ready" /\ pc = "idle" /\ n \in IndexKey
  BY DEF Inv, Ready, IndexKey
<1>2. Records(cache[r], n) = {d} \ {NullBlock}
  BY <1>1, IndexedRecords, Zenon
<1>3. d # NullBlock
  BY <1>1, IndexedEntries DEF Readable
<1>4. d \in Records(cache[r], n)
  BY <1>2, <1>3
<1>5. /\ cache[r] \in Image /\ d \in Block /\ Complete(cache[r], d)
      /\ KeyStr[cache[r][d].key] = KeyStr[k]
  BY <1>1, <1>4, BlockZero, Zenon DEF TypeOK, Records
<1> HIDE DEF d, n
<1>6. cache[r][d] \in RecordDescriptor
  BY <1>5, RecordBlocksFacts
<1>7. cache[r][d].key \in Keys
  BY <1>6 DEF RecordDescriptor
<1>8. cache[r][d].key = k
  BY <1>5, <1>7 DEF KeysDistinct
<1> QED BY <1>8, Zenon DEF d, n

(* The invariant is inductive with the faults that end the process: I/O    *)
(* errors after which the client reopens and recovers, and a kill.         *)
LEMMA FaultStep ==
  ASSUME RecoveryRequired, KeysDistinct, ReopenAfterError, FaultKinds \subseteq {"error", "kill"}
  PROVE  Inv /\ [FaultyNext]_faultVars => Inv'
<1> SUFFICES ASSUME Inv, [FaultyNext]_faultVars PROVE Inv'
  OBVIOUS
<1>1. CASE Step \/ UNCHANGED vars
  BY <1>1, InvStep DEF Next
<1>2. CASE EraseFails
  BY <1>2, EraseNeverFails
<1>3. CASE Fault
  BY <1>3, FaultInv
<1>4. "power" \notin FaultKinds
  OBVIOUS
<1> QED BY <1>1, <1>2, <1>3 DEF FaultyNext, faultVars

(***************************************************************************)
(* An error of any read, write or flush of format, put, delete, recover or *)
(* build_index, and a kill at any point, between or within their block     *)
(* writes, leave the invariant true once the process has ended: nothing    *)
(* that a later recover relies on is lost.  The block at which an          *)
(* operation stops is as it was, or torn.                                  *)
(***************************************************************************)
THEOREM FaultsInvAlways ==
  ASSUME RecoveryRequired, KeysDistinct, ReopenAfterError, FaultKinds \subseteq {"error", "kill"}
  PROVE  FaultySpec => []Inv
<1>1. FaultyInit => Inv
  BY InitInv DEF FaultyInit
<1> QED BY <1>1, FaultStep, PTL DEF FaultySpec

(***************************************************************************)
(* Reads stay legal through these faults, also where get itself fails to   *)
(* read some of the replicas: as long as it can read one, it answers what  *)
(* the completed calls say, or what a call that failed was writing.        *)
(***************************************************************************)
THEOREM FaultsReadsTheorem ==
  ASSUME RecoveryRequired, KeysDistinct, ReopenAfterError, FaultKinds \subseteq {"error", "kill"}
  PROVE  FaultySpec => []AnyReplicaSuffices
BY FaultsInvAlways, InvAnyReplica, PTL

(***************************************************************************)
(* Through these faults get says that a key is not found exactly when no   *)
(* replica it can read indexes the key.  When none of those that have the  *)
(* key can be read, that is its answer for a key that is there.            *)
(***************************************************************************)
THEOREM NotFoundTheorem ==
  ASSUME RecoveryRequired, KeysDistinct, ReopenAfterError, FaultKinds \subseteq {"error", "kill"}
  PROVE  FaultySpec => []NotFoundExactly
BY FaultsInvAlways, InvNotFound, PTL

(***************************************************************************)
(* No block is lost to a write or an erasure that stopped half done, once  *)
(* recover has run.                                                        *)
(***************************************************************************)
THEOREM FaultsNoLeakTheorem ==
  ASSUME RecoveryRequired, KeysDistinct, ReopenAfterError, FaultKinds \subseteq {"error", "kill"}
  PROVE  FaultySpec => []NoLeakedBlocks
BY FaultsInvAlways, InvNoLeakedBlocks, PTL

(* The record that get reads for a key is stored under that very key.      *)
THEOREM OwnKeyTheorem ==
  ASSUME RecoveryRequired, KeysDistinct, ReopenAfterError, FaultKinds \subseteq {"error", "kill"}
  PROVE  FaultySpec => []ReadsOwnKey
BY FaultsInvAlways, InvReadsOwnKey, PTL
=============================================================================
