------------------------------- MODULE Store -------------------------------
(***************************************************************************)
(* A store on one or more replica devices.  Operations run one at a time;  *)
(* each goes through the replicas in order and is cut here at the points   *)
(* where a power loss leaves different things behind: the writes made      *)
(* since a flush, and the flush.  The writes between two flushes are one   *)
(* step because a power loss may keep any subset of them anyway.           *)
(***************************************************************************)
EXTENDS BlockFormat

CONSTANTS
  ReplicaCount,      \* replica devices behind the store
  MaxGen,            \* bound: no put over a record of this generation
  RecoveryRequired   \* clients call recover after a power loss

ASSUME ReplicaCountAssumption == ReplicaCount \in Nat \ {0}
ASSUME MaxGenAssumption == MaxGen \in Nat
ASSUME RecoveryRequiredAssumption == RecoveryRequired \in BOOLEAN

Replicas == 1 .. ReplicaCount

VARIABLES
  cache,    \* what reading a block of a replica returns
  media,    \* what each block may hold if power is lost now
  index,    \* the in-memory index of each replica
  status,   \* "raw" until formatted, then "closed", "opened" or "ready"
  pc,       \* the step of the operation in progress, "idle" between two
  cur,      \* the replica that operation has reached
  op,       \* its arguments and what it holds in locals
  dirty,    \* power was lost and no recover has completed since
  legal     \* history: per key, the results that later reads may return

vars == <<cache, media, index, status, pc, cur, op, dirty, legal>>

NoOp == [type |-> "none"]
PutOp == [type: {"put"}, key: Keys, value: Values, generation: Generation,
          block: Block \cup {NullBlock}, old: Block \cup {NullBlock}]
DeleteOp == [type: {"delete"}, key: Keys]

PutPc == {"write", "commit", "erase", "eraseFlush"}
DeletePc == {"delete", "deleteFlush"}
OtherPc == {"idle", "format", "formatFlush", "recover", "recoverFlush"}

Ready == status = "ready" /\ pc = "idle"

-----------------------------------------------------------------------------
(***************************************************************************)
(* The device.  Written blocks are visible to reads at once but reach the  *)
(* medium for certain only with a flush: until then power loss leaves the  *)
(* block as it was, as written, or torn.  A torn block fails its checksum  *)
(* and has the first byte of the old or of the new content, one of which   *)
(* is free in every write the store makes.                                 *)
(***************************************************************************)
WriteBlocks(r, img) ==
  /\ cache' = [cache EXCEPT ![r] = img]
  /\ media' = [media EXCEPT ![r] =
                 [b \in Block |-> IF img[b] = cache[r][b]
                                    THEN media[r][b]
                                    ELSE media[r][b] \cup {img[b]} \cup Torn]]

Flush(r) ==
  /\ media' = [media EXCEPT ![r] = [b \in Block |-> {cache[r][b]}]]
  /\ UNCHANGED cache

(* The contents the devices may come back with after a power loss.         *)
Pending ==
  {x \in Replicas \X Block : media[x[1]][x[2]] # {cache[x[1]][x[2]]}}

Survivors ==
  {p \in [Pending -> UNION {media[x[1]][x[2]] : x \in Pending}] :
     \A x \in Pending : p[x] \in media[x[1]][x[2]]}

AfterPowerLoss ==
  {[r \in Replicas |-> [b \in Block |->
      IF <<r, b>> \in Pending THEN p[<<r, b>>] ELSE cache[r][b]]] : p \in Survivors}

-----------------------------------------------------------------------------
(* How an operation moves on: to the next replica, to its successful end,  *)
(* or out with an error.                                                   *)
NextReplica(step) ==
  /\ cur < ReplicaCount
  /\ cur' = cur + 1
  /\ pc' = step
  /\ UNCHANGED <<op, status, dirty, legal>>

Finish ==
  /\ cur' = 1
  /\ pc' = "idle"
  /\ op' = NoOp

Fail == Finish /\ UNCHANGED <<status, dirty, legal>>

-----------------------------------------------------------------------------
(* format: header block and flush, replica by replica.                     *)
FormatBegin ==
  /\ status = "raw" /\ pc = "idle"
  /\ pc' = "format"
  /\ UNCHANGED <<cache, media, index, status, cur, op, dirty, legal>>

FormatWrite ==
  /\ pc = "format"
  /\ WriteBlocks(cur, [cache[cur] EXCEPT ![0] = Header])
  /\ pc' = "formatFlush"
  /\ UNCHANGED <<index, status, cur, op, dirty, legal>>

FormatFlush ==
  /\ pc = "formatFlush"
  /\ Flush(cur)
  /\ \/ NextReplica("format")
     \/ /\ cur = ReplicaCount
        /\ Finish
        /\ status' = "closed"
        /\ dirty' = FALSE
        /\ UNCHANGED legal
  /\ UNCHANGED index

(* open: every replica's header must be valid; the indexes start empty.    *)
Open ==
  /\ status = "closed" /\ pc = "idle"
  /\ \A r \in Replicas : cache[r][0] = Header
  /\ status' = "opened"
  /\ index' = [r \in Replicas |-> EmptyIndex]
  /\ UNCHANGED <<cache, media, pc, cur, op, dirty, legal>>

Close ==
  /\ status \in {"opened", "ready"} /\ pc = "idle"
  /\ status' = "closed"
  /\ index' = [r \in Replicas |-> EmptyIndex]
  /\ UNCHANGED <<cache, media, pc, cur, op, dirty, legal>>

BuildIndex ==
  /\ status \in {"opened", "ready"} /\ pc = "idle"
  /\ RecoveryRequired => ~dirty
  /\ index' = [r \in Replicas |-> ScanIndex(cache[r])]
  /\ status' = "ready"
  /\ UNCHANGED <<cache, media, pc, cur, op, dirty, legal>>

-----------------------------------------------------------------------------
(* recover: erase what is in no newest record; flush where that is         *)
(* anything at all.  The indexes are left alone.                           *)
RecoverBegin ==
  /\ status \in {"opened", "ready"} /\ pc = "idle"
  /\ pc' = "recover"
  /\ UNCHANGED <<cache, media, index, status, cur, op, dirty, legal>>

RecoverNext ==
  \/ NextReplica("recover")
  \/ /\ cur = ReplicaCount
     /\ Finish
     /\ dirty' = FALSE
     /\ UNCHANGED <<status, legal>>

RecoverClean ==
  /\ pc = "recover"
  /\ GarbageBlocks(cache[cur]) = {}
  /\ RecoverNext
  /\ UNCHANGED <<cache, media, index>>

RecoverErase ==
  /\ pc = "recover"
  /\ GarbageBlocks(cache[cur]) # {}
  /\ WriteBlocks(cur, Erase(cache[cur], GarbageBlocks(cache[cur])))
  /\ pc' = "recoverFlush"
  /\ UNCHANGED <<index, status, cur, op, dirty, legal>>

RecoverFlush ==
  /\ pc = "recoverFlush"
  /\ Flush(cur)
  /\ RecoverNext
  /\ UNCHANGED index

-----------------------------------------------------------------------------
(* Mutant of PutBegin: an update gets the generation of a first record.    *)
PutBeginFirstGeneration(k, v) ==
  /\ Ready
  /\ op' = [type |-> "put", key |-> k, value |-> v, generation |-> 1,
            block |-> NullBlock, old |-> NullBlock]
  /\ pc' = "write"
  /\ UNCHANGED <<cache, media, index, status, cur, dirty, legal>>

(* put: one generation for all replicas, one above the highest indexed.    *)
PutBegin(k, v) ==
  /\ Ready
  /\ \E r \in Replicas :
       LET g == index[r][KeyStr[k]].generation
       IN  /\ \A s \in Replicas : index[s][KeyStr[k]].generation <= g
           /\ g < MaxGen
           /\ op' = [type |-> "put", key |-> k, value |-> v,
                     generation |-> (g + 1) % GenLimit,
                     block |-> NullBlock, old |-> NullBlock]
  /\ pc' = "write"
  /\ UNCHANGED <<cache, media, index, status, cur, dirty, legal>>

(* The new record goes to free blocks; the old one stays.                  *)
PutWrite ==
  /\ pc = "write"
  /\ \E f \in Allocations(cache[cur], NeededBlocks[op.value]) :
       /\ WriteBlocks(cur, WriteRecord(cache[cur], f, op.key, op.generation, op.value))
       /\ op' = [op EXCEPT !.block = f[1],
                           !.old = index[cur][KeyStr[op.key]].block]
  /\ legal' = [legal EXCEPT ![op.key] = @ \cup {op.value}]
  /\ pc' = "commit"
  /\ UNCHANGED <<index, status, cur, dirty>>

PutFull ==
  /\ pc = "write"
  /\ Allocations(cache[cur], NeededBlocks[op.value]) = {}
  /\ Fail
  /\ UNCHANGED <<cache, media, index>>

(* Mutant of PutNext: success is reported after the first replica.         *)
PutNextAtOnce ==
  /\ Finish
  /\ legal' = [legal EXCEPT ![op.key] = {op.value}]
  /\ UNCHANGED <<status, dirty>>

PutNext ==
  \/ NextReplica("write")
  \/ /\ cur = ReplicaCount
     /\ Finish
     /\ legal' = [legal EXCEPT ![op.key] = {op.value}]
     /\ UNCHANGED <<status, dirty>>

(* Mutant of PutCommit: the old record is erased without a flush between.  *)
PutCommitNoFlush ==
  /\ pc = "commit"
  /\ index' = [index EXCEPT ![cur][KeyStr[op.key]] =
                 [generation |-> op.generation, block |-> op.block]]
  /\ \/ op.old = NullBlock /\ PutNext
     \/ /\ op.old # NullBlock
        /\ pc' = "erase"
        /\ UNCHANGED <<status, cur, op, dirty, legal>>
  /\ UNCHANGED <<cache, media>>

PutCommit ==
  /\ pc = "commit"
  /\ Flush(cur)
  /\ index' = [index EXCEPT ![cur][KeyStr[op.key]] =
                 [generation |-> op.generation, block |-> op.block]]
  /\ \/ op.old = NullBlock /\ PutNext
     \/ /\ op.old # NullBlock
        /\ pc' = "erase"
        /\ UNCHANGED <<status, cur, op, dirty, legal>>

(* What a block has where a descriptor keeps its next pointer: a chunk has *)
(* payload bytes there, a header its format sequence, that is, any word.   *)
NextWords(c) == IF c.type = "descriptor" THEN {c.next} ELSE Block \cup {NullBlock}

(* Mutant of FreeRecord: the chain is left.                                *)
FreeRecordDescriptorOnly(d) ==
  CrcValid(cache[cur][d]) /\ WriteBlocks(cur, Erase(cache[cur], {d}))

(* free_record: block d of the current replica and what its next pointer   *)
(* leads to.                                                               *)
FreeRecord(d) ==
  /\ CrcValid(cache[cur][d])
  /\ \E first \in NextWords(cache[cur][d]) :
       WriteBlocks(cur, Erase(cache[cur], {d} \cup ErasedFrom(cache[cur], first, d, cur - 1)))

PutErase ==
  /\ pc = "erase"
  /\ FreeRecord(op.old)
  /\ pc' = "eraseFlush"
  /\ UNCHANGED <<index, status, cur, op, dirty, legal>>

(* Mutant of PutEraseFlush: the erasure is not flushed.                    *)
PutEraseFlushNoFlush ==
  pc = "eraseFlush" /\ PutNext /\ UNCHANGED <<cache, media, index>>

PutEraseFlush ==
  /\ pc = "eraseFlush"
  /\ Flush(cur)
  /\ PutNext
  /\ UNCHANGED index

-----------------------------------------------------------------------------
(* delete: replica by replica, those that do not index the key are passed. *)
DeleteBegin(k) ==
  /\ Ready
  /\ \E r \in Replicas : index[r][KeyStr[k]] # NoEntry
  /\ op' = [type |-> "delete", key |-> k]
  /\ pc' = "delete"
  /\ UNCHANGED <<cache, media, index, status, cur, dirty, legal>>

DeleteNext ==
  \/ NextReplica("delete")
  \/ /\ cur = ReplicaCount
     /\ Finish
     /\ legal' = [legal EXCEPT ![op.key] = {Absent}]
     /\ UNCHANGED <<status, dirty>>

(* Mutant of DeleteSkip: a replica without the key ends the deletion.      *)
DeleteSkipEnds ==
  /\ pc = "delete"
  /\ index[cur][KeyStr[op.key]] = NoEntry
  /\ Finish
  /\ legal' = [legal EXCEPT ![op.key] = {Absent}]
  /\ UNCHANGED <<cache, media, index, status, dirty>>

DeleteSkip ==
  /\ pc = "delete"
  /\ index[cur][KeyStr[op.key]] = NoEntry
  /\ DeleteNext
  /\ UNCHANGED <<cache, media, index>>

DeleteErase ==
  /\ pc = "delete"
  /\ index[cur][KeyStr[op.key]] # NoEntry
  /\ FreeRecord(index[cur][KeyStr[op.key]].block)
  /\ legal' = [legal EXCEPT ![op.key] = @ \cup {Absent}]
  /\ pc' = "deleteFlush"
  /\ UNCHANGED <<index, status, cur, op, dirty>>

(* Mutant of DeleteFlush: the key stays in the index.                      *)
DeleteFlushKeepsEntry ==
  pc = "deleteFlush" /\ Flush(cur) /\ DeleteNext /\ UNCHANGED index

DeleteFlush ==
  /\ pc = "deleteFlush"
  /\ Flush(cur)
  /\ index' = [index EXCEPT ![cur][KeyStr[op.key]] = NoEntry]
  /\ DeleteNext

-----------------------------------------------------------------------------
(* Power loss, at any point: memory is gone, the devices keep one of the   *)
(* contents they may have.                                                 *)
PowerLoss ==
  /\ cache' \in AfterPowerLoss
  /\ media' = [r \in Replicas |-> [b \in Block |-> {cache'[r][b]}]]
  /\ index' = [r \in Replicas |-> EmptyIndex]
  /\ status' = IF status = "raw" THEN "raw" ELSE "closed"
  /\ dirty' = TRUE
  /\ Finish
  /\ UNCHANGED legal

Init ==
  /\ cache = [r \in Replicas |-> [b \in Block |-> Free]]
  /\ media = [r \in Replicas |-> [b \in Block |-> {Free}]]
  /\ index = [r \in Replicas |-> EmptyIndex]
  /\ status = "raw"
  /\ pc = "idle"
  /\ cur = 1
  /\ op = NoOp
  /\ dirty = FALSE
  /\ legal = [k \in Keys |-> {Absent}]

Step ==
  \/ FormatBegin \/ FormatWrite \/ FormatFlush
  \/ Open \/ Close \/ BuildIndex
  \/ RecoverBegin \/ RecoverClean \/ RecoverErase \/ RecoverFlush
  \/ \E k \in Keys, v \in Values : PutBegin(k, v)
  \/ PutWrite \/ PutFull \/ PutCommit \/ PutErase \/ PutEraseFlush
  \/ \E k \in Keys : DeleteBegin(k)
  \/ DeleteSkip \/ DeleteErase \/ DeleteFlush

Next == Step \/ PowerLoss

Spec == Init /\ [][Next]_vars

-----------------------------------------------------------------------------
(* get: of the replicas whose indexed record can be read, the one indexed  *)
(* with the highest generation, the first on a tie.  The key stored in the *)
(* record is not looked at.                                                *)
Readable(r, n) ==
  index[r][n] # NoEntry /\ Complete(cache[r], index[r][n].block)

(* Mutant of Get: no fallback from a replica whose record is unreadable.   *)
GetNoFallback(k) ==
  LET n == KeyStr[k]
      best == {r \in Replicas : index[r][n] # NoEntry /\ \A s \in Replicas :
                 \/ index[s][n].generation < index[r][n].generation
                 \/ index[s][n].generation = index[r][n].generation /\ r <= s}
  IN  IF \E r \in best : Readable(r, n)
        THEN LET r == CHOOSE r \in best : TRUE
             IN  RecordValue(cache[r], index[r][n].block)
        ELSE Absent

(* get when only the replicas in R can be read: an error on the others is  *)
(* passed over like a record that is not complete.                         *)
GetFrom(R, k) ==
  LET n == KeyStr[k]
      best == {r \in R : Readable(r, n) /\ \A s \in R :
                 Readable(s, n) =>
                   \/ index[s][n].generation < index[r][n].generation
                   \/ index[s][n].generation = index[r][n].generation /\ r <= s}
  IN  IF best = {} THEN Absent
      ELSE LET r == CHOOSE r \in best : TRUE
           IN  RecordValue(cache[r], index[r][n].block)

Get(k) == GetFrom(Replicas, k)

(* Mutant of ListedKeys: the keys of the first replica.                    *)
KeysOfFirst == {n \in IndexKey : index[1][n] # NoEntry}

(* keys and iterate: what the index of any replica lists.                  *)
ListedKeys == {n \in IndexKey : \E r \in Replicas : index[r][n] # NoEntry}

-----------------------------------------------------------------------------
(* Types.                                                                  *)
TypeOK ==
  /\ cache \in [Replicas -> Image]
  /\ media \in [Replicas -> [Block -> SUBSET Content]]
  /\ index \in [Replicas -> [IndexKey -> Entry]]
  /\ status \in {"raw", "closed", "opened", "ready"}
  /\ \/ pc \in PutPc /\ op \in PutOp
     \/ pc \in DeletePc /\ op \in DeleteOp
     \/ pc \in OtherPc /\ op = NoOp
  /\ cur \in Replicas
  /\ dirty \in BOOLEAN
  /\ legal \in [Keys -> SUBSET Results]

(***************************************************************************)
(* Whatever a power loss at this point leaves on a replica, the scan of it *)
(* finds for every key a result that is still legal: the value of the last *)
(* successful put, nothing after a successful delete, or what an operation *)
(* cut short since then was storing.  (put_flagged, delete and recover in  *)
(* store.rs; the outcomes of power loss in docs/ARCH.md.)                  *)
(***************************************************************************)
PowerLossSafe ==
  \A disks \in AfterPowerLoss : \A r \in Replicas : \A k \in Keys :
    Recovered(disks[r], k) \subseteq legal[k]

(* get returns a legal result whenever the store is ready for operations.  *)
ReadsLegal == Ready => \A k \in Keys : Get(k) \in legal[k]

(* get returns a legal result whichever replicas fail to be read, as long  *)
(* as one of them is: no replica is behind what was acknowledged.          *)
AnyReplicaSuffices ==
  Ready => \A R \in SUBSET Replicas, k \in Keys : R # {} => GetFrom(R, k) \in legal[k]

(* get reports a key as not found when none of the replicas it can read    *)
(* indexes the key, and only then: what is indexed is complete.  It is     *)
(* also the answer when no replica that has the key can be read.           *)
NotFoundExactly ==
  Ready => \A R \in SUBSET Replicas, k \in Keys :
    GetFrom(R, k) = Absent <=> \A r \in R : index[r][KeyStr[k]] = NoEntry

(* keys and iterate list exactly the keys for which get returns a value,   *)
(* also while replicas disagree after a power loss or a failed put.        *)
KeysAreReadable ==
  Ready => ListedKeys = {KeyStr[k] : k \in {k \in Keys : Get(k) # Absent}}

(* The incrementally maintained index is the one a new scan would build.   *)
IndexIsScan ==
  Ready => \A r \in Replicas : index[r] = ScanIndex(cache[r])

(* Between operations of a recovered store every block that is not free    *)
(* belongs to the newest record of some key: put, delete and recover leak  *)
(* no block, also when they were cut short.                                *)
NoLeakedBlocks ==
  Ready /\ ~dirty =>
    \A r \in Replicas, b \in DataBlock : cache[r][b] # Free =>
      \E n \in IndexKey : \E d \in Newest(cache[r], n) : b \in RecordBlocks(cache[r], d)

(* Once the new record of a put is flushed, it is what a scan finds,       *)
(* however the erasure of the old one ends; unless the put is the one with *)
(* which the generation comes round to 0.                                  *)
FlushedPutSurvives ==
  pc \in {"erase", "eraseFlush"} /\ op.generation # 0 =>
    \A disks \in AfterPowerLoss : Recovered(disks[cur], op.key) = {op.value}

(* No step but the deletion of its key overwrites a block of a record that *)
(* is indexed: puts go to free blocks, and recover on a live store spares  *)
(* what the index points to.                                               *)
IndexedRecordsUntouched ==
  [][\A r \in Replicas, n \in IndexKey :
       /\ Readable(r, n)
       /\ \E b \in RecordBlocks(cache[r], index[r][n].block) : cache'[r][b] # cache[r][b]
       => pc = "delete" /\ KeyStr[op.key] = n /\ cur = r]_vars
=============================================================================
