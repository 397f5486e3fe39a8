--------------------------- MODULE StoreInvariant ---------------------------
(***************************************************************************)
(* The inductive invariant behind the safety of the store, for clients     *)
(* that recover after a power loss.  It describes every replica at every   *)
(* point of an operation: what its medium may hold, what its cache holds,  *)
(* and how the index relates to the records.                               *)
(***************************************************************************)
EXTENDS Store

(* All that was written to replica r is on its medium; a record of it is.  *)
Settled(r) == \A b \in Block : media[r][b] = {cache[r][b]}

Durable(r, d) == \A b \in RecordBlocks(cache[r], d) : media[r][b] = {cache[r][b]}

FlushPc == {"formatFlush", "commit", "eraseFlush", "deleteFlush", "recoverFlush"}

(* The records of key n on replica r, by the index and the operation in    *)
(* progress: an update adds one before it erases another, a delete erases  *)
(* the record before it drops the entry.                                   *)
ExpectedRecords(r, n) ==
  IF r = cur /\ pc \in {"commit", "erase"} /\ n = KeyStr[op.key]
    THEN {op.block, op.old} \ {NullBlock}
  ELSE IF r = cur /\ pc = "deleteFlush" /\ n = KeyStr[op.key]
    THEN {}
  ELSE {index[r][n].block} \ {NullBlock}

-----------------------------------------------------------------------------
(* A medium may hold what the cache holds; its first block never holds a   *)
(* record; a chunk and a descriptor that may meet hold parts of one value. *)
MediaInv ==
  \A r \in Replicas :
    /\ \A b \in Block : cache[r][b] \in media[r][b]
    /\ media[r][0] \subseteq {Free, Garbage, Header}
    /\ \A d, b \in Block : \A c \in media[r][d], e \in media[r][b] :
         c.type = "descriptor" /\ e.type = "chunk" /\ e.owner = d => e.payload = c.payload

(* A descriptor that may be on a medium is of a legal value, and a key     *)
(* that has to be there has a durable record.                              *)
LegalInv ==
  \A r \in Replicas :
    /\ \A d \in Block : \A c \in media[r][d] :
         c.type = "descriptor" => c.payload \in legal[c.key]
    /\ \A k \in Keys : Absent \notin legal[k] =>
         \E d \in Records(cache[r], KeyStr[k]) : Durable(r, d)

(* Where an operation can be, and that writes are pending only before the  *)
(* flush that follows them.                                                *)
ControlInv ==
  /\ status = "ready" => ~dirty
  /\ pc \in PutPc \cup DeletePc => status = "ready"
  /\ pc \in {"format", "formatFlush"} => status = "raw"
  /\ pc \in {"recover", "recoverFlush"} => status \in {"opened", "ready"}
  /\ pc = "recoverFlush" => dirty
  /\ pc = "idle" => cur = 1
  /\ \A r \in Replicas : pc \notin FlushPc \/ r # cur => Settled(r)
  /\ status = "raw" => /\ \A r \in Replicas, b \in DataBlock : media[r][b] = {Free}
                       /\ \A k \in Keys : Absent \in legal[k]

(* A store that needs no recovery, and a replica recovery is done with,    *)
(* hold complete records only, and one for each key.                       *)
TidyInv ==
  \A r \in Replicas :
    \/ ~dirty /\ status # "raw"
    \/ pc = "recover" /\ r < cur
    \/ pc = "recoverFlush" /\ r <= cur
    => Tidy(cache[r]) /\ (status # "ready" => Unique(cache[r]))

(* A ready store indexes exactly the records it holds.                     *)
IndexInv ==
  /\ \A r \in Replicas, n \in IndexKey :
       index[r][n].block = NullBlock => index[r][n] = NoEntry
  /\ status = "ready" => \A r \in Replicas, n \in IndexKey :
       /\ Records(cache[r], n) = ExpectedRecords(r, n)
       /\ index[r][n].block \in Records(cache[r], n) =>
            index[r][n].generation = cache[r][index[r][n].block].generation

(* The replicas an update or a delete has passed are done.                 *)
ProgressInv ==
  /\ pc \in PutPc => \A r \in Replicas : r < cur =>
       /\ Records(cache[r], KeyStr[op.key]) # {}
       /\ \A d \in Records(cache[r], KeyStr[op.key]) : cache[r][d].payload = op.value
  /\ pc \in {"commit", "erase", "eraseFlush"} =>
       /\ op.block \in Records(cache[cur], KeyStr[op.key])
       /\ cache[cur][op.block].payload = op.value
       /\ cache[cur][op.block].generation = op.generation
  /\ pc \in {"commit", "erase"} => op.old # op.block
  /\ pc = "erase" => op.old # NullBlock
  /\ pc \in {"erase", "eraseFlush"} => index[cur][KeyStr[op.key]].block = op.block
  /\ pc \in DeletePc => \A r \in Replicas : r < cur => Records(cache[r], KeyStr[op.key]) = {}

(***************************************************************************)
(* At every step of format, open, build_index, recover, put, delete and    *)
(* power loss, all of the above.                                           *)
(***************************************************************************)
Inv == TypeOK /\ MediaInv /\ LegalInv /\ ControlInv /\ TidyInv /\ IndexInv /\ ProgressInv

-----------------------------------------------------------------------------
(* Only a ready store indexes anything, and the indexed records it can     *)
(* read are on the medium.                                                 *)
IndexedInv ==
  /\ status # "ready" => \A r \in Replicas, n \in IndexKey : index[r][n] = NoEntry
  /\ \A r \in Replicas, n \in IndexKey :
       Readable(r, n) => Durable(r, index[r][n].block)

(* The generation of a put, unless it is the one that comes round to 0, is *)
(* above what the replicas it has not reached index; on the replica it is  *)
(* at, once the new record is flushed, above whatever else the medium may  *)
(* hold for the key.                                                       *)
NewestInv ==
  /\ pc \in {"write", "commit"} /\ op.generation # 0 => \A r \in Replicas : r >= cur =>
       index[r][KeyStr[op.key]].generation < op.generation
  /\ pc = "commit" => op.old = index[cur][KeyStr[op.key]].block
  /\ pc \in {"erase", "eraseFlush"} /\ op.generation # 0 => \A r \in Replicas : r > cur =>
       index[r][KeyStr[op.key]].generation < op.generation
  /\ pc \in {"erase", "eraseFlush"} /\ op.generation # 0 =>
       \A d \in Block : \A c \in media[cur][d] :
         c.type = "descriptor" /\ KeyStr[c.key] = KeyStr[op.key] /\ d # op.block =>
           c.generation < op.generation

(* No put under way has a generation that came round to 0.                 *)
NotWrapped == pc \in PutPc => op.generation # 0
=============================================================================
