----------------------------- MODULE StoreFaults -----------------------------
(***************************************************************************)
(* The store on devices that also fail: a read, write or flush returns an  *)
(* error, the process is killed while the machine stays up, a block        *)
(* decays.  An error or a kill stops the operation where it stands: what   *)
(* it wrote stays written and unflushed.  Errors of the reads inside get   *)
(* change nothing and are in GetFrom.                                      *)
(***************************************************************************)
EXTENDS Store

CONSTANTS
  MaxFaults,         \* bound: faults in a behaviour
  FaultKinds,        \* which of "error", "kill", "decay" and "power" occur
  ReopenAfterError   \* clients reopen and recover after an I/O error

ASSUME MaxFaultsAssumption == MaxFaults \in Nat
ASSUME FaultKindsAssumption == FaultKinds \subseteq {"error", "kill", "decay", "power"}
ASSUME ReopenAssumption == ReopenAfterError \in BOOLEAN

VARIABLE faults      \* faults so far

faultVars == <<vars, faults>>

(* The process ends: its memory is gone.                                   *)
ProcessEnds ==
  /\ Finish
  /\ index' = [r \in Replicas |-> EmptyIndex]
  /\ status' = IF status = "raw" THEN "raw" ELSE "closed"
  /\ dirty' = TRUE

(* The error is returned to the client.                                    *)
ReturnError ==
  IF ReopenAfterError THEN ProcessEnds ELSE Finish /\ UNCHANGED <<status, dirty, index>>

(***************************************************************************)
(* The current replica holds img, unflushed, when the operation ends: from *)
(* here on only a power loss tells the medium from what is read, so where  *)
(* power is never lost the media are taken to hold what is read.           *)
(***************************************************************************)
EndsWith(img) ==
  IF "power" \in FaultKinds
    THEN WriteBlocks(cur, img)
    ELSE /\ cache' = [cache EXCEPT ![cur] = img]
         /\ media' = [r \in Replicas |-> [b \in Block |-> {cache'[r][b]}]]

(* An operation stops with img on the current replica.                     *)
Interrupted(img) ==
  /\ EndsWith(img)
  /\ \/ "error" \in FaultKinds /\ ReturnError
     \/ "kill" \in FaultKinds /\ ProcessEnds

(* The contents in which a write that does not complete leaves block b.    *)
Unwritten(b) == {cache[cur][b]} \cup Torn

(* A flush fails, or a read that comes before the first write of a step;   *)
(* or the process dies between two steps.                                  *)
StopsBetweenWrites ==
  /\ EndsWith(cache[cur])
  /\ \/ /\ "error" \in FaultKinds
        /\ pc # "idle"
        /\ pc = "delete" => index[cur][KeyStr[op.key]] # NoEntry
        /\ ReturnError
     \/ "kill" \in FaultKinds /\ ProcessEnds
  /\ UNCHANGED legal

(* A read of build_index fails at block i of replica r: the index has what *)
(* was found before it, and the client that carries on builds it again.    *)
BuildIndexFails ==
  /\ "error" \in FaultKinds
  /\ status \in {"opened", "ready"} /\ pc = "idle"
  /\ RecoveryRequired => ~dirty
  /\ EndsWith(cache[cur])
  /\ IF ReopenAfterError THEN ProcessEnds ELSE
       /\ \E r \in Replicas, i \in DataBlock :
            LET read == [b \in Block |->
                  IF b >= i /\ cache[r][b].type = "descriptor" THEN Free ELSE cache[r][b]]
            IN  index' = [s \in Replicas |-> IF s < r THEN ScanIndex(cache[s])
                                            ELSE IF s = r THEN ScanIndex(read) ELSE index[s]]
       /\ status' = "opened"
       /\ UNCHANGED <<pc, cur, op, dirty>>
  /\ UNCHANGED legal

(* The header is written in part.                                          *)
FormatStops ==
  /\ pc = "format"
  /\ \E c \in Unwritten(0) : Interrupted([cache[cur] EXCEPT ![0] = c])
  /\ UNCHANGED legal

(* write_record stops at its j-th block.                                   *)
RecordStops ==
  /\ pc = "write"
  /\ \E f \in Allocations(cache[cur], NeededBlocks[op.value]) :
       LET new == WriteRecord(cache[cur], f, op.key, op.generation, op.value)
       IN  \E j \in DOMAIN f : \E c \in Unwritten(f[j]) :
             Interrupted([b \in Block |->
               IF \E i \in DOMAIN f : f[i] = b /\ i > j THEN cache[cur][b]
               ELSE IF b = f[j] THEN c ELSE new[b]])
  /\ legal' = [legal EXCEPT ![op.key] = @ \cup {op.value}]

(* free_record on block d, with first as its next pointer, stops at block  *)
(* stop: at the descriptor, or at a block of the chain that it could not   *)
(* read or not write.  What comes before that block is erased.             *)
EraseStopsAt(d, first, stop) ==
  LET img == cache[cur]
      before == IF stop = d THEN {}
                ELSE {d} \cup ErasedFrom([img EXCEPT ![stop] = Garbage], first, d, cur - 1)
  IN  \E c \in Unwritten(stop) : Interrupted([Erase(img, before) EXCEPT ![stop] = c])

EraseStops ==
  \E d \in DataBlock :
    /\ \/ pc = "erase" /\ d = op.old
       \/ pc = "delete" /\ d = index[cur][KeyStr[op.key]].block
    /\ CrcValid(cache[cur][d])
    /\ \E first \in NextWords(cache[cur][d]) :
         \E stop \in {d} \cup ErasedFrom(cache[cur], first, d, cur - 1) :
           EraseStopsAt(d, first, stop)
    /\ legal' = IF pc = "delete" THEN [legal EXCEPT ![op.key] = @ \cup {Absent}] ELSE legal

(* recover erases its garbage from the lowest block up, and stops at j.    *)
RecoverStops ==
  /\ pc = "recover"
  /\ \E j \in GarbageBlocks(cache[cur]) : \E c \in Unwritten(j) :
       Interrupted([Erase(cache[cur], {b \in GarbageBlocks(cache[cur]) : b < j})
                      EXCEPT ![j] = c])
  /\ UNCHANGED legal

(* free_record on a block that fails its checksum, because it decayed or   *)
(* was erased by a delete that failed: the operation ends.                 *)
EraseFails ==
  /\ \/ pc = "erase" /\ ~CrcValid(cache[cur][op.old])
     \/ /\ pc = "delete"
        /\ index[cur][KeyStr[op.key]] # NoEntry
        /\ ~CrcValid(cache[cur][index[cur][KeyStr[op.key]].block])
  /\ Fail
  /\ UNCHANGED <<cache, media, index>>

(* A block of the first replica loses its content between two operations.  *)
Decay ==
  /\ pc = "idle"
  /\ \E b \in DataBlock :
       /\ cache[1][b] # Free
       /\ cache' = [cache EXCEPT ![1][b] = Garbage]
       /\ media' = [media EXCEPT ![1][b] = {Garbage}]
  /\ UNCHANGED <<index, status, pc, cur, op, dirty, legal>>

Fault ==
  \/ StopsBetweenWrites \/ BuildIndexFails
  \/ FormatStops \/ RecordStops \/ EraseStops \/ RecoverStops
  \/ "decay" \in FaultKinds /\ Decay

FaultyInit == Init /\ faults = 0

FaultyNext ==
  \/ Step /\ UNCHANGED faults
  \/ EraseFails /\ UNCHANGED faults
  \/ "power" \in FaultKinds /\ PowerLoss /\ UNCHANGED faults
  \/ faults < MaxFaults /\ faults' = faults + 1 /\ Fault

FaultySpec == FaultyInit /\ [][FaultyNext]_faultVars

-----------------------------------------------------------------------------
(* What get reads for a key is a record stored under that key: the read    *)
(* path of ARCH.md compares the stored key with the requested one.         *)
ReadsOwnKey ==
  Ready => \A r \in Replicas, k \in Keys :
    Readable(r, KeyStr[k]) => cache[r][index[r][KeyStr[k]].block].key = k

(* A value that a successful put stored is what get returns until the next *)
(* put or delete of its key, whatever failed before and however often the  *)
(* store is closed and opened since.                                       *)
SuccessfulPutIsRead ==
  Ready => \A k \in Keys, v \in Values : legal[k] = {v} => Get(k) = v

(* A key that holds a value, and is not being deleted, has a complete      *)
(* record on every replica at any point in time, however power is lost:    *)
(* what the copy-on-write order of put and recover is meant to guarantee.  *)
CompleteRecordExists ==
  \A disks \in AfterPowerLoss, r \in Replicas, k \in Keys :
    Absent \notin legal[k] => Records(disks[r], KeyStr[k]) # {}
=============================================================================
