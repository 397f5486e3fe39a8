----------------------------- MODULE StoreLock ------------------------------
(***************************************************************************)
(* Goroutines that share one open store of the Go package: Get, Keys and   *)
(* Iterate under the read lock, Put, Delete, BuildIndex and Recover under  *)
(* the write lock, Close under none, and Iterate's callback, which runs    *)
(* while the read lock is held and may itself call the store.  One key is  *)
(* modelled: the lock is one for all keys.  What a block holds is left to  *)
(* Store: here a replica is the set of complete records of the key on its  *)
(* device and the record its index points to.                              *)
(***************************************************************************)
EXTENDS Integers, FiniteSets

CONSTANTS
  Goroutines,    \* the goroutines that share the store
  ReplicaCount,  \* how many replicas it has
  GenLimit,      \* generations are words of this many values
  Calls,         \* the methods each goroutine calls
  CallbackCalls  \* the methods Iterate callbacks call

NoOne == "none"

ReadOps == {"get", "keys", "iterate"}
WriteOps == {"put", "delete", "buildIndex", "recover"}
Ops == ReadOps \cup WriteOps \cup {"close"}

ASSUME LockAssumption ==
  /\ ReplicaCount \in Nat \ {0}
  /\ GenLimit \in Nat \ {0, 1}
  /\ NoOne \notin Goroutines
  /\ Calls \in [Goroutines -> SUBSET Ops]
  /\ CallbackCalls \subseteq Ops

Replicas == 1..ReplicaCount

(* The value of a record is told by the goroutine that put it.            *)
Record == [generation : 0..GenLimit - 1, by : Goroutines]

NoRecord == [generation |-> 0, by |-> "none"]

VARIABLES
  disk,     \* the complete records on each replica's device
  index,    \* the record each replica's index points to
  closed,   \* whether a replica's device is closed
  writer,   \* the goroutine that has or awaits the write lock
  readers,  \* how often each goroutine holds the read lock
  pc,       \* where a goroutine is
  op,       \* the method it has called
  inside,   \* whether it called it from an Iterate callback
  cur,      \* the replica its loop is at
  rec,      \* the record it writes, or the best one it found
  old,      \* the record its update replaces
  result,   \* what its call is about to return
  failed    \* whether a method that changes the store returned an error

store == <<disk, index, closed, failed>>
lock == <<writer, readers>>
local == <<pc, op, inside, cur, rec, old, result>>
vars == <<store, lock, local>>

WaitPc == {"acquire", "parked", "drain"}
ReadPc == {"look", "collect"}
WritePc == {"write", "commit", "erase", "eraseFlush", "free", "drop", "clear", "scan",
            "recover", "recoverFlush"}

(* Where a method goes on once it has the lock.                            *)
Body(o) == CASE o = "get" -> "look"
             [] o \in {"keys", "iterate"} -> "collect"
             [] o = "put" -> "write"
             [] o = "delete" -> "free"
             [] o = "buildIndex" -> "clear"
             [] o = "recover" -> "recover"

Init ==
  /\ disk = [r \in Replicas |-> {}]
  /\ index = [r \in Replicas |-> NoRecord]
  /\ closed = [r \in Replicas |-> FALSE]
  /\ writer = NoOne
  /\ readers = [g \in Goroutines |-> 0]
  /\ pc = [g \in Goroutines |-> "idle"]
  /\ op = [g \in Goroutines |-> "none"]
  /\ inside = [g \in Goroutines |-> FALSE]
  /\ cur = [g \in Goroutines |-> 1]
  /\ rec = [g \in Goroutines |-> NoRecord]
  /\ old = [g \in Goroutines |-> NoRecord]
  /\ result = [g \in Goroutines |-> "none"]
  /\ failed = FALSE

(* The record a scan of the device indexes.                                *)
Newest(S) == IF S = {} THEN NoRecord
             ELSE CHOOSE x \in S : \A y \in S : y.generation <= x.generation

-----------------------------------------------------------------------------
(* Goroutine g calls method o, or returns to whoever called it.            *)
Call(g, o) ==
  /\ pc[g] = "idle"
  /\ pc' = [pc EXCEPT ![g] = IF o = "close" THEN "close" ELSE "acquire"]
  /\ op' = [op EXCEPT ![g] = o]
  /\ UNCHANGED <<store, lock, inside, cur, rec, old, result>>

Back(g) == IF inside[g] THEN "called" ELSE "idle"

Return(g) ==
  /\ op' = [op EXCEPT ![g] = IF inside[g] THEN "iterate" ELSE "none"]
  /\ inside' = [inside EXCEPT ![g] = FALSE]
  /\ cur' = [cur EXCEPT ![g] = 1]
  /\ rec' = [rec EXCEPT ![g] = NoRecord]
  /\ old' = [old EXCEPT ![g] = NoRecord]
  /\ result' = [result EXCEPT ![g] = "none"]

(***************************************************************************)
(* The RWMutex: a reader enters unless a writer has announced itself, and  *)
(* is parked then; a writer announces itself and waits for the readers     *)
(* that are in; when it leaves, the parked readers enter.                  *)
(***************************************************************************)
RLock(g) ==
  /\ pc[g] = "acquire" /\ op[g] \in ReadOps
  /\ \/ /\ writer = NoOne
        /\ readers' = [readers EXCEPT ![g] = @ + 1]
        /\ pc' = [pc EXCEPT ![g] = Body(op[g])]
     \/ /\ writer # NoOne
        /\ pc' = [pc EXCEPT ![g] = "parked"]
        /\ UNCHANGED readers
  /\ UNCHANGED <<store, writer, op, inside, cur, rec, old, result>>

(* Mutant: Put and Delete take a lock that does not exclude each other.    *)
SharedLock(g) ==
  /\ pc[g] = "acquire" /\ op[g] \in WriteOps
  /\ writer' = g
  /\ pc' = [pc EXCEPT ![g] = "drain"]
  /\ UNCHANGED <<store, readers, op, inside, cur, rec, old, result>>

Lock(g) ==
  /\ pc[g] = "acquire" /\ op[g] \in WriteOps
  /\ writer = NoOne
  /\ writer' = g
  /\ pc' = [pc EXCEPT ![g] = "drain"]
  /\ UNCHANGED <<store, readers, op, inside, cur, rec, old, result>>

(* Mutant: a writer does not wait for the readers that are in.             *)
NotDrained(g) ==
  /\ pc[g] = "drain"
  /\ pc' = [pc EXCEPT ![g] = Body(op[g])]
  /\ UNCHANGED <<store, lock, op, inside, cur, rec, old, result>>

Drained(g) ==
  /\ pc[g] = "drain"
  /\ \A h \in Goroutines : readers[h] = 0
  /\ pc' = [pc EXCEPT ![g] = Body(op[g])]
  /\ UNCHANGED <<store, lock, op, inside, cur, rec, old, result>>

RUnlock(g) ==
  /\ pc[g] = "release" /\ op[g] \in ReadOps
  /\ readers' = [readers EXCEPT ![g] = @ - 1]
  /\ pc' = [pc EXCEPT ![g] = Back(g)]
  /\ Return(g)
  /\ UNCHANGED <<store, writer>>

Unlock(g) ==
  /\ pc[g] = "release" /\ op[g] \in WriteOps
  /\ writer' = NoOne
  /\ readers' = [h \in Goroutines |-> IF pc[h] = "parked" THEN readers[h] + 1 ELSE readers[h]]
  /\ pc' = [h \in Goroutines |-> IF h = g THEN Back(g)
                                 ELSE IF pc[h] = "parked" THEN Body(op[h]) ELSE pc[h]]
  /\ Return(g)
  /\ UNCHANGED store

-----------------------------------------------------------------------------
(* What the steps of a method do to the goroutine.                         *)
Goto(g, where) == pc' = [pc EXCEPT ![g] = where]

Finish(g, res) == Goto(g, "release") /\ result' = [result EXCEPT ![g] = res]

(* Go on with the next replica at "where", or finish with "res".           *)
NextReplica(g, where, res) ==
  \/ /\ cur[g] < ReplicaCount
     /\ cur' = [cur EXCEPT ![g] = @ + 1]
     /\ Goto(g, where)
     /\ UNCHANGED result
  \/ /\ cur[g] = ReplicaCount
     /\ Finish(g, res)
     /\ UNCHANGED cur

(* Mutant: the error is returned without the deferred Unlock.              *)
FailsLocked(g) ==
  /\ pc[g] \in WritePc \ {"clear"}
  /\ closed[cur[g]]
  /\ pc[g] = "free" => index[cur[g]] # NoRecord
  /\ Goto(g, Back(g)) /\ Return(g)
  /\ failed' = TRUE
  /\ UNCHANGED <<disk, index, closed, lock>>

(* A method that changes the store returns the error of a closed device.   *)
DeviceFails(g) ==
  /\ pc[g] \in WritePc \ {"clear"}
  /\ closed[cur[g]]
  /\ pc[g] = "free" => index[cur[g]] # NoRecord
  /\ Finish(g, "error")
  /\ failed' = TRUE
  /\ UNCHANGED <<disk, index, closed, lock, op, inside, cur, rec, old>>

(* Mutant: a replica that cannot be read is passed over.                   *)
LookPastErrors(g) ==
  LET e == index[cur[g]]
      better == e # NoRecord /\ (rec[g] = NoRecord \/ e.generation > rec[g].generation)
      best == IF better /\ e \in disk[cur[g]] /\ ~closed[cur[g]] THEN e ELSE rec[g]
  IN  /\ pc[g] = "look"
      /\ rec' = [rec EXCEPT ![g] = best]
      /\ NextReplica(g, "look", IF best = NoRecord THEN "notFound" ELSE "found")
      /\ UNCHANGED <<store, lock, op, inside, old>>

(* Mutant: Get keeps the read lock when it returns an error.               *)
LookNoUnlock(g) ==
  LET e == index[cur[g]]
      better == e # NoRecord /\ (rec[g] = NoRecord \/ e.generation > rec[g].generation)
      best == IF better /\ e \in disk[cur[g]] THEN e ELSE rec[g]
  IN  /\ pc[g] = "look"
      /\ \/ /\ better /\ closed[cur[g]]
            /\ Goto(g, Back(g)) /\ Return(g)
         \/ /\ ~(better /\ closed[cur[g]])
            /\ rec' = [rec EXCEPT ![g] = best]
            /\ NextReplica(g, "look", IF best = NoRecord THEN "notFound" ELSE "found")
            /\ UNCHANGED <<op, inside, old>>
      /\ UNCHANGED <<store, lock>>

(* Get looks at one replica.                                               *)
Look(g) ==
  LET e == index[cur[g]]
      better == e # NoRecord /\ (rec[g] = NoRecord \/ e.generation > rec[g].generation)
      best == IF better /\ e \in disk[cur[g]] THEN e ELSE rec[g]
  IN  /\ pc[g] = "look"
      /\ \/ /\ better /\ closed[cur[g]]
            /\ Finish(g, "error")
            /\ UNCHANGED <<cur, rec>>
         \/ /\ ~(better /\ closed[cur[g]])
            /\ rec' = [rec EXCEPT ![g] = best]
            /\ NextReplica(g, "look", IF best = NoRecord THEN "notFound" ELSE "found")
      /\ UNCHANGED <<store, lock, op, inside, old>>

(* Mutant: Iterate gives the lock up before it calls back.                 *)
CollectThenUnlock(g) ==
  LET key == IF index[cur[g]] # NoRecord THEN index[cur[g]] ELSE rec[g]
  IN  /\ pc[g] = "collect"
      /\ rec' = [rec EXCEPT ![g] = key]
      /\ \/ /\ op[g] = "iterate" /\ cur[g] = ReplicaCount /\ key # NoRecord
            /\ Goto(g, "callback")
            /\ readers' = [readers EXCEPT ![g] = @ - 1]
            /\ UNCHANGED <<cur, result>>
         \/ /\ ~(op[g] = "iterate" /\ cur[g] = ReplicaCount /\ key # NoRecord)
            /\ NextReplica(g, "collect", "ok")
            /\ UNCHANGED readers
      /\ UNCHANGED <<store, writer, op, inside, old>>

(* Keys and Iterate collect the keys of one replica.                       *)
Collect(g) ==
  LET key == IF index[cur[g]] # NoRecord THEN index[cur[g]] ELSE rec[g]
  IN  /\ pc[g] = "collect"
      /\ rec' = [rec EXCEPT ![g] = key]
      /\ \/ /\ op[g] = "iterate" /\ cur[g] = ReplicaCount /\ key # NoRecord
            /\ Goto(g, "callback")
            /\ UNCHANGED <<cur, result>>
         \/ /\ ~(op[g] = "iterate" /\ cur[g] = ReplicaCount /\ key # NoRecord)
            /\ NextReplica(g, "collect", "ok")
      /\ UNCHANGED <<store, lock, op, inside, old>>

(* The callback calls the store, once and one level deep at most, or       *)
(* returns.                                                                *)
CallFromCallback(g, o) ==
  /\ pc[g] = "callback" /\ ~inside[g]
  /\ Goto(g, IF o = "close" THEN "close" ELSE "acquire")
  /\ op' = [op EXCEPT ![g] = o]
  /\ inside' = [inside EXCEPT ![g] = TRUE]
  /\ cur' = [cur EXCEPT ![g] = 1]
  /\ rec' = [rec EXCEPT ![g] = NoRecord]
  /\ UNCHANGED <<store, lock, old, result>>

CallbackReturns(g) ==
  /\ pc[g] \in {"callback", "called"}
  /\ Finish(g, "ok")
  /\ UNCHANGED <<store, lock, op, inside, cur, rec, old>>

-----------------------------------------------------------------------------
(* Mutant: Put writes the new record with the generation of the old one.   *)
PutSameGeneration(g) ==
  LET last == CHOOSE x \in {index[r] : r \in Replicas} :
                \A r \in Replicas : index[r].generation <= x.generation
      new == IF cur[g] = 1 THEN [generation |-> last.generation, by |-> g]
                           ELSE rec[g]
  IN  /\ pc[g] = "write" /\ ~closed[cur[g]]
      /\ disk' = [disk EXCEPT ![cur[g]] = @ \cup {new}]
      /\ rec' = [rec EXCEPT ![g] = new]
      /\ old' = [old EXCEPT ![g] = index[cur[g]]]
      /\ Goto(g, "commit")
      /\ UNCHANGED <<index, closed, failed, lock, op, inside, cur, result>>

(* Put: the record is written, flushed and indexed, then the old one is    *)
(* erased; the generation is fixed before the first replica.               *)
PutWrite(g) ==
  LET last == CHOOSE x \in {index[r] : r \in Replicas} :
                \A r \in Replicas : index[r].generation <= x.generation
      new == IF cur[g] = 1 THEN [generation |-> (last.generation + 1) % GenLimit, by |-> g]
                           ELSE rec[g]
  IN  /\ pc[g] = "write" /\ ~closed[cur[g]]
      /\ disk' = [disk EXCEPT ![cur[g]] = @ \cup {new}]
      /\ rec' = [rec EXCEPT ![g] = new]
      /\ old' = [old EXCEPT ![g] = index[cur[g]]]
      /\ Goto(g, "commit")
      /\ UNCHANGED <<index, closed, failed, lock, op, inside, cur, result>>

PutCommit(g) ==
  /\ pc[g] = "commit" /\ ~closed[cur[g]]
  /\ index' = [index EXCEPT ![cur[g]] = rec[g]]
  /\ \/ /\ old[g] # NoRecord
        /\ Goto(g, "erase")
        /\ UNCHANGED <<cur, result>>
     \/ /\ old[g] = NoRecord
        /\ NextReplica(g, "write", "ok")
  /\ UNCHANGED <<disk, closed, failed, lock, op, inside, rec, old>>

PutErase(g) ==
  /\ pc[g] = "erase" /\ ~closed[cur[g]]
  /\ disk' = [disk EXCEPT ![cur[g]] = @ \ {old[g]}]
  /\ Goto(g, "eraseFlush")
  /\ UNCHANGED <<index, closed, failed, lock, op, inside, cur, rec, old, result>>

PutEraseFlush(g) ==
  /\ pc[g] = "eraseFlush" /\ ~closed[cur[g]]
  /\ NextReplica(g, "write", "ok")
  /\ UNCHANGED <<store, lock, op, inside, rec, old>>

(* Delete: a replica that indexes the key erases and flushes the record,   *)
(* and drops the entry; rec is the record found, if any.                   *)
DeleteFree(g) ==
  LET e == index[cur[g]]
  IN  /\ pc[g] = "free"
      /\ \/ /\ e # NoRecord /\ ~closed[cur[g]]
            /\ disk' = [disk EXCEPT ![cur[g]] = @ \ {e}]
            /\ rec' = [rec EXCEPT ![g] = e]
            /\ Goto(g, "drop")
            /\ UNCHANGED <<cur, result>>
         \/ /\ e = NoRecord
            /\ NextReplica(g, "free", IF rec[g] = NoRecord THEN "notFound" ELSE "ok")
            /\ UNCHANGED <<disk, rec>>
      /\ UNCHANGED <<index, closed, failed, lock, op, inside, old>>

DeleteDrop(g) ==
  /\ pc[g] = "drop" /\ ~closed[cur[g]]
  /\ index' = [index EXCEPT ![cur[g]] = NoRecord]
  /\ NextReplica(g, "free", "ok")
  /\ UNCHANGED <<disk, closed, failed, lock, op, inside, rec, old>>

(* BuildIndex: a replica's index is emptied before its device is read.     *)
BuildClear(g) ==
  /\ pc[g] = "clear"
  /\ index' = [index EXCEPT ![cur[g]] = NoRecord]
  /\ Goto(g, "scan")
  /\ UNCHANGED <<disk, closed, failed, lock, op, inside, cur, rec, old, result>>

BuildScan(g) ==
  /\ pc[g] = "scan" /\ ~closed[cur[g]]
  /\ index' = [index EXCEPT ![cur[g]] = Newest(disk[cur[g]])]
  /\ NextReplica(g, "clear", "ok")
  /\ UNCHANGED <<disk, closed, failed, lock, op, inside, rec, old>>

(* Recover keeps the newest record of a replica, and flushes if there was  *)
(* anything to erase, complete records or not.                             *)
RecoverReplica(g) ==
  /\ pc[g] = "recover" /\ ~closed[cur[g]]
  /\ disk' = [disk EXCEPT ![cur[g]] = @ \cap {Newest(@)}]
  /\ \/ Goto(g, "recoverFlush") /\ UNCHANGED <<cur, result>>
     \/ disk' = disk /\ NextReplica(g, "recover", "ok")
  /\ UNCHANGED <<index, closed, failed, lock, op, inside, rec, old>>

RecoverFlush(g) ==
  /\ pc[g] = "recoverFlush" /\ ~closed[cur[g]]
  /\ NextReplica(g, "recover", "ok")
  /\ UNCHANGED <<store, lock, op, inside, rec, old>>

(* Close closes the devices one by one and takes no lock.                  *)
CloseDevice(g) ==
  /\ pc[g] = "close"
  /\ closed' = [closed EXCEPT ![cur[g]] = TRUE]
  /\ \/ /\ cur[g] < ReplicaCount
        /\ cur' = [cur EXCEPT ![g] = @ + 1]
        /\ UNCHANGED <<pc, op, inside, rec, old, result>>
     \/ /\ cur[g] = ReplicaCount
        /\ Goto(g, Back(g))
        /\ Return(g)
  /\ UNCHANGED <<disk, index, failed, lock>>

-----------------------------------------------------------------------------
Work(g) ==
  \/ RLock(g) \/ Drained(g) \/ RUnlock(g) \/ Unlock(g)
  \/ DeviceFails(g) \/ Look(g) \/ Collect(g) \/ CallbackReturns(g)
  \/ PutWrite(g) \/ PutCommit(g) \/ PutErase(g) \/ PutEraseFlush(g)
  \/ DeleteFree(g) \/ DeleteDrop(g)
  \/ BuildClear(g) \/ BuildScan(g) \/ RecoverReplica(g) \/ RecoverFlush(g)
  \/ CloseDevice(g)

Next == \E g \in Goroutines :
  \/ \E o \in Calls[g] : Call(g, o)
  \/ \E o \in CallbackCalls : CallFromCallback(g, o)
  \/ Lock(g)
  \/ Work(g)

(***************************************************************************)
(* A goroutine that can go on does, callbacks return, and the mutex that   *)
(* orders the writers starves none of them (sync.Mutex).                   *)
(***************************************************************************)
Fairness == \A g \in Goroutines : WF_vars(Work(g)) /\ SF_vars(Lock(g))

Spec == Init /\ [][Next]_vars /\ Fairness

-----------------------------------------------------------------------------
(***************************************************************************)
(* Type invariant.                                                         *)
(***************************************************************************)
TypeOK ==
  /\ disk \in [Replicas -> SUBSET Record]
  /\ index \in [Replicas -> Record \cup {NoRecord}]
  /\ closed \in [Replicas -> BOOLEAN]
  /\ writer \in Goroutines \cup {NoOne}
  /\ readers \in [Goroutines -> 0..2]
  /\ pc \in [Goroutines -> {"idle", "callback", "called", "release", "close"}
                            \cup WaitPc \cup ReadPc \cup WritePc]
  /\ op \in [Goroutines -> Ops \cup {"none"}]
  /\ inside \in [Goroutines -> BOOLEAN]
  /\ cur \in [Goroutines -> Replicas]
  /\ rec \in [Goroutines -> Record \cup {NoRecord}]
  /\ old \in [Goroutines -> Record \cup {NoRecord}]
  /\ result \in [Goroutines -> {"none", "ok", "found", "notFound", "error"}]
  /\ failed \in BOOLEAN

(***************************************************************************)
(* Get returns the record that a Get of one moment would: the best of the  *)
(* replicas' indexes, although it looks at them one after the other.       *)
(***************************************************************************)
GetIsAtomic ==
  \A g \in Goroutines : pc[g] = "release" /\ result[g] = "found" =>
    \E r \in Replicas : /\ rec[g] = index[r]
                        /\ \A s \in Replicas : index[s] \in disk[s] =>
                             index[s].generation <= rec[g].generation

(***************************************************************************)
(* Get returns ErrKeyNotFound only when no device has a record of the key, *)
(* however a Close overlaps it and although BuildIndex empties the index   *)
(* first, unless a Put, Delete, BuildIndex or Recover has failed before.   *)
(***************************************************************************)
NotFoundIsTrue ==
  \A g \in Goroutines :
    pc[g] = "release" /\ op[g] = "get" /\ result[g] = "notFound" /\ ~failed =>
      \A r \in Replicas : disk[r] = {}

(***************************************************************************)
(* Between the methods that change the store all replicas hold the same    *)
(* record and index it, and none holds an older one too, unless one of     *)
(* those methods has failed: two Puts never leave the value of one on one  *)
(* replica and that of the other on another.                               *)
(***************************************************************************)
ReplicasAgree ==
  (\A g \in Goroutines : pc[g] \notin WritePc) /\ ~failed =>
    \A r, s \in Replicas : /\ index[r] = index[s]
                           /\ disk[r] = {index[r]} \ {NoRecord}

(***************************************************************************)
(* While Iterate's callback runs, and whatever it calls, the key it was    *)
(* given stays in the index of some replica.                               *)
(***************************************************************************)
IteratedKeyStays ==
  \A g \in Goroutines : pc[g] \in {"callback", "called"} \/ inside[g] =>
    \E r \in Replicas : index[r] # NoRecord

(***************************************************************************)
(* When goroutines wait for the lock, one is running that will release it  *)
(* or is about to take it, or an Iterate callback has called a method that *)
(* waits for the goroutine that called it.                                 *)
(***************************************************************************)
SelfBlocked(g) == inside[g] /\ \/ pc[g] = "parked"
                               \/ pc[g] \in WaitPc /\ op[g] \in WriteOps

(* Goroutine g is in a method and does not have to wait.                   *)
Runs(g) ==
  \/ pc[g] \notin WaitPc \cup {"idle"}
  \/ pc[g] = "acquire" /\ (op[g] \in ReadOps \/ writer = NoOne)
  \/ pc[g] = "drain" /\ \A h \in Goroutines : readers[h] = 0

BlockedOnlyByCallback ==
  \/ \A g \in Goroutines : pc[g] \notin WaitPc
  \/ \E g \in Goroutines : SelfBlocked(g)
  \/ \E g \in Goroutines : Runs(g)

(***************************************************************************)
(* Every call returns: no reader starves a writer and no writer a reader,  *)
(* unless an Iterate callback calls a method that has to wait for it.      *)
(***************************************************************************)
CallsReturn ==
  \A g \in Goroutines :
    pc[g] # "idle" ~> pc[g] = "idle" \/ \E h \in Goroutines : SelfBlocked(h)
=============================================================================
