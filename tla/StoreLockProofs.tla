-------------------------- MODULE StoreLockProofs ---------------------------
(***************************************************************************)
(* Goroutines that share a store, however many and whatever they call,     *)
(* see and leave the replicas as if each method ran alone.                 *)
(***************************************************************************)
EXTENDS StoreLockInvariant, WellFoundedInduction, TLAPS

(* No record is taken for the absence of one.                              *)
LEMMA RecordFacts == NoRecord \notin Record /\ NoRecord.generation = 0 /\ 1 \in Replicas
BY LockAssumption DEF NoRecord, Record, NoOne, Replicas

(* Some of several records has the highest generation.                     *)
LEMMA HighestGeneration ==
  ASSUME NEW S, S \subseteq Record \cup {NoRecord}, S # {}
  PROVE  \E x \in S : \A y \in S : y.generation <= x.generation
<1> DEFINE T == {GenLimit - y.generation : y \in S}
<1>1. \A y \in S : y.generation \in 0..GenLimit - 1
  BY RecordFacts, LockAssumption DEF Record
<1>2. T \subseteq Nat /\ T # {}
  BY <1>1, LockAssumption
<1>3. PICK t \in T : \A u \in T : ~ (<<u, t>> \in OpToRel(<, Nat))
  BY <1>2, NatLessThanWellFounded, WFMin
<1>4. \A u \in T : ~ (u < t)
  BY <1>2, <1>3, Zenon DEF OpToRel
<1>5. PICK x \in S : t = GenLimit - x.generation
  BY <1>3
<1>6. ASSUME NEW y \in S PROVE y.generation <= x.generation
  <2>1. ~ (GenLimit - y.generation < GenLimit - x.generation)
    BY <1>4, <1>5
  <2> QED BY <1>1, <2>1, LockAssumption
<1> QED BY <1>6

(* A scan indexes a record of the device, the only one if there is one.    *)
LEMMA NewestFacts ==
  ASSUME NEW S \in SUBSET Record
  PROVE  /\ Newest(S) \in Record \cup {NoRecord}
         /\ \A x \in Record \cup {NoRecord} : S = {x} \ {NoRecord} => Newest(S) = x
<1>1. CASE S = {}
  BY DEF Newest
<1>2. CASE S # {}
  BY DEF Newest
<1> QED BY <1>1, <1>2

(* The generation Put goes on from is that of a replica's record.          *)
LEMMA LastFacts ==
  ASSUME TypeOK
  PROVE  LET last == CHOOSE x \in {index[r] : r \in Replicas} :
                       \A r \in Replicas : index[r].generation <= x.generation
         IN  \E r \in Replicas : last = index[r]
<1> DEFINE S == {index[r] : r \in Replicas}
<1>1. S \subseteq Record \cup {NoRecord} /\ S # {}
  BY RecordFacts DEF TypeOK
<1>2. PICK x \in S : \A y \in S : y.generation <= x.generation
  BY <1>1, HighestGeneration, Zenon
<1>3. \A r \in Replicas : index[r].generation <= x.generation
  BY <1>2
<1> QED OBVIOUS

(* Its successor, which wraps, is a generation, and another one.           *)
LEMMA NextGeneration ==
  ASSUME NEW x \in Record \cup {NoRecord}
  PROVE  (x.generation + 1) % GenLimit \in (0..GenLimit - 1) \ {x.generation}
<1>1. x.generation \in 0..GenLimit - 1
  BY RecordFacts, LockAssumption DEF Record
<1>2. CASE x.generation + 1 < GenLimit
  BY <1>1, LockAssumption
<1>3. CASE x.generation + 1 = GenLimit
  BY <1>1, LockAssumption
<1> QED BY <1>1, LockAssumption

(* What Put writes is a record.                                            *)
LEMMA PutRecordType ==
  ASSUME TypeOK, NEW g \in Goroutines, PutWrite(g), LockAt(g)
  PROVE  rec'[g] \in Record /\ disk' = [disk EXCEPT ![cur[g]] = @ \cup {rec'[g]}]
<1> DEFINE last == CHOOSE x \in {index[r] : r \in Replicas} :
                     \A r \in Replicas : index[r].generation <= x.generation
           next == (last.generation + 1) % GenLimit
<1>1. PICK r \in Replicas : last = index[r]
  BY LastFacts
<1>2. index[r] \in Record \cup {NoRecord}
  BY DEF TypeOK
<1>3. next \in 0..GenLimit - 1
  BY <1>1, <1>2, NextGeneration, Zenon
<1> HIDE DEF next
<1>4. rec'[g] = IF cur[g] = 1 THEN [generation |-> next, by |-> g] ELSE rec[g]
  BY Zenon DEF PutWrite, TypeOK, next
<1>5. cur[g] = 1 => rec'[g] \in Record
  BY <1>3, <1>4 DEF Record
<1>6. cur[g] # 1 => rec'[g] \in Record
  BY DEF LockAt, PutWrite, TypeOK, Replicas
<1> QED BY <1>5, <1>6, Zenon DEF PutWrite, TypeOK

(* A goroutine that writes is alone: no other writes, none reads, and no   *)
(* Iterate is under way.                                                   *)
LEMMA WriterAlone ==
  ASSUME TypeOK, LockInv, NEW g \in Goroutines, Writing(g)
  PROVE  /\ writer = g
         /\ \A h \in Goroutines : /\ ~Reading(h) /\ ~inside[h]
                                  /\ h # g => ~Writing(h) /\ pc[h] # "drain"
<1>1. writer = g /\ \A h \in Goroutines : readers[h] = 0
  BY DEF LockInv, LockAt
<1>2. \A h \in Goroutines : ~Reading(h) /\ ~inside[h]
  BY DEF LockInv, LockAt
<1>3. \A h \in Goroutines : h # g => ~Writing(h) /\ pc[h] # "drain"
  BY DEF LockInv, LockAt
<1> QED BY <1>1, <1>2, <1>3

(* A step that leaves records and indexes alone, and every goroutine that  *)
(* writes where it is, keeps what is known of the replicas.                *)
LEMMA DataFrame ==
  ASSUME DataInv, UNCHANGED <<disk, index, failed>>,
         \A h \in Goroutines : pc'[h] \in WritePc \/ pc[h] \in WritePc =>
           /\ pc'[h] = pc[h] /\ cur'[h] = cur[h]
           /\ rec'[h] = rec[h] /\ old'[h] = old[h]
  PROVE  DataInv'
<1> SUFFICES ASSUME ~failed PROVE DataInv!2'
  BY DEF DataInv
<1>1. ASSUME NEW g \in Goroutines, pc'[g] \in WritePc PROVE DataAt(g)'
  <2>1. DataAt(g) /\ pc'[g] = pc[g] /\ cur'[g] = cur[g] /\ rec'[g] = rec[g] /\ old'[g] = old[g]
    BY <1>1 DEF DataInv
  <2>2. \A r, x : Holds(r, x)' <=> Holds(r, x)
    BY Zenon DEF Holds
  <2>3. \A x, y : Halfway(g, x, y)' <=> Halfway(g, x, y)
    BY <2>1, <2>2, Zenon DEF Halfway
  <2> QED BY <2>1, <2>2, <2>3, Zenon DEF DataAt
<1>2. ASSUME \A g \in Goroutines : pc'[g] \notin WritePc
      PROVE  \E x \in Record \cup {NoRecord} : \A r \in Replicas : Holds(r, x)'
  BY <1>2, Zenon DEF DataInv, Holds
<1> QED BY <1>1, <1>2

(* A step of g that leaves records and indexes alone keeps what is known   *)
(* of the goroutines it does not move.                                     *)
LEMMA ReadFrame ==
  ASSUME ReadInv, UNCHANGED <<disk, index>>, NEW h \in Goroutines,
         pc'[h] = pc[h], op'[h] = op[h], cur'[h] = cur[h], rec'[h] = rec[h],
         result'[h] = result[h], inside'[h] = inside[h]
  PROVE  ReadAt(h)'
BY DEF ReadInv, ReadAt, Best

(* While a goroutine writes, what was known of readers stays true, for     *)
(* there are none.                                                         *)
LEMMA ReadAlone ==
  ASSUME TypeOK, LockInv, NEW g \in Goroutines, pc[g] \in WritePc,
         pc' = [pc EXCEPT ![g] = pc'[g]], UNCHANGED <<op, inside>>,
         pc'[g] \in WritePc \/ (pc'[g] = "release" /\ result'[g] # "found" /\ op[g] # "get")
  PROVE  ReadInv'
<1> SUFFICES ASSUME NEW h \in Goroutines PROVE ReadAt(h)'
  BY DEF ReadInv
<1>1. Writing(g)
  BY DEF Writing
<1>2. /\ ~inside[h] /\ ~Reading(h)
      /\ h # g => ~Writing(h) /\ pc[h] # "drain"
  BY <1>1, WriterAlone
<1>3. CASE h = g
  BY <1>2, <1>3, Zenon DEF ReadAt, WritePc
<1>4. CASE h # g
  BY <1>4 DEF TypeOK, Reading, Writing, LockInv, LockAt, OpAt, ReadAt, ReadPc
<1> QED BY <1>3, <1>4

-----------------------------------------------------------------------------
(* The steps within a method that change neither the lock nor which method *)
(* it is.                                                                  *)
BodyStep(g) ==
  \/ DeviceFails(g) \/ Look(g) \/ Collect(g) \/ CallbackReturns(g)
  \/ PutWrite(g) \/ PutCommit(g) \/ PutErase(g) \/ PutEraseFlush(g)
  \/ DeleteFree(g) \/ DeleteDrop(g)
  \/ BuildClear(g) \/ BuildScan(g) \/ RecoverReplica(g) \/ RecoverFlush(g)

(* Where such a step takes a goroutine.                                    *)
LEMMA BodyMoves ==
  ASSUME TypeOK, LockInv, NEW g \in Goroutines, BodyStep(g)
  PROVE  /\ pc' = [pc EXCEPT ![g] = pc'[g]]
         /\ UNCHANGED <<lock, op, inside>>
         /\ \/ /\ pc[g] = "look" /\ pc'[g] \in {"look", "release"}
            \/ /\ pc[g] = "collect" /\ pc'[g] \in {"collect", "release", "callback"}
               /\ pc'[g] = "callback" => op[g] = "iterate"
            \/ /\ pc[g] \in {"callback", "called"} /\ pc'[g] = "release"
            \/ /\ pc[g] \in {"write", "commit", "erase", "eraseFlush"}
               /\ pc'[g] \in {"write", "commit", "erase", "eraseFlush", "release"}
            \/ pc[g] \in {"free", "drop"} /\ pc'[g] \in {"free", "drop", "release"}
            \/ pc[g] \in {"clear", "scan"} /\ pc'[g] \in {"clear", "scan", "release"}
            \/ /\ pc[g] \in {"recover", "recoverFlush"}
               /\ pc'[g] \in {"recover", "recoverFlush", "release"}
<1> USE DEF Goto, Finish, NextReplica, lock, TypeOK
<1>1. CASE DeviceFails(g)
  BY <1>1, Zenon DEF DeviceFails, WritePc
<1>2. CASE Look(g)
  BY <1>2, Zenon DEF Look
<1>3. CASE Collect(g)
  BY <1>3, Zenon DEF Collect
<1>4. CASE CallbackReturns(g)
  BY <1>4, Zenon DEF CallbackReturns
<1>5. CASE PutWrite(g) \/ PutCommit(g) \/ PutErase(g) \/ PutEraseFlush(g)
  BY <1>5, Zenon DEF PutWrite, PutCommit, PutErase, PutEraseFlush
<1>6. CASE DeleteFree(g) \/ DeleteDrop(g)
  BY <1>6, Zenon DEF DeleteFree, DeleteDrop
<1>7. CASE BuildClear(g) \/ BuildScan(g) \/ RecoverReplica(g) \/ RecoverFlush(g)
  BY <1>7, Zenon DEF BuildClear, BuildScan, RecoverReplica, RecoverFlush
<1> QED BY <1>1, <1>2, <1>3, <1>4, <1>5, <1>6, <1>7, Zenon DEF BodyStep

(* A step within a method keeps the lock as it is held.                    *)
LEMMA BodyLock ==
  ASSUME TypeOK, LockInv, NEW g \in Goroutines, BodyStep(g)
  PROVE  LockInv'
<1> SUFFICES ASSUME NEW h \in Goroutines PROVE LockAt(h)'
  BY DEF LockInv
<1>1. /\ pc' = [pc EXCEPT ![g] = pc'[g]] /\ UNCHANGED <<lock, op, inside>>
      /\ LockAt(g) /\ LockAt(h)
  BY BodyMoves, Zenon DEF LockInv
<1>2. CASE h # g
  <2>1. pc'[h] = pc[h] /\ op'[h] = op[h] /\ inside'[h] = inside[h]
    BY <1>1, <1>2 DEF TypeOK
  <2>2. cur'[h] = cur[h] /\ rec'[h] = rec[h]
    BY <1>2, Zenon DEF BodyStep, DeviceFails, Look, Collect, CallbackReturns, PutWrite, PutCommit,
       PutErase, PutEraseFlush, DeleteFree, DeleteDrop, BuildClear, BuildScan, RecoverReplica,
       RecoverFlush, NextReplica, TypeOK
  <2> QED BY <1>1, <2>1, <2>2, Zenon DEF LockAt, Reading, Writing, lock
<1>3. CASE h = g
  <2>1. op[g] \in OpAt(pc'[g]) /\ pc'[g] \notin WaitPc \cup {"idle", "called"}
    BY <1>1, BodyMoves, Zenon DEF LockAt, OpAt, WaitPc, ReadOps, WriteOps
  <2>2. (Reading(g)' <=> Reading(g)) /\ (Writing(g)' <=> Writing(g)) /\ pc[g] # "drain"
    BY <1>1, BodyMoves DEF LockAt, OpAt, Reading, Writing, ReadPc, WritePc, ReadOps, WriteOps
  <2>3. pc'[g] # "drain" /\ pc'[g] # "parked"
    BY <2>1 DEF WaitPc
  <2>4. pc'[g] \in {"commit", "erase", "eraseFlush"} \/ (pc'[g] = "write" /\ cur'[g] > 1) =>
          rec'[g] \in Record
    <3>1. CASE PutWrite(g)
      BY <1>1, <3>1, PutRecordType, Zenon
    <3>2. CASE PutCommit(g) \/ PutErase(g) \/ PutEraseFlush(g)
      BY <1>1, <3>2, Zenon DEF LockAt, PutCommit, PutErase, PutEraseFlush
    <3>3. CASE pc[g] \notin {"write", "commit", "erase", "eraseFlush"}
      BY <3>3, BodyMoves, Zenon
    <3>4. CASE DeviceFails(g)
      BY <3>4, Zenon DEF DeviceFails, Finish, Goto, TypeOK
    <3> QED BY <3>1, <3>2, <3>3, <3>4, Zenon DEF BodyStep, Look, Collect, CallbackReturns,
              DeleteFree, DeleteDrop, BuildClear, BuildScan, RecoverReplica, RecoverFlush
  <2> QED BY <1>1, <1>3, <2>1, <2>2, <2>3, <2>4, Zenon DEF LockAt, lock
<1> QED BY <1>2, <1>3

-----------------------------------------------------------------------------
(* The steps that call a method, take the lock or give it up, or close a   *)
(* device.                                                                 *)

(* A goroutine a step does not move stands to the lock as it did, if the   *)
(* step leaves it alone among the holders when it writes.                  *)
LEMMA LockFrame ==
  ASSUME NEW h \in Goroutines, LockAt(h),
         pc'[h] = pc[h], op'[h] = op[h], inside'[h] = inside[h], cur'[h] = cur[h],
         rec'[h] = rec[h], readers'[h] = readers[h], writer' = writer,
         Writing(h) => \A k \in Goroutines : readers'[k] = 0
  PROVE  LockAt(h)'
BY Zenon DEF LockAt, Reading, Writing

(* A call, and the first step of taking the write lock, keep the lock as   *)
(* it is held.                                                             *)
LEMMA CallLock ==
  ASSUME TypeOK, LockInv, NEW g \in Goroutines,
         \/ \E o \in Ops : Call(g, o) \/ CallFromCallback(g, o)
         \/ Lock(g)
         \/ Drained(g)
         \/ CloseDevice(g)
  PROVE  LockInv'
<1> SUFFICES ASSUME NEW h \in Goroutines PROVE LockAt(h)'
  BY DEF LockInv
<1>0. LockAt(g) /\ LockAt(h) /\ g # NoOne /\ h # NoOne
  BY LockAssumption DEF LockInv
<1> USE DEF TypeOK, LockAt, lock, Reading, Writing, OpAt
<1>1. CASE \E o \in Ops : Call(g, o)
  <2>1. CASE h # g
    <3>1. /\ pc'[h] = pc[h] /\ op'[h] = op[h] /\ inside'[h] = inside[h] /\ cur'[h] = cur[h]
          /\ rec'[h] = rec[h] /\ readers'[h] = readers[h] /\ writer' = writer
          /\ \A k \in Goroutines : readers'[k] = readers[k]
      BY <1>1, <2>1, Zenon DEF Call
    <3>2. Writing(h) => \A k \in Goroutines : readers'[k] = 0
      BY <1>0, <3>1, Zenon
    <3> QED BY <1>0, <3>1, <3>2, LockFrame, Zenon
  <2>2. CASE h = g
    <3>1. /\ pc[g] = "idle" /\ ~inside'[g] /\ ~inside[g] /\ readers'[g] = readers[g]
          /\ cur'[g] = 1 /\ rec'[g] = NoRecord /\ writer' = writer
          /\ \/ pc'[g] = "close" /\ op'[g] = "close"
             \/ pc'[g] = "acquire" /\ op'[g] \in ReadOps \cup WriteOps
      BY <1>0, <1>1, Zenon DEF Call, Ops
    <3>2. ~Reading(g) /\ ~Writing(g) /\ writer # g
      BY <1>0, <3>1, Zenon DEF ReadPc, WritePc
    <3>3. /\ ~Reading(g)' /\ ~Writing(g)'
          /\ pc'[g] \notin {"commit", "erase", "eraseFlush", "write", "parked",
                            "drain", "idle", "called"}
      BY <3>1, Zenon DEF ReadPc, WritePc
    <3>4. op'[g] \in OpAt(pc'[g])
      BY <3>1, Zenon
    <3> QED BY <1>0, <2>2, <3>1, <3>2, <3>3, <3>4, Zenon
  <2> QED BY <2>1, <2>2, Zenon
<1>2. CASE \E o \in Ops : CallFromCallback(g, o)
  <2>1. CASE h # g
    <3>1. /\ pc'[h] = pc[h] /\ op'[h] = op[h] /\ inside'[h] = inside[h] /\ cur'[h] = cur[h]
          /\ rec'[h] = rec[h] /\ readers'[h] = readers[h] /\ writer' = writer
          /\ \A k \in Goroutines : readers'[k] = readers[k]
      BY <1>2, <2>1, Zenon DEF CallFromCallback, Goto
    <3>2. Writing(h) => \A k \in Goroutines : readers'[k] = 0
      BY <1>0, <3>1, Zenon
    <3> QED BY <1>0, <3>1, <3>2, LockFrame, Zenon
  <2>2. CASE h = g
    <3>1. /\ pc[g] = "callback" /\ ~inside[g] /\ inside'[g] /\ readers'[g] = readers[g]
          /\ cur'[g] = 1 /\ rec'[g] = NoRecord /\ writer' = writer
          /\ \/ pc'[g] = "close" /\ op'[g] = "close"
             \/ pc'[g] = "acquire" /\ op'[g] \in ReadOps \cup WriteOps
      BY <1>2, Zenon DEF CallFromCallback, Goto, Ops
    <3>2. readers[g] = 1 + 0 /\ writer # g
      BY <1>0, <3>1, Zenon DEF WritePc
    <3>3. readers'[g] = 0 + 1
      BY <3>1, <3>2
    <3>4. /\ ~Reading(g)' /\ ~Writing(g)'
          /\ pc'[g] \notin {"commit", "erase", "eraseFlush", "write", "parked",
                            "drain", "idle", "called"}
      BY <3>1, Zenon DEF ReadPc, WritePc
    <3>5. op'[g] \in OpAt(pc'[g])
      BY <3>1, Zenon
    <3> QED BY <2>2, <3>1, <3>2, <3>3, <3>4, <3>5, Zenon
  <2> QED BY <2>1, <2>2, Zenon
<1>3. CASE Lock(g)
  BY <1>0, <1>3 DEF Lock, WaitPc, ReadPc, WritePc
<1>4. CASE Drained(g)
  <2>1. writer = g /\ \A k \in Goroutines : readers'[k] = 0
    BY <1>0, <1>4, Zenon DEF Drained
  <2>2. CASE h = g
    <3>1. /\ pc'[g] = Body(op[g]) /\ op'[g] = op[g] /\ inside'[g] = inside[g]
          /\ cur'[g] = 1 /\ op[g] \in WriteOps
      BY <1>0, <1>4, Zenon DEF Drained, WaitPc
    <3>2. /\ pc'[g] \in WritePc \ {"commit", "erase", "eraseFlush"} /\ op'[g] \in OpAt(pc'[g])
      BY <3>1, Zenon DEF Body, WriteOps, WritePc
    <3>3. pc'[g] \notin WaitPc \cup ReadPc \cup {"idle", "callback", "called", "release", "drain"}
      BY <3>2, Zenon DEF WritePc, ReadPc, WaitPc
    <3>4. ~Reading(g) /\ readers'[g] = readers[g] /\ writer' = g
      BY <1>4, <2>1, Zenon DEF Drained, ReadPc
    <3>5. ~inside'[g]
      BY <1>0, <2>1, <3>1, <3>4
    <3>6. /\ ~Reading(g)' /\ Writing(g)'
          /\ ~(cur'[g] > 1)
      BY <3>1, <3>2, <3>3
    <3>7. readers'[g] = (IF Reading(g)' THEN 1 ELSE 0) + (IF inside'[g] THEN 1 ELSE 0)
      BY <2>1, <3>3, <3>5
    <3>8. pc'[g] # "parked"
      BY <3>3 DEF WaitPc
    <3> QED BY <2>1, <2>2, <3>2, <3>3, <3>4, <3>6, <3>7, <3>8, Zenon
  <2>3. CASE h # g
    BY <1>0, <1>4, <2>1, <2>3, Zenon DEF Drained
  <2> QED BY <2>2, <2>3, Zenon
<1>5. CASE CloseDevice(g)
  <2>1. CASE h # g
    <3>1. /\ pc'[h] = pc[h] /\ op'[h] = op[h] /\ inside'[h] = inside[h] /\ cur'[h] = cur[h]
          /\ rec'[h] = rec[h] /\ readers'[h] = readers[h] /\ writer' = writer
          /\ \A k \in Goroutines : readers'[k] = readers[k]
      BY <1>5, <2>1, Zenon DEF CloseDevice, Goto, Return
    <3>2. Writing(h) => \A k \in Goroutines : readers'[k] = 0
      BY <1>0, <3>1, Zenon
    <3> QED BY <1>0, <3>1, <3>2, LockFrame, Zenon
  <2>2. CASE h = g
    <3>1. /\ pc[g] = "close" /\ readers'[g] = readers[g] /\ writer' = writer /\ ~Reading(g)
          /\ writer # g
      BY <1>0, <1>5, Zenon DEF CloseDevice, ReadPc, WritePc
    <3>2. CASE UNCHANGED <<pc, op, inside, rec, old, result>>
      BY <1>0, <2>2, <3>1, <3>2, Zenon DEF ReadPc, WritePc, WaitPc
    <3>3. CASE Goto(g, Back(g)) /\ Return(g)
      <4>1. /\ pc'[g] = (IF inside[g] THEN "called" ELSE "idle")
            /\ op'[g] = (IF inside[g] THEN "iterate" ELSE "none")
            /\ ~inside'[g] /\ cur'[g] = 1 /\ rec'[g] = NoRecord
        BY <3>3, Zenon DEF Goto, Return, Back
      <4>2. readers'[g] = (IF inside[g] THEN 1 ELSE 0) + 0
        BY <1>0, <3>1
      <4>3. (Reading(g)' <=> inside[g]) /\ ~Writing(g)'
        BY <4>1, Zenon DEF ReadPc, WritePc
      <4>4. /\ pc'[g] \notin {"commit", "erase", "eraseFlush", "write", "parked", "drain"}
            /\ op'[g] \in OpAt(pc'[g])
        BY <4>1, Zenon
      <4> QED BY <2>2, <3>1, <4>1, <4>2, <4>3, <4>4, Zenon
    <3> QED BY <1>5, <3>2, <3>3, Zenon DEF CloseDevice
  <2> QED BY <2>1, <2>2, Zenon
<1> QED BY <1>1, <1>2, <1>3, <1>4, <1>5, Zenon

(* So do taking and giving up the read lock, and giving up the write lock. *)
LEMMA UnlockLock ==
  ASSUME TypeOK, LockInv, NEW g \in Goroutines, RLock(g) \/ RUnlock(g) \/ Unlock(g)
  PROVE  LockInv'
<1> SUFFICES ASSUME NEW h \in Goroutines PROVE LockAt(h)'
  BY DEF LockInv
<1>0. LockAt(g) /\ LockAt(h) /\ g # NoOne /\ h # NoOne
  BY LockAssumption DEF LockInv
<1> USE DEF TypeOK, LockAt, Reading, Writing, OpAt
<1>1. CASE RLock(g)
  <2>1. CASE h # g
    BY <1>0, <1>1, <2>1, Zenon DEF RLock
  <2>2. CASE h = g /\ writer # NoOne
    <3>1. /\ pc[g] = "acquire" /\ pc'[g] = "parked" /\ op'[g] = op[g] /\ op[g] \in ReadOps
          /\ inside'[g] = inside[g] /\ cur'[g] = cur[g] /\ rec'[g] = rec[g]
          /\ readers' = readers /\ writer' = writer
      BY <1>1, <2>2, Zenon DEF RLock
    <3>2. ~Reading(g) /\ ~Writing(g) /\ ~Reading(g)' /\ ~Writing(g)'
      BY <3>1, Zenon DEF ReadPc, WritePc
    <3>3. op'[g] \in OpAt(pc'[g]) /\ cur[g] = 1 /\ rec[g] = NoRecord /\ writer # g
      BY <1>0, <3>1, <3>2, Zenon DEF WaitPc
    <3> QED BY <1>0, <2>2, <3>1, <3>2, <3>3, Zenon
  <2>3. CASE h = g /\ writer = NoOne
    <3>1. /\ readers'[g] = readers[g] + 1 /\ pc'[g] \in {"look", "collect"}
          /\ op'[g] = op[g] /\ op[g] \in OpAt(pc'[g]) /\ inside'[g] = inside[g]
          /\ writer' = NoOne /\ ~Reading(g) /\ ~Writing(g)'
      BY <1>1, <2>3, Zenon DEF RLock, Body, ReadOps, ReadPc, WritePc
    <3>2. readers[g] = 0 + (IF inside[g] THEN 1 ELSE 0)
      BY <1>0, <3>1, Zenon
    <3>3. readers'[g] = 1 + (IF inside[g] THEN 1 ELSE 0)
      BY <3>1, <3>2
    <3>4. /\ Reading(g)'
          /\ pc'[g] \notin {"commit", "erase", "eraseFlush", "write", "parked",
                            "drain", "idle", "called"}
      BY <3>1, Zenon DEF ReadPc
    <3> QED BY <1>0, <2>3, <3>1, <3>3, <3>4, Zenon DEF WaitPc
  <2> QED BY <2>1, <2>2, <2>3, Zenon
<1>2. CASE RUnlock(g)
  <2>1. CASE h # g
    <3>1. /\ pc'[h] = pc[h] /\ op'[h] = op[h] /\ inside'[h] = inside[h] /\ cur'[h] = cur[h]
          /\ rec'[h] = rec[h] /\ readers'[h] = readers[h] /\ writer' = writer
      BY <1>2, <2>1, Zenon DEF RUnlock, Return
    <3>2. Reading(g) /\ readers[g] # 0
      <4>1. Reading(g)
        BY <1>2, Zenon DEF RUnlock
      <4>2. readers[g] = 1 + (IF inside[g] THEN 1 ELSE 0)
        BY <1>0, <4>1, Zenon
      <4> QED BY <4>1, <4>2
    <3>3. ~Writing(h)
      BY <1>0, <3>2, Zenon
    <3> QED BY <1>0, <3>1, <3>3, LockFrame, Zenon
  <2>2. CASE h = g
    <3>1. /\ pc[g] = "release" /\ Reading(g) /\ readers'[g] = readers[g] - 1
          /\ pc'[g] = (IF inside[g] THEN "called" ELSE "idle")
          /\ op'[g] = (IF inside[g] THEN "iterate" ELSE "none")
          /\ ~inside'[g] /\ cur'[g] = 1 /\ rec'[g] = NoRecord /\ writer' = writer
      BY <1>2, Zenon DEF RUnlock, Return, Back
    <3>2. readers[g] = 1 + (IF inside[g] THEN 1 ELSE 0) /\ writer # g
      BY <1>0, <1>2, <3>1, Zenon DEF RUnlock, ReadOps, WriteOps, WritePc
    <3>3. readers'[g] = (IF inside[g] THEN 1 ELSE 0) + 0
      BY <3>1, <3>2
    <3>4. (Reading(g)' <=> inside[g]) /\ ~Writing(g)' /\ pc'[g] \notin WritePc \cup WaitPc
      BY <3>1, Zenon DEF ReadPc, WritePc, WaitPc
    <3>5. pc'[g] \notin {"commit", "erase", "eraseFlush", "write", "parked", "drain"}
      BY <3>1, Zenon
    <3>6. op'[g] \in OpAt(pc'[g])
      BY <3>1, Zenon
    <3> QED BY <2>2, <3>1, <3>2, <3>3, <3>4, <3>5, <3>6, Zenon
  <2> QED BY <2>1, <2>2, Zenon
<1>3. CASE Unlock(g)
  <2>1. /\ ~inside[g] /\ ~Writing(g)' /\ pc'[g] = "idle"
        /\ h # g => ~Writing(h) /\ pc[h] # "drain" /\ ~Reading(h)
    BY <1>3, WriterAlone, Zenon DEF Unlock, Back, WritePc
  <2>2. CASE h = g
    <3>1. /\ op'[g] = "none" /\ ~inside'[g] /\ readers'[g] = readers[g] /\ readers[g] = 0
          /\ cur'[g] = 1 /\ rec'[g] = NoRecord /\ writer' = NoOne
      <4>1. Writing(g)
        BY <1>3, Zenon DEF Unlock
      <4>2. readers[g] = 0 /\ pc[g] # "parked"
        BY <1>0, <1>3, <4>1, Zenon DEF Unlock
      <4> QED BY <1>3, <2>1, <4>2, Zenon DEF Unlock, Return
    <3>2. ~Reading(g)' /\ op'[g] \in OpAt(pc'[g])
      BY <2>1, <3>1, Zenon DEF ReadPc
    <3>3. readers'[g] = 0 + 0
      BY <3>1
    <3> QED BY <1>0, <2>1, <2>2, <3>1, <3>2, <3>3, Zenon
  <2>3. CASE h # g /\ pc[h] = "parked"
    <3>1. op'[h] = op[h] /\ inside'[h] = inside[h] /\ pc'[h] = Body(op[h]) /\ op[h] \in ReadOps
      BY <1>0, <1>3, <2>3, Zenon DEF Unlock, Return
    <3>2. pc'[h] \in ReadPc /\ op'[h] \in OpAt(pc'[h])
      BY <3>1, Zenon DEF Body, ReadOps, ReadPc
    <3>3. readers'[h] = readers[h] + 1 /\ writer' = NoOne
      BY <1>3, <2>3, Zenon DEF Unlock
    <3>4. pc'[h] \notin WaitPc \cup WritePc \cup {"idle", "called", "release", "drain"}
      BY <3>2, Zenon DEF ReadPc, WaitPc, WritePc
    <3>5. Reading(h)' /\ ~Writing(h)' /\ ~Reading(h)
      BY <2>1, <2>3, <3>2, <3>4, Zenon
    <3>6. inside'[h] => pc'[h] \notin {"idle", "called"}
      BY <3>4, Zenon
    <3>7. readers'[h] = (IF Reading(h)' THEN 1 ELSE 0) + (IF inside'[h] THEN 1 ELSE 0)
      <4>1. readers[h] = 0 + (IF inside[h] THEN 1 ELSE 0)
        BY <1>0, <3>5, Zenon DEF LockAt
      <4>2. readers'[h] = 1 + (IF inside[h] THEN 1 ELSE 0)
        BY <3>3, <4>1
      <4> QED BY <3>1, <3>5, <4>2, Zenon
    <3>8. /\ pc'[h] \notin {"commit", "erase", "eraseFlush", "write", "parked", "drain"}
          /\ writer' # h
      BY <1>0, <3>3, <3>4, Zenon DEF WritePc, WaitPc
    <3> QED BY <3>2, <3>4, <3>5, <3>6, <3>7, <3>8, Zenon DEF LockAt
  <2>4. CASE h # g /\ pc[h] # "parked"
    BY <1>0, <1>3, <2>4, Zenon DEF Unlock, Return
  <2> QED BY <2>2, <2>3, <2>4, Zenon
<1> QED BY <1>1, <1>2, <1>3, Zenon

-----------------------------------------------------------------------------
(* Every step keeps the variables in their types.                          *)
LEMMA LockTypes ==
  ASSUME TypeOK, LockInv, NEW g \in Goroutines,
         \/ \E o \in Ops : Call(g, o) \/ CallFromCallback(g, o)
         \/ Lock(g) \/ Drained(g) \/ CloseDevice(g) \/ RLock(g) \/ RUnlock(g) \/ Unlock(g)
  PROVE  TypeOK'
<1>0. LockAt(g) /\ \A h \in Goroutines : pc[h] = "parked" => LockAt(h)
  BY DEF LockInv
<1>00. \A o \in ReadOps \cup WriteOps : Body(o) \in ReadPc \cup WritePc
  BY DEF ReadOps, WriteOps, Body, ReadPc, WritePc
<1> USE DEF TypeOK, store, lock
<1>1. CASE \E o \in Ops : Call(g, o) \/ CallFromCallback(g, o)
  <2>1. pc' \in [Goroutines -> {"idle", "callback", "called", "release", "close"}
                            \cup WaitPc \cup ReadPc \cup WritePc]
    BY <1>1 DEF Call, CallFromCallback, Goto, WaitPc
  <2>2. CASE \E o \in Ops : Call(g, o)
    BY <2>1, <2>2 DEF Call
  <2>3. CASE \E o \in Ops : CallFromCallback(g, o)
    BY <2>1, <2>3, RecordFacts DEF CallFromCallback
  <2> QED BY <1>1, <2>2, <2>3, Zenon
<1>2. CASE Lock(g) \/ Drained(g)
  <2>1. CASE Lock(g)
    BY <2>1, Zenon DEF Lock, WaitPc
  <2>2. CASE Drained(g)
    <3>1. Body(op[g]) \in ReadPc \cup WritePc
      BY <1>0, <1>00, <2>2, Zenon DEF Drained, LockAt, OpAt
    <3> QED BY <2>2, <3>1, Zenon DEF Drained
  <2> QED BY <1>2, <2>1, <2>2, Zenon
<1>3. CASE RLock(g)
  BY <1>0, <1>00, <1>3 DEF RLock, LockAt, Reading, ReadPc, WaitPc
<1>4. CASE RUnlock(g)
  BY <1>0, <1>4, RecordFacts DEF RUnlock, LockAt, Reading, Return, Back, Ops, ReadOps
<1>5. CASE Unlock(g)
  <2>1. \A h \in Goroutines : pc[h] = "parked" => readers[h] \in 0..1 /\ op[h] \in ReadOps
    <3> SUFFICES ASSUME NEW h \in Goroutines, pc[h] = "parked"
                 PROVE  readers[h] \in 0..1 /\ op[h] \in ReadOps
      OBVIOUS
    <3>1. ~Reading(h) /\ op[h] \in ReadOps
      BY <1>0, Zenon DEF LockAt, OpAt, Reading, ReadPc
    <3>2. readers[h] = 0 + (IF inside[h] THEN 1 ELSE 0)
      BY <1>0, <3>1, Zenon DEF LockAt
    <3>3. readers[h] \in 0..1
      BY <3>2
    <3> QED BY <3>1, <3>3, Zenon
  <2>2. readers' \in [Goroutines -> 0..2] /\ writer' \in Goroutines \cup {NoOne}
    BY <1>5, <2>1 DEF Unlock
  <2>3. pc' \in [Goroutines -> {"idle", "callback", "called", "release", "close"}
                            \cup WaitPc \cup ReadPc \cup WritePc]
    BY <1>00, <1>5, <2>1, Zenon DEF Unlock, Back
  <2> QED BY <1>5, <2>2, <2>3, RecordFacts, Zenon DEF Unlock, Return, Ops, ReadOps
<1>6. CASE CloseDevice(g)
  <2>0. cur[g] < ReplicaCount => cur[g] + 1 \in Replicas
    BY LockAssumption DEF Replicas
  <2>1. cur' \in [Goroutines -> Replicas]
    BY <1>6, <2>0, RecordFacts DEF CloseDevice, Return
  <2> QED BY <1>6, <2>1, Zenon DEF CloseDevice, Return, Goto, Back, Ops, ReadOps
<1> QED BY <1>1, <1>2, <1>3, <1>4, <1>5, <1>6, Zenon

(* So do the steps within a method.                                        *)
LEMMA BodyTypes ==
  ASSUME TypeOK, LockInv, NEW g \in Goroutines, BodyStep(g)
  PROVE  TypeOK'
<1>0. /\ pc' \in [Goroutines -> {"idle", "callback", "called", "release", "close"}
                            \cup WaitPc \cup ReadPc \cup WritePc]
      /\ UNCHANGED <<lock, op, inside>>
  BY BodyMoves DEF TypeOK, WritePc
<1>1. ASSUME NEW where, NEW res, NextReplica(g, where, res)
      PROVE  cur' \in [Goroutines -> Replicas]
  <2>1. cur[g] < ReplicaCount => cur[g] + 1 \in Replicas
    BY LockAssumption DEF Replicas, TypeOK
  <2> QED BY <1>1, <2>1 DEF NextReplica, TypeOK
<1>2. cur' \in [Goroutines -> Replicas]
  BY <1>1, Zenon DEF TypeOK, BodyStep, DeviceFails, Look, Collect, CallbackReturns, PutWrite,
       PutCommit, PutErase, PutEraseFlush, DeleteFree, DeleteDrop, BuildClear, BuildScan,
       RecoverReplica, RecoverFlush
<1>3. result' \in [Goroutines -> {"none", "ok", "found", "notFound", "error"}]
  BY Zenon DEF TypeOK, BodyStep, DeviceFails, Look, Collect, CallbackReturns, PutWrite,
       PutCommit, PutErase, PutEraseFlush, DeleteFree, DeleteDrop, BuildClear, BuildScan,
       RecoverReplica, RecoverFlush,
       NextReplica, Finish
<1>4. closed' \in [Replicas -> BOOLEAN] /\ failed' \in BOOLEAN
  BY Zenon DEF TypeOK, BodyStep, DeviceFails, Look, Collect, CallbackReturns, PutWrite,
       PutCommit, PutErase, PutEraseFlush, DeleteFree, DeleteDrop, BuildClear, BuildScan,
       RecoverReplica, RecoverFlush,
       store
<1>44. old' \in [Goroutines -> Record \cup {NoRecord}]
  <2>1. old' = old \/ old' = [old EXCEPT ![g] = index[cur[g]]]
    BY Zenon DEF BodyStep, DeviceFails, Look, Collect, CallbackReturns, PutWrite,
         PutCommit, PutErase, PutEraseFlush, DeleteFree, DeleteDrop, BuildClear, BuildScan,
         RecoverReplica, RecoverFlush
  <2> QED BY <2>1 DEF TypeOK
<1>5. rec' \in [Goroutines -> Record \cup {NoRecord}]
  <2>1. CASE PutWrite(g)
    BY <2>1, PutRecordType, Zenon DEF PutWrite, LockInv, TypeOK
  <2>2. CASE ~PutWrite(g)
    <3>1. rec' = rec \/ rec' = [rec EXCEPT ![g] = index[cur[g]]]
      BY <2>2, Zenon DEF TypeOK, BodyStep, DeviceFails, Look, Collect, CallbackReturns,
         PutCommit, PutErase, PutEraseFlush, DeleteFree, DeleteDrop, BuildClear, BuildScan,
         RecoverReplica, RecoverFlush
    <3> QED BY <3>1, Zenon DEF TypeOK
  <2> QED BY <2>1, <2>2
<1>6. /\ disk' \in [Replicas -> SUBSET Record]
      /\ index' \in [Replicas -> Record \cup {NoRecord}]
  <2>1. CASE PutWrite(g)
    <3>1. disk[cur[g]] \cup {rec'[g]} \in SUBSET Record
      BY <2>1, PutRecordType DEF LockInv, TypeOK
    <3>2. disk' = [disk EXCEPT ![cur[g]] = @ \cup {rec'[g]}] /\ index' = index
      BY <2>1, PutRecordType, Zenon DEF PutWrite, LockInv
    <3> QED BY <3>1, <3>2, Zenon DEF TypeOK
  <2>2. CASE BuildScan(g) \/ RecoverReplica(g) \/ RecoverFlush(g)
    BY <2>2, NewestFacts DEF TypeOK, BuildScan, RecoverReplica, RecoverFlush, store
  <2>3. CASE \/ PutCommit(g) \/ PutErase(g) \/ PutEraseFlush(g)
             \/ DeleteFree(g) \/ DeleteDrop(g) \/ BuildClear(g)
    BY <2>3 DEF PutCommit, PutErase, PutEraseFlush, DeleteFree, DeleteDrop, BuildClear, TypeOK,
       store
  <2>4. CASE DeviceFails(g) \/ Look(g) \/ Collect(g) \/ CallbackReturns(g)
    BY <2>4, Zenon DEF DeviceFails, Look, Collect, CallbackReturns, TypeOK, store
  <2> QED BY <2>1, <2>2, <2>3, <2>4, Zenon DEF BodyStep
<1> QED BY <1>0, <1>2, <1>3, <1>4, <1>44, <1>5, <1>6, Zenon DEF TypeOK, lock

-----------------------------------------------------------------------------
(* Steps that call, lock and unlock, close a device or read leave what is  *)
(* known of the replicas.                                                  *)
LEMMA QuietData ==
  ASSUME TypeOK, LockInv, DataInv, NEW g \in Goroutines,
         \/ \E o \in Ops : Call(g, o) \/ CallFromCallback(g, o)
         \/ Lock(g) \/ RLock(g) \/ RUnlock(g) \/ Unlock(g) \/ CloseDevice(g)
         \/ Look(g) \/ Collect(g) \/ CallbackReturns(g)
  PROVE  DataInv'
<1>1. UNCHANGED <<disk, index, failed>>
  BY Zenon DEF Call, CallFromCallback, Lock, RLock, RUnlock, Unlock, CloseDevice, Look, Collect,
     CallbackReturns, store
<1>2. \A o \in ReadOps : Body(o) \notin WritePc
  BY DEF ReadOps, Body, WritePc
<1>3. \A h \in Goroutines : pc[h] = "parked" => op[h] \in ReadOps
  BY Zenon DEF LockInv, LockAt, OpAt
<1>4. /\ pc[g] \notin WritePc /\ pc'[g] \notin WritePc
      /\ \A h \in Goroutines : h # g =>
           /\ pc'[h] \in WritePc \/ pc[h] \in WritePc => pc'[h] = pc[h]
           /\ cur'[h] = cur[h] /\ rec'[h] = rec[h] /\ old'[h] = old[h]
  <2>1. CASE \E o \in Ops : Call(g, o) \/ CallFromCallback(g, o)
    BY <2>1 DEF Call, CallFromCallback, Goto, WritePc, TypeOK
  <2>2. CASE Lock(g) \/ RLock(g)
    BY <1>2, <2>2 DEF Lock, RLock, WritePc, TypeOK
  <2>3. CASE RUnlock(g) \/ CloseDevice(g)
    <3>1. /\ pc[g] \in {"release", "close"} /\ pc'[g] \in {"close", "called", "idle"}
          /\ \A h \in Goroutines : h # g =>
               /\ pc'[h] = pc[h] /\ cur'[h] = cur[h] /\ rec'[h] = rec[h] /\ old'[h] = old[h]
      BY <2>3, Zenon DEF RUnlock, CloseDevice, Return, Back, Goto, TypeOK
    <3>2. \A p \in {"release", "close", "called", "idle"} : p \notin WritePc
      BY Zenon DEF WritePc
    <3> QED BY <3>1, <3>2, Zenon
  <2>4. CASE Unlock(g)
    <3>1. /\ pc[g] = "release" /\ pc'[g] \in {"called", "idle"}
          /\ \A h \in Goroutines : h # g =>
               /\ pc'[h] = IF pc[h] = "parked" THEN Body(op[h]) ELSE pc[h]
               /\ cur'[h] = cur[h] /\ rec'[h] = rec[h] /\ old'[h] = old[h]
      BY <2>4, Zenon DEF Unlock, Return, Back, TypeOK
    <3>2. "release" \notin WritePc /\ "called" \notin WritePc /\ "idle" \notin WritePc
          /\ "parked" \notin WritePc
      BY Zenon DEF WritePc
    <3> QED BY <1>2, <1>3, <3>1, <3>2, Zenon
  <2>5. CASE Look(g) \/ Collect(g) \/ CallbackReturns(g)
    BY <2>5, Zenon DEF Look, Collect, CallbackReturns, NextReplica, Finish, Goto, WritePc, TypeOK
  <2> QED BY <2>1, <2>2, <2>3, <2>4, <2>5, Zenon
<1>5. ASSUME NEW h \in Goroutines, pc'[h] \in WritePc \/ pc[h] \in WritePc
      PROVE  /\ pc'[h] = pc[h] /\ cur'[h] = cur[h]
             /\ rec'[h] = rec[h] /\ old'[h] = old[h]
  BY <1>4, <1>5, Zenon
<1> QED BY <1>1, <1>5, DataFrame, Zenon

(* A writer that gets the lock finds the replicas agreed.                  *)
LEMMA DrainedData ==
  ASSUME TypeOK, LockInv, DataInv, NEW g \in Goroutines, Drained(g)
  PROVE  DataInv'
<1> SUFFICES ASSUME ~failed PROVE DataInv!2'
  BY Zenon DEF DataInv, Drained, store
<1>1. writer = g /\ op[g] \in WriteOps /\ cur[g] = 1
  BY Zenon DEF Drained, LockInv, LockAt, OpAt, WaitPc
<1>2. \A h \in Goroutines : pc[h] \notin WritePc
  BY Zenon DEF Drained, LockInv, LockAt, Writing, WritePc
<1>3. PICK x \in Record \cup {NoRecord} : \A r \in Replicas : Holds(r, x)
  BY <1>2 DEF DataInv
<1>4. /\ pc'[g] \in {"write", "free", "clear", "recover"}
      /\ \A h \in Goroutines : h # g => pc'[h] = pc[h]
      /\ UNCHANGED <<disk, index, cur, rec>>
  BY <1>1, Zenon DEF Drained, TypeOK, store, Body, WriteOps
<1>5. \A r \in Replicas : Holds(r, x)' /\ ~(r < 1)
  BY <1>3, <1>4 DEF Holds, Replicas
<1>6. DataAt(g)'
  BY <1>1, <1>4, <1>5, RecordFacts, Zenon DEF DataAt, Halfway
<1> QED BY <1>2, <1>4, <1>6 DEF WritePc

-----------------------------------------------------------------------------
(* The loop over the replicas: when the one g is at has become like those  *)
(* it has passed, the next one is as all were, or all are alike.           *)
LEMMA LoopStep ==
  ASSUME TypeOK, NEW g \in Goroutines, NEW new, NEW before, NEW where, NEW res,
         Halfway(g, new, before), index'[cur[g]] = new, disk'[cur[g]] = {new} \ {NoRecord},
         \A r \in Replicas : r # cur[g] => disk'[r] = disk[r] /\ index'[r] = index[r],
         NextReplica(g, where, res)
  PROVE  \/ /\ pc'[g] = where /\ cur'[g] > 1
            /\ Halfway(g, new, before)' /\ Holds(cur[g], before)'
         \/ /\ pc'[g] = "release" /\ result'[g] = res
            /\ \A r \in Replicas : Holds(r, new)'
<1>0. \A r \in Replicas : r = cur[g] => Holds(r, new)'
  BY DEF Holds
<1>1. /\ \A r \in Replicas : r < cur[g] => Holds(r, new)'
      /\ \A r \in Replicas : r > cur[g] => Holds(r, before)'
  BY LockAssumption DEF Halfway, Holds
<1>2. CASE cur[g] < ReplicaCount
  BY <1>0, <1>1, <1>2, LockAssumption DEF NextReplica, Goto, TypeOK, Replicas, Halfway
<1>3. CASE cur[g] = ReplicaCount
  BY <1>0, <1>1, <1>3 DEF NextReplica, Finish, Goto, TypeOK, Replicas
<1> QED BY <1>2, <1>3, Zenon DEF NextReplica

(* What g does to the replica it is at leaves the others.                  *)
LEMMA OthersStay ==
  ASSUME TypeOK, NEW g \in Goroutines, NEW new, NEW before, Halfway(g, new, before),
         cur'[g] = cur[g],
         \A r \in Replicas : r # cur[g] => disk'[r] = disk[r] /\ index'[r] = index[r]
  PROVE  Halfway(g, new, before)'
<1>1. \A r \in Replicas : r < cur[g] \/ r > cur[g] => r # cur[g]
  BY DEF Replicas
<1> QED BY <1>1 DEF Halfway, Holds

(* A step of the writer keeps what is known of the replicas if it does so  *)
(* for the place it goes to, or leaves the replicas agreed.                *)
LEMMA WriterData ==
  ASSUME TypeOK, LockInv, NEW g \in Goroutines, pc[g] \in WritePc,
         pc' = [pc EXCEPT ![g] = pc'[g]],
         \/ pc'[g] \in WritePc /\ DataAt(g)'
         \/ /\ pc'[g] = "release"
            /\ \E x \in Record \cup {NoRecord} : \A r \in Replicas : Holds(r, x)'
  PROVE  DataInv'
<1>1. \A h \in Goroutines : h # g => pc'[h] = pc[h] /\ pc[h] \notin WritePc
  BY WriterAlone, Zenon DEF TypeOK, Writing
<1>2. CASE pc'[g] \in WritePc /\ DataAt(g)'
  BY <1>1, <1>2 DEF DataInv
<1>3. CASE pc'[g] = "release" /\ \E x \in Record \cup {NoRecord} : \A r \in Replicas : Holds(r, x)'
  BY <1>1 DEF WritePc, DataInv
<1> QED BY <1>2, <1>3

(* Put writes a record with a generation the replicas do not hold.         *)
LEMMA PutWriteData ==
  ASSUME TypeOK, LockInv, DataInv, ~failed, NEW g \in Goroutines, PutWrite(g)
  PROVE  DataAt(g)' /\ pc'[g] = "commit"
<1>1. pc[g] = "write" /\ pc'[g] = "commit" /\ cur' = cur /\ cur[g] \in Replicas /\ index' = index
  BY Zenon DEF PutWrite, Goto, TypeOK
<1>2. PICK x \in Record \cup {NoRecord} :
        /\ Halfway(g, rec[g], x) /\ Holds(cur[g], x)
        /\ cur[g] > 1 => rec[g] \in Record /\ rec[g].generation # x.generation
  BY <1>1, Zenon DEF DataInv, DataAt, WritePc
<1>3. rec'[g] \in Record /\ disk' = [disk EXCEPT ![cur[g]] = @ \cup {rec'[g]}]
  BY PutRecordType DEF LockInv
<1>4. rec'[g].generation # x.generation /\ (cur[g] > 1 => rec'[g] = rec[g])
  <2>1. CASE cur[g] = 1
    <3> DEFINE last == CHOOSE y \in {index[r] : r \in Replicas} :
                         \A r \in Replicas : index[r].generation <= y.generation
    <3>1. \A r \in Replicas : index[r] = x
      BY <1>2, <2>1 DEF Halfway, Holds, Replicas
    <3>2. last = x
      BY <3>1
    <3>3. rec'[g] = [generation |-> (last.generation + 1) % GenLimit, by |-> g]
      BY <2>1, Zenon DEF PutWrite, TypeOK
    <3> HIDE DEF last
    <3>4. rec'[g].generation = (x.generation + 1) % GenLimit
      BY <3>2, <3>3
    <3> QED BY <2>1, <3>4, NextGeneration
  <2>2. CASE cur[g] # 1
    BY <1>2, <2>2 DEF PutWrite, TypeOK, Replicas
  <2> QED BY <2>1, <2>2
<1>5. /\ old'[g] = x /\ index'[cur[g]] = x
      /\ disk'[cur[g]] = {rec'[g], x} \ {NoRecord}
  <2>1. old'[g] = x /\ index'[cur[g]] = x
    BY <1>2, Zenon DEF PutWrite, Holds, TypeOK
  <2>2. disk'[cur[g]] = ({x} \ {NoRecord}) \cup {rec'[g]}
    BY <1>2, <1>3, Zenon DEF Holds, TypeOK
  <2> QED BY <1>3, <2>1, <2>2, RecordFacts
<1>6. Halfway(g, rec[g], x)'
  BY <1>1, <1>2, <1>3, <1>4 DEF Halfway, Holds, Replicas
<1> QED BY <1>1, <1>3, <1>4, <1>5, <1>6, Zenon DEF DataAt

(* The index turns to the new record, and the old one is erased.           *)
LEMMA PutCommitData ==
  ASSUME TypeOK, LockInv, DataInv, ~failed, NEW g \in Goroutines,
         PutCommit(g) \/ PutErase(g)
  PROVE  \/ pc'[g] \in WritePc /\ DataAt(g)'
         \/ /\ pc'[g] = "release"
            /\ \E x \in Record \cup {NoRecord} : \A r \in Replicas : Holds(r, x)'
<1>1. pc[g] \in {"commit", "erase"} /\ cur[g] \in Replicas /\ rec' = rec /\ old' = old
  BY Zenon DEF PutCommit, PutErase, TypeOK
<1>2. PICK x \in Record \cup {NoRecord} :
        /\ Halfway(g, rec[g], x)
        /\ rec[g] \in Record /\ rec[g].generation # x.generation
        /\ old[g] = x /\ disk[cur[g]] = {rec[g], x} \ {NoRecord}
        /\ index[cur[g]] = IF pc[g] = "commit" THEN x ELSE rec[g]
  BY <1>1, Zenon DEF DataInv, DataAt, WritePc
<1>3. PICK n : n = rec[g]
  OBVIOUS
<1>4. CASE PutCommit(g) /\ old[g] # NoRecord
  <2>1. pc'[g] = "erase" /\ cur' = cur /\ disk' = disk /\ index' = [index EXCEPT ![cur[g]] = rec[g]]
    BY <1>4, Zenon DEF PutCommit, Goto, TypeOK
  <2>2. /\ index'[cur[g]] = rec[g]
        /\ \A r \in Replicas : r # cur[g] => disk'[r] = disk[r] /\ index'[r] = index[r]
    BY <2>1 DEF TypeOK
  <2>3. Halfway(g, n, x)
    BY <1>2, <1>3
  <2>4. Halfway(g, n, x)'
    BY <2>1, <2>3, OthersStay
  <2>5. Halfway(g, rec[g], x)'
    BY <1>1, <1>3, <2>4
  <2> QED BY <1>1, <1>2, <2>1, <2>2, <2>5 DEF DataAt, WritePc
<1>5. CASE PutCommit(g) /\ old[g] = NoRecord
  <2>1. /\ NextReplica(g, "write", "ok")
        /\ index'[cur[g]] = n /\ disk'[cur[g]] = {n} \ {NoRecord}
        /\ \A r \in Replicas : r # cur[g] => disk'[r] = disk[r] /\ index'[r] = index[r]
    BY <1>2, <1>3, <1>5 DEF TypeOK, PutCommit
  <2>2. \/ /\ pc'[g] = "write" /\ cur'[g] > 1
           /\ Halfway(g, n, x)' /\ Holds(cur[g], x)'
        \/ pc'[g] = "release" /\ \A r \in Replicas : Holds(r, n)'
    <3>1. Halfway(g, n, x)
      BY <1>2, <1>3
    <3> QED BY <2>1, <3>1, LoopStep, Zenon
  <2> QED BY <1>1, <1>2, <1>3, <2>2, Zenon DEF DataAt, WritePc
<1>6. CASE PutErase(g)
  <2>1. pc'[g] = "eraseFlush" /\ cur' = cur
    BY <1>6, Zenon DEF PutErase, Goto, TypeOK
  <2>2. /\ index'[cur[g]] = n /\ disk'[cur[g]] = {n} \ {NoRecord}
        /\ \A r \in Replicas : r # cur[g] => disk'[r] = disk[r] /\ index'[r] = index[r]
    BY <1>2, <1>3, <1>6 DEF PutErase, TypeOK
  <2>3. Halfway(g, n, x)' /\ Holds(cur[g], n)'
    BY <1>2, <1>3, <2>1, <2>2, OthersStay DEF Holds
  <2> QED BY <1>1, <1>2, <1>3, <2>1, <2>3, Zenon DEF DataAt, WritePc
<1> QED BY <1>4, <1>5, <1>6

(* The erasure is flushed, and the next replica's turn comes.              *)
LEMMA PutFlushData ==
  ASSUME TypeOK, LockInv, DataInv, ~failed, NEW g \in Goroutines, PutEraseFlush(g)
  PROVE  \/ pc'[g] \in WritePc /\ DataAt(g)'
         \/ /\ pc'[g] = "release"
            /\ \E x \in Record \cup {NoRecord} : \A r \in Replicas : Holds(r, x)'
<1>1. /\ pc[g] = "eraseFlush" /\ rec' = rec /\ disk' = disk /\ index' = index
      /\ NextReplica(g, "write", "ok")
  BY Zenon DEF PutEraseFlush, store
<1>2. PICK x \in Record \cup {NoRecord} :
        /\ Halfway(g, rec[g], x) /\ Holds(cur[g], rec[g])
        /\ rec[g] \in Record /\ rec[g].generation # x.generation
  BY <1>1, Zenon DEF DataInv, DataAt, WritePc
<1>3. PICK n : n = rec[g]
  OBVIOUS
<1>4. Halfway(g, n, x) /\ index'[cur[g]] = n /\ disk'[cur[g]] = {n} \ {NoRecord}
  BY <1>1, <1>2, <1>3, Zenon DEF Holds
<1>5. \/ /\ pc'[g] = "write" /\ cur'[g] > 1
         /\ Halfway(g, n, x)' /\ Holds(cur[g], x)'
      \/ pc'[g] = "release" /\ \A r \in Replicas : Holds(r, n)'
  BY <1>1, <1>4, LoopStep, Zenon
<1> QED BY <1>1, <1>2, <1>3, <1>5, Zenon DEF DataAt, WritePc

(* Delete, BuildIndex and Recover leave each replica they have passed as   *)
(* it should be.                                                           *)
LEMMA ReplicaDone ==
  ASSUME TypeOK, LockInv, DataInv, ~failed, NEW g \in Goroutines,
         \/ DeleteFree(g) \/ DeleteDrop(g)
         \/ BuildClear(g) \/ BuildScan(g) \/ RecoverReplica(g) \/ RecoverFlush(g)
  PROVE  \/ pc'[g] \in WritePc /\ DataAt(g)'
         \/ /\ pc'[g] = "release"
            /\ \E x \in Record \cup {NoRecord} : \A r \in Replicas : Holds(r, x)'
<1>0. cur[g] \in Replicas /\ disk[cur[g]] \in SUBSET Record
  BY DEF TypeOK
<1>1. CASE DeleteFree(g)
  <2>1. PICK x \in Record \cup {NoRecord} : Halfway(g, NoRecord, x) /\ Holds(cur[g], x)
    BY <1>1, Zenon DEF DeleteFree, DataInv, DataAt, WritePc
  <2>2. CASE x # NoRecord
    <3>1. /\ pc'[g] = "drop" /\ cur' = cur /\ index' = index
          /\ disk' = [disk EXCEPT ![cur[g]] = @ \ {x}]
      BY <1>1, <2>1, <2>2 DEF DeleteFree, Holds, Goto, TypeOK
    <3>2. /\ disk'[cur[g]] = {}
          /\ \A r \in Replicas : r # cur[g] => disk'[r] = disk[r] /\ index'[r] = index[r]
      BY <2>1, <3>1, Zenon DEF Holds, TypeOK
    <3>3. Halfway(g, NoRecord, x)'
      BY <2>1, <3>1, OthersStay
    <3> QED BY <3>1, <3>2, <3>3, Zenon DEF DataAt, WritePc
  <2>3. CASE x = NoRecord
    <3>1. /\ UNCHANGED <<disk, index>>
          /\ NextReplica(g, "free", IF rec[g] = NoRecord THEN "notFound" ELSE "ok")
      BY <1>1, <2>1, <2>3, Zenon DEF DeleteFree, Holds
    <3>2. index'[cur[g]] = NoRecord /\ disk'[cur[g]] = {NoRecord} \ {NoRecord}
      BY <2>1, <2>3, <3>1 DEF Holds
    <3>3. PICK res : res = IF rec[g] = NoRecord THEN "notFound" ELSE "ok"
      OBVIOUS
    <3>4. \/ pc'[g] = "free" /\ Halfway(g, NoRecord, x)' /\ Holds(cur[g], x)'
          \/ pc'[g] = "release" /\ \A r \in Replicas : Holds(r, NoRecord)'
      BY <2>1, <3>1, <3>2, LoopStep, Zenon
    <3> QED BY <3>4, Zenon DEF DataAt, WritePc
  <2> QED BY <2>2, <2>3
<1>2. CASE DeleteDrop(g)
  <2>1. PICK x \in Record \cup {NoRecord} : Halfway(g, NoRecord, x) /\ disk[cur[g]] = {}
    BY <1>2, Zenon DEF DeleteDrop, DataInv, DataAt, WritePc
  <2>2. /\ NextReplica(g, "free", "ok") /\ index'[cur[g]] = NoRecord
        /\ disk'[cur[g]] = {NoRecord} \ {NoRecord}
        /\ \A r \in Replicas : r # cur[g] => disk'[r] = disk[r] /\ index'[r] = index[r]
    BY <1>2, <2>1, Zenon DEF DeleteDrop, TypeOK
  <2>3. \/ pc'[g] = "free" /\ Halfway(g, NoRecord, x)' /\ Holds(cur[g], x)'
        \/ pc'[g] = "release" /\ \A r \in Replicas : Holds(r, NoRecord)'
    BY <2>1, <2>2, LoopStep, Zenon
  <2> QED BY <2>3, Zenon DEF DataAt, WritePc
<1>3. CASE BuildClear(g)
  BY <1>3, OthersStay DEF BuildClear, DataInv, DataAt, WritePc, Goto, TypeOK, Holds
<1>4. CASE BuildScan(g)
  <2>1. PICK x \in Record \cup {NoRecord} :
          Halfway(g, x, x) /\ disk[cur[g]] = {x} \ {NoRecord}
    BY <1>4, Zenon DEF BuildScan, DataInv, DataAt, WritePc
  <2>2. Newest(disk[cur[g]]) = x
    BY <2>1, NewestFacts
  <2>3. /\ NextReplica(g, "clear", "ok") /\ index'[cur[g]] = x
        /\ disk'[cur[g]] = {x} \ {NoRecord}
        /\ \A r \in Replicas : r # cur[g] => disk'[r] = disk[r] /\ index'[r] = index[r]
    BY <1>4, <2>1, <2>2, Zenon DEF BuildScan, TypeOK
  <2>4. \/ pc'[g] = "clear" /\ Halfway(g, x, x)' /\ Holds(cur[g], x)'
        \/ pc'[g] = "release" /\ \A r \in Replicas : Holds(r, x)'
    BY <2>1, <2>3, LoopStep, Zenon
  <2> QED BY <2>4, Zenon DEF DataAt, WritePc
<1>5. CASE RecoverReplica(g)
  <2>1. PICK x \in Record \cup {NoRecord} : Halfway(g, x, x) /\ Holds(cur[g], x)
    BY <1>5, Zenon DEF RecoverReplica, DataInv, DataAt, WritePc
  <2>2. Newest(disk[cur[g]]) = x
    BY <2>1, NewestFacts DEF Holds
  <2>3. /\ index'[cur[g]] = x /\ disk'[cur[g]] = {x} \ {NoRecord}
        /\ \A r \in Replicas : r # cur[g] => disk'[r] = disk[r] /\ index'[r] = index[r]
    BY <1>5, <2>1, <2>2 DEF RecoverReplica, Holds
  <2>4. CASE NextReplica(g, "recover", "ok")
    <3>1. \/ pc'[g] = "recover" /\ Halfway(g, x, x)' /\ Holds(cur[g], x)'
          \/ pc'[g] = "release" /\ \A r \in Replicas : Holds(r, x)'
      BY <2>1, <2>3, <2>4, LoopStep, Zenon
    <3> QED BY <3>1, Zenon DEF DataAt, WritePc
  <2>5. CASE pc'[g] = "recoverFlush" /\ cur' = cur
    <3>1. Halfway(g, x, x)' /\ Holds(cur[g], x)'
      BY <2>1, <2>3, <2>5, OthersStay DEF Holds
    <3> QED BY <2>5, <3>1, Zenon DEF DataAt, WritePc
  <2> QED BY <1>5, <2>4, <2>5, Zenon DEF RecoverReplica, Goto, TypeOK
<1>6. CASE RecoverFlush(g)
  <2>1. PICK x \in Record \cup {NoRecord} : Halfway(g, x, x) /\ Holds(cur[g], x)
    BY <1>6, Zenon DEF RecoverFlush, DataInv, DataAt, WritePc
  <2>2. /\ NextReplica(g, "recover", "ok") /\ index'[cur[g]] = x
        /\ disk'[cur[g]] = {x} \ {NoRecord}
        /\ \A r \in Replicas : r # cur[g] => disk'[r] = disk[r] /\ index'[r] = index[r]
    BY <1>6, <2>1, Zenon DEF RecoverFlush, Holds, store
  <2>3. \/ pc'[g] = "recover" /\ Halfway(g, x, x)' /\ Holds(cur[g], x)'
        \/ pc'[g] = "release" /\ \A r \in Replicas : Holds(r, x)'
    BY <2>1, <2>2, LoopStep, Zenon
  <2> QED BY <2>3, Zenon DEF DataAt, WritePc
<1> QED BY <1>1, <1>2, <1>3, <1>4, <1>5, <1>6, Zenon

-----------------------------------------------------------------------------
(* Steps that call, lock and unlock, or close a device keep what is known  *)
(* of the readers.                                                         *)
LEMMA QuietRead ==
  ASSUME TypeOK, LockInv, ReadInv, NEW g \in Goroutines,
         \/ \E o \in Ops : Call(g, o) \/ CallFromCallback(g, o)
         \/ Lock(g) \/ Drained(g) \/ RLock(g) \/ RUnlock(g) \/ Unlock(g) \/ CloseDevice(g)
  PROVE  ReadInv'
<1>1. UNCHANGED <<disk, index>>
  BY Zenon DEF Call, CallFromCallback, Lock, Drained, RLock, RUnlock, Unlock, CloseDevice, store
<1>2. ASSUME NEW h \in Goroutines, pc[h] \in WaitPc, pc'[h] = Body(op[h]),
             op[h] \in ReadOps \cup WriteOps, cur'[h] = cur[h], rec'[h] = rec[h],
             inside'[h] = inside[h]
      PROVE  ReadAt(h)'
  <2>1. /\ pc'[h] \in {"look", "collect"} \cup WritePc
        /\ cur'[h] = 1 /\ rec'[h] = NoRecord /\ ReadAt(h)
    BY <1>2, Zenon DEF Body, ReadOps, WriteOps, WritePc, LockInv, LockAt, ReadInv
  <2>2. \A r \in Replicas : ~(r < 1)
    BY DEF Replicas
  <2> QED BY <1>1, <1>2, <2>1, <2>2, Zenon DEF ReadAt, Best, WritePc
<1>3. ASSUME NEW h \in Goroutines, h # g
      PROVE  ReadAt(h)'
  <2>1. CASE Unlock(g) /\ pc[h] = "parked"
    <3>1. /\ pc[h] \in WaitPc /\ pc'[h] = Body(op[h]) /\ op[h] \in ReadOps \cup WriteOps
          /\ cur'[h] = cur[h] /\ rec'[h] = rec[h] /\ inside'[h] = inside[h]
      BY <2>1, Zenon DEF Unlock, Return, LockInv, LockAt, OpAt, WaitPc, TypeOK
    <3> QED BY <1>2, <3>1, Zenon
  <2>2. CASE ~(Unlock(g) /\ pc[h] = "parked")
    <3>1. /\ pc'[h] = pc[h] /\ op'[h] = op[h] /\ cur'[h] = cur[h] /\ rec'[h] = rec[h]
          /\ result'[h] = result[h] /\ inside'[h] = inside[h]
      <4>1. CASE \E o \in Ops : Call(g, o) \/ CallFromCallback(g, o)
        BY <1>3, <4>1 DEF Call, CallFromCallback, Goto, TypeOK
      <4>2. CASE Lock(g) \/ Drained(g) \/ RLock(g)
        BY <1>3, <4>2, Zenon DEF Lock, Drained, RLock, TypeOK
      <4>3. CASE RUnlock(g) \/ CloseDevice(g)
        BY <1>3, <4>3 DEF RUnlock, CloseDevice, Return, Goto, TypeOK
      <4>4. CASE Unlock(g)
        BY <1>3, <2>2, <4>4, Zenon DEF Unlock, Return, TypeOK
      <4> QED BY <4>1, <4>2, <4>3, <4>4, Zenon
    <3> QED BY <1>1, <3>1, ReadFrame, Zenon
  <2> QED BY <2>1, <2>2
<1>4. ReadAt(g)'
  <2>0. LockAt(g) /\ ReadAt(g)
    BY DEF LockInv, ReadInv
  <2>1. CASE \E o \in Ops : Call(g, o) \/ CallFromCallback(g, o)
    BY <1>1, <2>0, <2>1 DEF Call, CallFromCallback, Goto, ReadAt, TypeOK
  <2>2. CASE Lock(g) \/ (RLock(g) /\ writer # NoOne)
    BY <1>1, <2>0, <2>2 DEF Lock, RLock, ReadAt, TypeOK
  <2>3. CASE Drained(g) \/ (RLock(g) /\ writer = NoOne)
    <3>1. /\ pc[g] \in WaitPc /\ pc'[g] = Body(op[g]) /\ op[g] \in ReadOps \cup WriteOps
          /\ cur'[g] = cur[g] /\ rec'[g] = rec[g] /\ inside'[g] = inside[g]
      BY <2>0, <2>3, Zenon DEF Drained, RLock, LockAt, OpAt, WaitPc, TypeOK
    <3> QED BY <1>2, <3>1, Zenon
  <2>4. CASE RUnlock(g) \/ Unlock(g)
    <3>1. ~inside'[g] /\ pc'[g] = IF inside[g] THEN "called" ELSE "idle"
      BY <2>4, Zenon DEF RUnlock, Unlock, Return, Back, TypeOK
    <3> QED BY <1>1, <2>0, <3>1, Zenon DEF ReadAt
  <2>5. CASE CloseDevice(g)
    <3>1. \/ ~inside'[g] /\ pc'[g] = IF inside[g] THEN "called" ELSE "idle"
          \/ inside'[g] = inside[g] /\ pc'[g] = "close"
      BY <2>5, Zenon DEF CloseDevice, Return, Back, Goto, TypeOK
    <3> QED BY <1>1, <2>0, <3>1, Zenon DEF ReadAt
  <2> QED BY <2>1, <2>2, <2>3, <2>4, <2>5
<1> QED BY <1>3, <1>4 DEF ReadInv

(* Get, Keys and Iterate have seen the best of the replicas so far.        *)
LEMMA LookRead ==
  ASSUME TypeOK, LockInv, ReadInv, NEW g \in Goroutines,
         Look(g) \/ Collect(g) \/ CallbackReturns(g)
  PROVE  ReadInv'
<1>1. UNCHANGED <<disk, index, op, inside>>
  BY Zenon DEF Look, Collect, CallbackReturns, store
<1>2. ASSUME NEW h \in Goroutines, h # g PROVE ReadAt(h)'
  <2>1. /\ pc'[h] = pc[h] /\ op'[h] = op[h] /\ cur'[h] = cur[h] /\ rec'[h] = rec[h]
        /\ result'[h] = result[h] /\ inside'[h] = inside[h]
    BY <1>2 DEF Look, Collect, CallbackReturns, NextReplica, Finish, Goto, TypeOK
  <2> QED BY <1>1, <2>1, ReadFrame
<1>3. LockAt(g) /\ ReadAt(g) /\ cur[g] \in Replicas
  BY DEF LockInv, ReadInv, TypeOK
<1>4. inside'[g] => \E r \in Replicas : index'[r] # NoRecord
  BY <1>1, <1>3, Zenon DEF ReadAt
<1>5. ASSUME Look(g) PROVE ReadAt(g)'
  <2> DEFINE e == index[cur[g]]
             better == e # NoRecord /\ (rec[g] = NoRecord \/ e.generation > rec[g].generation)
             best == IF better /\ e \in disk[cur[g]] THEN e ELSE rec[g]
  <2>1. pc[g] = "look" /\ Best(g, {r \in Replicas : r < cur[g]}) /\ op[g] = "get"
    BY <1>3, <1>5, Zenon DEF Look, ReadAt, LockAt, OpAt
  <2>2. CASE better /\ closed[cur[g]]
    BY <1>4, <1>5, <2>2 DEF Look, Finish, Goto, ReadAt, TypeOK
  <2>3. CASE ~(better /\ closed[cur[g]])
    <3>1. /\ rec'[g] = best
          /\ NextReplica(g, "look", IF best = NoRecord THEN "notFound" ELSE "found")
      BY <1>5, <2>3, Zenon DEF Look, TypeOK
    <3>2. \A r \in Replicas : index[r].generation \in Int /\ NoRecord \notin disk[r]
      BY RecordFacts DEF TypeOK, Record
    <3>3. rec[g].generation \in Int
      BY RecordFacts DEF TypeOK, Record
    <3>4. /\ best = NoRecord => \A r \in Replicas : r <= cur[g] => index[r] \notin disk[r]
          /\ best # NoRecord =>
               /\ \E r \in Replicas : r <= cur[g] /\ best = index[r]
               /\ \A r \in Replicas : r <= cur[g] /\ index[r] \in disk[r] =>
                    index[r].generation <= best.generation
      <4>1. \A r \in Replicas : r <= cur[g] <=> r < cur[g] \/ r = cur[g]
        BY <1>3 DEF Replicas
      <4>2. CASE better /\ e \in disk[cur[g]]
        <5>1. best = e /\ e # NoRecord /\ (rec[g] = NoRecord \/ e.generation > rec[g].generation)
          BY <4>2, Zenon
        <5>2. \A r \in Replicas : r < cur[g] /\ index[r] \in disk[r] =>
                rec[g] # NoRecord /\ index[r].generation <= rec[g].generation
          BY <2>1, Zenon DEF Best
        <5>3. \A r \in Replicas : r < cur[g] /\ index[r] \in disk[r] =>
                index[r].generation <= e.generation
          BY <1>3, <3>2, <3>3, <5>1, <5>2
        <5>4. \A r \in Replicas : r <= cur[g] /\ index[r] \in disk[r] =>
                index[r].generation <= e.generation
          BY <3>2, <4>1, <5>3
        <5>5. cur[g] <= cur[g]
          BY <1>3, <4>1
        <5> HIDE DEF best
        <5> QED BY <1>3, <5>1, <5>4, <5>5, Zenon
      <4>3. CASE ~(better /\ e \in disk[cur[g]])
        <5>1. best = rec[g]
          BY <4>3, Zenon
        <5>2. rec[g] = NoRecord => e \notin disk[cur[g]]
          BY <1>3, <3>2, <4>3
        <5>3. rec[g] # NoRecord /\ e \in disk[cur[g]] => e.generation <= rec[g].generation
          BY <1>3, <3>2, <3>3, <4>3
        <5> HIDE DEF best
        <5> QED BY <2>1, <4>1, <5>1, <5>2, <5>3, Zenon DEF Best
      <4> QED BY <4>2, <4>3, Zenon
    <3> HIDE DEF best
    <3>5. CASE cur[g] < ReplicaCount
      <4>1. pc'[g] = "look" /\ cur'[g] = cur[g] + 1
        BY <3>1, <3>5 DEF NextReplica, Goto, TypeOK, Replicas
      <4>2. \A r \in Replicas : r < cur'[g] <=> r <= cur[g]
        BY <1>3, <4>1 DEF Replicas
      <4>3. Best(g, {r \in Replicas : r < cur[g]})'
        BY <1>1, <3>1, <3>4, <4>2, Zenon DEF Best
      <4> QED BY <1>4, <4>1, <4>3 DEF ReadAt
    <3>6. CASE cur[g] = ReplicaCount
      <4>1. pc'[g] = "release" /\ result'[g] = IF best = NoRecord THEN "notFound" ELSE "found"
        BY <3>1, <3>6, LockAssumption DEF NextReplica, Finish, Goto, TypeOK
      <4>2. \A r \in Replicas : r <= cur[g]
        BY <3>6 DEF Replicas
      <4>3. Best(g, Replicas)'
        BY <1>1, <3>1, <3>4, <4>2, Zenon DEF Best
      <4> QED BY <1>4, <3>1, <4>1, <4>3 DEF ReadAt
    <3> QED BY <3>1, <3>5, <3>6 DEF NextReplica
  <2> QED BY <2>2, <2>3, Zenon
<1>6. ASSUME Collect(g) PROVE ReadAt(g)'
  BY <1>1, <1>3, <1>6 DEF Collect, ReadAt, TypeOK, NextReplica, Finish, Goto
<1>7. ASSUME CallbackReturns(g) PROVE ReadAt(g)'
  BY <1>4, <1>7, Zenon DEF CallbackReturns, Finish, Goto, ReadAt, TypeOK
<1>8. ReadAt(g)'
  BY <1>5, <1>6, <1>7
<1> QED BY <1>2, <1>8 DEF ReadInv

-----------------------------------------------------------------------------
(* A step of a method that changes the store keeps the invariant.          *)
LEMMA WriteStep ==
  ASSUME SharingInv, NEW g \in Goroutines, BodyStep(g), pc[g] \in WritePc
  PROVE  DataInv' /\ ReadInv'
<1> USE DEF SharingInv
<1>1. /\ pc' = [pc EXCEPT ![g] = pc'[g]] /\ UNCHANGED <<op, inside>>
      /\ pc'[g] \in WritePc \cup {"release"}
  BY BodyMoves DEF WritePc
<1>2. DeviceFails(g) \/ PutWrite(g) \/ PutCommit(g) \/ PutErase(g) \/ PutEraseFlush(g)
      \/ DeleteFree(g) \/ DeleteDrop(g) \/ BuildClear(g) \/ BuildScan(g)
      \/ RecoverReplica(g) \/ RecoverFlush(g)
  BY Zenon DEF BodyStep, Look, Collect, CallbackReturns, WritePc
<1>3. pc'[g] = "release" => result'[g] # "found" /\ op[g] # "get"
  <2>1. op[g] # "get"
    BY Zenon DEF LockInv, LockAt, OpAt, WritePc
  <2>2. pc'[g] = "release" => result'[g] \in {"ok", "notFound", "error"}
    BY <1>2, Zenon
    DEF DeviceFails, PutWrite, PutCommit, PutErase, PutEraseFlush, DeleteFree, DeleteDrop,
         BuildClear, BuildScan, RecoverReplica, RecoverFlush, NextReplica, Finish, Goto,
         TypeOK, WritePc
  <2> QED BY <2>1, <2>2
<1>4. ReadInv'
  BY <1>1, <1>3, ReadAlone
<1>5. DataInv'
  <2>1. CASE failed'
    BY <2>1 DEF DataInv
  <2>2. CASE ~failed'
    <3>1. ~failed /\ ~DeviceFails(g)
      <4>1. ~DeviceFails(g)
        BY <2>2 DEF DeviceFails
      <4>2. PutWrite(g) \/ PutCommit(g) \/ PutErase(g) \/ PutEraseFlush(g) => ~failed
        BY <2>2, Zenon DEF PutWrite, PutCommit, PutErase, PutEraseFlush, store
      <4>3. DeleteFree(g) \/ DeleteDrop(g) => ~failed
        BY <2>2, Zenon DEF DeleteFree, DeleteDrop
      <4>4. BuildClear(g) \/ BuildScan(g) \/ RecoverReplica(g) \/ RecoverFlush(g) => ~failed
        BY <2>2, Zenon DEF BuildClear, BuildScan, RecoverReplica, RecoverFlush, store
      <4> QED BY <1>2, <4>1, <4>2, <4>3, <4>4
    <3>2. \/ pc'[g] \in WritePc /\ DataAt(g)'
          \/ /\ pc'[g] = "release"
             /\ \E x \in Record \cup {NoRecord} : \A r \in Replicas : Holds(r, x)'
      BY <1>2, <3>1, PutWriteData, PutCommitData, PutFlushData, ReplicaDone, Zenon DEF WritePc
    <3> QED BY <1>1, <3>2, WriterData
  <2> QED BY <2>1, <2>2
<1> QED BY <1>4, <1>5

(* The invariant is inductive.                                             *)
LEMMA SharingStep ==
  ASSUME SharingInv, [Next]_vars
  PROVE  SharingInv'
<1>1. CASE UNCHANGED vars
  <2>1. TypeOK' /\ LockInv'
    BY <1>1 DEF SharingInv, vars, store, lock, local, TypeOK, LockInv, LockAt, Reading, Writing
  <2>2. DataInv'
    BY <1>1, DataFrame DEF SharingInv, vars, store, local
  <2>3. ReadInv'
    BY <1>1, ReadFrame DEF SharingInv, vars, store, local, ReadInv
  <2> QED BY <2>1, <2>2, <2>3 DEF SharingInv
<1>2. ASSUME NEW g \in Goroutines,
             \/ \E o \in Ops : Call(g, o) \/ CallFromCallback(g, o)
             \/ Lock(g) \/ Drained(g) \/ CloseDevice(g) \/ RLock(g) \/ RUnlock(g) \/ Unlock(g)
      PROVE  SharingInv'
  BY <1>2, LockTypes, QuietRead, CallLock, UnlockLock, QuietData, DrainedData, Zenon DEF SharingInv
<1>3. ASSUME NEW g \in Goroutines, BodyStep(g) PROVE SharingInv'
  <2>1. TypeOK' /\ LockInv'
    BY <1>3, BodyTypes, BodyLock DEF SharingInv
  <2>2. CASE pc[g] \in WritePc
    BY <1>3, <2>1, <2>2, WriteStep DEF SharingInv
  <2>3. CASE pc[g] \notin WritePc
    <3>1. Look(g) \/ Collect(g) \/ CallbackReturns(g)
      BY <1>3, <2>3, Zenon DEF BodyStep, DeviceFails, PutWrite, PutCommit, PutErase, PutEraseFlush,
           DeleteFree, DeleteDrop, BuildClear, BuildScan, RecoverReplica, RecoverFlush, WritePc
    <3> QED BY <2>1, <3>1, QuietData, LookRead DEF SharingInv
  <2> QED BY <2>2, <2>3
<1>4. ASSUME Next PROVE SharingInv'
  BY <1>2, <1>3, <1>4, LockAssumption, Zenon DEF Next, Work, BodyStep
<1> QED BY <1>1, <1>4

(* Goroutines that share a store, however many, with any number of         *)
(* replicas: the write lock admits one method that changes the store and   *)
(* no reader, and the replicas are at each of its steps as the code left   *)
(* them.                                                                   *)
THEOREM SharingInvariant == Spec => []SharingInv
<1>1. Init => SharingInv
  <2> SUFFICES ASSUME Init PROVE SharingInv
    OBVIOUS
  <2> USE DEF Init
  <2>1. TypeOK
    <3>1. /\ disk \in [Replicas -> SUBSET Record]
          /\ index \in [Replicas -> Record \cup {NoRecord}]
          /\ closed \in [Replicas -> BOOLEAN] /\ failed \in BOOLEAN
          /\ writer \in Goroutines \cup {NoOne}
      BY Zenon
    <3>2. /\ readers \in [Goroutines -> 0..2] /\ inside \in [Goroutines -> BOOLEAN]
          /\ cur \in [Goroutines -> Replicas]
          /\ op \in [Goroutines -> Ops \cup {"none"}]
      BY RecordFacts
    <3>3. /\ rec \in [Goroutines -> Record \cup {NoRecord}]
          /\ old \in [Goroutines -> Record \cup {NoRecord}]
          /\ result \in [Goroutines -> {"none", "ok", "found", "notFound", "error"}]
      OBVIOUS
    <3> QED BY <3>1, <3>2 DEF TypeOK
  <2>2. LockInv
    BY LockAssumption DEF LockInv, LockAt, OpAt, Reading, Writing, ReadPc, WritePc
  <2>3. DataInv
    BY Zenon DEF Holds, DataInv, WritePc
  <2>4. ReadInv
    BY DEF ReadInv, ReadAt
  <2> QED BY <2>1, <2>2, <2>3, <2>4 DEF SharingInv
<1> QED BY <1>1, SharingStep, PTL DEF Spec

(* Get returns what a Get of one moment would.                             *)
THEOREM GetAtomic == Spec => []GetIsAtomic
<1>1. SharingInv => GetIsAtomic
  BY Zenon DEF SharingInv, GetIsAtomic, ReadInv, ReadAt, Best
<1> QED BY <1>1, SharingInvariant, PTL

(* Two Puts, or a Put and a Delete, never leave the replicas apart.        *)
THEOREM AgreedReplicas == Spec => []ReplicasAgree
<1>1. SharingInv => ReplicasAgree
  BY DEF SharingInv, ReplicasAgree, DataInv, Holds
<1> QED BY <1>1, SharingInvariant, PTL

(* ErrKeyNotFound means that no device has a record of the key.            *)
THEOREM NotFoundTrue == Spec => []NotFoundIsTrue
<1>1. SharingInv => NotFoundIsTrue
  <2> SUFFICES ASSUME SharingInv, ~failed, NEW g \in Goroutines,
                      pc[g] = "release", op[g] = "get", result[g] = "notFound"
               PROVE  \A r \in Replicas : disk[r] = {}
    BY DEF NotFoundIsTrue
  <2>1. \A r \in Replicas : index[r] \notin disk[r]
    BY Zenon DEF SharingInv, ReadInv, ReadAt, Best
  <2>2. readers[g] # 0
    BY DEF SharingInv, LockInv, Reading, ReadOps, LockAt
  <2>3. \A h \in Goroutines : pc[h] \notin WritePc
    BY <2>2 DEF SharingInv, LockInv, LockAt, Writing
  <2>4. PICK x \in Record \cup {NoRecord} : \A r \in Replicas : Holds(r, x)
    BY <2>3 DEF SharingInv, DataInv
  <2> QED BY <2>1, <2>4 DEF Holds
<1> QED BY <1>1, SharingInvariant, PTL

(* While an Iterate callback runs, its key stays indexed.                  *)
THEOREM IteratedStays == Spec => []IteratedKeyStays
<1>1. SharingInv => IteratedKeyStays
  BY Zenon DEF SharingInv, IteratedKeyStays, ReadInv, ReadAt
<1> QED BY <1>1, SharingInvariant, PTL

(* A goroutine that has the write lock or waits for it last can go on, or  *)
(* one that reads can, or a callback waits for itself.                     *)
LEMMA WriterGoesOn ==
  ASSUME TypeOK, LockInv, NEW w \in Goroutines, writer = w,
         \A g \in Goroutines : ~SelfBlocked(g)
  PROVE  \E g \in Goroutines : Runs(g)
<1>1. Writing(w) \/ pc[w] = "drain"
  BY DEF LockInv, LockAt
<1>2. CASE Writing(w)
  BY <1>2 DEF Writing, WritePc, WaitPc, Runs
<1>3. CASE pc[w] = "drain" /\ \A h \in Goroutines : readers[h] = 0
  BY <1>3 DEF Runs
<1>4. CASE \E h \in Goroutines : readers[h] # 0
  <2>1. PICK h \in Goroutines : readers[h] # 0
    BY <1>4
  <2>2. LockAt(h) /\ ~SelfBlocked(h)
    BY DEF LockInv
  <2>3. ~Writing(h)
    BY <2>1, <2>2 DEF LockAt
  <2>4. CASE Reading(h)
    BY <2>4 DEF Reading, ReadPc, WaitPc, Runs
  <2>5. CASE inside[h]
    BY <2>2, <2>5, Zenon DEF SelfBlocked, LockAt, OpAt, WaitPc, Runs
  <2> QED BY <2>1, <2>2, <2>4, <2>5 DEF LockAt
<1> QED BY <1>1, <1>2, <1>3, <1>4

(* Waiting goroutines are never stuck, unless a callback waits for itself. *)
THEOREM NeverStuck == Spec => []BlockedOnlyByCallback
<1>1. SharingInv => BlockedOnlyByCallback
  BY WriterGoesOn, Zenon DEF BlockedOnlyByCallback, SharingInv, LockInv, LockAt, WaitPc, Runs,
     TypeOK
<1> QED BY <1>1, SharingInvariant, PTL
=============================================================================
