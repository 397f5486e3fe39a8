------------------------- MODULE StoreLockInvariant -------------------------
(***************************************************************************)
(* The inductive invariant of goroutines that share a store: who holds the *)
(* lock, what the replicas hold at each step of the one that writes, and   *)
(* what those that read have seen so far.                                  *)
(***************************************************************************)
EXTENDS StoreLock

(* The methods a goroutine may be in at each place.                        *)
OpAt(where) ==
  CASE where = "idle" -> {"none"}
    [] where = "acquire" -> ReadOps \cup WriteOps
    [] where = "parked" -> ReadOps
    [] where = "drain" -> WriteOps
    [] where = "release" -> ReadOps \cup WriteOps
    [] where = "look" -> {"get"}
    [] where = "collect" -> {"keys", "iterate"}
    [] where \in {"callback", "called"} -> {"iterate"}
    [] where \in {"write", "commit", "erase", "eraseFlush"} -> {"put"}
    [] where \in {"free", "drop"} -> {"delete"}
    [] where \in {"clear", "scan"} -> {"buildIndex"}
    [] where \in {"recover", "recoverFlush"} -> {"recover"}
    [] where = "close" -> {"close"}

(* Goroutine g is in a method that has the read lock, the write lock.      *)
Reading(g) == \/ pc[g] \in ReadPc \cup {"callback", "called"}
              \/ pc[g] = "release" /\ op[g] \in ReadOps

Writing(g) == pc[g] \in WritePc \/ (pc[g] = "release" /\ op[g] \in WriteOps)

(* A method starts with the first replica, where Put makes its record; the *)
(* read lock is held by the method g is in and by the Iterate around it;   *)
(* one goroutine at most writes, and none reads then; a reader is parked   *)
(* only while there is a writer.                                           *)
LockAt(g) ==
  /\ op[g] \in OpAt(pc[g])
  /\ inside[g] => pc[g] \notin {"idle", "called"}
  /\ pc[g] \in WaitPc \cup {"idle"} => cur[g] = 1 /\ rec[g] = NoRecord
  /\ pc[g] \in {"commit", "erase", "eraseFlush"} \/ (pc[g] = "write" /\ cur[g] > 1) =>
       rec[g] \in Record
  /\ readers[g] = (IF Reading(g) THEN 1 ELSE 0) + (IF inside[g] THEN 1 ELSE 0)
  /\ writer = g <=> Writing(g) \/ pc[g] = "drain"
  /\ pc[g] = "parked" => writer # NoOne
  /\ Writing(g) => \A h \in Goroutines : readers[h] = 0

LockInv == \A g \in Goroutines : LockAt(g)

-----------------------------------------------------------------------------
(* Replica r indexes record x and holds nothing else.                      *)
Holds(r, x) == index[r] = x /\ disk[r] = {x} \ {NoRecord}

(* What the replicas hold while g writes: those it has passed hold the     *)
(* result, those it has not reached what all held before.                  *)
Halfway(g, new, before) ==
  /\ \A r \in Replicas : r < cur[g] => Holds(r, new)
  /\ \A r \in Replicas : r > cur[g] => Holds(r, before)

DataAt(g) ==
  \E x \in Record \cup {NoRecord} :
    \/ /\ pc[g] = "write"
       /\ Halfway(g, rec[g], x) /\ Holds(cur[g], x)
       /\ cur[g] > 1 => rec[g] \in Record /\ rec[g].generation # x.generation
    \/ /\ pc[g] \in {"commit", "erase"}
       /\ Halfway(g, rec[g], x)
       /\ rec[g] \in Record /\ rec[g].generation # x.generation
       /\ old[g] = x /\ disk[cur[g]] = {rec[g], x} \ {NoRecord}
       /\ index[cur[g]] = IF pc[g] = "commit" THEN x ELSE rec[g]
    \/ /\ pc[g] = "eraseFlush"
       /\ Halfway(g, rec[g], x) /\ Holds(cur[g], rec[g])
       /\ rec[g] \in Record /\ rec[g].generation # x.generation
    \/ pc[g] = "free" /\ Halfway(g, NoRecord, x) /\ Holds(cur[g], x)
    \/ pc[g] = "drop" /\ Halfway(g, NoRecord, x) /\ disk[cur[g]] = {}
    \/ pc[g] \in {"clear", "recover", "recoverFlush"} /\ Halfway(g, x, x) /\ Holds(cur[g], x)
    \/ pc[g] = "scan" /\ Halfway(g, x, x) /\ disk[cur[g]] = {x} \ {NoRecord}

(* Between writes all replicas hold the same, unless a write has failed.   *)
DataInv ==
  ~failed =>
    /\ \A g \in Goroutines : pc[g] \in WritePc => DataAt(g)
    /\ (\A g \in Goroutines : pc[g] \notin WritePc) =>
         \E x \in Record \cup {NoRecord} : \A r \in Replicas : Holds(r, x)

-----------------------------------------------------------------------------
(* What g has found is the best of the replicas it has looked at.          *)
Best(g, seen) ==
  /\ rec[g] = NoRecord => \A r \in seen : index[r] \notin disk[r]
  /\ rec[g] # NoRecord =>
       /\ \E r \in seen : rec[g] = index[r]
       /\ \A r \in seen : index[r] \in disk[r] => index[r].generation <= rec[g].generation

ReadAt(g) ==
  /\ pc[g] = "look" => Best(g, {r \in Replicas : r < cur[g]})
  /\ pc[g] = "release" /\ result[g] = "found" => rec[g] # NoRecord /\ Best(g, Replicas)
  /\ pc[g] = "release" /\ op[g] = "get" /\ result[g] = "notFound" =>
       rec[g] = NoRecord /\ Best(g, Replicas)
  /\ pc[g] = "collect" /\ rec[g] # NoRecord => \E r \in Replicas : index[r] = rec[g]
  /\ pc[g] \in {"callback", "called"} \/ inside[g] =>
       \E r \in Replicas : index[r] # NoRecord

ReadInv == \A g \in Goroutines : ReadAt(g)

(***************************************************************************)
(* At every step of the methods of a store that goroutines share, all of   *)
(* the above.                                                              *)
(***************************************************************************)
SharingInv == TypeOK /\ LockInv /\ DataInv /\ ReadInv
=============================================================================
