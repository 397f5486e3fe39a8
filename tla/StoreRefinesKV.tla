--------------------------- MODULE StoreRefinesKV ---------------------------
(* The store implements KVStore.  Its abstract contents are computed from  *)
(* the devices alone: what a restart finds after each power loss that      *)
(* could happen now, taking the highest generation over the replicas.      *)
EXTENDS Store

Located(disks, k) ==
  {x \in Replicas \X DataBlock : x[2] \in Newest(disks[x[1]], KeyStr[k])}

Found(disks, k) ==
  LET gen(x) == disks[x[1]][x[2]].generation
      best == {x \in Located(disks, k) : \A y \in Located(disks, k) :
                 gen(y) < gen(x) \/ (gen(y) = gen(x) /\ x[1] <= y[1])}
  IN  IF best = {} THEN {Absent} ELSE {RecordValue(disks[x[1]], x[2]) : x \in best}

Contents == [k \in Keys |-> UNION {Found(disks, k) : disks \in AfterPowerLoss}]

Call ==
  CASE op.type = "put" -> [active |-> TRUE, key |-> op.key, result |-> op.value]
    [] op.type = "delete" -> [active |-> TRUE, key |-> op.key, result |-> Absent]
    [] OTHER -> [active |-> FALSE]

KV == INSTANCE KVStore WITH contents <- Contents, call <- Call

(***************************************************************************)
(* On one replica, format, put, delete, recover and every power loss       *)
(* between their flushes are steps of the atomic, durable store: a restart *)
(* decides an interrupted operation once and for all, an acknowledged one  *)
(* is never taken back, and a refused put has changed nothing.             *)
(***************************************************************************)
RefinesKV == KV!Spec
=============================================================================
