------------------------------- MODULE MCLock -------------------------------
(* Small instances of StoreLock.                                           *)
EXTENDS StoreLockInvariant, TLC

CONSTANTS g1, g2, g3

Three == {g1, g2, g3}

(* One iterates, keeps the index and puts; one deletes; one reads, puts    *)
(* and closes; callbacks list the keys and put.                            *)
ThreeCalls == g1 :> {"iterate", "put", "buildIndex", "recover"} @@ g2 :> {"delete"} @@
              g3 :> {"get", "put", "close"}
=============================================================================
