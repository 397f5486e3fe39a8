------------------------------ MODULE KVStore ------------------------------
(***************************************************************************)
(* What a key/value store on a device that can lose power promises to the  *)
(* client that uses it.  For each key, contents holds the results a        *)
(* restart at this point may find: one, except while an operation on the   *)
(* key is under way.                                                       *)
(***************************************************************************)
CONSTANTS Keys, Results, Absent

VARIABLES contents, call

NoCall == [active |-> FALSE]

Init ==
  /\ contents = [k \in Keys |-> {Absent}]
  /\ call = NoCall

(* A put asks for key k to hold x; a delete is the case x = Absent.        *)
Invoke(k, x) ==
  /\ call = NoCall
  /\ call' = [active |-> TRUE, key |-> k, result |-> x]
  /\ UNCHANGED contents

(* From here on a power loss may or may not find the operation done.       *)
Expose ==
  /\ call # NoCall
  /\ contents' = [contents EXCEPT ![call.key] = @ \cup {call.result}]
  /\ UNCHANGED call

(* The operation is done for good, though not yet acknowledged.            *)
Settle ==
  /\ call # NoCall
  /\ contents' = [contents EXCEPT ![call.key] = {call.result}]
  /\ UNCHANGED call

(* Success is reported only of what no power loss can take back.           *)
Acknowledge ==
  /\ call # NoCall
  /\ contents' = [contents EXCEPT ![call.key] = {call.result}]
  /\ call' = NoCall

(* An operation that reports an error has left the store as it was.        *)
Refuse ==
  /\ call # NoCall
  /\ call' = NoCall
  /\ UNCHANGED contents

(* A power loss keeps of every key one of the possible results, for good.  *)
Lose ==
  /\ \A k \in Keys : \E x \in contents[k] : contents'[k] = {x}
  /\ DOMAIN contents' = Keys
  /\ call' = NoCall

Next ==
  \/ \E k \in Keys, x \in Results : Invoke(k, x)
  \/ Expose \/ Settle \/ Acknowledge \/ Refuse \/ Lose

Spec == Init /\ [][Next]_<<contents, call>>
=============================================================================
