------------------------------ MODULE MCFaults ------------------------------
(* Values for the constants of StoreFaults.                                *)
EXTENDS StoreFaults

CONSTANTS k1, k2, small, large

TwoKeys == {k1, k2}
OneKey == {k1}
OwnKeyStr == [k \in Keys |-> k]
LossyKeyStr == [k \in Keys |-> "replacement"]
SmallLarge == {small, large}
BlocksOf == [v \in Values |-> IF v = small THEN 1 ELSE 2]
=============================================================================
