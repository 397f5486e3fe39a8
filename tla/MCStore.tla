------------------------------ MODULE MCStore ------------------------------
(* Values for the constants of Store: a value of one block and two of two  *)
(* blocks, and keys that are indexed under themselves.                     *)
EXTENDS StoreRefinesKV, StoreInvariant, TLC

CONSTANTS k1, k2, small, large, other

OneKey == {k1}
TwoKeys == {k1, k2}
OwnKeyStr == [k \in Keys |-> k]
BlocksOf == [v \in Values |-> IF v = small THEN 1 ELSE 2]
SmallLarge == {small, large}
SameSize == {large, other}
AllValues == {small, large, other}
KeySymmetry == Permutations({k1, k2})
=============================================================================
