----------------------------- MODULE MCDevices ------------------------------
(* Small instances of Devices.                                             *)
EXTENDS Devices

CONSTANTS d1, d2

OneOrTwo == {<<d1>>, <<d2>>, <<d1, d2>>}

Of(bs, count) == [bs |-> bs, count |-> count]

(* Blocks too small for a header, too small for a descriptor, with room    *)
(* for no byte of a key and for eight; the largest file has more blocks    *)
(* than a word counts when it is opened with blocks of 32 bytes.           *)
SomeGeometries == {Of(31, 2), Of(34, 3), Of(36, 3), Of(44, 208)}

SomeBlockSizes == {32, 34, 36, 44}

(* One bit in every byte, and 32 bits in a row, aligned and not.           *)
Bursts == {{8 * i + (i % 8)} : i \in 0..8} \cup {i..i + 31 : i \in {0, 5, 23, 40}}

SomeKeySizes == {0, 1, 2, 3, 4, 5, 8, 9, 257}

SomeValueSizes == 0..9 \cup {12, 13, 20, 21, 24, 25, 28, 29} \cup 232..260
=============================================================================
