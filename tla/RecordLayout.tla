---------------------------- MODULE RecordLayout ----------------------------
(***************************************************************************)
(* How a record is cut into blocks and read back: the capacities, the      *)
(* number of blocks, the sizes in the headers and the bytes behind them,   *)
(* in the words of the code.  Words are scaled down: Word stands for 2^32, *)
(* KeyWord for the 2^16 of the key size, while headers and blocks have     *)
(* their real sizes.  Subtractions wrap, as in a release build and in Go.  *)
(***************************************************************************)
EXTENDS Integers, Sequences

CONSTANTS Word, KeyWord

ASSUME WordAssumption ==
  /\ Word \in Nat \ {0}
  /\ KeyWord \in 1..Word

StorageHeaderSize == 28
DescriptorHeaderSize == 32
ChunkHeaderSize == 20
CrcSize == 4

U32(n) == n % Word

(* Mutant: the checksum is forgotten.                                      *)
CapacityWithoutCrc(bs, keySize) == U32(bs - DescriptorHeaderSize - keySize)

FirstPayloadCapacity(bs, keySize) == U32(bs - DescriptorHeaderSize - keySize - CrcSize)

ChunkPayloadCapacity(bs) == U32(bs - ChunkHeaderSize - CrcSize)

KeyFits(bs, keySize) == keySize <= U32(bs - DescriptorHeaderSize - CrcSize)

CeilDiv(a, b) == (a + b - 1) \div b

(* Mutant: one more block than the division gives.                         *)
BlocksRoundedUp(bs, key, value) ==
  LET first == FirstPayloadCapacity(bs, U32(key))
  IN  IF U32(value) <= first THEN 1
      ELSE 2 + (U32(value) - first) \div ChunkPayloadCapacity(bs)

(* The blocks of a record, from the lengths of its key and value.          *)
NeededBlocksFor(bs, key, value) ==
  LET first == FirstPayloadCapacity(bs, U32(key))
  IN  IF U32(value) <= first THEN 1
      ELSE 1 + CeilDiv(U32(value) - first, ChunkPayloadCapacity(bs))

(* Mutant: the quotient is rounded down.                                   *)
GoBlocksRoundedDown(bs, key, value) ==
  LET first == FirstPayloadCapacity(bs, U32(key))
  IN  IF U32(value) <= first THEN 1
      ELSE 1 + (U32(value) - first) \div ChunkPayloadCapacity(bs)

(* The same in Go, where the sum that rounds up is a word too.             *)
GoNeededBlocks(bs, key, value) ==
  LET first == FirstPayloadCapacity(bs, U32(key))
      chunk == ChunkPayloadCapacity(bs)
  IN  IF U32(value) <= first THEN 1
      ELSE U32(1 + U32(U32(value) - first + chunk - 1) \div chunk)

-----------------------------------------------------------------------------
(* Bytes are named by what they are: the i-th of the key or of the value,  *)
(* a header's, the checksum's, or padding.                                 *)
Part(name, n) == [i \in 1..n |-> <<name, i>>]

Least(a, b) == IF a <= b THEN a ELSE b

(* The payloads of n chunks that share out the rest of a value.            *)
ChunkSizes(rest, n, capacity) ==
  LET after[c \in 0..n] ==
        IF c = 0 THEN [rest |-> rest, sizes |-> <<>>]
        ELSE LET done == after[c - 1]
                 size == Least(U32(done.rest), capacity)
             IN  [rest |-> done.rest - size, sizes |-> Append(done.sizes, size)]
  IN  after[n].sizes

(***************************************************************************)
(* The record write_record lays out for a key and a value of these         *)
(* lengths: the header fields, the bytes of the descriptor block (offset 0 *)
(* is index 1), and the payload of each chunk, or that a slice is out of   *)
(* range.  The checksum goes over the last bytes of the block last.        *)
(***************************************************************************)
WriteRecordBytes(bs, key, value) ==
  LET first == Least(U32(value), FirstPayloadCapacity(bs, U32(key)))
      n == NeededBlocksFor(bs, key, value)
      end == DescriptorHeaderSize + key + first
      bytes == Part("header", DescriptorHeaderSize) \o Part("key", key) \o Part("value", first)
               \o Part("padding", bs - end)
  IN  [outcome |-> IF end > bs THEN "panic" ELSE "ok",
       keySize |-> U32(key) % KeyWord, firstSize |-> first,
       totalSize |-> U32(value), chunkCount |-> n,
       chunks |-> ChunkSizes(value - first, n - 1, ChunkPayloadCapacity(bs)),
       bytes |-> IF end > bs THEN <<>>
                 ELSE SubSeq(bytes, 1, bs - CrcSize) \o Part("crc", CrcSize)]

PutRecord(bs, key, value) ==
  IF KeyFits(bs, U32(key)) THEN WriteRecordBytes(bs, key, value) ELSE [outcome |-> "keyTooLong"]

SumOf(sizes) ==
  LET upTo[i \in 0..Len(sizes)] == IF i = 0 THEN 0 ELSE upTo[i - 1] + sizes[i]
  IN  upTo[Len(sizes)]

(* Mutant: the size of the first payload is not compared with the block.   *)
ReadsAnyFirstSize(bs, rec) ==
  LET payload == DescriptorHeaderSize + rec.keySize
  IN  IF ~KeyFits(bs, rec.keySize) \/ rec.chunkCount = 0 THEN "none"
      ELSE IF payload + rec.firstSize > bs THEN "panic"
      ELSE "read"

(* What the reader makes of the descriptor block: its checks, in their     *)
(* order, before it slices key and payload out of the block.               *)
ReadDescriptor(bs, rec) ==
  LET payload == DescriptorHeaderSize + rec.keySize
  IN  IF \/ ~KeyFits(bs, rec.keySize)
         \/ rec.firstSize > FirstPayloadCapacity(bs, rec.keySize)
         \/ rec.chunkCount = 0 THEN "none"
      ELSE IF payload + rec.firstSize > bs THEN "panic"
      ELSE "read"

(* The record read back: chunk payloads follow each other, byte i of the   *)
(* value after byte i - 1.                                                 *)
ReadRecord(bs, rec) ==
  LET payload == DescriptorHeaderSize + rec.keySize
      complete == /\ ReadDescriptor(bs, rec) = "read"
                  /\ \A c \in DOMAIN rec.chunks : rec.chunks[c] <= ChunkPayloadCapacity(bs)
                  /\ Len(rec.chunks) = rec.chunkCount - 1
                  /\ U32(rec.firstSize + SumOf(rec.chunks)) = rec.totalSize
      first == SubSeq(rec.bytes, payload + 1, payload + rec.firstSize)
  IN  IF ~complete THEN [outcome |-> "none"]
      ELSE [outcome |-> "read",
            key |-> SubSeq(rec.bytes, DescriptorHeaderSize + 1, payload),
            value |-> first \o [i \in 1..SumOf(rec.chunks) |-> <<"value", rec.firstSize + i>>]]
=============================================================================
