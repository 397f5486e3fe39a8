----------------------------- MODULE BlockFormat -----------------------------
(***************************************************************************)
(* What one replica device holds and what the store reads back from it:    *)
(* the contents of a block, which sequences of blocks make up a complete   *)
(* record, which record of a key is the newest, which blocks an erase      *)
(* walks over, and which blocks a new record is given.                     *)
(*                                                                         *)
(* An image is a function from block indices to block contents.  Block 0   *)
(* carries the storage header; records live in the blocks from 1 on.       *)
(***************************************************************************)
EXTENDS Integers

CONSTANTS
  BlockCount,    \* blocks of every replica device, the header block included
  Keys,          \* the byte strings clients use as keys
  KeyStr,        \* the string under which a key's bytes are indexed
  Values,        \* the values clients store
  NeededBlocks,  \* the blocks a record with a given value occupies
  GenLimit       \* a generation is a word that wraps at this limit (2^32)

ASSUME BlockCountAssumption == BlockCount \in Nat \ {0}
ASSUME NeededBlocksAssumption == NeededBlocks \in [Values -> Nat \ {0}]
ASSUME GenLimitAssumption == GenLimit \in Nat \ {0}

Block == 0 .. BlockCount - 1
DataBlock == 1 .. BlockCount - 1

(* The chain terminator: an index no device has.  A block may name any     *)
(* other index, also one beyond the end of the device.                     *)
NullBlock == -1
Pointer == Nat \cup {NullBlock}

Generation == 0 .. GenLimit - 1

(* Keys are compared and indexed by their string, not by their bytes.      *)
IndexKey == {KeyStr[k] : k \in Keys}

(* No two keys are indexed under the same string.                          *)
KeysDistinct == \A k, l \in Keys : KeyStr[k] = KeyStr[l] => k = l

-----------------------------------------------------------------------------
(***************************************************************************)
(* Block contents.  A block whose first byte is a free pattern is Free,    *)
(* whatever follows that byte; a block that is neither free nor of a known *)
(* type with a matching checksum is Garbage.  The payload of a block is    *)
(* the value it is a part of: which part is told by the block's position   *)
(* in the chain, which the checks on a chain pin down.                     *)
(***************************************************************************)
Free == [type |-> "free"]
Garbage == [type |-> "garbage"]
Header == [type |-> "header"]

RecordDescriptor ==
  [type: {"descriptor"}, key: Keys, generation: Generation,
   chunkCount: Nat, next: Pointer, payload: Values]

ValueChunk ==
  [type: {"chunk"}, owner: Nat, chunkIndex: Nat, next: Pointer,
   payload: Values]

Content == {Free, Garbage, Header} \cup RecordDescriptor \cup ValueChunk

Image == [Block -> Content]

(* What a block written in part holds: it fails its checksum, and has the  *)
(* first byte of the old or of the new content.                            *)
Torn == {Free, Garbage}

(* The contents whose trailing checksum matches.                           *)
CrcValid(c) == c.type \in {"header", "descriptor", "chunk"}

IsFreeCandidate(c) == c.type = "free"

-----------------------------------------------------------------------------
(***************************************************************************)
(* Reading a record.  A chain is the sequence of chunk blocks the reader   *)
(* visits from a descriptor when none of its checks fails.                 *)
(***************************************************************************)
IsChain(img, d, s) ==
  LET n == img[d].chunkCount - 1
      After(i) == IF i = n THEN NullBlock ELSE s[i + 1]
  IN  /\ img[d].next = After(0)
      /\ \A i \in 1 .. n :
           /\ img[s[i]].type = "chunk"
           /\ img[s[i]].owner = d
           /\ img[s[i]].chunkIndex = i
           /\ img[s[i]].next = After(i)

Chains(img, d) ==
  {s \in [1 .. (img[d].chunkCount - 1) -> Block] : IsChain(img, d, s)}

Complete(img, d) ==
  /\ img[d].type = "descriptor"
  /\ img[d].chunkCount # 0
  /\ Chains(img, d) # {}

(* The blocks a complete record is made of.                                *)
RecordBlocks(img, d) ==
  {b \in Block : \/ b = d
                 \/ \E s \in Chains(img, d) : \E i \in DOMAIN s : s[i] = b}

(* What a reader assembles when the chain mixes parts of several values: a *)
(* byte string that nobody stored.                                         *)
Mixed == "mixed"
Absent == "absent"
Results == Values \cup {Absent, Mixed}

ASSUME ResultsAssumption == Absent \notin Values /\ Mixed \notin Values

RecordValue(img, d) ==
  IF \A b \in RecordBlocks(img, d) : img[b].payload = img[d].payload
    THEN img[d].payload
    ELSE Mixed

-----------------------------------------------------------------------------
(***************************************************************************)
(* Scanning a device.  Among the complete records of a key the scan keeps  *)
(* the one of the highest generation, the first one it meets on a tie.     *)
(***************************************************************************)
Records(img, n) ==
  {d \in DataBlock : Complete(img, d) /\ KeyStr[img[d].key] = n}

Newest(img, n) ==
  {d \in Records(img, n) : \A e \in Records(img, n) :
     \/ img[e].generation < img[d].generation
     \/ img[e].generation = img[d].generation /\ d <= e}

(* What a scan of an image finds for a key.                                *)
Recovered(img, k) ==
  IF Records(img, KeyStr[k]) = {}
    THEN {Absent}
    ELSE {RecordValue(img, d) : d \in Newest(img, KeyStr[k])}

(* An index entry; the entry of an absent key has no block.                *)
Entry == [generation: Generation, block: Block \cup {NullBlock}]
NoEntry == [generation |-> 0, block |-> NullBlock]

EmptyIndex == [n \in IndexKey |-> NoEntry]

ScanIndex(img) ==
  [n \in IndexKey |->
     IF Newest(img, n) = {}
       THEN NoEntry
       ELSE LET d == CHOOSE d \in Newest(img, n) : TRUE
            IN  [generation |-> img[d].generation, block |-> d]]

(* Mutants of GarbageBlocks: recovery that spares descriptors but not      *)
(* their chunks, that spares every complete record, the stale ones too,    *)
(* and that erases only what fails its checksum.                           *)
GarbageBlocksWithChunks(img) ==
  {b \in DataBlock :
     /\ ~IsFreeCandidate(img[b])
     /\ \A n \in IndexKey : b \notin Newest(img, n)}

GarbageBlocksSparingStale(img) ==
  {b \in DataBlock :
     /\ ~IsFreeCandidate(img[b])
     /\ \A d \in DataBlock : Complete(img, d) => b \notin RecordBlocks(img, d)}

GarbageBlocksCorruptOnly(img) == {b \in DataBlock : img[b] = Garbage}

(* The blocks recovery erases: not free, and in no newest record.          *)
GarbageBlocks(img) ==
  {b \in DataBlock :
     /\ ~IsFreeCandidate(img[b])
     /\ \A n \in IndexKey : \A d \in Newest(img, n) : b \notin RecordBlocks(img, d)}

-----------------------------------------------------------------------------
(***************************************************************************)
(* Erasing a record follows the next pointers from its descriptor for as   *)
(* long as they lead to a block with a valid checksum; it does not look at *)
(* block types.  The word it takes for the next pointer is then whatever   *)
(* the block keeps at that offset: a header its replica id, a descriptor   *)
(* read as a chunk its chunk count.  The blocks erased are the least set   *)
(* closed under these steps.                                               *)
(***************************************************************************)
ChunkNext(c, replicaId) ==
  CASE c.type = "chunk" -> c.next
    [] c.type = "descriptor" -> c.chunkCount
    [] OTHER -> replicaId

ErasedFrom(img, first, d, replicaId) ==
  LET Erasable(b) == b \in Block \ {d} /\ CrcValid(img[b])
      Closed(S) == /\ Erasable(first) => first \in S
                   /\ \A b \in S : LET c == ChunkNext(img[b], replicaId)
                                   IN  Erasable(c) => c \in S
  IN  {b \in Block : /\ \A S \in SUBSET Block : Closed(S) => b \in S
                     /\ Erasable(b)}

-----------------------------------------------------------------------------
(***************************************************************************)
(* Allocation takes the lowest free blocks, in ascending order; there is   *)
(* none when too few blocks are free.                                      *)
(***************************************************************************)
Allocations(img, n) ==
  {f \in [1 .. n -> DataBlock] :
     /\ \A i \in 1 .. n : IsFreeCandidate(img[f[i]])
     /\ \A i, j \in 1 .. n : i < j => f[i] < f[j]
     /\ \A b \in DataBlock :
          IsFreeCandidate(img[b]) => b > f[n] \/ \E i \in 1 .. n : f[i] = b}

(* The block a new record puts at position i of its allocation f.          *)
WrittenBlock(f, i, k, g, v) ==
  LET n == NeededBlocks[v]
      following == IF i = n THEN NullBlock ELSE f[i + 1]
  IN  IF i = 1
        THEN [type |-> "descriptor", key |-> k, generation |-> g,
              chunkCount |-> n, next |-> following, payload |-> v]
        ELSE [type |-> "chunk", owner |-> f[1], chunkIndex |-> i - 1,
              next |-> following, payload |-> v]

WriteRecord(img, f, k, g, v) ==
  [b \in Block |-> IF \E i \in DOMAIN f : f[i] = b
                     THEN WrittenBlock(f, CHOOSE i \in DOMAIN f : f[i] = b, k, g, v)
                     ELSE img[b]]

Erase(img, S) == [b \in Block |-> IF b \in S THEN Free ELSE img[b]]

-----------------------------------------------------------------------------
(* A device in order: nothing but free blocks and blocks of complete       *)
(* records, and one record for each key.                                   *)
Tidy(img) ==
  \A b \in DataBlock :
    img[b] = Free \/ \E d \in DataBlock : Complete(img, d) /\ b \in RecordBlocks(img, d)

Unique(img) == \A n \in IndexKey : \A d, e \in Records(img, n) : d = e
=============================================================================
