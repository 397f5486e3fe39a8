------------------------- MODULE BlockFormatProofs -------------------------
(* What the reader, the scan, the eraser and the allocator do to the       *)
(* records of an image, for images and records of any size.                *)
EXTENDS BlockFormat, WellFoundedInduction, TLAPS

(* A block whose type byte says descriptor, or chunk, has its fields.      *)
LEMMA ContentCases ==
  ASSUME NEW c \in Content
  PROVE  /\ c.type = "descriptor" => c \in RecordDescriptor
         /\ c.type = "chunk" => c \in ValueChunk
         /\ c.type = "free" => c = Free
BY DEF Content, Free, Garbage, Header, RecordDescriptor, ValueChunk

(* Block 0 is the header block, the others hold records, and the end of a  *)
(* chain (BLOCK_NULL) is none of them.                                     *)
LEMMA BlockZero ==
  /\ 0 \in Block /\ DataBlock \subseteq Block
  /\ \A b \in Block : b # 0 => b \in DataBlock
  /\ NullBlock \notin Block
BY BlockCountAssumption DEF Block, DataBlock, NullBlock

(* A set of naturals that is not empty has a least element.                *)
LEMMA LeastNat ==
  ASSUME NEW S, S \subseteq Nat, S # {}
  PROVE  \E x \in S : \A y \in S : x <= y
<1>1. PICK x \in S : \A y \in S : ~ (<<y, x>> \in OpToRel(<, Nat))
  BY NatLessThanWellFounded, WFMin
<1>2. \A y \in S : ~ (y < x)
  BY <1>1, Zenon DEF OpToRel
<1> QED BY <1>2

(* A free, a damaged and a header block are contents a block can have.     *)
LEMMA PlainContents == Free \in Content /\ Garbage \in Content /\ Header \in Content
BY DEF Content

(* write_record fills blocks with descriptors and chunks.                  *)
LEMMA WrittenBlockType ==
  ASSUME NEW v \in Values, NEW k \in Keys, NEW g \in Generation,
         NEW f \in [1 .. NeededBlocks[v] -> DataBlock], NEW i \in 1 .. NeededBlocks[v]
  PROVE  WrittenBlock(f, i, k, g, v) \in Content
<1> DEFINE n == NeededBlocks[v]
           following == IF i = n THEN NullBlock ELSE f[i + 1]
<1>1. n \in Nat \ {0}
  BY NeededBlocksAssumption
<1>2. following \in Pointer
  BY <1>1 DEF DataBlock, Pointer
<1>3. f[1] \in Nat
  BY <1>1 DEF DataBlock
<1>4. CASE i = 1
  BY <1>1, <1>2, <1>4 DEF WrittenBlock, Content, RecordDescriptor
<1>5. CASE i # 1
  BY <1>1, <1>2, <1>3, <1>5 DEF WrittenBlock, Content, ValueChunk
<1> QED BY <1>4, <1>5

(* write_record leaves a well-formed image.                                *)
LEMMA WriteRecordType ==
  ASSUME NEW img \in Image, NEW v \in Values, NEW k \in Keys, NEW g \in Generation,
         NEW f \in [1 .. NeededBlocks[v] -> DataBlock]
  PROVE  WriteRecord(img, f, k, g, v) \in Image
<1> SUFFICES ASSUME NEW b \in Block, \E i \in DOMAIN f : f[i] = b
             PROVE  WrittenBlock(f, CHOOSE i \in DOMAIN f : f[i] = b, k, g, v) \in Content
  BY DEF WriteRecord, Image
<1> QED BY WrittenBlockType

(* Overwriting blocks with the free pattern leaves a well-formed image.    *)
LEMMA EraseType ==
  ASSUME NEW img \in Image, NEW S
  PROVE  Erase(img, S) \in Image
BY PlainContents DEF Erase, Image

(* What the reader finds along a chain.                                    *)
LEMMA ChainFacts ==
  ASSUME NEW img \in Image, NEW d \in Block, img[d].type = "descriptor",
         NEW s \in Chains(img, d)
  PROVE  LET n == img[d].chunkCount - 1
         IN  /\ img[d].chunkCount \in Nat
             /\ s \in [1 .. n -> Block]
             /\ n = 0 => img[d].next = NullBlock
             /\ n > 0 => img[d].next = s[1]
             /\ \A i \in 1 .. n : /\ img[s[i]].type = "chunk"
                                  /\ img[s[i]].owner = d
                                  /\ img[s[i]].chunkIndex = i
                                  /\ i = n => img[s[i]].next = NullBlock
                                  /\ i < n => img[s[i]].next = s[i + 1]
<1>1. img[d].chunkCount \in Nat
  BY ContentCases DEF Image, RecordDescriptor
<1> QED BY <1>1 DEF Chains, IsChain

(* No two chains start from the same descriptor.                           *)
LEMMA ChainUnique ==
  ASSUME NEW img \in Image, NEW d \in Block, img[d].type = "descriptor",
         NEW s \in Chains(img, d), NEW t \in Chains(img, d)
  PROVE  s = t
<1> DEFINE n == img[d].chunkCount - 1
           D == {i \in 1 .. n : s[i] # t[i]}
<1>1. n \in Int /\ s \in [1 .. n -> Block] /\ t \in [1 .. n -> Block]
  BY ChainFacts
<1>2. \A i \in 1 .. n : i < n => img[s[i]].next = s[i + 1]
  BY ChainFacts
<1>3. \A i \in 1 .. n : i < n => img[t[i]].next = t[i + 1]
  BY ChainFacts
<1>4. D = {}
  <2> SUFFICES ASSUME D # {} PROVE FALSE
    OBVIOUS
  <2>1. D \subseteq Nat
    BY <1>1
  <2>2. PICK i \in D : \A j \in D : i <= j
    <3> HIDE DEF D
    <3> QED BY <2>1, LeastNat, Zenon
  <2>3. CASE i = 1
    <3>1. n > 0 /\ s[1] # t[1]
      BY <1>1, <2>2, <2>3
    <3> QED BY <3>1, ChainFacts
  <2>4. CASE i # 1
    <3>1. i - 1 \in 1 .. n /\ i - 1 < n /\ s[i - 1] = t[i - 1]
      BY <1>1, <2>2, <2>4
    <3>2. (i - 1) + 1 = i
      BY <1>1, <2>2
    <3>3. img[s[i - 1]].next = s[i]
      BY <1>2, <3>1, <3>2
    <3>4. img[t[i - 1]].next = t[i]
      BY <1>3, <3>1, <3>2
    <3> QED BY <3>1, <3>3, <3>4, <2>2
  <2> QED BY <2>3, <2>4
<1>5. \A i \in 1 .. n : s[i] = t[i]
  BY <1>4
<1> HIDE DEF n
<1> QED BY <1>1, <1>5

-----------------------------------------------------------------------------
(* The blocks of a complete record: its descriptor, and chunks that name   *)
(* it as their owner.                                                      *)
LEMMA RecordBlocksFacts ==
  ASSUME NEW img \in Image, NEW d \in Block, Complete(img, d)
  PROVE  /\ img[d] \in RecordDescriptor
         /\ d \in RecordBlocks(img, d)
         /\ RecordBlocks(img, d) \subseteq Block
         /\ \A b \in RecordBlocks(img, d) :
              b # d => img[b] \in ValueChunk /\ img[b].type = "chunk" /\ img[b].owner = d
         /\ \A b \in RecordBlocks(img, d) : img[b] # Free
<1>1. img[d].type = "descriptor" /\ img[d] \in RecordDescriptor
  BY ContentCases DEF Complete, Image
<1>2. ASSUME NEW b \in RecordBlocks(img, d), b # d
      PROVE  b \in Block /\ img[b].type = "chunk" /\ img[b].owner = d
  <2>1. PICK s \in Chains(img, d) : \E i \in DOMAIN s : s[i] = b
    BY <1>2 DEF RecordBlocks
  <2>2. PICK i \in 1 .. (img[d].chunkCount - 1) : s[i] = b
    BY <2>1 DEF Chains
  <2>3. s \in [1 .. (img[d].chunkCount - 1) -> Block]
    BY DEF Chains
  <2> QED BY <1>1, <2>2, <2>3, ChainFacts
<1>3. \A b \in RecordBlocks(img, d) : img[b] # Free
  BY <1>1, <1>2 DEF Free
<1> QED BY <1>1, <1>2, <1>3, ContentCases DEF RecordBlocks, Image

(* Two complete records share no block.                                    *)
LEMMA RecordsDisjoint ==
  ASSUME NEW img \in Image, NEW d \in Block, NEW e \in Block, d # e,
         Complete(img, d), Complete(img, e)
  PROVE  RecordBlocks(img, d) \cap RecordBlocks(img, e) = {}
<1> SUFFICES ASSUME NEW b \in RecordBlocks(img, d), b \in RecordBlocks(img, e)
             PROVE  FALSE
  OBVIOUS
<1>1. img[d].type = "descriptor" /\ img[e].type = "descriptor"
  BY DEF Complete
<1>2. b # d => img[b].type = "chunk" /\ img[b].owner = d
  BY RecordBlocksFacts
<1>3. b # e => img[b].type = "chunk" /\ img[b].owner = e
  BY RecordBlocksFacts
<1> QED BY <1>1, <1>2, <1>3

(* A record is complete as long as its blocks stay as they are.            *)
LEMMA RecordFrame ==
  ASSUME NEW img \in Image, NEW new \in Image, NEW d \in Block, Complete(img, d),
         \A b \in RecordBlocks(img, d) : new[b] = img[b]
  PROVE  Complete(new, d) /\ RecordBlocks(new, d) = RecordBlocks(img, d)
<1>1. img[d].type = "descriptor" /\ new[d] = img[d]
  BY RecordBlocksFacts DEF Complete
<1>2. ASSUME NEW s \in Chains(img, d)
      PROVE  s \in Chains(new, d)
  <2>1. s \in [1 .. (new[d].chunkCount - 1) -> Block]
    BY <1>1 DEF Chains
  <2>2. \A i \in 1 .. (img[d].chunkCount - 1) : new[s[i]] = img[s[i]]
    BY <1>2, Zenon DEF Chains, RecordBlocks
  <2>3. IsChain(img, d, s)
    BY DEF Chains
  <2>4. IsChain(new, d, s)
    BY <1>1, <2>2, <2>3 DEF IsChain
  <2> QED BY <2>1, <2>4 DEF Chains
<1>3. PICK s : s \in Chains(img, d)
  BY DEF Complete
<1>4. Complete(new, d)
  BY <1>1, <1>2, <1>3 DEF Complete
<1>5. Chains(img, d) = {s} /\ Chains(new, d) = {s}
  BY <1>1, <1>2, <1>3, ChainUnique
<1> QED BY <1>4, <1>5 DEF RecordBlocks

-----------------------------------------------------------------------------
(* write_record makes the blocks it was given one complete record.         *)
LEMMA WrittenRecord ==
  ASSUME NEW img \in Image, NEW v \in Values, NEW k \in Keys, NEW g \in Generation,
         NEW f \in Allocations(img, NeededBlocks[v]),
         NEW new, new = WriteRecord(img, f, k, g, v), new \in Image
  PROVE  LET n == NeededBlocks[v]
             S == {f[i] : i \in 1 .. n}
         IN  /\ f[1] \in DataBlock
             /\ S \subseteq DataBlock
             /\ \A b \in S : img[b] = Free
             /\ \A b \in Block \ S : new[b] = img[b]
             /\ new[f[1]].type = "descriptor"
             /\ new[f[1]].key = k
             /\ new[f[1]].generation = g
             /\ new[f[1]].payload = v
             /\ \A b \in S \ {f[1]} : /\ new[b].type = "chunk"
                                        /\ new[b].owner = f[1]
                                        /\ new[b].payload = v
             /\ Complete(new, f[1])
             /\ RecordBlocks(new, f[1]) = S
<1> DEFINE n == NeededBlocks[v]
           S == {f[i] : i \in 1 .. n}
           s == [i \in 1 .. (n - 1) |-> f[i + 1]]
<1>1. n \in Nat \ {0} /\ 1 \in 1 .. n
  BY NeededBlocksAssumption
<1>2. f \in [1 .. n -> DataBlock] /\ f \in [1 .. n -> Block]
  BY BlockZero DEF Allocations
<1>3. \A i, j \in 1 .. n : i < j => f[i] < f[j]
  BY DEF Allocations
<1>4. \A i, j \in 1 .. n : f[i] = f[j] => i = j
  BY <1>1, <1>2, <1>3 DEF DataBlock
<1>5. \A i \in 1 .. n : new[f[i]] = WrittenBlock(f, i, k, g, v)
  <2> SUFFICES ASSUME NEW i \in 1 .. n
               PROVE  new[f[i]] = WrittenBlock(f, i, k, g, v)
    OBVIOUS
  <2>1. (CHOOSE j \in DOMAIN f : f[j] = f[i]) = i
    BY <1>2, <1>4
  <2> QED BY <1>2, <2>1, Zenon DEF WriteRecord
<1>6. \A b \in S : img[b] = Free
  BY <1>2, ContentCases DEF Allocations, IsFreeCandidate, Image
<1>7. \A b \in Block \ S : new[b] = img[b]
  BY <1>2 DEF WriteRecord
<1>8. /\ new[f[1]].type = "descriptor"
      /\ new[f[1]].key = k
      /\ new[f[1]].generation = g
      /\ new[f[1]].payload = v
      /\ new[f[1]].chunkCount = n
      /\ new[f[1]].next = IF 1 = n THEN NullBlock ELSE f[1 + 1]
  <2>1. new[f[1]] = [type |-> "descriptor", key |-> k, generation |-> g,
                     chunkCount |-> n, next |-> IF 1 = n THEN NullBlock ELSE f[1 + 1],
                     payload |-> v]
    BY <1>1, <1>5, Zenon DEF WrittenBlock
  <2> QED BY <2>1
<1>9. ASSUME NEW i \in 1 .. n, i # 1
      PROVE  /\ new[f[i]].type = "chunk"
             /\ new[f[i]].owner = f[1]
             /\ new[f[i]].chunkIndex = i - 1
             /\ new[f[i]].payload = v
             /\ new[f[i]].next = IF i = n THEN NullBlock ELSE f[i + 1]
  <2>1. new[f[i]] = [type |-> "chunk", owner |-> f[1], chunkIndex |-> i - 1,
                     next |-> IF i = n THEN NullBlock ELSE f[i + 1], payload |-> v]
    BY <1>5, <1>9, Zenon DEF WrittenBlock
  <2> QED BY <2>1
<1>10. s \in Chains(new, f[1])
  <2>1. s \in [1 .. (new[f[1]].chunkCount - 1) -> Block]
    BY <1>1, <1>2, <1>8
  <2>2. ASSUME NEW i \in 1 .. (n - 1)
        PROVE  /\ new[s[i]].type = "chunk"
               /\ new[s[i]].owner = f[1]
               /\ new[s[i]].chunkIndex = i
               /\ new[s[i]].next = IF i = n - 1 THEN NullBlock ELSE s[i + 1]
    <3>1. i + 1 \in 1 .. n /\ i + 1 # 1 /\ s[i] = f[i + 1]
      BY <1>1
    <3>2. i # n - 1 => s[i + 1] = f[i + 2]
      BY <1>1
    <3>3. /\ new[f[i + 1]].type = "chunk"
          /\ new[f[i + 1]].owner = f[1]
          /\ new[f[i + 1]].chunkIndex = (i + 1) - 1
          /\ new[f[i + 1]].next = IF i + 1 = n THEN NullBlock ELSE f[(i + 1) + 1]
      BY <1>9, <3>1
    <3> HIDE DEF s
    <3> QED BY <1>1, <3>1, <3>2, <3>3
  <2>3. new[f[1]].next = IF n - 1 = 0 THEN NullBlock ELSE s[1]
    BY <1>1, <1>8
  <2>4. IsChain(new, f[1], s)
    <3> HIDE DEF s
    <3>1. new[f[1]].chunkCount = n
      BY <1>8
    <3> QED BY <1>1, <2>2, <2>3, <3>1 DEF IsChain
  <2> QED BY <2>1, <2>4 DEF Chains
<1>11. Complete(new, f[1])
  BY <1>1, <1>8, <1>10 DEF Complete
<1>12. RecordBlocks(new, f[1]) = S
  <2>1. Chains(new, f[1]) = {s}
    <3> HIDE DEF s
    <3>1. f[1] \in Block /\ new[f[1]].type = "descriptor"
      BY <1>1, <1>2, <1>8
    <3> QED BY <1>10, <3>1, ChainUnique
  <2>2. ASSUME NEW i \in 1 .. n PROVE f[i] \in RecordBlocks(new, f[1])
    <3>1. CASE i = 1
      BY <1>1, <1>2, <3>1 DEF RecordBlocks
    <3>2. CASE i # 1
      <4>1. i - 1 \in DOMAIN s /\ s[i - 1] = f[i]
        BY <1>1, <3>2
      <4> QED BY <1>2, <2>1, <4>1 DEF RecordBlocks
    <3> QED BY <3>1, <3>2
  <2>3. ASSUME NEW b \in RecordBlocks(new, f[1]) PROVE b \in S
    <3>1. CASE b = f[1]
      BY <1>1, <3>1
    <3>2. CASE \E i \in DOMAIN s : s[i] = b
      BY <1>1, <3>2
    <3> QED BY <2>1, <2>3, <3>1, <3>2 DEF RecordBlocks
  <2> QED BY <2>2, <2>3
<1>13. \A b \in S \ {f[1]} : new[b].type = "chunk" /\ new[b].owner = f[1] /\ new[b].payload = v
  BY <1>9
<1>14. f[1] \in DataBlock /\ S \subseteq DataBlock
  BY <1>1, <1>2
<1> QED BY <1>6, <1>7, <1>8, <1>11, <1>12, <1>13, <1>14

-----------------------------------------------------------------------------
(* free_record on a complete record erases the blocks of that record.      *)
LEMMA ErasedRecord ==
  ASSUME NEW img \in Image, NEW d \in Block, Complete(img, d), NEW id
  PROVE  {d} \cup ErasedFrom(img, img[d].next, d, id) = RecordBlocks(img, d)
<1> DEFINE n == img[d].chunkCount - 1
           first == img[d].next
           Erasable(b) == b \in Block \ {d} /\ CrcValid(img[b])
           Closed(T) == /\ Erasable(first) => first \in T
                        /\ \A b \in T : LET c == ChunkNext(img[b], id)
                                        IN  Erasable(c) => c \in T
<1>1. img[d].type = "descriptor"
  BY DEF Complete
<1>2. PICK s : s \in Chains(img, d)
  BY DEF Complete
<1>3. Chains(img, d) = {s}
  BY <1>1, <1>2, ChainUnique
<1> DEFINE S == {s[i] : i \in 1 .. n}
<1>4. n \in Nat /\ s \in [1 .. n -> Block] /\ S \subseteq Block
  <2>1. img[d].chunkCount \in Nat /\ s \in [1 .. n -> Block]
    BY <1>1, <1>2, ChainFacts
  <2>2. n \in Nat
    BY <2>1 DEF Complete
  <2> QED BY <2>1, <2>2
<1>5. RecordBlocks(img, d) = {d} \cup S
  BY <1>3, <1>4 DEF RecordBlocks
<1>6. \A i \in 1 .. n : s[i] # d /\ Erasable(s[i]) /\ ChunkNext(img[s[i]], id) = img[s[i]].next
  BY <1>1, <1>2, <1>4, ChainFacts DEF CrcValid, ChunkNext
<1>6a. \A i \in 1 .. n : i < n => img[s[i]].next = s[i + 1]
  BY <1>1, <1>2, ChainFacts
<1>6b. \A i \in 1 .. n : i = n => img[s[i]].next = NullBlock
  BY <1>1, <1>2, ChainFacts
<1>7. ErasedFrom(img, first, d, id) =
        {b \in Block : (\A T \in SUBSET Block : Closed(T) => b \in T) /\ Erasable(b)}
  BY DEF ErasedFrom
<1>8. Closed(S)
  <2>1. Erasable(first) => first \in S
    BY <1>1, <1>2, <1>4, ChainFacts, BlockZero
  <2>2. ASSUME NEW i \in 1 .. n, Erasable(ChunkNext(img[s[i]], id))
        PROVE  ChunkNext(img[s[i]], id) \in S
    <3>1. ChunkNext(img[s[i]], id) = img[s[i]].next /\ img[s[i]].next # NullBlock
      BY <1>6, <2>2, BlockZero
    <3>2. i < n
      BY <1>4, <1>6b, <3>1
    <3>3. img[s[i]].next = s[i + 1] /\ i + 1 \in 1 .. n
      BY <1>4, <1>6a, <3>2
    <3> QED BY <3>1, <3>3
  <2> HIDE DEF Erasable
  <2> QED BY <2>1, <2>2
<1>9. ErasedFrom(img, first, d, id) \subseteq S
  <2> HIDE DEF Closed, S
  <2> QED BY <1>4, <1>7, <1>8
<1>10. S \subseteq ErasedFrom(img, first, d, id)
  <2> SUFFICES ASSUME NEW T \in SUBSET Block, Closed(T)
               PROVE  S \subseteq T
    <3> HIDE DEF Closed
    <3> QED BY <1>4, <1>6, <1>7
  <2> DEFINE D == {i \in 1 .. n : s[i] \notin T}
  <2> SUFFICES ASSUME D # {} PROVE FALSE
    BY <1>4
  <2>1. D \subseteq Nat
    BY <1>4
  <2>2. PICK i \in D : \A j \in D : i <= j
    <3> HIDE DEF D
    <3> QED BY <2>1, LeastNat, Zenon
  <2>3. CASE i = 1
    <3>1. n > 0 /\ s[1] = first /\ s[1] \notin T
      BY <1>1, <1>2, <1>4, <2>2, <2>3, ChainFacts
    <3>2. Erasable(first)
      BY <1>4, <1>6, <3>1
    <3> QED BY <3>1, <3>2
  <2>4. CASE i # 1
    <3>1. i - 1 \in 1 .. n /\ i - 1 < n /\ s[i - 1] \in T /\ s[i] \notin T /\ i \in 1 .. n
      BY <1>4, <2>2, <2>4
    <3>2. img[s[i - 1]].next = s[(i - 1) + 1] /\ (i - 1) + 1 = i
      BY <1>6a, <3>1
    <3>3. ChunkNext(img[s[i - 1]], id) = s[i]
      BY <1>6, <3>1, <3>2
    <3>4. Erasable(s[i])
      BY <1>6, <3>1
    <3> QED BY <3>1, <3>3, <3>4
  <2> QED BY <2>3, <2>4
<1> QED BY <1>5, <1>9, <1>10

-----------------------------------------------------------------------------
(* A highest generation exists, and a first block that has it.             *)
LEMMA HighestFirst ==
  ASSUME NEW S, S \subseteq Nat, S # {}, NEW g \in [S -> Generation]
  PROVE  \E d \in S : \A e \in S : g[e] < g[d] \/ (g[e] = g[d] /\ d <= e)
<1>1. \A d \in S : g[d] \in Nat /\ GenLimit - g[d] \in Nat
  BY GenLimitAssumption DEF Generation
<1> DEFINE T == {GenLimit - g[d] : d \in S}
<1>2. T \subseteq Nat /\ T # {}
  BY <1>1, Zenon
<1>3. PICK x \in T : \A y \in T : x <= y
  <2> HIDE DEF T
  <2> QED BY <1>2, LeastNat, Zenon
<1>4. PICK h \in S : x = GenLimit - g[h]
  OBVIOUS
<1>5. \A e \in S : g[e] <= g[h]
  BY <1>1, <1>3, <1>4, GenLimitAssumption
<1> DEFINE U == {e \in S : g[e] = g[h]}
<1>6. U \subseteq Nat /\ U # {}
  BY <1>4, Zenon
<1>7. PICK d \in U : \A e \in U : d <= e
  <2> HIDE DEF U
  <2> QED BY <1>6, LeastNat, Zenon
<1> QED BY <1>1, <1>5, <1>7

(* A key with a complete record has a newest one.                          *)
LEMMA NewestExists ==
  ASSUME NEW img \in Image, NEW n, Records(img, n) # {}
  PROVE  Newest(img, n) # {}
<1> DEFINE S == Records(img, n)
           g == [d \in S |-> img[d].generation]
<1>1. S \subseteq Nat
  BY BlockCountAssumption DEF Records, DataBlock
<1>2. \A d \in S : d \in Block /\ Complete(img, d)
  BY BlockZero DEF Records
<1>3. \A d \in S : img[d].generation \in Generation
  BY <1>2, RecordBlocksFacts DEF RecordDescriptor
<1>4. g \in [S -> Generation] /\ S # {}
  BY <1>3
<1>5. PICK d \in S : \A e \in S : g[e] < g[d] \/ (g[e] = g[d] /\ d <= e)
  <2> HIDE DEF S, g
  <2> QED BY <1>1, <1>4, HighestFirst, Zenon
<1>6. \A e \in S : g[e] = img[e].generation
  OBVIOUS
<1>7. d \in Newest(img, n)
  <2> HIDE DEF g
  <2> QED BY <1>5, <1>6 DEF Newest
<1> QED BY <1>7

-----------------------------------------------------------------------------
(* The blocks of the record write_record makes are those allocated for it. *)
LEMMA WrittenBlocks ==
  ASSUME NEW img \in Image, NEW v \in Values, NEW k \in Keys, NEW g \in Generation,
         NEW f \in Allocations(img, NeededBlocks[v]),
         NEW new, new = WriteRecord(img, f, k, g, v), new \in Image, NEW b
  PROVE  b \in RecordBlocks(new, f[1]) <=> \E i \in 1 .. NeededBlocks[v] : b = f[i]
<1> DEFINE S == {f[i] : i \in 1 .. NeededBlocks[v]}
<1>1. RecordBlocks(new, f[1]) = S
  BY WrittenRecord
<1> QED BY <1>1

(* The records after write_record: those before it, and the new one.       *)
LEMMA WrittenImage ==
  ASSUME NEW img \in Image, NEW v \in Values, NEW k \in Keys, NEW g \in Generation,
         NEW f \in Allocations(img, NeededBlocks[v]),
         NEW new, new = WriteRecord(img, f, k, g, v), new \in Image
  PROVE  /\ \A d \in DataBlock : Complete(new, d) <=> Complete(img, d) \/ d = f[1]
         /\ \A d \in DataBlock : Complete(img, d) =>
              /\ RecordBlocks(new, d) = RecordBlocks(img, d)
              /\ \A b \in RecordBlocks(img, d) : new[b] = img[b]
         /\ Tidy(img) => Tidy(new)
<1> DEFINE S == {f[i] : i \in 1 .. NeededBlocks[v]}
<1>1. /\ f[1] \in DataBlock /\ S \subseteq DataBlock
      /\ \A b \in S : img[b] = Free
      /\ \A b \in Block \ S : new[b] = img[b]
      /\ Complete(new, f[1]) /\ RecordBlocks(new, f[1]) = S
  BY WrittenRecord
<1> HIDE DEF S
<1>2. ASSUME NEW d \in DataBlock, Complete(img, d)
      PROVE  /\ Complete(new, d) /\ RecordBlocks(new, d) = RecordBlocks(img, d)
             /\ \A b \in RecordBlocks(img, d) : new[b] = img[b]
  <2>1. d \in Block
    BY BlockZero
  <2>2. \A b \in RecordBlocks(img, d) : new[b] = img[b]
    BY <1>1, <1>2, <2>1, RecordBlocksFacts
  <2> QED BY <1>2, <2>1, <2>2, RecordFrame
<1>3. ASSUME NEW d \in DataBlock, Complete(new, d), d # f[1]
      PROVE  Complete(img, d)
  <2>1. d \in Block /\ f[1] \in Block
    BY <1>1, BlockZero
  <2>2. RecordBlocks(new, d) \cap S = {}
    BY <1>1, <1>3, <2>1, RecordsDisjoint
  <2>3. \A b \in RecordBlocks(new, d) : img[b] = new[b]
    BY <1>1, <1>3, <2>1, <2>2, RecordBlocksFacts
  <2> QED BY <1>3, <2>1, <2>3, RecordFrame
<1>4. ASSUME Tidy(img) PROVE Tidy(new)
  <2> SUFFICES ASSUME NEW b \in DataBlock, new[b] # Free
               PROVE  \E d \in DataBlock : Complete(new, d) /\ b \in RecordBlocks(new, d)
    BY DEF Tidy
  <2>1. CASE b \in S
    BY <1>1, <2>1
  <2>2. CASE b \notin S
    <3>1. img[b] # Free
      BY <1>1, <2>2, BlockZero
    <3> QED BY <1>2, <1>4, <3>1 DEF Tidy
  <2> QED BY <2>1, <2>2
<1> QED BY <1>1, <1>2, <1>3, <1>4

(* The same for the records of one key.                                    *)
LEMMA WrittenRecords ==
  ASSUME NEW img \in Image, NEW v \in Values, NEW k \in Keys, NEW g \in Generation,
         NEW f \in Allocations(img, NeededBlocks[v]),
         NEW new, new = WriteRecord(img, f, k, g, v), new \in Image, NEW n
  PROVE  Records(new, n) = Records(img, n) \cup (IF n = KeyStr[k] THEN {f[1]} ELSE {})
<1>1. f[1] \in DataBlock /\ new[f[1]].key = k /\ img[f[1]] = Free
  BY WrittenRecord, NeededBlocksAssumption
<1>2. ~Complete(img, f[1])
  BY <1>1 DEF Complete, Free
<1>3. \A d \in DataBlock : Complete(img, d) => new[d] = img[d]
  BY WrittenImage, RecordBlocksFacts, BlockZero
<1>4. \A d \in DataBlock : Complete(new, d) <=> Complete(img, d) \/ d = f[1]
  BY WrittenImage
<1> QED BY <1>1, <1>2, <1>3, <1>4 DEF Records

(* Erasing leaves the records it does not touch, and makes none.           *)
LEMMA ErasedImage ==
  ASSUME NEW img \in Image, NEW S, NEW new, new = Erase(img, S), NEW d \in DataBlock
  PROVE  /\ Complete(new, d) => Complete(img, d) /\ d \notin S /\ new[d] = img[d]
         /\ Complete(img, d) /\ RecordBlocks(img, d) \cap S = {} =>
              /\ Complete(new, d) /\ RecordBlocks(new, d) = RecordBlocks(img, d)
              /\ \A b \in RecordBlocks(img, d) : new[b] = img[b]
<1>1. new \in Image /\ d \in Block
  BY EraseType, BlockZero
<1>2. \A b \in Block : new[b] = IF b \in S THEN Free ELSE img[b]
  BY DEF Erase
<1>3. ASSUME Complete(new, d)
      PROVE  Complete(img, d) /\ d \notin S /\ new[d] = img[d]
  <2>1. \A b \in RecordBlocks(new, d) : b \notin S /\ img[b] = new[b]
    BY <1>1, <1>2, <1>3, RecordBlocksFacts
  <2>2. Complete(img, d)
    BY <1>1, <1>3, <2>1, RecordFrame
  <2> QED BY <1>1, <1>3, <2>1, <2>2, RecordBlocksFacts
<1>4. ASSUME Complete(img, d), RecordBlocks(img, d) \cap S = {}
      PROVE  /\ Complete(new, d) /\ RecordBlocks(new, d) = RecordBlocks(img, d)
             /\ \A b \in RecordBlocks(img, d) : new[b] = img[b]
  <2>1. \A b \in RecordBlocks(img, d) : new[b] = img[b]
    BY <1>1, <1>2, <1>4, RecordBlocksFacts
  <2> QED BY <1>1, <1>4, <2>1, RecordFrame
<1> QED BY <1>3, <1>4

(* The records after free_record of one of them: the others.               *)
LEMMA FreedRecord ==
  ASSUME NEW img \in Image, NEW d \in DataBlock, Complete(img, d),
         NEW new, new = Erase(img, RecordBlocks(img, d))
  PROVE  /\ \A n : Records(new, n) = Records(img, n) \ {d}
         /\ \A e \in DataBlock : Complete(img, e) /\ e # d =>
              RecordBlocks(img, e) \cap RecordBlocks(img, d) = {}
         /\ Tidy(img) => Tidy(new)
<1>1. d \in Block /\ d \in RecordBlocks(img, d)
  BY BlockZero, RecordBlocksFacts
<1>2. ASSUME NEW e \in DataBlock, Complete(img, e), e # d
      PROVE  RecordBlocks(img, e) \cap RecordBlocks(img, d) = {}
  BY <1>1, <1>2, BlockZero, RecordsDisjoint
<1>3. ASSUME NEW e \in DataBlock, Complete(img, e), e # d
      PROVE  Complete(new, e) /\ RecordBlocks(new, e) = RecordBlocks(img, e) /\ new[e] = img[e]
  BY <1>2, <1>3, ErasedImage
<1>4. ASSUME NEW e \in DataBlock, Complete(new, e)
      PROVE  Complete(img, e) /\ e # d
  BY <1>1, <1>4, ErasedImage
<1>5. ASSUME NEW n PROVE Records(new, n) = Records(img, n) \ {d}
  BY <1>3, <1>4 DEF Records
<1>6. ASSUME Tidy(img) PROVE Tidy(new)
  <2> SUFFICES ASSUME NEW b \in DataBlock, new[b] # Free
               PROVE  \E e \in DataBlock : Complete(new, e) /\ b \in RecordBlocks(new, e)
    BY DEF Tidy
  <2>1. b \notin RecordBlocks(img, d) /\ img[b] # Free
    BY BlockZero DEF Erase
  <2> QED BY <1>3, <1>6, <2>1 DEF Tidy
<1> QED BY <1>2, <1>5, <1>6

-----------------------------------------------------------------------------
(* Recovery leaves the newest record of every key, and nothing else.       *)
LEMMA RecoveredImage ==
  ASSUME NEW img \in Image, NEW new, new = Erase(img, GarbageBlocks(img))
  PROVE  /\ \A n \in IndexKey : Records(new, n) = Newest(img, n)
         /\ \A n \in IndexKey : \A d \in Newest(img, n) :
              RecordBlocks(img, d) \cap GarbageBlocks(img) = {}
         /\ Tidy(new)
         /\ Unique(new)
<1> DEFINE G == GarbageBlocks(img)
<1>1. ASSUME NEW n \in IndexKey, NEW d \in Newest(img, n)
      PROVE  /\ d \in DataBlock /\ d \in Records(img, n) /\ Complete(img, d)
             /\ RecordBlocks(img, d) \cap G = {}
  BY DEF Newest, Records, GarbageBlocks
<1>2. ASSUME NEW n \in IndexKey, NEW d \in Newest(img, n)
      PROVE  /\ Complete(new, d) /\ RecordBlocks(new, d) = RecordBlocks(img, d)
             /\ new[d] = img[d]
  <2>1. d \in Block
    BY <1>1, BlockZero
  <2> HIDE DEF G
  <2> QED BY <1>1, <2>1, ErasedImage, RecordBlocksFacts DEF G
<1>3. ASSUME NEW d \in DataBlock, Complete(new, d)
      PROVE  \E n \in IndexKey : d \in Newest(img, n)
  <2>1. Complete(img, d) /\ d \notin G
    BY <1>3, ErasedImage
  <2>2. ~IsFreeCandidate(img[d]) /\ img[d].type = "descriptor"
    BY <2>1 DEF Complete, IsFreeCandidate
  <2>3. PICK n \in IndexKey : \E e \in Newest(img, n) : d \in RecordBlocks(img, e)
    BY <2>1, <2>2 DEF GarbageBlocks
  <2>4. PICK e \in Newest(img, n) : d \in RecordBlocks(img, e)
    BY <2>3
  <2>5. e \in Block /\ Complete(img, e)
    BY <1>1, BlockZero
  <2>6. d = e
    BY <2>2, <2>4, <2>5, RecordBlocksFacts
  <2> QED BY <2>4, <2>6
<1>4. ASSUME NEW n \in IndexKey PROVE Records(new, n) = Newest(img, n)
  <2>1. ASSUME NEW d \in Newest(img, n) PROVE d \in Records(new, n)
    BY <1>1, <1>2 DEF Records
  <2>2. ASSUME NEW d \in Records(new, n) PROVE d \in Newest(img, n)
    <3>1. d \in DataBlock /\ Complete(new, d) /\ KeyStr[new[d].key] = n
      BY DEF Records
    <3>2. PICK m \in IndexKey : d \in Newest(img, m)
      BY <1>3, <3>1
    <3>3. KeyStr[img[d].key] = m /\ new[d] = img[d]
      BY <1>1, <1>2, <3>2 DEF Records
    <3> QED BY <3>1, <3>2, <3>3
  <2> QED BY <2>1, <2>2
<1>5. Tidy(new)
  <2> SUFFICES ASSUME NEW b \in DataBlock, new[b] # Free
               PROVE  \E d \in DataBlock : Complete(new, d) /\ b \in RecordBlocks(new, d)
    BY DEF Tidy
  <2>1. b \in Block /\ b \notin G /\ img[b] # Free
    BY BlockZero DEF Erase
  <2>2. ~IsFreeCandidate(img[b])
    BY <2>1, ContentCases DEF IsFreeCandidate, Image
  <2>3. PICK n \in IndexKey : \E d \in Newest(img, n) : b \in RecordBlocks(img, d)
    BY <2>1, <2>2 DEF GarbageBlocks
  <2> QED BY <1>1, <1>2, <2>3
<1>6. Unique(new)
  <2> SUFFICES ASSUME NEW n \in IndexKey, NEW d \in Records(new, n), NEW e \in Records(new, n)
               PROVE  d = e
    BY DEF Unique
  <2>1. d \in Newest(img, n) /\ e \in Newest(img, n)
    BY <1>4
  <2>2. d \in Nat /\ e \in Nat /\ d \in Records(img, n) /\ e \in Records(img, n)
    BY <1>1, <2>1 DEF DataBlock
  <2>3. d \in Block /\ e \in Block /\ Complete(img, d) /\ Complete(img, e)
    BY <1>1, <2>1, BlockZero
  <2>4. img[d].generation \in Nat /\ img[e].generation \in Nat
    BY <2>3, RecordBlocksFacts DEF RecordDescriptor, Generation
  <2>5. /\ \/ img[e].generation < img[d].generation
           \/ img[e].generation = img[d].generation /\ d <= e
        /\ \/ img[d].generation < img[e].generation
           \/ img[d].generation = img[e].generation /\ e <= d
    BY <2>1, <2>2 DEF Newest
  <2> QED BY <2>2, <2>4, <2>5
<1> QED BY <1>1, <1>4, <1>5, <1>6

(* With one record for each key, all records are newest ones.              *)
LEMMA UniqueNewest ==
  ASSUME NEW img \in Image, Unique(img), NEW n \in IndexKey
  PROVE  Newest(img, n) = Records(img, n)
<1>1. ASSUME NEW d \in Records(img, n) PROVE d \in Newest(img, n)
  <2>1. d \in Int
    BY DEF Records, DataBlock
  <2> QED BY <2>1 DEF Unique, Newest
<1> QED BY <1>1 DEF Newest

(* Recovery finds nothing to erase on a device in order.                   *)
LEMMA TidyNoGarbage ==
  ASSUME NEW img \in Image, Tidy(img), Unique(img)
  PROVE  GarbageBlocks(img) = {}
<1> SUFFICES ASSUME NEW b \in GarbageBlocks(img) PROVE FALSE
  OBVIOUS
<1>1. b \in DataBlock /\ img[b] # Free
  BY DEF GarbageBlocks, IsFreeCandidate, Free
<1>2. PICK d \in DataBlock : Complete(img, d) /\ b \in RecordBlocks(img, d)
  BY <1>1 DEF Tidy
<1>3. img[d].key \in Keys
  BY <1>2, BlockZero, RecordBlocksFacts DEF RecordDescriptor
<1>4. KeyStr[img[d].key] \in IndexKey /\ d \in Records(img, KeyStr[img[d].key])
  BY <1>2, <1>3 DEF IndexKey, Records
<1>5. d \in Newest(img, KeyStr[img[d].key])
  BY <1>4, UniqueNewest
<1> QED BY <1>2, <1>4, <1>5 DEF GarbageBlocks

(* Conversely, a device on which recovery finds nothing is in order.       *)
LEMMA NoGarbageTidy ==
  ASSUME NEW img \in Image, GarbageBlocks(img) = {}
  PROVE  Tidy(img) /\ Unique(img)
<1>1. img = Erase(img, {})
  BY DEF Erase, Image
<1> QED BY <1>1, RecoveredImage

(* The index a scan of a device in order builds.                           *)
LEMMA ScanOfUnique ==
  ASSUME NEW img \in Image, Unique(img), NEW n \in IndexKey
  PROVE  LET entry == ScanIndex(img)[n]
         IN  /\ Records(img, n) = {entry.block} \ {NullBlock}
             /\ entry.block = NullBlock => entry = NoEntry
             /\ entry.block \in Records(img, n) =>
                  entry.generation = img[entry.block].generation
<1>1. Newest(img, n) = Records(img, n) /\ Records(img, n) \subseteq Block
  BY UniqueNewest, BlockZero DEF Records
<1>2. CASE Records(img, n) = {}
  BY <1>1, <1>2 DEF ScanIndex, NoEntry
<1>3. CASE Records(img, n) # {}
  <2>1. PICK d : Records(img, n) = {d}
    BY <1>3 DEF Unique
  <2>2. (CHOOSE e \in Newest(img, n) : TRUE) = d
    BY <1>1, <2>1
  <2>3. ScanIndex(img)[n] = [generation |-> img[d].generation, block |-> d]
    BY <1>1, <2>1, <2>2 DEF ScanIndex
  <2> QED BY <1>1, <2>1, <2>3, BlockZero
<1> QED BY <1>2, <1>3

(* On a device without leaks a descriptor heads a complete record, and a   *)
(* chunk belongs to the record of its owner.                               *)
LEMMA TidyBlocks ==
  ASSUME NEW img \in Image, Tidy(img), NEW b \in DataBlock
  PROVE  /\ img[b].type = "descriptor" => Complete(img, b)
         /\ img[b].type = "chunk" => /\ img[b].owner \in DataBlock
                                     /\ Complete(img, img[b].owner)
                                     /\ b \in RecordBlocks(img, img[b].owner)
<1> SUFFICES ASSUME img[b].type \in {"descriptor", "chunk"}
             PROVE  /\ img[b].type = "descriptor" => Complete(img, b)
                    /\ img[b].type = "chunk" => /\ img[b].owner \in DataBlock
                                                /\ Complete(img, img[b].owner)
                                                /\ b \in RecordBlocks(img, img[b].owner)
  OBVIOUS
<1>1. PICK d \in DataBlock : Complete(img, d) /\ b \in RecordBlocks(img, d)
  BY DEF Tidy, Free
<1>2. b # d => img[b].type = "chunk" /\ img[b].owner = d
  BY <1>1, BlockZero, RecordBlocksFacts
<1>3. img[d].type = "descriptor"
  BY <1>1 DEF Complete
<1> QED BY <1>1, <1>2, <1>3

(* A chunk and the descriptor it belongs to hold parts of one value.       *)
PartsAgree(img) ==
  \A d, b \in Block :
    img[d].type = "descriptor" /\ img[b].type = "chunk" /\ img[b].owner = d =>
      img[b].payload = img[d].payload

(* They do so still when a record has been written to free blocks.         *)
LEMMA WrittenAgree ==
  ASSUME NEW img \in Image, Tidy(img), PartsAgree(img), ~CrcValid(img[0]) \/ img[0] = Header,
         NEW v \in Values, NEW k \in Keys, NEW g \in Generation,
         NEW f \in Allocations(img, NeededBlocks[v]),
         NEW new, new = WriteRecord(img, f, k, g, v), new \in Image
  PROVE  PartsAgree(new)
<1> SUFFICES ASSUME NEW d \in Block, NEW b \in Block, new[d].type = "descriptor",
                    new[b].type = "chunk", new[b].owner = d
             PROVE  new[b].payload = new[d].payload
  BY DEF PartsAgree
<1>1. new[0] = img[0]
  BY WrittenRecord, BlockZero DEF DataBlock
<1>2. b \in DataBlock /\ d \in DataBlock
  BY <1>1, BlockZero DEF CrcValid, Header
<1>3. Complete(new, d) /\ b \in RecordBlocks(new, d) /\ b # d
  BY <1>2, WrittenImage, TidyBlocks
<1>4. CASE d = f[1]
  BY <1>3, <1>4, WrittenRecord
<1>5. CASE d # f[1]
  <2>1. Complete(img, d) /\ b \in RecordBlocks(img, d) /\ d \in RecordBlocks(img, d)
    BY <1>2, <1>3, <1>5, WrittenImage, RecordBlocksFacts
  <2>2. new[b] = img[b] /\ new[d] = img[d]
    BY <1>2, <2>1, WrittenImage
  <2> QED BY <2>2 DEF PartsAgree
<1> QED BY <1>4, <1>5

(* A device on which the record new, on the blocks f, is partly written.   *)
HasPartOf(part, img, new, f) ==
  \A b \in Block :
    \/ part[b] = img[b]
    \/ part[b] \in {new[b]} \cup Torn /\ \E i \in DOMAIN f : f[i] = b

(* So they do when only some of its blocks are written, or torn, and the   *)
(* records that were there before are there still.                         *)
LEMMA PartlyWritten ==
  ASSUME NEW img \in Image, Tidy(img), PartsAgree(img), img[0] \in {Free, Garbage, Header},
         NEW v \in Values, NEW k \in Keys, NEW g \in Generation,
         NEW f \in Allocations(img, NeededBlocks[v]),
         NEW new, new = WriteRecord(img, f, k, g, v), new \in Image, NEW part \in Image,
         HasPartOf(part, img, new, f)
  PROVE  /\ part[0] = img[0]
         /\ PartsAgree(part)
         /\ \A d \in Block : part[d].type = "descriptor" =>
              part[d] = img[d] \/ (part[d].key = k /\ part[d].payload = v)
         /\ \A n : Records(img, n) \subseteq Records(part, n)
<1> DEFINE S == {f[i] : i \in 1 .. NeededBlocks[v]}
<1>1. /\ S \subseteq DataBlock /\ \A b \in S : img[b] = Free
      /\ \A b \in Block \ S : new[b] = img[b]
  BY WrittenRecord
<1>2. /\ new[f[1]].key = k /\ new[f[1]].payload = v
      /\ \A b \in S \ {f[1]} : new[b].type = "chunk"
  BY WrittenRecord
<1>3. DOMAIN f = 1 .. NeededBlocks[v]
  BY DEF Allocations
<1>4. \A b \in Block : part[b] = img[b] \/ (b \in S /\ part[b] \in {new[b], Free, Garbage})
  BY <1>3 DEF HasPartOf, Torn
<1> HIDE DEF S
<1>5. 0 \in Block /\ part[0] = img[0]
  BY <1>1, <1>4, BlockZero DEF DataBlock
<1>6. \A b \in Block : part[b].type \in {"descriptor", "chunk"} => part[b] = new[b]
  BY <1>1, <1>4 DEF Free, Garbage
<1>7. PartsAgree(part)
  <2>1. PartsAgree(new)
    BY WrittenAgree DEF CrcValid, Free, Garbage
  <2> QED BY <1>6, <2>1 DEF PartsAgree
<1>8. ASSUME NEW d \in Block, part[d].type = "descriptor"
      PROVE  part[d] = img[d] \/ (part[d].key = k /\ part[d].payload = v)
  BY <1>2, <1>4, <1>6, <1>8
<1>9. ASSUME NEW n, NEW d \in Records(img, n)
      PROVE  d \in Records(part, n)
  <2>1. d \in DataBlock /\ d \in Block /\ Complete(img, d)
    BY BlockZero DEF Records
  <2>2. \A b \in RecordBlocks(img, d) : img[b] # Free /\ b \in Block
    BY <2>1, RecordBlocksFacts
  <2>3. \A b \in RecordBlocks(img, d) : part[b] = img[b]
    BY <1>1, <1>4, <2>2
  <2>4. Complete(part, d) /\ part[d] = img[d]
    BY <2>1, <2>3, RecordFrame, RecordBlocksFacts
  <2> QED BY <2>1, <2>4 DEF Records
<1> QED BY <1>5, <1>7, <1>8, <1>9

(* An erasure that stops at a block erases no other blocks than the whole. *)
LEMMA StoppedErase ==
  ASSUME NEW img \in Image, NEW stop \in Block, NEW first, NEW d, NEW id
  PROVE  ErasedFrom([img EXCEPT ![stop] = Garbage], first, d, id) \subseteq
           ErasedFrom(img, first, d, id)
<1> DEFINE cut == [img EXCEPT ![stop] = Garbage]
           Whole(b) == b \in Block \ {d} /\ CrcValid(img[b])
           Part(b) == b \in Block \ {d} /\ CrcValid(cut[b])
<1>1. cut[stop] = Garbage /\ \A b \in Block : b # stop => cut[b] = img[b]
  BY DEF Image
<1>2. \A b : Part(b) <=> Whole(b) /\ b # stop
  BY <1>1 DEF CrcValid, Garbage
<1> SUFFICES ASSUME NEW b \in ErasedFrom(cut, first, d, id)
             PROVE  b \in ErasedFrom(img, first, d, id)
  BY Zenon
<1>3. ASSUME NEW S \in SUBSET Block, Whole(first) => first \in S,
             \A c \in S : Whole(ChunkNext(img[c], id)) => ChunkNext(img[c], id) \in S
      PROVE  b \in S
  <2> DEFINE T == S \ {stop}
  <2>1. T \in SUBSET Block /\ (Part(first) => first \in T)
    BY <1>2, <1>3
  <2>2. \A c \in T : Part(ChunkNext(cut[c], id)) => ChunkNext(cut[c], id) \in T
    BY <1>1, <1>2, <1>3
  <2>3. b \in T
    BY <2>1, <2>2, Zenon DEF ErasedFrom
  <2> QED BY <2>3
<1>4. Part(b)
  BY DEF ErasedFrom
<1> QED BY <1>2, <1>3, <1>4, Zenon DEF ErasedFrom

-----------------------------------------------------------------------------
(* Of the records of a key one at most is the newest.                      *)
LEMMA NewestSingle ==
  ASSUME NEW img \in Image, NEW n, NEW d \in Newest(img, n), NEW e \in Newest(img, n)
  PROVE  d = e
<1>1. d \in DataBlock /\ e \in DataBlock /\ d \in Nat /\ e \in Nat
  BY DEF Newest, Records, DataBlock
<1>2. img[d].generation \in Nat /\ img[e].generation \in Nat
  BY <1>1, BlockZero, RecordBlocksFacts, GenLimitAssumption
     DEF Newest, Records, RecordDescriptor, Generation
<1>3. /\ img[e].generation < img[d].generation \/ (img[e].generation = img[d].generation /\ d <= e)
      /\ img[d].generation < img[e].generation \/ (img[d].generation = img[e].generation /\ e <= d)
  BY DEF Newest
<1> QED BY <1>1, <1>2, <1>3

(* A restart finds one result for each key.                                *)
LEMMA RecoveredSingle ==
  ASSUME NEW img \in Image, NEW k \in Keys
  PROVE  \/ /\ Records(img, KeyStr[k]) = {} /\ Newest(img, KeyStr[k]) = {}
            /\ Recovered(img, k) = {Absent}
         \/ \E d \in Newest(img, KeyStr[k]) :
              /\ Newest(img, KeyStr[k]) = {d}
              /\ Recovered(img, k) = {RecordValue(img, d)}
<1> DEFINE n == KeyStr[k]
<1>1. CASE Records(img, n) = {}
  BY <1>1 DEF Recovered, Newest
<1>2. CASE Records(img, n) # {}
  <2>1. PICK d : d \in Newest(img, n)
    BY <1>2, NewestExists
  <2>2. Newest(img, n) = {d}
    BY <2>1, NewestSingle
  <2> QED BY <1>2, <2>2 DEF Recovered
<1> QED BY <1>1, <1>2

(* An image that differs from another by torn blocks and by blocks of a    *)
(* record at f only.                                                       *)
Leftover(rest, img, f) ==
  \A b \in Block : \/ rest[b] = img[b] \/ rest[b] \in Torn
                   \/ b = f /\ rest[b].type = "descriptor"
                   \/ rest[b].type = "chunk" /\ rest[b].owner = f

(* Such an image has no other records than the one it differs from, but f. *)
LEMMA RestRecord ==
  ASSUME NEW img \in Image, NEW rest \in Image, NEW f,
         Leftover(rest, img, f), NEW d \in DataBlock, d # f, Complete(rest, d)
  PROVE  /\ Complete(img, d) /\ RecordBlocks(img, d) = RecordBlocks(rest, d)
         /\ \A b \in RecordBlocks(rest, d) : rest[b] = img[b]
<1>1. d \in Block /\ rest[d].type = "descriptor"
  BY BlockZero DEF Complete
<1>2. ASSUME NEW b \in RecordBlocks(rest, d) PROVE rest[b] = img[b]
  <2>1. b \in Block /\ (b # d => rest[b].type = "chunk" /\ rest[b].owner = d)
    BY <1>1, RecordBlocksFacts
  <2>2. rest[b] \notin Torn
    BY <1>1, <2>1 DEF Torn, Free, Garbage
  <2>3. CASE b = d
    BY <1>1, <2>2, <2>3 DEF Leftover
  <2>4. CASE b # d
    BY <2>1, <2>2, <2>4 DEF Leftover
  <2> QED BY <2>3, <2>4
<1> QED BY <1>1, <1>2, RecordFrame

(* Where the newest record of a key is the same, so is what a restart      *)
(* finds.                                                                  *)
LEMMA SameNewest ==
  ASSUME NEW img \in Image, NEW rest \in Image, NEW k \in Keys,
         \A d \in Records(rest, KeyStr[k]) :
           d \in Records(img, KeyStr[k]) /\ rest[d] = img[d],
         \A d \in Newest(img, KeyStr[k]) :
           \A b \in RecordBlocks(img, d) : rest[b] = img[b]
  PROVE  Recovered(rest, k) = Recovered(img, k)
<1> DEFINE n == KeyStr[k]
<1>1. CASE Records(img, n) = {} /\ Recovered(img, k) = {Absent}
  BY <1>1 DEF Recovered
<1>2. ASSUME NEW d \in Newest(img, n), Newest(img, n) = {d},
             Recovered(img, k) = {RecordValue(img, d)}
      PROVE  Recovered(rest, k) = Recovered(img, k)
  <2>1. /\ d \in Records(img, n) /\ d \in DataBlock /\ d \in Block /\ Complete(img, d)
        /\ KeyStr[img[d].key] = n
    BY BlockZero DEF Newest, Records
  <2>2. /\ Complete(rest, d) /\ RecordBlocks(rest, d) = RecordBlocks(img, d)
        /\ d \in RecordBlocks(img, d)
    BY <1>2, <2>1, RecordFrame, RecordBlocksFacts
  <2>3. d \in Records(rest, n) /\ rest[d] = img[d]
    BY <1>2, <2>1, <2>2 DEF Records
  <2>4. d \in Newest(rest, n)
    BY <1>2, <2>3 DEF Newest
  <2>5. Recovered(rest, k) = {RecordValue(rest, d)}
    BY <2>3, <2>4, RecoveredSingle
  <2>6. RecordValue(rest, d) = RecordValue(img, d)
    BY <1>2, <2>2, <2>3 DEF RecordValue
  <2> QED BY <1>2, <2>5, <2>6
<1> QED BY <1>1, <1>2, RecoveredSingle

(* A device on which some of the blocks in S are erased or torn.           *)
HasErased(rest, img, S) ==
  \A b \in Block : rest[b] = img[b] \/ (b \in S /\ rest[b] \in Torn)

(* What a restart finds on it.                                             *)
LEMMA ErasedRecovers ==
  ASSUME NEW img \in Image, NEW S, NEW rest \in Image, HasErased(rest, img, S), NEW k \in Keys
  PROVE  /\ \A d \in Records(rest, KeyStr[k]) :
              /\ d \in Records(img, KeyStr[k]) /\ rest[d] = img[d]
              /\ RecordValue(rest, d) = RecordValue(img, d)
         /\ (\A d \in Newest(img, KeyStr[k]) : RecordBlocks(img, d) \cap S = {}) =>
              Recovered(rest, k) = Recovered(img, k)
<1>1. ASSUME NEW d \in Records(rest, KeyStr[k])
      PROVE  /\ d \in Records(img, KeyStr[k]) /\ rest[d] = img[d]
             /\ RecordValue(rest, d) = RecordValue(img, d)
  <2>1. d \in DataBlock /\ d \in Block /\ d # NullBlock /\ Complete(rest, d)
    BY BlockZero DEF Records
  <2>2. /\ Complete(img, d) /\ RecordBlocks(img, d) = RecordBlocks(rest, d)
        /\ \A b \in RecordBlocks(rest, d) : rest[b] = img[b]
    <3>1. Leftover(rest, img, NullBlock)
      BY DEF Leftover, HasErased
    <3> QED BY <2>1, <3>1, RestRecord
  <2>3. rest[d] = img[d]
    BY <2>1, <2>2, RecordBlocksFacts
  <2> QED BY <2>1, <2>2, <2>3 DEF Records, RecordValue
<1>2. ASSUME \A d \in Newest(img, KeyStr[k]) : RecordBlocks(img, d) \cap S = {}
      PROVE  Recovered(rest, k) = Recovered(img, k)
  <2>1. \A d \in Newest(img, KeyStr[k]) : \A b \in RecordBlocks(img, d) : rest[b] = img[b]
    BY <1>2 DEF RecordBlocks, HasErased
  <2> QED BY <1>1, <2>1, SameNewest
<1> QED BY <1>1, <1>2

(* What a restart finds where a new record is partly written.              *)
LEMMA WrittenRecovers ==
  ASSUME KeysDistinct, NEW img \in Image, Unique(img),
         NEW l \in Keys, NEW v \in Values, NEW g \in Generation,
         NEW f \in Allocations(img, NeededBlocks[v]),
         NEW new, new = WriteRecord(img, f, l, g, v), new \in Image,
         NEW rest \in Image, HasPartOf(rest, img, new, f), PartsAgree(rest), NEW k \in Keys
  PROVE  /\ k # l => Recovered(rest, k) = Recovered(img, k)
         /\ Recovered(rest, k) \subseteq Recovered(img, k) \cup {v}
<1> DEFINE S == {f[i] : i \in 1 .. NeededBlocks[v]}
           n == KeyStr[k]
<1>1. /\ f[1] \in DataBlock
      /\ \A b \in S : img[b] = Free
      /\ \A b \in Block \ S : new[b] = img[b]
      /\ new[f[1]].type = "descriptor" /\ new[f[1]].key = l /\ new[f[1]].payload = v
      /\ \A b \in S \ {f[1]} : new[b].type = "chunk" /\ new[b].owner = f[1]
  BY WrittenRecord
<1>2. DOMAIN f = 1 .. NeededBlocks[v] /\ f[1] \in S
  BY NeededBlocksAssumption DEF Allocations
<1>3. \A b \in Block : rest[b] = img[b] \/ (b \in S /\ (rest[b] = new[b] \/ rest[b] \in Torn))
  BY <1>2 DEF HasPartOf, Torn
<1> HIDE DEF S
<1>4. Leftover(rest, img, f[1])
  BY <1>1, <1>3 DEF Leftover
<1>5. ASSUME NEW d \in Records(rest, n), d # f[1]
      PROVE  /\ d \in Records(img, n) /\ rest[d] = img[d]
             /\ RecordValue(rest, d) = RecordValue(img, d)
  <2>1. d \in DataBlock /\ d \in Block /\ Complete(rest, d)
    BY BlockZero DEF Records
  <2>2. /\ Complete(img, d) /\ RecordBlocks(img, d) = RecordBlocks(rest, d)
        /\ \A b \in RecordBlocks(rest, d) : rest[b] = img[b]
    BY <1>4, <1>5, <2>1, RestRecord
  <2>3. rest[d] = img[d]
    BY <2>1, <2>2, RecordBlocksFacts
  <2> QED BY <2>1, <2>2, <2>3 DEF Records, RecordValue
<1>6. \A d \in Newest(img, n) : \A b \in RecordBlocks(img, d) : rest[b] = img[b]
  <2> SUFFICES ASSUME NEW d \in Newest(img, n), NEW b \in RecordBlocks(img, d)
               PROVE  rest[b] = img[b]
    OBVIOUS
  <2>1. d \in Block /\ Complete(img, d)
    BY BlockZero DEF Newest, Records
  <2>2. b \in Block /\ img[b] # Free
    BY <2>1, RecordBlocksFacts
  <2> QED BY <1>1, <1>3, <2>2
<1>7. CASE f[1] \notin Records(rest, n)
  BY <1>5, <1>6, <1>7, SameNewest
<1>8. CASE f[1] \in Records(rest, n)
  <2>1. f[1] \in Block /\ Complete(rest, f[1]) /\ rest[f[1]].type = "descriptor"
    BY <1>8, BlockZero DEF Records, Complete
  <2>2. rest[f[1]] = new[f[1]]
    BY <1>1, <1>2, <1>3, <2>1 DEF Free, Garbage, Torn
  <2>3. k = l
    BY <1>1, <1>8, <2>2 DEF Records, KeysDistinct
  <2>4. RecordValue(rest, f[1]) = v
    <3>1. ASSUME NEW b \in RecordBlocks(rest, f[1]), b # f[1]
          PROVE  rest[b].payload = rest[f[1]].payload
      BY <2>1, <3>1, RecordBlocksFacts DEF PartsAgree
    <3> QED BY <1>1, <2>2, <3>1 DEF RecordValue
  <2>5. ASSUME NEW d \in Newest(rest, n) PROVE RecordValue(rest, d) \in Recovered(img, k) \cup {v}
    <3>1. CASE d = f[1]
      BY <2>4, <3>1
    <3>2. CASE d # f[1]
      <4>1. d \in Records(img, n) /\ RecordValue(rest, d) = RecordValue(img, d)
        BY <1>5, <3>2 DEF Newest
      <4>2. d \in Newest(img, n)
        BY <4>1, UniqueNewest DEF IndexKey
      <4> QED BY <4>1, <4>2 DEF Recovered
    <3> QED BY <3>1, <3>2
  <2> QED BY <1>8, <2>3, <2>5 DEF Recovered
<1> QED BY <1>7, <1>8
=============================================================================
