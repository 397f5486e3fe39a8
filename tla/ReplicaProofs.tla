---------------------------- MODULE ReplicaProofs ---------------------------
(***************************************************************************)
(* The loops of ReplicaLoops compute what BlockFormat says of them, on     *)
(* every image of a device of any size.  Each loop has an invariant of its *)
(* own, which relates what it has collected so far to the answer.  On the  *)
(* devices of Devices, the geometry of an open store keeps the reader of a *)
(* record within its block and lets Go and Rust agree on record sizes.     *)
(***************************************************************************)
EXTENDS ReplicaLoops, Devices, BlockFormatProofs

(* While verify_and_read_record runs, the blocks it has read are linked    *)
(* chunks of the record, numbered from 1, and every chain of the record,   *)
(* if there is one, begins with them.                                      *)
VerifyInv ==
  task = "verify" =>
    /\ image \in Image /\ dev = image
    /\ start \in DataBlock /\ image[start].type = "descriptor"
    /\ blocks \in Seq(Block)
    /\ expected = Len(blocks) + 1
    /\ visited = {blocks[i] : i \in 1 .. Len(blocks)}
    /\ Len(blocks) > 0 => image[start].next = blocks[1] /\ image[start].chunkCount > 1
    /\ next = IF Len(blocks) = 0 THEN image[start].next ELSE image[blocks[Len(blocks)]].next
    /\ \A i \in 1 .. Len(blocks) :
         /\ image[blocks[i]].type = "chunk"
         /\ image[blocks[i]].owner = start
         /\ image[blocks[i]].chunkIndex = i
         /\ i < Len(blocks) => image[blocks[i]].next = blocks[i + 1]
    /\ image[start].chunkCount # 0 =>
         \A s \in Chains(image, start) :
           /\ Len(blocks) <= image[start].chunkCount - 1
           /\ \A i \in 1 .. Len(blocks) : s[i] = blocks[i]
    /\ outcome \in {"none", "complete", "incomplete"}
    /\ outcome = "complete" => /\ next = NullBlock
                               /\ image[start].chunkCount # 0
                               /\ expected = image[start].chunkCount
    /\ outcome = "incomplete" => ~Complete(image, start)

(* The blocks an erase may take besides the descriptor, and the sets of    *)
(* blocks its walk does not leave.                                         *)
Erasable(b) == b \in Block \ {start} /\ CrcValid(image[b])

ClosedUnderWalk(S) ==
  /\ Erasable(image[start].next) => image[start].next \in S
  /\ \A b \in S : Erasable(ChunkNext(image[b], 0)) => ChunkNext(image[b], 0) \in S

Walked == {b \in visited : Erasable(b)}

(* Once free_record has erased the descriptor, the device differs from the *)
(* image in the blocks walked; these lie in every set the walk does not    *)
(* leave, and the walk leaves them only for the block it goes to next.     *)
FreeInv ==
  task = "free" =>
    /\ image \in Image
    /\ start \in DataBlock /\ image[start].type = "descriptor"
    /\ outcome \in {"none", "freed"}
    /\ visited \subseteq Block
    /\ \/ dev = image /\ next = start /\ visited = {} /\ outcome = "none"
       \/ /\ dev = Erase(image, {start} \cup Walked)
          /\ outcome = "none" => visited = Walked
          /\ \A S \in SUBSET Block : ClosedUnderWalk(S) =>
               Walked \subseteq S /\ (Erasable(next) => next \in S)
          /\ Erasable(image[start].next) => image[start].next \in Walked \cup {next}
          /\ \A b \in Walked : Erasable(ChunkNext(image[b], 0)) =>
               ChunkNext(image[b], 0) \in Walked \cup {next}
          /\ outcome = "freed" /\ Erasable(next) => next \in Walked

(* Record d of key n is the one a scan prefers among the records in S.     *)
Preferred(d, S) ==
  /\ d \in S
  /\ \A e \in S : \/ image[e].generation < image[d].generation
                  \/ image[e].generation = image[d].generation /\ d <= e

(* The scan has kept, for every key, the record it prefers among those     *)
(* below the block it looks at next.                                       *)
Seen(n) == {d \in Records(image, n) : d < next}

ScanInv ==
  task = "scan" =>
    /\ image \in Image /\ dev = image
    /\ next \in 1 .. BlockCount
    /\ DOMAIN idx = IndexKey /\ idx = [n \in IndexKey |-> idx[n]]
    /\ \A n \in IndexKey :
         \/ Seen(n) = {} /\ idx[n] = NoEntry
         \/ \E d \in DataBlock : /\ Preferred(d, Seen(n))
                                 /\ idx[n] = [generation |-> image[d].generation, block |-> d]
    /\ outcome \in {"none", "scanned"}
    /\ outcome = "scanned" => next = BlockCount

(* The allocator has collected all the free blocks below the one it looks  *)
(* at next, in ascending order, and every allocation begins with them.     *)
AllocInv ==
  task = "alloc" =>
    /\ image \in Image /\ dev = image
    /\ start \in Nat \ {0}
    /\ next \in 1 .. BlockCount
    /\ blocks \in Seq(DataBlock) /\ Len(blocks) <= start
    /\ \A i \in 1 .. Len(blocks) : IsFreeCandidate(image[blocks[i]]) /\ blocks[i] < next
    /\ \A i, j \in 1 .. Len(blocks) : i < j => blocks[i] < blocks[j]
    /\ \A b \in DataBlock :
         IsFreeCandidate(image[b]) /\ b < next => \E i \in 1 .. Len(blocks) : blocks[i] = b
    /\ \A f \in Allocations(image, start) : \A i \in 1 .. Len(blocks) : f[i] = blocks[i]
    /\ outcome \in {"none", "allocated", "full"}
    /\ outcome = "allocated" => Len(blocks) = start
    /\ outcome = "full" => Len(blocks) < start /\ next = BlockCount

LoopInv ==
  /\ task \in {"verify", "free", "scan", "alloc"}
  /\ VerifyInv
  /\ FreeInv
  /\ ScanInv
  /\ AllocInv

-----------------------------------------------------------------------------
(* Every loop starts in its invariant.                                     *)
LEMMA InitLoopInv == Init => LoopInv
<1>1. ASSUME NEW d \in DataBlock, NEW img \in ChainImages(d), img[d].type = "descriptor",
             Start("verify", img, d, img[d].next)
      PROVE  LoopInv
  <2>1. /\ image \in Image /\ dev = image /\ start \in DataBlock
        /\ image[start].type = "descriptor" /\ blocks = <<>> /\ expected = 1
        /\ visited = {} /\ next = image[start].next /\ outcome = "none"
    BY <1>1, ImagesAssumption DEF Start
  <2>2. blocks \in Seq(Block) /\ Len(blocks) = 0 /\ 1 .. Len(blocks) = {}
    BY <2>1
  <2>3. image[start].chunkCount \in Nat
    BY <2>1, ContentCases, BlockZero DEF Image, RecordDescriptor
  <2>4. VerifyInv
    BY <2>1, <2>3 DEF VerifyInv
  <2> QED BY <1>1, <2>4, Zenon DEF Start, LoopInv, FreeInv, ScanInv, AllocInv
<1>2. ASSUME NEW d \in DataBlock, NEW img \in ChainImages(d), img[d].type = "descriptor",
             Start("free", img, d, d)
      PROVE  LoopInv
  <2>1. FreeInv
    BY <1>2, ImagesAssumption DEF Start, FreeInv
  <2> QED BY <1>2, <2>1, Zenon DEF Start, LoopInv, VerifyInv, ScanInv, AllocInv
<1>3. ASSUME NEW img \in ScanImages, Start("scan", img, 1, 1)
      PROVE  LoopInv
  <2>1. \A n \in IndexKey : Seen(n) = {} /\ idx[n] = NoEntry
    BY <1>3 DEF Start, Seen, Records, DataBlock, EmptyIndex
  <2>2. 1 \in 1 .. BlockCount /\ DOMAIN idx = IndexKey /\ idx = [n \in IndexKey |-> idx[n]]
    BY <1>3, BlockCountAssumption DEF Start, EmptyIndex
  <2> QED BY <1>3, <2>1, <2>2, ImagesAssumption, Zenon DEF Start, LoopInv, VerifyInv, FreeInv,
             ScanInv, AllocInv
<1>4. ASSUME NEW img \in ScanImages, NEW n \in AllocSizes, Start("alloc", img, n, 1)
      PROVE  LoopInv
  <2>1. 1 \in 1 .. BlockCount /\ \A b \in DataBlock : ~(b < 1)
    BY BlockCountAssumption DEF DataBlock
  <2> QED BY <1>4, <2>1, ImagesAssumption, AllocSizesAssumption
          DEF Start, LoopInv, VerifyInv, FreeInv, ScanInv, AllocInv
<1> QED BY <1>1, <1>2, <1>3, <1>4 DEF Init

-----------------------------------------------------------------------------
(* What a chain of the record says about the block the reader is at.       *)
LEMMA ReaderOnChain ==
  ASSUME VerifyInv, task = "verify", image[start].chunkCount # 0,
         NEW s \in Chains(image, start)
  PROVE  LET m == Len(blocks)
             n == image[start].chunkCount - 1
         IN  /\ m \in Nat /\ n \in Nat /\ m <= n
             /\ m = n => next = NullBlock
             /\ m < n => /\ next = s[m + 1] /\ next \in Block
                         /\ image[next].type = "chunk" /\ image[next].owner = start
                         /\ image[next].chunkIndex = m + 1
<1> DEFINE m == Len(blocks)
           n == image[start].chunkCount - 1
<1>1. image \in Image /\ start \in Block /\ image[start].type = "descriptor"
  BY BlockZero, Zenon DEF VerifyInv
<1>2. m \in Nat /\ m <= n /\ \A i \in 1 .. m : s[i] = blocks[i]
  BY DEF VerifyInv
<1>3. n \in Nat /\ s \in [1 .. n -> Block]
  BY <1>1, ChainFacts
<1>4. next = IF m = 0 THEN image[start].next ELSE image[s[m]].next
  BY DEF VerifyInv
<1>5. image[start].next = IF n = 0 THEN NullBlock ELSE s[1]
  BY DEF Chains, IsChain
<1>6. \A i \in 1 .. n : /\ image[s[i]].type = "chunk" /\ image[s[i]].owner = start
                        /\ image[s[i]].chunkIndex = i
                        /\ image[s[i]].next = IF i = n THEN NullBlock ELSE s[i + 1]
  BY Zenon DEF Chains, IsChain
<1>7. next = IF m = n THEN NullBlock ELSE s[m + 1]
  <2>1. CASE m = 0
    BY <1>4, <1>5, <2>1
  <2>2. CASE m # 0
    <3>1. m \in 1 .. n /\ next = image[s[m]].next
      BY <1>2, <1>4, <2>2
    <3> QED BY <1>6, <3>1, Zenon
  <2> QED BY <2>1, <2>2
<1>8. m < n => m + 1 \in 1 .. n
  BY <1>3
<1>9. m < n => s[m + 1] \in Block
  BY <1>3, <1>8, Zenon
<1>10. ASSUME m < n
       PROVE  /\ next = s[m + 1] /\ next \in Block
              /\ image[next].type = "chunk" /\ image[next].owner = start
              /\ image[next].chunkIndex = m + 1
  <2>1. next = s[m + 1]
    BY <1>2, <1>3, <1>7, <1>10
  <2> QED BY <1>6, <1>8, <1>9, <1>10, <2>1, Zenon
<1>11. m = n => next = NullBlock
  BY <1>7, Zenon
<1> QED BY <1>2, <1>3, <1>10, <1>11, Zenon

(* The reader reaches no block twice: the chunk index tells.               *)
LEMMA ReaderMovesOn ==
  ASSUME VerifyInv, task = "verify", next \in Block,
         image[next].type = "chunk", image[next].chunkIndex = expected
  PROVE  next \notin visited \cup {start}
<1>1. PICK m \in Nat : m = Len(blocks) /\ expected = m + 1
  BY DEF VerifyInv
<1>2. \A i \in 1 .. m : image[blocks[i]].chunkIndex = i
  BY <1>1, Zenon DEF VerifyInv
<1>3. \A i \in 1 .. m : blocks[i] # next
  BY <1>1, <1>2
<1>4. visited = {blocks[i] : i \in 1 .. m} /\ image[start].type = "descriptor"
  BY <1>1, Zenon DEF VerifyInv
<1> QED BY <1>3, <1>4

(* One more chunk read keeps the reader's invariant.                       *)
LEMMA VerifyChunkInv == VerifyInv /\ VerifyChunk => VerifyInv'
<1> SUFFICES ASSUME VerifyInv, VerifyChunk PROVE VerifyInv'
  OBVIOUS
<1> USE DEF VerifyChunk
<1>1. PICK m \in Nat : m = Len(blocks) /\ expected = m + 1
  BY DEF VerifyInv
<1>2. /\ image \in Image /\ dev = image /\ start \in DataBlock /\ blocks \in Seq(Block)
      /\ image[start].type = "descriptor" /\ image[start].chunkCount > 1
  BY Zenon DEF VerifyInv
<1>3. /\ next \in Block /\ image[next].type = "chunk" /\ image[next].owner = start
      /\ image[next].chunkIndex = m + 1
  BY <1>1, <1>2, Zenon DEF ChunkAccepted
<1>4. /\ blocks' \in Seq(Block) /\ Len(blocks') = m + 1 /\ blocks'[m + 1] = next
      /\ \A i \in 1 .. m : blocks'[i] = blocks[i]
  BY <1>1, <1>2, <1>3
<1>5. visited' = {blocks'[i] : i \in 1 .. m + 1}
  <2>1. visited = {blocks[i] : i \in 1 .. m}
    BY <1>1, Zenon DEF VerifyInv
  <2> QED BY <1>4, <2>1
<1>6. image[start].next = blocks'[1]
  BY DEF VerifyInv
<1>7. \A i \in 1 .. m + 1 :
        /\ image[blocks'[i]].type = "chunk"
        /\ image[blocks'[i]].owner = start
        /\ image[blocks'[i]].chunkIndex = i
        /\ i < m + 1 => image[blocks'[i]].next = blocks'[i + 1]
  <2>1. \A i \in 1 .. m : /\ image[blocks[i]].type = "chunk"
                          /\ image[blocks[i]].owner = start
                          /\ image[blocks[i]].chunkIndex = i
                          /\ i < m => image[blocks[i]].next = blocks[i + 1]
    BY <1>1, Zenon DEF VerifyInv
  <2>2. m > 0 => image[blocks[m]].next = next
    BY <1>1 DEF VerifyInv
  <2>3. ASSUME NEW i \in 1 .. m
        PROVE  /\ image[blocks'[i]].type = "chunk" /\ image[blocks'[i]].owner = start
               /\ image[blocks'[i]].chunkIndex = i
               /\ i < m + 1 => image[blocks'[i]].next = blocks'[i + 1]
    <3>1. blocks'[i] = blocks[i]
      BY <1>4, Zenon
    <3>2. CASE i < m
      <4>1. i + 1 \in 1 .. m
        BY <3>2
      <4> QED BY <1>4, <2>1, <3>1, <3>2, <4>1, Zenon
    <3>3. CASE i = m
      <4>1. m > 0
        BY <3>3
      <4> QED BY <1>4, <2>1, <2>2, <3>1, <3>3, <4>1, Zenon
    <3>4. i < m \/ i = m
      OBVIOUS
    <3> QED BY <3>2, <3>3, <3>4, Zenon
  <2>4. \A i \in 1 .. m + 1 : i \in 1 .. m \/ (i = m + 1 /\ ~(i < m + 1))
    OBVIOUS
  <2> QED BY <1>3, <1>4, <2>3, <2>4, Zenon
<1>8. ASSUME NEW s \in Chains(image, start)
      PROVE  m + 1 <= image[start].chunkCount - 1 /\ \A i \in 1 .. m + 1 : s[i] = blocks'[i]
  <2>1. image[start].chunkCount \in Nat /\ image[start].chunkCount # 0
    BY <1>2, ContentCases, BlockZero DEF Image, RecordDescriptor
  <2>2. m < image[start].chunkCount - 1 /\ next = s[m + 1]
    BY <1>1, <2>1, ReaderOnChain
  <2>3. \A i \in 1 .. m : s[i] = blocks[i]
    BY <1>1 DEF VerifyInv
  <2> QED BY <1>4, <2>1, <2>2, <2>3
<1>9. next' = image[blocks'[m + 1]].next
  BY <1>2, <1>4
<1> HIDE DEF VerifyChunk
<1>10. UNCHANGED <<task, image, dev, start, outcome>> /\ expected' = m + 2 /\ outcome = "none"
  BY <1>1 DEF VerifyChunk
<1>11. expected' = Len(blocks') + 1 /\ Len(blocks') # 0
  BY <1>4, <1>10
<1>12. next' = IF Len(blocks') = 0 THEN image'[start'].next ELSE image'[blocks'[Len(blocks')]].next
  BY <1>4, <1>9, <1>10, <1>11, Zenon
<1>13. /\ visited' = {blocks'[i] : i \in 1 .. Len(blocks')}
       /\ image'[start'].next = blocks'[1] /\ image'[start'].chunkCount > 1
  BY <1>2, <1>4, <1>5, <1>6, <1>10, Zenon
<1>14. \A i \in 1 .. Len(blocks') :
         /\ image'[blocks'[i]].type = "chunk"
         /\ image'[blocks'[i]].owner = start'
         /\ image'[blocks'[i]].chunkIndex = i
         /\ i < Len(blocks') => image'[blocks'[i]].next = blocks'[i + 1]
  BY <1>4, <1>7, <1>10, Zenon
<1>15. \A s \in Chains(image, start) :
         /\ Len(blocks') <= image[start].chunkCount - 1
         /\ \A i \in 1 .. Len(blocks') : s[i] = blocks'[i]
  BY <1>4, <1>8, Zenon
<1>16. outcome' \in {"none", "complete", "incomplete"} /\ outcome' # "complete"
       /\ outcome' # "incomplete"
  BY <1>10, Zenon
<1>17. /\ image' = image /\ start' = start /\ dev' = dev
  BY <1>10, Zenon
<1> QED BY <1>2, <1>4, <1>11, <1>12, <1>13, <1>14, <1>15, <1>16, <1>17, Zenon DEF VerifyInv

(* The reader stops with the right answer.                                 *)
LEMMA VerifyRejectsInv == VerifyInv /\ VerifyRejects => VerifyInv'
<1> SUFFICES ASSUME VerifyInv, VerifyRejects PROVE VerifyInv'
  OBVIOUS
<1>1. /\ task = "verify" /\ outcome = "none" /\ outcome' = "incomplete"
      /\ UNCHANGED <<task, image, dev, start, next, expected, visited, blocks>>
  BY DEF VerifyRejects, End
<1>2. /\ dev = image /\ expected = Len(blocks) + 1
  BY <1>1, Zenon DEF VerifyInv
<1>3. ASSUME Complete(image, start) PROVE FALSE
  <2>1. image[start].chunkCount # 0
    BY <1>3 DEF Complete
  <2>2. PICK s : s \in Chains(image, start)
    BY <1>3 DEF Complete
  <2>3. PICK m \in Nat, n \in Nat :
          /\ m = Len(blocks) /\ n = image[start].chunkCount - 1 /\ m <= n
          /\ m = n => next = NullBlock
          /\ m < n => /\ next \in Block /\ image[next].type = "chunk"
                      /\ image[next].owner = start /\ image[next].chunkIndex = m + 1
    BY <1>1, <2>1, <2>2, ReaderOnChain, Zenon
  <2>4. image[start].chunkCount = n + 1
    <3>1. image[start].chunkCount \in Nat
      BY <1>1, ContentCases, BlockZero DEF VerifyInv, Image, RecordDescriptor
    <3> QED BY <2>3, <3>1
  <2>5. m < n => ChunkAccepted
    BY <1>1, <1>2, <2>3, ReaderMovesOn, Zenon DEF ChunkAccepted
  <2>6. n > 0 => image[start].next # NullBlock
    <3>1. m = 0 => next = image[start].next
      BY <1>1, <2>3, Zenon DEF VerifyInv
    <3>2. m > 0 => image[start].next = blocks[1] /\ blocks[1] \in Block
      BY <1>1, <2>3 DEF VerifyInv
    <3> QED BY <2>3, <3>1, <3>2, BlockZero
  <2>7. m < n => next # NullBlock
    BY <2>3, BlockZero
  <2> QED BY <1>2, <2>3, <2>4, <2>5, <2>6, <2>7 DEF VerifyRejects
<1> QED BY <1>1, <1>3 DEF VerifyInv

(* verify_and_read_record keeps its invariant.                             *)
LEMMA VerifyStep == VerifyInv /\ [Next]_vars => VerifyInv'
<1> SUFFICES ASSUME VerifyInv, [Next]_vars PROVE VerifyInv'
  OBVIOUS
<1>1. CASE VerifyAccepts
  <2>1. /\ task = "verify" /\ outcome = "none" /\ outcome' = "complete"
        /\ next = NullBlock /\ dev[start].chunkCount # 0
        /\ expected = dev[start].chunkCount
        /\ UNCHANGED <<task, image, dev, start, next, expected, visited, blocks>>
    BY <1>1 DEF VerifyAccepts, End
  <2> QED BY <2>1 DEF VerifyInv
<1>2. CASE UNCHANGED vars
  BY <1>2 DEF vars, VerifyInv
<1>3. CASE \/ FreeDescriptor \/ FreeChunk \/ FreeEnds \/ ScanBlock \/ ScanEnds
           \/ AllocBlock \/ AllocEnds
  <2>1. task' # "verify"
    BY <1>3, Zenon DEF FreeDescriptor, FreeChunk, FreeEnds, ScanBlock, ScanEnds, AllocBlock,
       AllocEnds, End
  <2> QED BY <2>1, Zenon DEF VerifyInv
<1> QED BY <1>1, <1>2, <1>3, VerifyChunkInv, VerifyRejectsInv DEF Next

(* What the reader answers is what BlockFormat says of the record.         *)
LEMMA VerifyAnswer == LoopInv => VerifyIsComplete
<1> SUFFICES ASSUME LoopInv PROVE VerifyIsComplete
  OBVIOUS
<1>1. outcome \in {"complete", "incomplete"} => task = "verify"
  BY Zenon DEF LoopInv, FreeInv, ScanInv, AllocInv
<1>2. outcome = "incomplete" => ~Complete(image, start)
  BY <1>1, Zenon DEF LoopInv, VerifyInv
<1>3. ASSUME outcome = "complete"
      PROVE  Complete(image, start) /\ blocks \in Chains(image, start)
  <2>1. PICK m \in Nat : m = Len(blocks) /\ expected = m + 1
    BY <1>1, <1>3 DEF LoopInv, VerifyInv
  <2>2. /\ image[start].type = "descriptor" /\ blocks \in Seq(Block)
        /\ image[start].chunkCount # 0 /\ image[start].chunkCount = m + 1
        /\ next = NullBlock
    BY <1>1, <1>3, <2>1, Zenon DEF LoopInv, VerifyInv
  <2>3. /\ m > 0 => image[start].next = blocks[1]
        /\ NullBlock = IF m = 0 THEN image[start].next ELSE image[blocks[m]].next
    BY <1>1, <1>3, <2>1, Zenon DEF LoopInv, VerifyInv
  <2>4. blocks \in [1 .. m -> Block] /\ image[start].chunkCount - 1 = m
    BY <2>1, <2>2
  <2>5. ASSUME NEW i \in 1 .. m
        PROVE  /\ image[blocks[i]].type = "chunk"
               /\ image[blocks[i]].owner = start
               /\ image[blocks[i]].chunkIndex = i
               /\ image[blocks[i]].next = IF i = m THEN NullBlock ELSE blocks[i + 1]
    <3>1. /\ image[blocks[i]].type = "chunk"
          /\ image[blocks[i]].owner = start
          /\ image[blocks[i]].chunkIndex = i
          /\ i < m => image[blocks[i]].next = blocks[i + 1]
      BY <1>1, <1>3, <2>1, Zenon DEF LoopInv, VerifyInv
    <3>2. i = m => image[blocks[i]].next = NullBlock
      BY <2>3
    <3> QED BY <3>1, <3>2
  <2>6. IsChain(image, start, blocks)
    <3> DEFINE n == image[start].chunkCount - 1
    <3>1. IsChain(image, start, blocks) <=>
            /\ image[start].next = IF 0 = n THEN NullBlock ELSE blocks[0 + 1]
            /\ \A i \in 1 .. n :
                 /\ image[blocks[i]].type = "chunk"
                 /\ image[blocks[i]].owner = start
                 /\ image[blocks[i]].chunkIndex = i
                 /\ image[blocks[i]].next = IF i = n THEN NullBlock ELSE blocks[i + 1]
      BY DEF IsChain
    <3>2. n = m
      BY <2>4
    <3>3. image[start].next = IF 0 = m THEN NullBlock ELSE blocks[0 + 1]
      BY <2>3
    <3> HIDE DEF n
    <3> QED BY <2>5, <3>1, <3>2, <3>3, Zenon
  <2> QED BY <2>2, <2>4, <2>6 DEF Chains, Complete
<1> QED BY <1>2, <1>3 DEF VerifyIsComplete

-----------------------------------------------------------------------------
(* free_record erases its descriptor first.                                *)
LEMMA FreeDescriptorInv == FreeInv /\ FreeDescriptor => FreeInv'
<1> SUFFICES ASSUME FreeInv, FreeDescriptor PROVE FreeInv'
  OBVIOUS
<1>1. /\ task = "free" /\ outcome = "none" /\ dev[start] # Free
      /\ dev' = [dev EXCEPT ![start] = Free] /\ next' = dev[start].next
      /\ UNCHANGED <<task, image, start, visited, outcome>>
  BY DEF FreeDescriptor
<1>2. image \in Image /\ start \in DataBlock /\ start \in Block
  BY <1>1, BlockZero, Zenon DEF FreeInv
<1>3. dev = image /\ visited = {}
  BY <1>1, <1>2, Zenon DEF FreeInv, Erase
<1>4. Walked' = {} /\ visited' = {}
  BY <1>1, <1>3 DEF Walked
<1>5. dev' = Erase(image, {start} \cup Walked')
  BY <1>1, <1>2, <1>3, <1>4, Zenon DEF Erase, Image
<1>6. \A b : Erasable(b)' <=> Erasable(b)
  BY <1>1 DEF Erasable
<1>7. \A S : ClosedUnderWalk(S)' => (Erasable(next') => next' \in S)
  BY <1>1, <1>3, <1>6 DEF ClosedUnderWalk
<1> QED BY <1>1, <1>3, <1>4, <1>5, <1>6, <1>7, Zenon DEF FreeInv

(* The walk takes a block whose checksum matches and goes on from there,   *)
(* and ends at a block whose checksum does not.                            *)
LEMMA FreeChunkInv == FreeInv /\ FreeChunk => FreeInv'
<1> SUFFICES ASSUME FreeInv, FreeChunk PROVE FreeInv'
  OBVIOUS
<1>1. /\ task = "free" /\ outcome = "none" /\ dev[start] = Free
      /\ next \in Block \ visited /\ visited' = visited \cup {next}
      /\ UNCHANGED <<task, image, start>>
  BY DEF FreeChunk
<1>2. /\ image \in Image /\ start \in DataBlock /\ start \in Block
      /\ image[start].type = "descriptor" /\ visited \subseteq Block
  BY <1>1, BlockZero, Zenon DEF FreeInv
<1>3. dev # image
  BY <1>1, <1>2 DEF Free
<1>4. dev = Erase(image, {start} \cup Walked) /\ visited = Walked
  BY <1>1, <1>3, Zenon DEF FreeInv
<1>5. \A S \in SUBSET Block : ClosedUnderWalk(S) =>
        Walked \subseteq S /\ (Erasable(next) => next \in S)
  BY <1>1, <1>3, Zenon DEF FreeInv
<1>6. Erasable(image[start].next) => image[start].next \in Walked \cup {next}
  BY <1>1, <1>3, Zenon DEF FreeInv
<1>7. \A b \in Walked : Erasable(ChunkNext(image[b], 0)) =>
        ChunkNext(image[b], 0) \in Walked \cup {next}
  BY <1>1, <1>3, Zenon DEF FreeInv
<1>8. next # start => dev[next] = image[next]
  BY <1>1, <1>4 DEF Erase
<1>9. CrcValid(dev[next]) <=> Erasable(next)
  BY <1>1, <1>8 DEF Erasable, CrcValid, Free
<1>10. Walked' = IF Erasable(next) THEN Walked \cup {next} ELSE Walked
  BY <1>1 DEF Walked, Erasable
<1>11. \A b : Erasable(b)' <=> Erasable(b)
  BY <1>1 DEF Erasable
<1>12. \A S : ClosedUnderWalk(S)' <=> ClosedUnderWalk(S)
  BY <1>1, <1>11 DEF ClosedUnderWalk
<1>13. CASE Erasable(next)
  <2>1. /\ dev' = [dev EXCEPT ![next] = Free] /\ next' = ChunkNext(image[next], 0)
        /\ outcome' = "none" /\ visited' = Walked' /\ Walked' = Walked \cup {next}
    BY <1>4, <1>8, <1>10, <1>13, Zenon DEF FreeChunk, Erasable
  <2>2. dev' = Erase(image, {start} \cup Walked')
    BY <1>4, <2>1, Zenon DEF Erase
  <2>3. \A S \in SUBSET Block : ClosedUnderWalk(S)' =>
          Walked' \subseteq S /\ (Erasable(next') => next' \in S)
    <3> SUFFICES ASSUME NEW S \in SUBSET Block, ClosedUnderWalk(S)
                 PROVE  Walked' \subseteq S /\ (Erasable(next') => next' \in S)
      BY <1>12
    <3>1. Walked \subseteq S /\ next \in S
      BY <1>5, <1>13
    <3>2. Erasable(ChunkNext(image[next], 0)) => ChunkNext(image[next], 0) \in S
      BY <3>1 DEF ClosedUnderWalk
    <3> QED BY <2>1, <3>1, <3>2
  <2>4. Erasable(image[start].next) => image[start].next \in Walked' \cup {next'}
    BY <1>6, <2>1
  <2>5. \A b \in Walked' : Erasable(ChunkNext(image[b], 0)) =>
          ChunkNext(image[b], 0) \in Walked' \cup {next'}
    BY <1>7, <2>1
  <2> QED BY <1>1, <1>11, <2>1, <2>2, <2>3, <2>4, Zenon DEF FreeInv
<1>14. CASE ~Erasable(next)
  <2>1. UNCHANGED <<dev, next>> /\ outcome' = "freed" /\ Walked' = Walked
    BY <1>9, <1>10, <1>14 DEF FreeChunk
  <2> QED BY <1>1, <1>4, <1>6, <1>11, <1>12, <1>14, <2>1, Zenon DEF FreeInv
<1> QED BY <1>13, <1>14

(* free_record keeps its invariant.                                        *)
LEMMA FreeStep == FreeInv /\ [Next]_vars => FreeInv'
<1> SUFFICES ASSUME FreeInv, [Next]_vars PROVE FreeInv'
  OBVIOUS
<1>1. CASE FreeEnds
  <2>1. /\ task = "free" /\ outcome = "none" /\ dev[start] = Free /\ outcome' = "freed"
        /\ next \notin Block \ visited
        /\ UNCHANGED <<task, image, dev, start, next, visited>>
    BY <1>1 DEF FreeEnds, End
  <2>2. dev # image
    BY <2>1 DEF FreeInv, Free
  <2>3. Erasable(next) => next \in Walked
    BY <2>1, Zenon DEF FreeInv, Erasable
  <2>4. Walked' = Walked /\ \A b : Erasable(b)' <=> Erasable(b)
    BY <2>1 DEF Walked, Erasable
  <2>5. \A S : ClosedUnderWalk(S)' <=> ClosedUnderWalk(S)
    BY <2>1 DEF ClosedUnderWalk, Erasable
  <2> QED BY <2>1, <2>2, <2>3, <2>4, <2>5, Zenon DEF FreeInv
<1>2. CASE UNCHANGED vars
  BY <1>2, Zenon DEF vars, FreeInv, Walked, Erasable, ClosedUnderWalk
<1>3. CASE \/ VerifyChunk \/ VerifyRejects \/ VerifyAccepts \/ ScanBlock \/ ScanEnds
           \/ AllocBlock \/ AllocEnds
  <2>1. task' # "free"
    BY <1>3, Zenon DEF VerifyChunk, VerifyRejects, VerifyAccepts, ScanBlock, ScanEnds, AllocBlock,
       AllocEnds, End
  <2> QED BY <2>1, Zenon DEF FreeInv
<1> QED BY <1>1, <1>2, <1>3, FreeDescriptorInv, FreeChunkInv DEF Next

(* The blocks walked when the walk has ended are those BlockFormat names.  *)
LEMMA FreeAnswer == LoopInv => FreeIsErased /\ FreeTakesTheRecord
<1> SUFFICES ASSUME LoopInv, outcome = "freed"
             PROVE  FreeIsErased /\ FreeTakesTheRecord
  BY DEF FreeIsErased, FreeTakesTheRecord
<1>1. task = "free" /\ image \in Image /\ start \in Block /\ visited \subseteq Block
  BY BlockZero, Zenon DEF LoopInv, VerifyInv, FreeInv, ScanInv, AllocInv
<1>2. /\ dev = Erase(image, {start} \cup Walked)
      /\ \A S \in SUBSET Block : ClosedUnderWalk(S) => Walked \subseteq S
      /\ Erasable(next) => next \in Walked
      /\ Erasable(image[start].next) => image[start].next \in Walked \cup {next}
      /\ \A b \in Walked : Erasable(ChunkNext(image[b], 0)) =>
           ChunkNext(image[b], 0) \in Walked \cup {next}
  BY <1>1, Zenon DEF LoopInv, FreeInv
<1>3. Walked \in SUBSET Block /\ \A b \in Walked : Erasable(b)
  BY <1>1 DEF Walked
<1>4. ClosedUnderWalk(Walked)
  BY <1>2, Zenon DEF ClosedUnderWalk
<1>5. ErasedFrom(image, image[start].next, start, 0) =
        {b \in Block : /\ \A S \in SUBSET Block : ClosedUnderWalk(S) => b \in S
                      /\ Erasable(b)}
  BY DEF ErasedFrom, ClosedUnderWalk, Erasable
<1>6. ErasedFrom(image, image[start].next, start, 0) = Walked
  BY <1>2, <1>3, <1>4, <1>5
<1>7. FreeIsErased
  BY <1>2, <1>6 DEF FreeIsErased
<1>8. FreeTakesTheRecord
  BY <1>1, <1>2, <1>6, ErasedRecord, Zenon DEF FreeTakesTheRecord
<1> QED BY <1>7, <1>8

-----------------------------------------------------------------------------
(* build_index passes one block and keeps the preferred records.           *)
LEMMA ScanBlockInv == ScanInv /\ ScanBlock => ScanInv'
<1> SUFFICES ASSUME ScanInv, ScanBlock PROVE ScanInv'
  OBVIOUS
<1>1. /\ task = "scan" /\ outcome = "none" /\ next \in DataBlock /\ next' = next + 1
      /\ UNCHANGED <<task, image, dev, outcome>>
  BY Zenon DEF ScanBlock
<1>2. /\ image \in Image /\ dev = image /\ idx = [n \in IndexKey |-> idx[n]]
  BY <1>1 DEF ScanInv
<1>3. next' \in 1 .. BlockCount
  BY <1>1, BlockCountAssumption DEF DataBlock
<1> DEFINE rec == image[next]
           key == KeyStr[rec.key]
           better == idx[key] = NoEntry \/ rec.generation > idx[key].generation
           entry == [generation |-> rec.generation, block |-> next]
<1>4. idx' = IF Complete(image, next) /\ better THEN [idx EXCEPT ![key] = entry] ELSE idx
  BY <1>2, Zenon DEF ScanBlock, Complete
<1>5. Complete(image, next) => key \in IndexKey /\ rec.generation \in Nat
  BY <1>1, <1>2, ContentCases, BlockZero DEF Complete, Image, RecordDescriptor, IndexKey, Generation
<1>6. DOMAIN idx' = IndexKey /\ idx' = [n \in IndexKey |-> idx'[n]]
  BY <1>2, <1>4, Zenon
<1>7. ASSUME NEW n \in IndexKey
      PROVE  \/ Seen(n)' = {} /\ idx'[n] = NoEntry
             \/ \E d \in DataBlock :
                  /\ Preferred(d, Seen(n))'
                  /\ idx'[n] = [generation |-> image'[d].generation, block |-> d]
  <2>1. PICK T : T = Seen(n)
    OBVIOUS
  <2>2. PICK U : U = Seen(n)'
    OBVIOUS
  <2>3. \A d \in T : d \in DataBlock /\ d < next /\ image[d].generation \in Nat
    BY <1>2, <2>1, ContentCases, BlockZero DEF Seen, Records, Complete, Image, RecordDescriptor,
       Generation
  <2>4. U = IF Complete(image, next) /\ key = n THEN T \cup {next} ELSE T
    BY <1>1, <2>1, <2>2 DEF Seen, Records, DataBlock
  <2>5. \/ T = {} /\ idx[n] = NoEntry
        \/ \E d \in DataBlock : /\ Preferred(d, T)
                                /\ idx[n] = [generation |-> image[d].generation, block |-> d]
    BY <1>1, <2>1, Zenon DEF ScanInv
  <2>6. CASE ~(Complete(image, next) /\ key = n)
    <3>1. U = T /\ idx'[n] = idx[n]
      <4>1. U = T
        BY <2>4, <2>6, Zenon
      <4>2. idx'[n] = idx[n]
        <5> HIDE DEF better, entry
        <5>1. idx' = idx \/ (key # n /\ idx' = [idx EXCEPT ![key] = entry])
          BY <1>4, <2>6
        <5> HIDE DEF key
        <5> QED BY <1>2, <5>1, Zenon
      <4> QED BY <4>1, <4>2, Zenon
    <3> QED BY <1>1, <2>2, <2>5, <3>1, Zenon DEF Preferred
  <2>7. CASE Complete(image, next) /\ key = n
    <3>1. U = T \cup {next} /\ rec.generation \in Nat /\ next \in Nat
      BY <1>1, <1>5, <2>4, <2>7 DEF DataBlock
    <3>2. idx'[n] = IF better THEN entry ELSE idx[n]
      BY <1>2, <1>4, <2>7, Zenon
    <3>3. CASE T = {} /\ idx[n] = NoEntry
      <4>1. Preferred(next, U)
        BY <3>1, <3>3 DEF Preferred
      <4> QED BY <1>1, <2>2, <2>7, <3>2, <3>3, <4>1, Zenon DEF Preferred
    <3>4. ASSUME NEW d \in DataBlock, Preferred(d, T),
                 idx[n] = [generation |-> image[d].generation, block |-> d]
          PROVE  \E e \in DataBlock :
                   /\ Preferred(e, U)
                   /\ idx'[n] = [generation |-> image[e].generation, block |-> e]
      <4>1. /\ d \in T /\ d \in Nat /\ d < next /\ image[d].generation \in Nat
            /\ \A e \in T : e \in Nat /\ e < next /\ image[e].generation \in Nat
        BY <2>3, <3>4 DEF Preferred, DataBlock
      <4>2. better <=> rec.generation > image[d].generation
        BY <2>7, <3>4, <4>1 DEF NoEntry, NullBlock
      <4>3. CASE rec.generation > image[d].generation
        <5>1. Preferred(next, U)
          BY <3>1, <3>4, <4>1, <4>3 DEF Preferred
        <5> QED BY <1>1, <3>2, <4>2, <4>3, <5>1, Zenon
      <4>4. CASE ~(rec.generation > image[d].generation)
        <5>1. Preferred(d, U)
          BY <3>1, <3>4, <4>1, <4>4 DEF Preferred
        <5> QED BY <3>2, <3>4, <4>2, <4>4, <5>1, Zenon
      <4> QED BY <4>3, <4>4
    <3> QED BY <1>1, <2>2, <2>5, <3>3, <3>4, Zenon DEF Preferred
  <2> QED BY <2>6, <2>7, Zenon
<1> HIDE DEF rec, key, better, entry
<1> QED BY <1>1, <1>3, <1>6, <1>7, Zenon DEF ScanInv

(* build_index keeps its invariant.                                        *)
LEMMA ScanStep == ScanInv /\ [Next]_vars => ScanInv'
<1> SUFFICES ASSUME ScanInv, [Next]_vars PROVE ScanInv'
  OBVIOUS
<1>1. CASE ScanEnds
  <2>1. /\ task = "scan" /\ outcome = "none" /\ next \notin DataBlock
        /\ outcome' = "scanned" /\ UNCHANGED <<task, image, dev, next, idx>>
    BY <1>1 DEF ScanEnds, End
  <2>2. next = BlockCount
    BY <2>1, BlockCountAssumption DEF ScanInv, DataBlock
  <2> QED BY <2>1, <2>2 DEF ScanInv, Seen, Preferred
<1>2. CASE UNCHANGED vars
  BY <1>2 DEF vars, ScanInv, Seen, Preferred
<1>3. CASE \/ VerifyChunk \/ VerifyRejects \/ VerifyAccepts
           \/ FreeDescriptor \/ FreeChunk \/ FreeEnds \/ AllocBlock \/ AllocEnds
  <2>1. task' # "scan"
    BY <1>3, Zenon DEF VerifyChunk, VerifyRejects, VerifyAccepts, FreeDescriptor, FreeChunk,
       FreeEnds, AllocBlock, AllocEnds, End
  <2> QED BY <2>1, Zenon DEF ScanInv
<1> QED BY <1>1, <1>2, <1>3, ScanBlockInv DEF Next

(* The index at the end of the scan holds the newest record of every key.  *)
LEMMA ScanAnswer == LoopInv => ScanIsNewest
<1> SUFFICES ASSUME LoopInv, outcome = "scanned" PROVE idx = ScanIndex(image)
  BY DEF ScanIsNewest
<1>1. task = "scan" /\ next = BlockCount
  BY Zenon DEF LoopInv, VerifyInv, FreeInv, ScanInv, AllocInv
<1>2. idx = [n \in IndexKey |-> idx[n]]
  BY <1>1 DEF LoopInv, ScanInv
<1>3. ASSUME NEW n \in IndexKey PROVE idx[n] = ScanIndex(image)[n]
  <2>1. Seen(n) = Records(image, n) /\ \A d \in Records(image, n) : d \in Nat
    BY <1>1, BlockCountAssumption DEF Seen, Records, DataBlock
  <2>2. \A d, e : d \in Newest(image, n) /\ e \in Newest(image, n) => d = e
    <3> SUFFICES ASSUME NEW d \in Newest(image, n), NEW e \in Newest(image, n)
                 PROVE  d = e
      OBVIOUS
    <3>1. d \in Records(image, n) /\ e \in Records(image, n) /\ image \in Image
      BY <1>1, Zenon DEF Newest, LoopInv, ScanInv
    <3>2. image[d].generation \in Nat /\ image[e].generation \in Nat
      BY <3>1, ContentCases, BlockZero
      DEF Records, Complete, Image, RecordDescriptor, Generation
    <3> QED BY <2>1, <3>2 DEF Newest
  <2>3. ScanIndex(image)[n] =
          IF Newest(image, n) = {}
            THEN NoEntry
            ELSE LET d == CHOOSE d \in Newest(image, n) : TRUE
                 IN  [generation |-> image[d].generation, block |-> d]
    BY DEF ScanIndex
  <2>4. CASE Seen(n) = {} /\ idx[n] = NoEntry
    BY <2>1, <2>3, <2>4 DEF Newest
  <2>5. ASSUME NEW d \in DataBlock, Preferred(d, Seen(n)),
               idx[n] = [generation |-> image[d].generation, block |-> d]
        PROVE  idx[n] = ScanIndex(image)[n]
    <3>1. d \in Newest(image, n)
      BY <2>1, <2>5, Zenon DEF Preferred, Newest
    <3>2. d = CHOOSE e \in Newest(image, n) : TRUE
      BY <3>1
    <3> QED BY <2>3, <2>5, <3>1, <3>2
  <2> QED BY <1>1, <2>4, <2>5, Zenon DEF LoopInv, ScanInv
<1>4. ScanIndex(image) = [n \in IndexKey |-> ScanIndex(image)[n]]
  BY DEF ScanIndex
<1> QED BY <1>2, <1>3, <1>4

-----------------------------------------------------------------------------
(* An allocation has no free block below the allocator's position but the  *)
(* ones collected: its next block is not below that position.              *)
LEMMA AllocationGoesOn ==
  ASSUME AllocInv, task = "alloc", NEW f \in Allocations(image, start),
         NEW m \in Nat, m = Len(blocks), m < start
  PROVE  f[m + 1] \in DataBlock /\ f[m + 1] >= next
<1>1. start \in Nat /\ next \in Nat /\ m + 1 \in 1 .. start
  BY DEF AllocInv
<1>2. f[m + 1] \in DataBlock /\ IsFreeCandidate(image[f[m + 1]])
  BY <1>1 DEF Allocations
<1>3. \A i \in 1 .. m : f[i] < f[m + 1] /\ f[i] \in Int
  BY <1>1 DEF Allocations, DataBlock
<1>4. ASSUME f[m + 1] < next PROVE FALSE
  <2>1. PICK i \in 1 .. m : blocks[i] = f[m + 1]
    BY <1>2, <1>4, Zenon DEF AllocInv
  <2>2. f[i] = blocks[i]
    BY Zenon DEF AllocInv
  <2> QED BY <1>3, <2>1, <2>2
<1> QED BY <1>1, <1>2, <1>4 DEF DataBlock

(* find_free_blocks passes one block and collects it when it is free.      *)
LEMMA AllocBlockInv == AllocInv /\ AllocBlock => AllocInv'
<1> SUFFICES ASSUME AllocInv, AllocBlock PROVE AllocInv'
  OBVIOUS
<1>1. /\ task = "alloc" /\ outcome = "none" /\ next \in DataBlock /\ next' = next + 1
      /\ Len(blocks) < start /\ UNCHANGED <<task, image, dev, start, outcome>>
  BY DEF AllocBlock
<1>2. /\ image \in Image /\ dev = image /\ start \in Nat \ {0} /\ next \in Nat
      /\ blocks \in Seq(DataBlock)
  BY <1>1 DEF AllocInv
<1>3. next' \in 1 .. BlockCount
  BY <1>1, BlockCountAssumption DEF DataBlock
<1>4. PICK m \in Nat : m = Len(blocks)
  BY <1>2
<1>5. \A i \in 1 .. m : /\ IsFreeCandidate(image[blocks[i]]) /\ blocks[i] < next
                        /\ blocks[i] \in Nat
  <2>1. \A i \in 1 .. m : blocks[i] \in DataBlock
    BY <1>2, <1>4
  <2>2. \A i \in 1 .. m : IsFreeCandidate(image[blocks[i]]) /\ blocks[i] < next
    BY <1>1, <1>4, Zenon DEF AllocInv
  <2> QED BY <2>1, <2>2 DEF DataBlock
<1>6. \A i, j \in 1 .. m : i < j => blocks[i] < blocks[j]
  BY <1>1, <1>4, Zenon DEF AllocInv
<1>7. \A b \in DataBlock :
        IsFreeCandidate(image[b]) /\ b < next => \E i \in 1 .. m : blocks[i] = b
  BY <1>1, <1>4, Zenon DEF AllocInv
<1>8. \A f \in Allocations(image, start) : \A i \in 1 .. m : f[i] = blocks[i]
  BY <1>1, <1>4, Zenon DEF AllocInv
<1>9. CASE ~IsFreeCandidate(image[next])
  <2>1. blocks' = blocks
    BY <1>2, <1>9 DEF AllocBlock
  <2>2. \A i \in 1 .. m : blocks[i] < next'
    BY <1>1, <1>2, <1>5
  <2>3. \A b \in DataBlock :
          IsFreeCandidate(image[b]) /\ b < next' => \E i \in 1 .. m : blocks[i] = b
    BY <1>1, <1>7, <1>9 DEF DataBlock
  <2>4. \A i \in 1 .. Len(blocks') : IsFreeCandidate(image'[blocks'[i]]) /\ blocks'[i] < next'
    BY <1>1, <1>4, <1>5, <2>1, <2>2, Zenon
  <2> QED BY <1>1, <1>3, <1>4, <2>1, <2>3, <2>4, Zenon DEF AllocInv
<1>10. CASE IsFreeCandidate(image[next])
  <2>1. /\ blocks' \in Seq(DataBlock) /\ Len(blocks') = m + 1 /\ blocks'[m + 1] = next
        /\ \A i \in 1 .. m : blocks'[i] = blocks[i]
    BY <1>2, <1>4, <1>10 DEF AllocBlock
  <2>2. \A i \in 1 .. m + 1 : IsFreeCandidate(image[blocks'[i]]) /\ blocks'[i] < next'
    BY <1>1, <1>2, <1>5, <1>10, <2>1
  <2>3. \A i, j \in 1 .. m + 1 : i < j => blocks'[i] < blocks'[j]
    BY <1>5, <1>6, <2>1
  <2>4. \A b \in DataBlock :
          IsFreeCandidate(image[b]) /\ b < next' => \E i \in 1 .. m + 1 : blocks'[i] = b
    <3> SUFFICES ASSUME NEW b \in DataBlock, IsFreeCandidate(image[b]), b < next'
                 PROVE  \E i \in 1 .. m + 1 : blocks'[i] = b
      OBVIOUS
    <3>1. b < next \/ b = next
      BY <1>1 DEF DataBlock
    <3> QED BY <1>7, <2>1, <3>1
  <2>5. ASSUME NEW f \in Allocations(image, start)
        PROVE  \A i \in 1 .. m + 1 : f[i] = blocks'[i]
    <3>1. f[m + 1] \in DataBlock /\ f[m + 1] >= next
      BY <1>1, <1>4, AllocationGoesOn
    <3>2. /\ f \in [1 .. start -> DataBlock]
          /\ \A i, j \in 1 .. start : i < j => f[i] < f[j]
          /\ next > f[start] \/ \E i \in 1 .. start : f[i] = next
      BY <1>1, <1>10 DEF Allocations
    <3>3. m + 1 \in 1 .. start /\ start \in 1 .. start
      BY <1>1, <1>2, <1>4
    <3>4. f[m + 1] <= f[start]
      BY <3>2, <3>3 DEF DataBlock
    <3>5. PICK j \in 1 .. start : f[j] = next
      BY <1>2, <3>1, <3>2, <3>3 DEF DataBlock
    <3>6. ~(j > m + 1)
      BY <1>2, <3>1, <3>2, <3>5 DEF DataBlock
    <3>7. ~(j < m + 1)
      BY <1>5, <1>8, <3>5
    <3>8. f[m + 1] = next
      BY <3>5, <3>6, <3>7
    <3> QED BY <1>8, <2>1, <3>8
  <2>6. Len(blocks') <= start
    BY <1>1, <1>2, <1>4, <2>1
  <2>7. outcome' = "none" /\ image' = image /\ start' = start /\ dev' = image
    BY <1>1, <1>2, Zenon
  <2>8. \A f \in Allocations(image', start') : \A i \in 1 .. Len(blocks') : f[i] = blocks'[i]
    BY <2>1, <2>5, <2>7, Zenon
  <2>9. /\ \A i \in 1 .. Len(blocks') : IsFreeCandidate(image'[blocks'[i]]) /\ blocks'[i] < next'
        /\ \A i, j \in 1 .. Len(blocks') : i < j => blocks'[i] < blocks'[j]
        /\ \A b \in DataBlock :
             IsFreeCandidate(image'[b]) /\ b < next' => \E i \in 1 .. Len(blocks') : blocks'[i] = b
    BY <2>1, <2>2, <2>3, <2>4, <2>7, Zenon
  <2> QED BY <1>2, <1>3, <2>1, <2>6, <2>7, <2>8, <2>9, Zenon DEF AllocInv
<1> QED BY <1>9, <1>10

(* find_free_blocks keeps its invariant.                                   *)
LEMMA AllocStep == AllocInv /\ [Next]_vars => AllocInv'
<1> SUFFICES ASSUME AllocInv, [Next]_vars PROVE AllocInv'
  OBVIOUS
<1>1. CASE AllocEnds
  <2>1. /\ task = "alloc" /\ outcome = "none"
        /\ next \notin DataBlock \/ Len(blocks) >= start
        /\ outcome' = IF Len(blocks) < start THEN "full" ELSE "allocated"
        /\ UNCHANGED <<task, image, dev, start, next, blocks>>
    BY <1>1 DEF AllocEnds, End
  <2>2. Len(blocks) < start => next = BlockCount
    BY <2>1, BlockCountAssumption DEF AllocInv, DataBlock
  <2>3. ~(Len(blocks) < start) => Len(blocks) = start
    BY <2>1 DEF AllocInv
  <2> QED BY <2>1, <2>2 DEF AllocInv
<1>2. CASE UNCHANGED vars
  BY <1>2 DEF vars, AllocInv
<1>3. CASE \/ VerifyChunk \/ VerifyRejects \/ VerifyAccepts
           \/ FreeDescriptor \/ FreeChunk \/ FreeEnds \/ ScanBlock \/ ScanEnds
  <2>1. task' # "alloc"
    BY <1>3, Zenon DEF VerifyChunk, VerifyRejects, VerifyAccepts, FreeDescriptor, FreeChunk,
       FreeEnds, ScanBlock, ScanEnds, End
  <2> QED BY <2>1, Zenon DEF AllocInv
<1> QED BY <1>1, <1>2, <1>3, AllocBlockInv DEF Next

(* The blocks collected are an allocation, and when they are too few there *)
(* is none.                                                                *)
LEMMA AllocAnswer == LoopInv => AllocIsFirstFit
<1> SUFFICES ASSUME LoopInv, outcome \in {"allocated", "full"} PROVE AllocIsFirstFit
  BY DEF AllocIsFirstFit
<1>1. task = "alloc" /\ AllocInv
  BY Zenon DEF LoopInv, VerifyInv, FreeInv, ScanInv
<1>2. ASSUME outcome = "full", NEW f \in Allocations(image, start) PROVE FALSE
  <2>1. PICK m \in Nat : m = Len(blocks) /\ m < start
    BY <1>1, <1>2 DEF AllocInv
  <2>2. f[m + 1] \in DataBlock /\ f[m + 1] >= BlockCount
    BY <1>1, <2>1, AllocationGoesOn DEF AllocInv
  <2> QED BY <2>2, BlockCountAssumption DEF DataBlock
<1>3. ASSUME outcome = "allocated" PROVE blocks \in Allocations(image, start)
  <2>1. /\ Len(blocks) = start /\ start \in Nat \ {0} /\ blocks \in Seq(DataBlock)
        /\ next \in Nat
    BY <1>1, <1>3 DEF AllocInv
  <2>2. blocks \in [1 .. start -> DataBlock]
    BY <2>1
  <2>3. \A i \in 1 .. start : IsFreeCandidate(image[blocks[i]]) /\ blocks[i] < next
    BY <1>1, <2>1 DEF AllocInv
  <2>4. \A i, j \in 1 .. start : i < j => blocks[i] < blocks[j]
    BY <1>1, <2>1 DEF AllocInv
  <2>5. ASSUME NEW b \in DataBlock, IsFreeCandidate(image[b])
        PROVE  b > blocks[start] \/ \E i \in 1 .. start : blocks[i] = b
    <3>1. CASE b < next
      BY <1>1, <2>5, <3>1 DEF AllocInv
    <3>2. CASE b >= next
      <4>1. start \in 1 .. start
        BY <2>1
      <4> QED BY <2>1, <2>2, <2>3, <3>2 DEF DataBlock
    <3> QED BY <2>1, <3>1, <3>2 DEF DataBlock
  <2> QED BY <2>2, <2>3, <2>4, <2>5 DEF Allocations
<1> QED BY <1>2, <1>3 DEF AllocIsFirstFit

-----------------------------------------------------------------------------
(* The loop invariants hold throughout, whatever the device holds when a   *)
(* loop starts.                                                            *)
THEOREM LoopsKeepInvariant == Spec => []LoopInv
<1>1. ASSUME LoopInv, [Next]_vars PROVE LoopInv'
  <2>1. task' = task
    BY <1>1, Zenon DEF Next, vars, VerifyChunk, VerifyRejects, VerifyAccepts, FreeDescriptor,
       FreeChunk, FreeEnds, ScanBlock, ScanEnds, AllocBlock, AllocEnds, End
  <2> QED BY <1>1, <2>1, VerifyStep, FreeStep, ScanStep, AllocStep DEF LoopInv
<1> QED BY <1>1, InitLoopInv, PTL DEF Spec

(* verify_and_read_record accepts the complete records and no other, with  *)
(* the chunks of the record in order, on every device.                     *)
THEOREM VerifyCorrect == Spec => []VerifyIsComplete
BY LoopsKeepInvariant, VerifyAnswer, PTL

(* free_record erases exactly the blocks of its walk, on broken and cyclic *)
(* chains too.                                                             *)
THEOREM FreeCorrect == Spec => []FreeIsErased
<1>1. LoopInv => FreeIsErased
  BY FreeAnswer
<1> QED BY <1>1, LoopsKeepInvariant, PTL

(* Freeing a complete record takes the blocks of that record and no other. *)
THEOREM FreeExact == Spec => []FreeTakesTheRecord
<1>1. LoopInv => FreeTakesTheRecord
  BY FreeAnswer
<1> QED BY <1>1, LoopsKeepInvariant, PTL

(* build_index finds the newest complete record of every key, the first    *)
(* one on a tie, on every device.                                          *)
THEOREM ScanCorrect == Spec => []ScanIsNewest
BY LoopsKeepInvariant, ScanAnswer, PTL

(* find_free_blocks returns the lowest free blocks, and reports a full     *)
(* device only when there are too few, on every device.                    *)
THEOREM AllocCorrect == Spec => []AllocIsFirstFit
BY LoopsKeepInvariant, AllocAnswer, PTL

-----------------------------------------------------------------------------
(* The devices below: what their geometry does to records and readers, for *)
(* every word size, list of devices and geometry that Devices allows.      *)

(* Arithmetic of words: what a sum or a difference that leaves the word by *)
(* less than its size becomes.                                             *)
LEMMA WordRange ==
  ASSUME Word \in Nat \ {0}
  PROVE  \A n \in Int : U32(n) \in 0..Word - 1
BY DEF U32

(* A number that fits a word is kept.                                      *)
LEMMA WordBelow ==
  ASSUME Word \in Nat \ {0}
  PROVE  \A n \in 0..Word - 1 : U32(n) = n
BY DEF U32

(* A difference below zero wraps to the top of the word.                   *)
LEMMA WordNegative ==
  ASSUME Word \in Nat \ {0}
  PROVE  \A n \in Int : -Word <= n /\ n < 0 => U32(n) = n + Word
BY DEF U32

(* A sum beyond the word loses one word.                                   *)
LEMMA WordAbove ==
  ASSUME Word \in Nat \ {0}
  PROVE  \A n \in Int : Word <= n /\ n < 2 * Word => U32(n) = n - Word
BY DEF U32

(* What the quotient of two naturals is.                                   *)
LEMMA Quotient ==
  ASSUME NEW a \in Nat, NEW c \in Nat \ {0}
  PROVE  /\ a \div c \in Nat
         /\ c * (a \div c) <= a /\ a < c * (a \div c) + c
OBVIOUS

(* The capacities are what is left of the block, unless the block is too   *)
(* small for a descriptor: then they wrap.                                 *)
LEMMA Capacities ==
  ASSUME Word \in Nat \ {0}, NEW bs \in 32..Word - 1
  PROVE  /\ ChunkPayloadCapacity(bs) = bs - 24
         /\ bs >= 36 => \A key \in Nat : KeyFits(bs, key) =>
              /\ key <= bs - 36
              /\ FirstPayloadCapacity(bs, key) = bs - 36 - key
         /\ bs < 36 => /\ KeyFits(bs, 0)
                       /\ FirstPayloadCapacity(bs, 0) = Word + bs - 36
<1>1. Word \in Nat
  OBVIOUS
<1>2. ChunkPayloadCapacity(bs) = bs - 24
  BY <1>1, WordBelow DEF ChunkPayloadCapacity, ChunkHeaderSize, CrcSize
<1>3. ASSUME bs >= 36, NEW key \in Nat, KeyFits(bs, key)
      PROVE  key <= bs - 36 /\ FirstPayloadCapacity(bs, key) = bs - 36 - key
  <2>1. key <= bs - 36
    BY <1>1, <1>3, WordBelow DEF KeyFits, DescriptorHeaderSize, CrcSize
  <2> QED BY <1>1, <1>3, <2>1, WordBelow
          DEF FirstPayloadCapacity, DescriptorHeaderSize, CrcSize
<1>4. ASSUME bs < 36
      PROVE  KeyFits(bs, 0) /\ FirstPayloadCapacity(bs, 0) = Word + bs - 36
  BY <1>1, <1>4, WordNegative
     DEF KeyFits, FirstPayloadCapacity, DescriptorHeaderSize, CrcSize
<1> QED BY <1>2, <1>3, <1>4

(* A descriptor whose sizes pass the reader's checks makes it slice beyond *)
(* the block on blocks of less than 36 bytes, and on no others.            *)
LEMMA SliceBounds ==
  ASSUME Word \in Nat \ {0}, KeyWord \in Nat \ {0}, NEW bs \in 32..Word - 1
  PROVE  (\E keySize \in 0..KeyWord - 1, firstSize \in 0..Word - 1 :
            ReadDescriptor(bs, [keySize |-> keySize, firstSize |-> firstSize, chunkCount |-> 1])
              = "panic")
         <=> bs < 36
<1> DEFINE rec(k, f) == [keySize |-> k, firstSize |-> f, chunkCount |-> 1]
<1>1. Word \in Nat /\ KeyWord \in Nat \ {0}
  OBVIOUS
<1>2. ASSUME bs >= 36, NEW k \in 0..KeyWord - 1, NEW f \in 0..Word - 1
      PROVE  ReadDescriptor(bs, rec(k, f)) # "panic"
  BY <1>1, <1>2, Capacities DEF ReadDescriptor, DescriptorHeaderSize
<1>3. ASSUME bs < 36
      PROVE  ReadDescriptor(bs, rec(0, Word + bs - 36)) = "panic"
  BY <1>1, <1>3, Capacities DEF ReadDescriptor, DescriptorHeaderSize
<1>4. 0 \in 0..KeyWord - 1 /\ (bs < 36 => Word + bs - 36 \in 0..Word - 1)
  BY <1>1
<1>5. ASSUME bs < 36
      PROVE  \E k \in 0..KeyWord - 1, f \in 0..Word - 1 :
               ReadDescriptor(bs, rec(k, f)) = "panic"
  BY <1>3, <1>4, <1>5
<1>6. CASE bs < 36
  BY <1>5, <1>6
<1>7. CASE ~(bs < 36)
  <2>1. bs >= 36
    BY <1>1, <1>7
  <2> QED BY <1>2, <1>7, <2>1, Zenon
<1> QED BY <1>6, <1>7

(* The block counts of Go and Rust differ exactly when the sum that rounds *)
(* up leaves the word.                                                     *)
LEMMA BlockCounts ==
  ASSUME Word \in Nat \ {0}, NEW bs \in 32..Word - 1, NEW key \in Nat, NEW value \in Nat
  PROVE  (GoNeededBlocks(bs, key, value) = NeededBlocksFor(bs, key, value))
         <=> U32(value) - FirstPayloadCapacity(bs, U32(key))
               + ChunkPayloadCapacity(bs) - 1 < Word
<1> DEFINE v == U32(value)
           first == FirstPayloadCapacity(bs, U32(key))
           chunk == bs - 24
           sum == v - first + chunk - 1
<1>1. Word \in Nat \ {0} /\ v \in 0..Word - 1 /\ U32(key) \in 0..Word - 1
  BY WordRange
<1>2. first \in 0..Word - 1
  BY <1>1, WordRange DEF FirstPayloadCapacity, DescriptorHeaderSize, CrcSize
<1>3. /\ GoNeededBlocks(bs, key, value) =
           IF v <= first THEN 1 ELSE U32(1 + U32(sum) \div chunk)
      /\ NeededBlocksFor(bs, key, value) = IF v <= first THEN 1 ELSE 1 + sum \div chunk
  BY Capacities DEF GoNeededBlocks, NeededBlocksFor, CeilDiv
<1> SUFFICES (GoNeededBlocks(bs, key, value) = NeededBlocksFor(bs, key, value)) <=> sum < Word
  <2>1. ChunkPayloadCapacity(bs) = chunk
    BY Capacities
  <2> QED BY <2>1, Zenon
<1> HIDE DEF v, first
<1>4. CASE v <= first
  BY <1>1, <1>2, <1>3, <1>4
<1>5. CASE v > first
  <2>1. sum \in Nat /\ sum < 2 * Word /\ chunk \in Nat \ {0} /\ chunk >= 8 /\ chunk < Word
    BY <1>1, <1>2, <1>5
  <2> HIDE DEF sum, chunk
  <2>2. ASSUME NEW n \in Nat, n < Word
        PROVE  U32(1 + n \div chunk) = 1 + n \div chunk
    <3>1. n \div chunk \in Nat /\ chunk * (n \div chunk) <= n
      BY <2>1, Quotient
    <3>2. 8 * (n \div chunk) <= n
      <4>1. 8 * (n \div chunk) <= chunk * (n \div chunk)
        BY <2>1, <3>1
      <4> QED BY <2>1, <3>1, <4>1
    <3>3. 1 + n \div chunk \in 0..Word - 1
      BY <1>1, <2>1, <2>2, <3>1, <3>2
    <3> QED BY <3>3, WordBelow
  <2>3. CASE sum < Word
    <3>1. U32(sum) = sum
      BY <2>1, <2>3, <1>1, WordBelow
    <3>2. ~(v <= first)
      BY <1>1, <1>2, <1>5
    <3> QED BY <1>3, <2>1, <2>2, <2>3, <3>1, <3>2, Zenon DEF sum, chunk
  <2>4. CASE sum >= Word
    <3>1. U32(sum) = sum - Word /\ sum - Word \in Nat /\ sum - Word < Word
      BY <2>1, <2>4, <1>1, WordAbove
    <3>2. (sum - Word) \div chunk # sum \div chunk
      <4>1. sum < chunk * (sum \div chunk) + chunk
        BY <2>1, Quotient
      <4>2. chunk * ((sum - Word) \div chunk) <= sum - Word
        BY <2>1, <3>1, Quotient
      <4>3. sum \div chunk \in Nat /\ (sum - Word) \div chunk \in Nat
        BY <2>1, <3>1, Quotient
      <4> QED BY <1>1, <2>1, <4>1, <4>2, <4>3
    <3>3. ~(v <= first) /\ ~(sum < Word)
      BY <1>1, <1>2, <1>5, <2>1, <2>4
    <3>4. (sum - Word) \div chunk \in Nat /\ sum \div chunk \in Nat
      BY <2>1, <3>1, Quotient
    <3>5. 1 + (sum - Word) \div chunk # 1 + sum \div chunk
      BY <3>2, <3>4
    <3>6. U32(1 + U32(sum) \div chunk) = 1 + (sum - Word) \div chunk
      BY <2>2, <3>1, Zenon
    <3> QED BY <1>3, <3>3, <3>5, <3>6, Zenon DEF sum, chunk
  <2> QED BY <1>1, <2>1, <2>3, <2>4
<1> QED BY <1>1, <1>2, <1>4, <1>5

-----------------------------------------------------------------------------
(* Every list given to format and open names devices, at least one.        *)
ListsOfDevices == \A l \in Lists : 1 \in DOMAIN l /\ \A i \in DOMAIN l : l[i] \in Device

(* A device that is open has one of the block sizes devices are given.     *)
HandleInv ==
  /\ handle = [d \in Device |-> handle[d]]
  /\ \A d \in Device : handle[d] = NoHandle \/ handle[d].bs \in AnyBs

(* The devices of an open store are open, hold a header and have the same  *)
(* geometry, of at least one block.                                        *)
StoreInv ==
  store # <<>> => /\ store \in Lists
                  /\ \A i \in DOMAIN store : /\ BlockSizeOk(handle[store[i]].bs)
                                             /\ handle[store[i]].count >= 1
                                             /\ handle[store[i]] = handle[store[1]]

(* No step takes a device of the open store away or changes its geometry.  *)
LEMMA GeometryStep ==
  ASSUME ListsOfDevices, HandleInv, StoreInv, [DevicesNext]_devicesVars
  PROVE  HandleInv' /\ StoreInv'
<1>1. ~BlockSizeOk(NoHandle.bs)
  BY DEF BlockSizeOk, NoHandle, StorageHeaderSize, CrcSize
<1>2. ASSUME NEW d \in Device, handle[d] = NoHandle, NEW h, handle' = [handle EXCEPT ![d] = h],
             h.bs \in AnyBs, store' = store
      PROVE  HandleInv' /\ StoreInv'
  <2>1. HandleInv'
    BY <1>2 DEF HandleInv
  <2>2. ASSUME store # <<>> PROVE \A i \in DOMAIN store : handle'[store[i]] = handle[store[i]]
    BY <1>1, <1>2, <2>2, Zenon DEF ListsOfDevices, HandleInv, StoreInv
  <2>3. ASSUME store # <<>> PROVE 1 \in DOMAIN store
    BY <2>3, Zenon DEF ListsOfDevices, StoreInv
  <2> QED BY <1>2, <2>1, <2>2, <2>3, Zenon DEF StoreInv
<1>3. ASSUME NEW d \in Device, NEW g \in Geometries, CreateFile(d, g)
      PROVE  HandleInv' /\ StoreInv'
  BY <1>2, <1>3, Zenon DEF CreateFile, AnyBs
<1>4. ASSUME NEW d \in Device, NEW bs \in BlockSizes, OpenFile(d, bs)
      PROVE  HandleInv' /\ StoreInv'
  BY <1>2, <1>4, Zenon DEF OpenFile, FromBytes, AnyBs
<1>5. ASSUME UNCHANGED <<handle, store>>
      PROVE  HandleInv' /\ StoreInv'
  BY <1>5 DEF HandleInv, StoreInv
<1>6. ASSUME NEW l \in Lists, Open(l)
      PROVE  HandleInv' /\ StoreInv'
  BY <1>6, Zenon DEF Open, OpenAccepts, OpenReplicaHeader, HandleInv, StoreInv
<1>7. CASE Close \/ Exit
  BY <1>7 DEF Close, Exit, HandleInv, StoreInv
<1>8. ASSUME \/ \E d \in Device, flips \in Flips : Damage(d, flips)
             \/ \E d \in Device : Resize(d)
             \/ \E l \in Lists : FormatBegin(l)
             \/ FormatDevice
             \/ devicesVars' = devicesVars
      PROVE  UNCHANGED <<handle, store>>
  BY <1>8 DEF Damage, Resize, FormatBegin, FormatDevice, devicesVars
<1> QED BY <1>3, <1>4, <1>5, <1>6, <1>7, <1>8 DEF DevicesNext

(* The block size of an open store is one that devices are given, it fits  *)
(* a word, and a storage header fits it.                                   *)
LEMMA StoreGeometry ==
  ASSUME ListsOfDevices, Word \in Nat \ {0}, AnyBs \subseteq 1..Word - 1,
         HandleInv, StoreInv, store # <<>>
  PROVE  StoreBs \in AnyBs /\ StoreBs \in 32..Word - 1
<1>1. /\ store[1] \in Device /\ BlockSizeOk(StoreBs)
  BY DEF ListsOfDevices, StoreInv, StoreBs
<1>2. StoreBs \in AnyBs
  BY <1>1 DEF HandleInv, StoreBs, BlockSizeOk, NoHandle,
     StorageHeaderSize, CrcSize
<1> QED BY <1>1, <1>2 DEF BlockSizeOk, StorageHeaderSize, CrcSize

(* What the proofs use of the assumptions on the constants.                *)
LEMMA DeviceAssumptions ==
  /\ Word \in Nat \ {0} /\ KeyWord \in Nat \ {0}
  /\ ListsOfDevices
  /\ AnyBs \subseteq 1..Word - 1
  /\ KeySizes \subseteq Nat /\ ValueSizes \subseteq Nat
<1>1. ListsOfDevices
  BY DevicesAssumption DEF ListsOfDevices
<1>2. AnyBs \subseteq 1..Word - 1
  BY DevicesAssumption, Zenon DEF AnyBs
<1>3. KeySizes \subseteq Nat /\ ValueSizes \subseteq Nat
  BY DevicesAssumption, Zenon
<1> QED BY <1>1, <1>2, <1>3, WordAssumption

(* While a store is open its devices stay open with the one geometry that  *)
(* open found on all of them.                                              *)
THEOREM Geometry == DevicesSpec => [](HandleInv /\ StoreInv)
<1>1. DevicesInit => HandleInv /\ StoreInv
  BY DEF DevicesInit, HandleInv, StoreInv
<1>2. HandleInv /\ StoreInv /\ [DevicesNext]_devicesVars => HandleInv' /\ StoreInv'
  BY DeviceAssumptions, GeometryStep
<1> QED BY <1>1, <1>2, PTL DEF DevicesSpec

(* On the block size of an open store the reader does as SliceBounds says. *)
LEMMA ReaderAnswer ==
  ASSUME ListsOfDevices, Word \in Nat \ {0}, KeyWord \in Nat \ {0},
         AnyBs \subseteq 1..Word - 1, HandleInv, StoreInv
  PROVE  ReaderInBounds
<1>1. SUFFICES ASSUME store # <<>> PROVE Panics[StoreBs] <=> StoreBs < 36
  BY DEF ReaderInBounds
<1>2. StoreBs \in AnyBs /\ StoreBs \in 32..Word - 1
  BY <1>1, StoreGeometry
<1> QED BY <1>2, SliceBounds DEF Panics

(* On the block size of an open store the counts are as BlockCounts says.  *)
LEMMA CountAnswer ==
  ASSUME ListsOfDevices, Word \in Nat \ {0}, AnyBs \subseteq 1..Word - 1,
         KeySizes \subseteq Nat, ValueSizes \subseteq Nat, HandleInv, StoreInv
  PROVE  GoTakesAsManyBlocks
<1>1. SUFFICES ASSUME store # <<>> PROVE Agree[StoreBs]
  BY DEF GoTakesAsManyBlocks
<1>2. StoreBs \in AnyBs /\ StoreBs \in 32..Word - 1
  BY <1>1, StoreGeometry
<1> QED BY <1>2, BlockCounts DEF Agree

(* verify_and_read_record never slices beyond a block of an open store,    *)
(* whatever sizes a descriptor holds, if and only if blocks have at least  *)
(* 36 bytes.                                                               *)
THEOREM ReaderBounds == DevicesSpec => []ReaderInBounds
<1>1. HandleInv /\ StoreInv => ReaderInBounds
  BY DeviceAssumptions, ReaderAnswer
<1> QED BY <1>1, Geometry, PTL

(* Go and Rust take the same number of blocks for every key and value on   *)
(* every open store, except where the rounding sum of Go leaves the word.  *)
THEOREM GoBlocks == DevicesSpec => []GoTakesAsManyBlocks
<1>1. HandleInv /\ StoreInv => GoTakesAsManyBlocks
  BY DeviceAssumptions, CountAnswer
<1> QED BY <1>1, Geometry, PTL
=============================================================================
