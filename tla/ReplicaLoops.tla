---------------------------- MODULE ReplicaLoops ----------------------------
(***************************************************************************)
(* The loops by which a replica reads, erases, scans and allocates, one    *)
(* iteration per step, on any image of a device.  BlockFormat says in one  *)
(* formula what each of them computes; here the loops themselves are run,  *)
(* to see that they end, on broken and cyclic chains too, and that they    *)
(* end with what BlockFormat says.                                         *)
(***************************************************************************)
EXTENDS BlockFormat, Sequences

CONSTANTS
  ChainImages(_),  \* the devices verify_and_read_record and free_record run on,
                   \* for each block they may start from
  ScanImages,      \* the devices build_index and find_free_blocks run on
  AllocSizes       \* the block counts asked of the allocator

(* The devices are any, the broken ones included.  A record has at least   *)
(* one block, so the allocator is never asked for none.                    *)
ASSUME ImagesAssumption ==
  /\ \A d \in DataBlock : ChainImages(d) \subseteq Image
  /\ ScanImages \subseteq Image
ASSUME AllocSizesAssumption == AllocSizes \subseteq Nat \ {0}

VARIABLES
  task,      \* the loop being run: "verify", "free", "scan" or "alloc"
  image,     \* the device when the loop starts
  dev,       \* the device now
  start,     \* the descriptor block it starts from; a count for "alloc"
  next,      \* the block to look at next
  expected,  \* the chunk index expected there
  visited,   \* the blocks seen
  blocks,    \* the blocks collected: chunks of the record, or free ones
  idx,       \* the index a scan has built so far
  outcome    \* "none" while the loop runs, then how it ended

vars == <<task, image, dev, start, next, expected, visited, blocks, idx, outcome>>

-----------------------------------------------------------------------------
Start(t, img, s, n) ==
  /\ task = t
  /\ image = img
  /\ dev = img
  /\ start = s
  /\ next = n
  /\ expected = 1
  /\ visited = {}
  /\ blocks = <<>>
  /\ idx = EmptyIndex
  /\ outcome = "none"

Init ==
  \/ \E d \in DataBlock : \E img \in ChainImages(d) :
       /\ img[d].type = "descriptor"
       /\ Start("verify", img, d, img[d].next) \/ Start("free", img, d, d)
  \/ \E img \in ScanImages : Start("scan", img, 1, 1)
  \/ \E img \in ScanImages, n \in AllocSizes : Start("alloc", img, n, 1)

End(how) ==
  /\ outcome' = how
  /\ UNCHANGED <<task, image, dev, start, next, expected, visited, blocks, idx>>

-----------------------------------------------------------------------------
(* verify_and_read_record, from its descriptor: the header checks, then    *)
(* one chunk per iteration.                                                *)
(* Mutant of ChunkAccepted: the chunk may belong to another record.        *)
ChunkAcceptedAnyOwner ==
  /\ next \in Block
  /\ next \notin visited \cup {start}
  /\ dev[next].type = "chunk"
  /\ dev[next].chunkIndex = expected

ChunkAccepted ==
  /\ next \in Block
  /\ next \notin visited \cup {start}
  /\ dev[next].type = "chunk"
  /\ dev[next].owner = start
  /\ dev[next].chunkIndex = expected

VerifyChunk ==
  /\ task = "verify" /\ outcome = "none"
  /\ dev[start].chunkCount > 1
  /\ next # NullBlock
  /\ ChunkAccepted
  /\ visited' = visited \cup {next}
  /\ blocks' = Append(blocks, next)
  /\ expected' = expected + 1
  /\ next' = dev[next].next
  /\ UNCHANGED <<task, image, dev, start, idx, outcome>>

VerifyRejects ==
  /\ task = "verify" /\ outcome = "none"
  /\ \/ dev[start].chunkCount = 0
     \/ dev[start].chunkCount = 1 /\ next # NullBlock
     \/ dev[start].chunkCount > 1 /\ dev[start].next = NullBlock
     \/ dev[start].chunkCount > 1 /\ next # NullBlock /\ ~ChunkAccepted
     \/ dev[start].chunkCount > 1 /\ next = NullBlock /\ expected # dev[start].chunkCount
  /\ End("incomplete")

VerifyAccepts ==
  /\ task = "verify" /\ outcome = "none"
  /\ next = NullBlock
  /\ dev[start].chunkCount # 0
  /\ expected = dev[start].chunkCount
  /\ End("complete")

-----------------------------------------------------------------------------
(* free_record: the descriptor first, then along the chain.                *)
FreeDescriptorOnly ==   \* mutant of FreeDescriptor: the chain is left
  /\ task = "free" /\ outcome = "none" /\ next = start
  /\ dev[start] # Free
  /\ dev' = [dev EXCEPT ![start] = Free]
  /\ next' = NullBlock
  /\ UNCHANGED <<task, image, start, expected, visited, blocks, idx, outcome>>

FreeDescriptor ==
  /\ task = "free" /\ outcome = "none" /\ next = start
  /\ dev[start] # Free
  /\ dev' = [dev EXCEPT ![start] = Free]
  /\ next' = dev[start].next
  /\ UNCHANGED <<task, image, start, expected, visited, blocks, idx, outcome>>

(* Mutants of FreeChunk: the checksum is not looked at; the chain is       *)
(* walked before it is erased, without a look at the blocks already seen.  *)
FreeChunkUnchecked ==
  /\ task = "free" /\ outcome = "none" /\ dev[start] = Free
  /\ next \in Block \ visited
  /\ visited' = visited \cup {next}
  /\ dev' = [dev EXCEPT ![next] = Free]
  /\ next' = IF CrcValid(dev[next]) THEN ChunkNext(dev[next], 0) ELSE NullBlock
  /\ UNCHANGED <<task, image, start, expected, blocks, idx, outcome>>

FreeChunkInCircles ==
  /\ task = "free" /\ outcome = "none" /\ dev[start] = Free
  /\ next \in Block /\ CrcValid(dev[next])
  /\ visited' = visited \cup {next}
  /\ next' = ChunkNext(dev[next], 0)
  /\ UNCHANGED <<task, image, dev, start, expected, blocks, idx, outcome>>

FreeChunk ==
  /\ task = "free" /\ outcome = "none" /\ dev[start] = Free
  /\ next \in Block \ visited
  /\ visited' = visited \cup {next}
  /\ IF CrcValid(dev[next])
       THEN /\ dev' = [dev EXCEPT ![next] = Free]
            /\ next' = ChunkNext(dev[next], 0)
            /\ UNCHANGED outcome
       ELSE /\ outcome' = "freed"
            /\ UNCHANGED <<dev, next>>
  /\ UNCHANGED <<task, image, start, expected, blocks, idx>>

FreeEnds ==
  /\ task = "free" /\ outcome = "none" /\ dev[start] = Free
  /\ next \notin Block \ visited
  /\ End("freed")

-----------------------------------------------------------------------------
(* build_index, and the first pass of recover: blocks from 1 up.           *)
(* Mutant of ScanBlock: the last record wins a tie.                        *)
ScanBlockLastWins ==
  /\ task = "scan" /\ outcome = "none" /\ next \in DataBlock
  /\ LET rec == dev[next]
         n == KeyStr[rec.key]
         better == idx[n] = NoEntry \/ rec.generation >= idx[n].generation
     IN  idx' = IF rec.type = "descriptor" /\ Complete(dev, next) /\ better
                  THEN [idx EXCEPT ![n] = [generation |-> rec.generation, block |-> next]]
                  ELSE idx
  /\ next' = next + 1
  /\ UNCHANGED <<task, image, dev, start, expected, visited, blocks, outcome>>

ScanBlock ==
  /\ task = "scan" /\ outcome = "none" /\ next \in DataBlock
  /\ LET rec == dev[next]
         n == KeyStr[rec.key]
         better == idx[n] = NoEntry \/ rec.generation > idx[n].generation
     IN  idx' = IF rec.type = "descriptor" /\ Complete(dev, next) /\ better
                  THEN [idx EXCEPT ![n] = [generation |-> rec.generation, block |-> next]]
                  ELSE idx
  /\ next' = next + 1
  /\ UNCHANGED <<task, image, dev, start, expected, visited, blocks, outcome>>

ScanEnds ==
  /\ task = "scan" /\ outcome = "none" /\ next \notin DataBlock
  /\ End("scanned")

(* find_free_blocks.                                                       *)
AllocBlockAny ==   \* mutant of AllocBlock: garbage passes for free
  /\ task = "alloc" /\ outcome = "none"
  /\ next \in DataBlock
  /\ Len(blocks) < start
  /\ blocks' = IF CrcValid(dev[next]) THEN blocks ELSE Append(blocks, next)
  /\ next' = next + 1
  /\ UNCHANGED <<task, image, dev, start, expected, visited, idx, outcome>>

AllocBlock ==
  /\ task = "alloc" /\ outcome = "none"
  /\ next \in DataBlock
  /\ Len(blocks) < start
  /\ blocks' = IF IsFreeCandidate(dev[next]) THEN Append(blocks, next) ELSE blocks
  /\ next' = next + 1
  /\ UNCHANGED <<task, image, dev, start, expected, visited, idx, outcome>>

AllocEnds ==
  /\ task = "alloc" /\ outcome = "none"
  /\ next \notin DataBlock \/ Len(blocks) >= start
  /\ End(IF Len(blocks) < start THEN "full" ELSE "allocated")

-----------------------------------------------------------------------------
Next ==
  \/ VerifyChunk \/ VerifyRejects \/ VerifyAccepts
  \/ FreeDescriptor \/ FreeChunk \/ FreeEnds
  \/ ScanBlock \/ ScanEnds
  \/ AllocBlock \/ AllocEnds

(* A loop runs on until it ends: nothing else is scheduled in between.     *)
Spec == Init /\ [][Next]_vars /\ WF_vars(Next)

-----------------------------------------------------------------------------
(* verify_and_read_record accepts exactly the complete records, and the    *)
(* chunk blocks it returns are the chain, in order.                        *)
VerifyIsComplete ==
  /\ outcome = "complete" => Complete(image, start) /\ blocks \in Chains(image, start)
  /\ outcome = "incomplete" => ~Complete(image, start)

(* free_record leaves exactly the blocks of its walk free, the descriptor  *)
(* included, and every other block as it was.                              *)
FreeIsErased ==
  outcome = "freed" =>
    dev = Erase(image, {start} \cup ErasedFrom(image, image[start].next, start, 0))

(* Freeing a complete record frees the blocks of that record and no other. *)
FreeTakesTheRecord ==
  outcome = "freed" /\ Complete(image, start) =>
    dev = Erase(image, RecordBlocks(image, start))

(* The scan keeps the newest complete record of every key.                 *)
ScanIsNewest == outcome = "scanned" => idx = ScanIndex(image)

(* The allocator returns the lowest free blocks, and reports a full device *)
(* only when fewer blocks are free than were asked for.                    *)
AllocIsFirstFit ==
  /\ outcome = "allocated" => blocks \in Allocations(image, start)
  /\ outcome = "full" => Allocations(image, start) = {}

(* Every loop ends, whatever the device holds.                             *)
Ends == <>(outcome # "none")
=============================================================================
