------------------------------ MODULE MCLoops ------------------------------
(* Values for the constants of ReplicaLoops: every small image.            *)
EXTENDS ReplicaLoops

CONSTANTS
  k1, k2, v1,
  MaxChunkCount,   \* bound: chunk counts and chunk indices in the images
  MaxGeneration    \* bound: generations in the images

TwoKeys == {k1, k2}
OwnKeyStr == [k \in Keys |-> k]
OneBlock == [v \in Values |-> 1]

(* Pointers to every block, to none and beyond the end of the device.      *)
SmallPointer == 0 .. BlockCount \cup {NullBlock}

SmallDescriptor ==
  [type: {"descriptor"}, key: {k1}, generation: {0},
   chunkCount: 0 .. MaxChunkCount, next: SmallPointer, payload: {v1}]

SmallChunk ==
  [type: {"chunk"}, owner: DataBlock, chunkIndex: 1 .. MaxChunkCount - 1,
   next: SmallPointer, payload: {v1}]

ShortRecord ==
  [type: {"descriptor"}, key: {k1, k2}, generation: 0 .. MaxGeneration,
   chunkCount: {1}, next: {NullBlock}, payload: {v1}]

(* Any descriptor in block d; chunks, short records, free blocks and       *)
(* garbage in the others, in any mix.                                      *)
SmallChainImages(d) ==
  {[b \in Block |-> IF b = 0 THEN Header ELSE IF b = d THEN c ELSE f[b]] :
     c \in SmallDescriptor,
     f \in [DataBlock \ {d} -> SmallChunk \cup ShortRecord \cup {Free, Garbage}]}

SmallScanImages ==
  {[b \in Block |-> IF b = 0 THEN Header ELSE f[b]] :
     f \in [DataBlock -> ShortRecord \cup {Free, Garbage}]}
=============================================================================
