------------------------------ MODULE Devices -------------------------------
(***************************************************************************)
(* The files behind a store: how device handles are made of them, how      *)
(* format stamps a header on each, how open decides which handles make a   *)
(* store, and what a put of any length does on the geometry it accepts.    *)
(* Between two uses a file may be damaged, cut or extended, or opened with *)
(* another block size; a process may end between the devices of a format.  *)
(***************************************************************************)
EXTENDS RecordLayout, Checksum

CONSTANTS
  Device,      \* the files
  Lists,       \* the sequences of them given to format and open
  Geometries,  \* the block sizes and counts devices are created with
  BlockSizes,  \* the block sizes files are opened with
  Flips,       \* the sets of bits of the header block that damage turns
  MaxFaults,   \* how often a file is damaged or resized
  KeySizes, ValueSizes  \* the lengths of keys and values that are put

ASSUME DevicesAssumption ==
  /\ Lists \subseteq Seq(Device) \ {<<>>}
  /\ \A g \in Geometries : g.bs \in 1..Word - 1 /\ g.count \in 0..Word - 1
  /\ BlockSizes \subseteq 1..Word - 1
  /\ KeySizes \subseteq Nat /\ ValueSizes \subseteq Nat
  /\ MaxFaults \in Nat

VARIABLES
  file,    \* size of each file (0: there is none), the header block in it,
           \* and the block size it was written with
  handle,  \* the device opened on a file
  store,   \* the devices of the open store
  fmt,     \* the devices a running format has still to stamp
  stamp,   \* the geometry format stamped on a file, and the bits turned since
  faults

devicesVars == <<file, handle, store, fmt, stamp, faults>>

NoHandle == [bs |-> 0, count |-> 0]

ByteOf(n) == {i \in ByteBits : (n \div 2^i) % 2 = 1}

StorageHeaderType == ByteOf(1)

Magic == ByteOf(69)

(* The fields open looks at, one byte for each; version, format sequence   *)
(* and flags are written and never looked at.                              *)
MarshalStorageHeader(bs, count, id) ==
  WriteBlockCrc(<<StorageHeaderType, Magic, ByteOf(bs), ByteOf(count), ByteOf(id),
                  {}, {}, {}, {}>>)

Blank == [i \in 1..9 |-> {}]

Unstamped == [geometry |-> NoHandle, flips |-> {}]

DevicesInit ==
  /\ file = [d \in Device |-> [size |-> 0, header |-> Blank, span |-> 0]]
  /\ handle = [d \in Device |-> NoHandle]
  /\ store = <<>>
  /\ fmt = <<>>
  /\ stamp = [d \in Device |-> Unstamped]
  /\ faults = 0

-----------------------------------------------------------------------------
(* The device over so many bytes: its count of blocks is a word.           *)
FromBytes(size, bs) == [bs |-> bs, count |-> U32(size \div bs)]

(* Mutant: the file need not divide into blocks.                           *)
OpenFileOfAnySize(d, bs) ==
  /\ handle[d] = NoHandle
  /\ file[d].size # 0
  /\ handle' = [handle EXCEPT ![d] = FromBytes(file[d].size, bs)]
  /\ UNCHANGED <<file, store, fmt, stamp, faults>>

(* A file that is there and divides into blocks is opened.                 *)
OpenFile(d, bs) ==
  /\ handle[d] = NoHandle
  /\ file[d].size # 0 /\ file[d].size % bs = 0
  /\ handle' = [handle EXCEPT ![d] = FromBytes(file[d].size, bs)]
  /\ UNCHANGED <<file, store, fmt, stamp, faults>>

(* A file is created, or truncated, and is zero all over.                  *)
CreateFile(d, g) ==
  /\ handle[d] = NoHandle
  /\ file' = [file EXCEPT ![d] = [size |-> g.bs * g.count, header |-> Blank, span |-> 0]]
  /\ handle' = [handle EXCEPT ![d] = g]
  /\ stamp' = [stamp EXCEPT ![d] = Unstamped]
  /\ UNCHANGED <<store, fmt, faults>>

AllOpen(l) == \A i \in DOMAIN l : handle[l[i]] # NoHandle

(* Format stamps the devices one after the other and stops at one whose    *)
(* blocks are too small for the header.                                    *)
FormatBegin(l) ==
  /\ store = <<>> /\ fmt = <<>> /\ AllOpen(l)
  /\ fmt' = [i \in DOMAIN l |-> [device |-> l[i], id |-> i - 1]]
  /\ UNCHANGED <<file, handle, store, stamp, faults>>

BlockSizeOk(bs) == bs >= StorageHeaderSize + CrcSize

FormatDevice ==
  /\ fmt # <<>>
  /\ LET d == Head(fmt).device
         g == handle[d]
     IN  \/ /\ BlockSizeOk(g.bs)
            /\ file' = [file EXCEPT ![d].header = MarshalStorageHeader(g.bs, g.count, Head(fmt).id),
                                    ![d].span = g.bs]
            /\ stamp' = [stamp EXCEPT ![d] = [geometry |-> g, flips |-> {}]]
            /\ fmt' = Tail(fmt)
         \/ /\ ~BlockSizeOk(g.bs)
            /\ fmt' = <<>>
            /\ UNCHANGED <<file, stamp>>
  /\ UNCHANGED <<handle, store, faults>>

(* Mutant: the checksum is not looked at.                                  *)
HeaderUnchecked(d) ==
  LET g == handle[d]
      header == file[d].header
  IN  /\ BlockSizeOk(g.bs)
      /\ header[1] = StorageHeaderType /\ header[2] = Magic
      /\ header[3] = ByteOf(g.bs) /\ header[4] = ByteOf(g.count) /\ g.count >= 1

(* What open demands of one device.  A block read with another block size  *)
(* than it was written with has its checksum elsewhere and fails it.       *)
OpenReplicaHeader(d) ==
  LET g == handle[d]
      header == file[d].header
  IN  /\ BlockSizeOk(g.bs)
      /\ header[1] = StorageHeaderType
      /\ file[d].span = g.bs /\ VerifyBlockCrc(header)
      /\ header[2] = Magic
      /\ header[3] = ByteOf(g.bs) /\ header[4] = ByteOf(g.count)
      /\ g.count >= 1

OpenAccepts(l) ==
  /\ \A i \in DOMAIN l : OpenReplicaHeader(l[i])
  /\ \A i \in DOMAIN l : handle[l[i]] = handle[l[1]]

Open(l) ==
  /\ store = <<>> /\ fmt = <<>> /\ AllOpen(l)
  /\ OpenAccepts(l)
  /\ store' = l
  /\ UNCHANGED <<file, handle, fmt, stamp, faults>>

(* The devices go with the store, or all of them with the process.         *)
Close ==
  /\ store # <<>>
  /\ handle' = [d \in Device |-> IF \E i \in DOMAIN store : store[i] = d
                                 THEN NoHandle ELSE handle[d]]
  /\ store' = <<>>
  /\ UNCHANGED <<file, fmt, stamp, faults>>

Exit ==
  /\ \E d \in Device : handle[d] # NoHandle
  /\ handle' = [d \in Device |-> NoHandle]
  /\ store' = <<>>
  /\ fmt' = <<>>
  /\ UNCHANGED <<file, stamp, faults>>

-----------------------------------------------------------------------------
(* Bits of the header block of a file turn; a file loses or gains a block. *)
Damage(d, flips) ==
  /\ handle[d] = NoHandle /\ stamp[d].geometry # NoHandle
  /\ faults < MaxFaults
  /\ file' = [file EXCEPT ![d].header = Flip(@, flips)]
  /\ stamp' = [stamp EXCEPT ![d].flips = Xor(@, flips)]
  /\ faults' = faults + 1
  /\ UNCHANGED <<handle, store, fmt>>

Resize(d) ==
  /\ handle[d] = NoHandle /\ stamp[d].geometry # NoHandle
  /\ faults < MaxFaults
  /\ \E size \in {file[d].size - file[d].span, file[d].size + file[d].span} :
       /\ size > 0
       /\ file' = [file EXCEPT ![d].size = size]
  /\ faults' = faults + 1
  /\ UNCHANGED <<handle, store, fmt, stamp>>

DevicesNext ==
  \/ \E d \in Device : \/ \E g \in Geometries : CreateFile(d, g)
                       \/ \E bs \in BlockSizes : OpenFile(d, bs)
                       \/ \E flips \in Flips : Damage(d, flips)
                       \/ Resize(d)
  \/ \E l \in Lists : FormatBegin(l) \/ Open(l)
  \/ FormatDevice
  \/ Close
  \/ Exit

DevicesSpec == DevicesInit /\ [][DevicesNext]_devicesVars

-----------------------------------------------------------------------------
(***************************************************************************)
(* open accepts a list of devices exactly when format has stamped each of  *)
(* them with the geometry it has now, no bit of its header has turned      *)
(* since, and all have the same geometry: not after an interrupted format, *)
(* with another block size, on a file that was cut or extended, or when    *)
(* one header is damaged, and then it accepts the others without that one. *)
(* It does not compare the geometry with the size of the file.             *)
(***************************************************************************)
OpenExact ==
  \A l \in Lists : AllOpen(l) =>
    (OpenAccepts(l) <=> \A i \in DOMAIN l :
       /\ stamp[l[i]] = [geometry |-> handle[l[i]], flips |-> {}]
       /\ handle[l[i]] = handle[l[1]]
       /\ handle[l[i]].count >= 1)

(***************************************************************************)
(* The blocks of an open store are all of its file, block size times block *)
(* count, as long as the file has fewer blocks than a word counts, and     *)
(* only then: the count of a larger file is cut to a word, format stamps   *)
(* that count and open accepts it.                                         *)
(***************************************************************************)
FileIsCovered ==
  \A i \in DOMAIN store :
    LET g == handle[store[i]]
        size == file[store[i]].size
    IN  g.bs * g.count = size <=> size \div g.bs < Word

(***************************************************************************)
(* The checksum that format stores is the CRC-32 of the block by its       *)
(* definition: the table and its byte-wise use divide by the polynomial.   *)
(***************************************************************************)
ChecksumIsCrc32 ==
  \A d \in Device : stamp[d] # Unstamped /\ stamp[d].flips = {} =>
    LET header == file[d].header
    IN  header = Body(header) \o
          LittleEndian(ReferenceCrc32(Body(header) \o <<{}, {}, {}, {}>>))

-----------------------------------------------------------------------------
(* What follows is decided by the block size of the open store alone and   *)
(* is worked out once for every block size and all lengths.                *)
StoreBs == handle[store[1]].bs

AnyBs == BlockSizes \cup {g.bs : g \in Geometries}

(* The record of these lengths reads back whole; what does not, recover    *)
(* erases.                                                                 *)
Whole(bs, key, value) ==
  LET back == ReadRecord(bs, WriteRecordBytes(bs, key, value))
  IN  /\ back.outcome = "read"
      /\ back.key = Part("key", key) /\ back.value = Part("value", value)

RoundTrips == [bs \in AnyBs |-> \A key \in KeySizes, value \in ValueSizes :
  PutRecord(bs, key, value).outcome = "ok" =>
    (Whole(bs, key, value) <=>
       /\ bs >= 36 \/ (key = 0 /\ value = 0)
       /\ key < KeyWord /\ value < Word)]

(***************************************************************************)
(* A put that succeeds is read back whole, key and value, if and only if   *)
(* blocks have at least 36 bytes, or key and value are empty, the key is   *)
(* shorter than 2^16 bytes and the value shorter than 2^32.                *)
(***************************************************************************)
PutRoundTrips == store # <<>> => RoundTrips[StoreBs]

Tight == [bs \in AnyBs |-> \A key \in KeySizes, value \in ValueSizes :
  LET rec == PutRecord(bs, key, value)
      last == rec.chunkCount - 1
  IN  rec.outcome = "ok" /\ rec.chunkCount > 1 =>
        /\ rec.firstSize = FirstPayloadCapacity(bs, U32(key))
        /\ \A c \in 1..last - 1 : rec.chunks[c] = ChunkPayloadCapacity(bs)
        /\ rec.chunks[last] \in 1..ChunkPayloadCapacity(bs)]

(***************************************************************************)
(* A put takes as few blocks as its value needs: all blocks but the last   *)
(* are full, and every chunk carries some of the value.                    *)
(***************************************************************************)
LayoutIsTight == store # <<>> => Tight[StoreBs]

Panics == [bs \in AnyBs |-> \E keySize \in 0..KeyWord - 1, firstSize \in 0..Word - 1 :
  ReadDescriptor(bs, [keySize |-> keySize, firstSize |-> firstSize, chunkCount |-> 1]) = "panic"]

(***************************************************************************)
(* Whatever sizes a descriptor with a valid checksum holds, the reader     *)
(* never slices beyond the block, if blocks have at least 36 bytes; on     *)
(* smaller ones, which format and open accept, some sizes make it panic.   *)
(***************************************************************************)
ReaderInBounds == store # <<>> => (Panics[StoreBs] <=> StoreBs < 36)

Agree == [bs \in AnyBs |-> \A key \in KeySizes, value \in ValueSizes :
  LET rest == U32(value) - FirstPayloadCapacity(bs, U32(key))
  IN  KeyFits(bs, U32(key)) =>
        ((GoNeededBlocks(bs, key, value) = NeededBlocksFor(bs, key, value))
         <=> rest + ChunkPayloadCapacity(bs) - 1 < Word)]

(***************************************************************************)
(* Go and Rust take the same number of blocks for a record, except for a   *)
(* value within a chunk of the largest a word can count, where the sum of  *)
(* the Go code wraps and it takes too few.                                 *)
(***************************************************************************)
GoTakesAsManyBlocks == store # <<>> => Agree[StoreBs]
=============================================================================
