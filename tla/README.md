# embedkv in TLA+

embedkv is a key/value store on devices of fixed-size blocks, written twice, in
Rust (`rust/src`) and in Go (`go`), with one on-device format. This directory
models it, model-checks the model with TLC and proves parts of it with TLAPS. The
Rust code is the reference for the operations; the loops over blocks, the error
paths and the merged read are mapped to the Go code, which has the same control
structure. Where the two differ the difference is named below.

## The system

| Part | Code | State | Operations | Modelled in |
|------|------|-------|------------|-------------|
| block format | `block.rs`, `format.rs`, `crc.rs` | contents of a block | marshal, unmarshal, classify, CRC | `BlockFormat`, `Checksum` |
| records | `record.rs` | a descriptor block and its chain of chunks | `verify_and_read_record`, `needed_blocks` | `BlockFormat`, `ReplicaLoops`, `RecordLayout` |
| index | `index.rs` | key -> (generation, descriptor block), per replica, in memory | get, put, delete | `BlockFormat`, `Store` |
| store | `store.rs` | replicas in order | format, open, build_index, get, put, delete, keys, iterate, close | `Store` |
| recovery | `store.rs`, `recovery.go` | - | recover | `Store` |
| devices | `device.rs` | files, blocks, what is durable of them | create, open, read, write, flush | `Devices`, `Store`, `StoreFaults` |
| replica headers | `block.rs`, `store.rs` | block 0 of each device | format, open | `Devices` |
| replicas | `store.rs` | one device and one index each | the loops of put, delete, get and recover over replicas | `Store` |
| lock | `go/store.go` | RWMutex | taken by every operation but Close | `StoreLock` |

What makes it hard:

* an update writes a new record beside the old one, flushes, erases the old one
  and flushes again; power may go at any point, and the writes since the last
  flush may survive in any combination, torn ones included;
* recovery decides from the blocks alone, and may itself be interrupted;
* the index is kept in memory by put and delete, and rebuilt by a scan;
* each replica is written in turn, so an interrupted or failing operation leaves
  replicas that disagree; generations decide which one is read;
* an error returned in the middle leaves index and device as they are;
* blocks are reused, and a chunk names its owner only by block number;
* chains read from a damaged device may lead anywhere;
* sizes are unsigned words, and block size, key and value length come from the
  client;
* goroutines share a Go store, call it back from Iterate and may close it while
  others use it.

## The modules

* **`BlockFormat`** - the contents a block can have and the pure functions of
  the code: which blocks form a complete record (`Complete`, `RecordBlocks`),
  what a reader gets (`RecordValue`), what a scan selects (`Newest`,
  `ScanIndex`), what recovery erases (`GarbageBlocks`), what `free_record` walks
  over (`ErasedFrom`), what the allocator returns (`Allocations`) and what
  `write_record` writes (`WriteRecord`).
* **`Store`** - the state machine. `cache` is what a read returns, `media` the
  set of contents each block may have after a power loss, `index` the in-memory
  indexes; `pc`, `cur` and `op` are the operation in progress, the replica it has
  reached and its locals. One action per stretch of code between two flushes:

  | Action | Code |
  |--------|------|
  | `FormatBegin`, `FormatWrite`, `FormatFlush` | `format` |
  | `Open`, `Close`, `BuildIndex` | `open`, `close`, `build_index` |
  | `RecoverBegin`, `RecoverClean`, `RecoverErase`, `RecoverFlush` | `recover` |
  | `PutBegin`, `PutWrite`, `PutFull`, `PutCommit`, `PutErase`, `PutEraseFlush` | `put_flagged`, `Replica::put` |
  | `DeleteBegin`, `DeleteSkip`, `DeleteErase`, `DeleteFlush` | `delete` |
  | `PowerLoss` | external |

  `get` reads only and is the operator `Get`; `GetFrom` is `get` when the reads of
  some replicas fail, which the Rust code passes over. `keys` and `iterate` list
  `ListedKeys`. The history variable `legal` holds,
  for each key, the results later reads may return.
* **`StoreFaults`** - the same store where any read, write or flush may fail and
  the process may be killed (the system's cache stays), between two writes of an
  operation or within one, so that a block is left torn; blocks of the first
  replica that become unreadable; and `free_record` on a block that fails its
  checksum.

  | Action | Where the code stops |
  |--------|------|
  | `StopsBetweenWrites` | at a flush, at a read before the first write of a step, or between two steps |
  | `BuildIndexFails` | at a read of `build_index`, with the index built so far |
  | `FormatStops` | at the write of a header |
  | `RecordStops` | at any block of `write_record` |
  | `EraseStops` | at the descriptor or any chunk of `free_record` |
  | `RecoverStops` | at any block `recover` erases |
  | `EraseFails` | at the checksum in `free_record` |
  | `Decay` | external |

* **`ReplicaLoops`** - `verify_and_read_record`, `free_record`, the scan and
  `find_free_blocks`, one iteration per step, on any device: broken, crossing and
  cyclic chains and pointers beyond the end. `BlockFormat` says in a formula what
  each loop computes; this module shows that it does, and that it ends. TLC takes
  every image of a small device (`MCLoops`), the proofs any images at all.
* **`KVStore`** - the abstract store: per key the set of results a restart may
  find. **`StoreRefinesKV`** maps `Store` to it, computing the abstract contents
  from the devices alone.
* **`StoreLock`** - goroutines that share one Go store. The state is the lock
  (`writer`, `readers`), the replicas (`disk`, `index`, `closed`), and for each
  goroutine where it is (`pc`), in which method (`op`), at which replica (`cur`)
  and with which locals. `RLock`, `Lock`, `Drained`, `RUnlock` and `Unlock` are
  `sync.RWMutex`: a reader is parked as soon as a writer has announced itself,
  the writer waits for the readers that are in, and lets the parked ones in when
  it leaves. Each method then takes a step per replica and per flush:

  | Action | Code (`go/store.go`) |
  |--------|------|
  | `Look` | `Get` |
  | `Collect`, `CallFromCallback`, `CallbackReturns` | `Keys`, `Iterate` |
  | `PutWrite`, `PutCommit`, `PutErase`, `PutEraseFlush` | `Put`, `replica.put` |
  | `DeleteFree`, `DeleteDrop` | `Delete` |
  | `BuildClear`, `BuildScan` | `BuildIndex` |
  | `RecoverReplica`, `RecoverFlush` | `Recover`, `replica.recover` |
  | `CloseDevice` | `Close`, a device per step and no lock |
  | `DeviceFails` | the error returns of the methods that change the store |

* **`Checksum`** - the table-driven CRC-32 of `crc.rs` bit for bit, and CRC-32 by
  its definition as a division of polynomials.
* **`RecordLayout`** - the arithmetic of a record: capacities, `needed_blocks` in
  both languages, the sizes, offsets and slices of `write_record` and of
  `verify_and_read_record`, in words that wrap.
* **`Devices`** - composes the two: files are created, opened with a block size,
  formatted device by device, opened as a store and closed; in between the process
  ends, a header is damaged, a file is cut or extended.
* **`StoreInvariant`**, **`StoreLockInvariant`** - the inductive invariants `Inv`
  of `Store` and `SharingInv` of `StoreLock`.
* The proofs: **`BlockFormatProofs`** (records on an image, whole, partly written
  and partly erased), **`ReplicaProofs`** (the loops, and what the geometry of the
  devices does to records, of an instance of `Devices`), **`StoreDeviceProofs`**
  (type correctness; writes, flushes, power loss and `free_record`, and that they
  spare what the index points to), **`StoreStepProofs`** and **`StoreUpdateProofs`**
  (the invariant, one lemma per action, and what follows from it in a state),
  **`StoreRestartProofs`** (what is there after a fault that ends the process, and
  what a restart of a single replica may find, step by step), **`StoreTheorems`**
  (the theorems about the store, with faults and without, and the refinement of
  `KVStore`), **`StoreLockProofs`** (the shared store).
* **`MCStore`**, **`MCFaults`**, **`MCLoops`**, **`MCLock`**, **`MCDevices`** -
  constants for TLC. The modules
  also hold operators marked as mutants: forms of a definition with a plausible
  bug, by which the properties are shown to notice it.

### What is abstracted

* A value is a model value with a number of blocks. Payloads are told apart by
  the value they belong to; a chain that mixes payloads of several values reads
  as `Mixed` (the check of the total length is taken to pass, the worst case).
* In `Store` a checksum either matches or not. A block whose write was interrupted does not
  match; its first byte is the old or the new one. Every write of the store is to
  a free block or makes a block free, so a torn block counts as free or garbage.
* In `Store` the free pattern, user flags, sizes, `total_size` and the header's
  fields other than its validity are left out.
* The generation is a word that wraps at `GenLimit`. (A Rust build with overflow
  checks panics there.)
* Rust indexes a key under `String::from_utf8_lossy` of its bytes, Go under the
  bytes. `KeyStr` is that conversion; it is the identity except in one run.
* The Go `Get` returns an I/O error of one replica to the caller; the Rust `get`
  goes on to the next replica, which is what `GetFrom` models. `StoreLock` has the
  Go `Get`.
* An operation that fails, or a process that is killed, leaves its writes unflushed.
  From then on only a power loss can tell the medium from what is read, so in the
  runs of `StoreFaults` without power loss the media are taken to hold what is
  read (`EndsWith`); in those with power loss the writes stay pending.
* `BuildIndex` is one step: it writes nothing, and its loop is in `ReplicaLoops`.
  Puts, gets and deletes before `build_index` are not modelled: the documentation
  excludes them.
* `StoreLock` has one key, since the lock is one for all keys, and a replica is the
  set of complete records of that key and the one indexed; what happens to blocks
  is in `Store`, and lack of space and single I/O errors are in `Store` and
  `StoreFaults`. A closed device fails every read, write and flush, as
  `FileDevice` does (`MemDevice` ignores `Close`). A callback calls the store once
  and one level deep at most.
* `Devices` has one byte for each header field that `open` looks at; version,
  format sequence and flags, which nothing looks at, are left out. A header read
  with another block size than it was written with is taken to fail its checksum,
  which lies elsewhere then.
* `RecordLayout` scales words down (`Word` for 2^32, `KeyWord` for 2^16) and keeps
  the real sizes of headers and blocks. Subtraction wraps, as in Go and in a
  release build of the Rust code; a debug build panics there.

## The runs

| Run | Expected | What it asks | Instance |
|-----|----------|--------------|----------|
| `single` | pass | power loss at every point, on one replica | 5 blocks, 2 keys, values of 1 and 2 blocks, generations that wrap at 3, unbounded updates |
| `replicated` | pass | the same with replicas that disagree, any of which may fail to be read | 3 replicas of 3 blocks, 2 keys, values of 1 and 2 blocks |
| `refinement` | pass | the store implements `KVStore` | 4 blocks, 2 keys, generations that wrap at 2, unbounded updates |
| `reopen` | pass | 2 errors or kills anywhere, then reopen and recover | 2 replicas of 4 blocks, 2 keys |
| `decay` | pass | 2 blocks of replica 1 lost, power losses | 2 replicas, 1 key |
| `loops` | pass | the loops end and compute what `BlockFormat` says | all images of 4 blocks with chains to 3 chunks |
| `lock` | pass | goroutines that share a Go store | 3 goroutines with up to 4 methods each, callbacks that list keys and put, 2 replicas, generations that wrap |
| `devices` | pass | which devices open accepts, and what a put of any length does on them | 2 files, blocks of 31 to 44 bytes, 13 kinds of damage, words of 256 |
| `kill` | violation | kill, recover, power loss | 4 blocks |
| `failed_delete` | violation | an error in delete, the store used on | 4 blocks, 2 keys |
| `failed_put` | violation | an error in put, which is repeated on the live store | 4 blocks, 1 key |
| `lossy_keys` | violation | two keys indexed under one string | 4 blocks, 2 keys |

What the properties say (the type invariants are part of `Inv` and `SharingInv`):

* `PowerLossSafe`: whatever a power loss now leaves on any replica, a scan of
  that replica finds for each key a legal result.
* `ReadsLegal`: so does `get`, after any sequence of operations.
* `AnyReplicaSuffices`: so does `get` when only some replicas can be read, whichever
  they are: none is behind what was acknowledged.
* `NotFoundExactly`: `get` reports a key as absent exactly when no replica it can
  read indexes the key. An indexed record is therefore never incomplete, and an
  unreadable one makes a present key look absent.
* `FlushedPutSurvives`: after the first flush of an update the new record is what
  a scan finds, however the erasure ends, unless its generation has just come round
  to 0.
* `IndexIsScan`: the index kept by put and delete is the one a scan would build.
* `NoLeakedBlocks`: after recovery, and after every operation, each block is free
  or part of the newest record of a key.
* `IndexedRecordsUntouched`: only the deletion of a key overwrites a block of its
  indexed record; not a put (of this or of another key), and not `recover`
  called on a live store.
* `RefinesKV`: success is reported only of what no power loss takes back, a
  restart decides an interrupted operation once and for all, a put that finds the
  device full changes nothing. It also covers wrapped generations.
* `Inv`: the inductive invariant of the proofs, of which `PowerLossSafe`,
  `ReadsLegal`, `IndexIsScan` and `NoLeakedBlocks` are consequences.
* `KeysAreReadable`: `keys` and `iterate` list exactly the keys `get` finds, also
  while replicas disagree.
* `GetIsAtomic`, `NotFoundIsTrue`, `ReplicasAgree`, `IteratedKeyStays`: although
  methods of a shared store take many steps, and Close takes no lock, a Get returns
  what a Get of one moment would, a key is reported absent only when no device has
  it, two Puts do not leave a value each on different replicas, and the key given
  to a callback stays. The second and third hold until a method that changes the
  store has failed: then replicas differ, and the index may be behind.
* `BlockedOnlyByCallback`, `CallsReturn`: no deadlock and no starvation, with one
  exception: a callback that calls a writing method waits for the Iterate around
  it for ever, and one that calls a reading method does so when a writer is waiting
  already. Every later caller waits with it. `Iterate`'s comment does not mention
  this.
* `SharingInv`: the inductive invariant of the shared store.
* `OpenExact`: `open` accepts exactly the lists of devices that `format` stamped
  completely with the geometry they have now, all the same, whose headers did not
  change since.
* `FileIsCovered`: a file opens as a device of its whole size if and only if its
  blocks can be counted in 32 bits.
* `ChecksumIsCrc32`: the table and its use compute CRC-32.
* `PutRoundTrips`, `ReaderInBounds`: a put that succeeds is read back whole if and
  only if blocks have at least 36 bytes or key and value are empty, the key is
  shorter than 2^16 bytes and the value shorter than 2^32; with blocks of at least 36 bytes no sizes in a
  descriptor make the reader slice beyond the block. Both are stated as
  equivalences, so that the limits are shown to be where they are.
* `LayoutIsTight`, `GoTakesAsManyBlocks`: a record takes as few blocks as it needs,
  and Go and Rust agree on how many until the last sizes a word can count.
* `ReadsOwnKey`, `SuccessfulPutIsRead`, `CompleteRecordExists`: what the
  documentation and the fuzz targets say of reads, of put and of the copy-on-write
  order.

**Bounds.** Five blocks, of which the first is the header, hold a record of two
blocks and its update, so that updates succeed, fail for lack of space and
interleave their blocks; four blocks are enough to fill a device, to reuse a block for another key and to mix sizes.
`replicated` has three replicas, so that one is done, one in progress and one not
reached, and three blocks on each: enough for an update of a small value and for a
device that is full on some replicas only. Updates of values of two blocks are in
`single`.
`MaxGen` 2 gives a first put and an update of every key between deletions, which
reset it; in `single` and `refinement`, where generations wrap before they reach
`MaxGen`, the number of updates has no bound. `MaxFaults` bounds
errors, kills and lost blocks, never power losses. `refinement` is for one replica:
with more, a delete interrupted on replicas that disagreed already may uncover an
older value, which `KVStore` rules out (and `legal` admits, since the put that
stored the newer one never succeeded on all replicas).

In `lock` three goroutines are enough for a reader, a waiting writer and a third
that overtakes, closes or writes too; two replicas for the state between them; one
goroutine iterates, so that callbacks meet a delete, a put and a close of the
others, and two of them put. Calls are unbounded. `lock` has no deadlock check: goroutines that a callback blocks really
stop, and `BlockedOnlyByCallback` says when. In `devices` blocks of 31 bytes are
too small for a header, of 32 and 34 for a descriptor, of 36 leave room for no byte and of
44 for eight; value sizes lie around the boundaries between one, two and three
blocks and around 2^32, key sizes around the block and around 2^16; damage is one bit in
every byte or 32 bits in a row, all of which CRC-32 detects (it does not detect
all longer patterns).

**Fairness.** `ReplicaLoops` has weak fairness of its next step, since a loop runs
on its own until it ends. `StoreLock` has weak fairness of every step of a
goroutine that has called a method (the Go scheduler runs every goroutine that can
go on; the client's callback returns) and strong fairness of taking the writers'
mutex, as `sync.Mutex` hands itself over to a waiter it has passed over for long.
Nothing is assumed about who calls what. `Store` promises nothing about operations
nobody calls and has no liveness property.

## What the violations show

1. `kill`: recovery relies on records it reads, which may not be durable. If a
   process was killed between `write_record` and the first flush of an update,
   `recover` erases the old record before anything flushed the new one; a power
   loss before its closing flush can leave neither. `docs/ARCH.md` promises a
   complete record at any point in time. A flush at the start of `recover` would
   restore it.
2. `failed_delete`: a delete whose flush fails keeps the index entry of blocks
   it erased. A put of another key reuses them, and `get` returns the value of that
   other key: the read path compares no keys, although `ARCH.md` has it do so.
3. `failed_put`: a put that fails at its first flush leaves a complete record that
   the index does not know. The next put of the key takes its generation from the
   index, hence the same one, and succeeds; when the index is built again, the
   record on the lower block wins the tie, which may be the one that failed.
   `fuzz_put_get_delete.rs` says that after a successful put get returns its value.
4. `lossy_keys`: keys of the Rust store that are not UTF-8 may share an entry.

Runs 2 and 3 have a passing counterpart: `reopen` shows that reopening and
recovering after an error is enough.

Some passing properties, stated as equivalences, show where the code and what is
written about it part:

* `NotFoundExactly`: the comment of the Rust `get` has it return `KeyNotFound` "if
  absent everywhere"; it also does when no replica that has the key can be read.
* `FileIsCovered`: `docs/ARCH.md` requires `block_size * block_count` to be the size
  of the storage; `FileDevice::open` cuts the count to 32 bits, and a file with more
  blocks is opened as a smaller device.

* `OpenExact`: a store does not open when the header of one replica is damaged.
  `README.md` says that reads survive the corruption or loss of any single replica;
  after a reopen that takes a client that leaves the damaged replica out.
* `PutRoundTrips`, `ReaderInBounds`: `format` and `open` accept blocks of 32 to 35
  bytes, for which the unsigned bounds of `put_flagged` and of the reader wrap
  around: records are not read back, and the reader slices beyond the block, while
  `fuzz_storage_pipeline.rs` states that any content is handled without panic. With
  blocks beyond 64 KiB, keys of 2^16 bytes and more are accepted and
  stored under a truncated length, and values of 2^32 bytes and more in part, while
  `fuzz_put_get_delete.rs` states that after a successful put get returns the
  identical value.
* `NotFoundIsTrue` needs the errors of a closed device to be returned by the Go
  `Get`, and does not hold of one that goes on to the next replica.
* `recover` on a live store erases records the index does not point to only; the
  Go comment tells clients to call `BuildIndex` afterwards, and `ReplicasAgree` and
  `IndexedRecordsUntouched` show that a store without failed operations does not
  depend on it.

## What is proved

For every number of replicas, blocks, keys and values, every number of blocks per
value and every generation limit, from the assumptions named in the modules
(positive counts, `NeededBlocks` positive, `Absent` and `Mixed` not values):

| Theorem | Statement | Hypotheses |
|---------|-----------|------------|
| `StoreDeviceProofs!TypeCorrect` | `Spec => []TypeOK` | none |
| `StoreTheorems!InvStep`, `InvAlways` | `Inv` is inductive; `Spec => []Inv` | `RecoveryRequired`, `KeysDistinct` |
| `StoreTheorems!PowerLossTheorem` | `Spec => []PowerLossSafe` | the same |
| `StoreTheorems!ReadsTheorem` | `Spec => []ReadsLegal` | the same |
| `StoreTheorems!AnyReplicaTheorem` | `Spec => []AnyReplicaSuffices` | the same |
| `StoreTheorems!IndexTheorem` | `Spec => []IndexIsScan` | the same |
| `StoreTheorems!NoLeakTheorem` | `Spec => []NoLeakedBlocks` | the same |
| `StoreTheorems!KeysTheorem` | `Spec => []KeysAreReadable` | the same |
| `StoreTheorems!UntouchedTheorem` | `Spec => IndexedRecordsUntouched` | the same |
| `StoreTheorems!FlushedPutTheorem` | `Spec => []FlushedPutSurvives` | the same |
| `StoreTheorems!Refinement` | `Spec => RefinesKV` | also `MaxGen < GenLimit`, `ReplicaCount = 1` |
| `StoreTheorems!FaultsInvAlways` | `FaultySpec => []Inv` | `RecoveryRequired`, `KeysDistinct`, `ReopenAfterError`, faults are errors and kills |
| `StoreTheorems!FaultsReadsTheorem` | `FaultySpec => []AnyReplicaSuffices` | the same |
| `StoreTheorems!NotFoundTheorem` | `FaultySpec => []NotFoundExactly` | the same |
| `StoreTheorems!FaultsNoLeakTheorem` | `FaultySpec => []NoLeakedBlocks` | the same |
| `StoreTheorems!OwnKeyTheorem` | `FaultySpec => []ReadsOwnKey` | the same |
| `ReplicaProofs!LoopsKeepInvariant` | `Spec => []LoopInv`, of `ReplicaLoops` | none |
| `ReplicaProofs!VerifyCorrect` | `Spec => []VerifyIsComplete` | none |
| `ReplicaProofs!FreeCorrect` | `Spec => []FreeIsErased` | none |
| `ReplicaProofs!FreeExact` | `Spec => []FreeTakesTheRecord` | none |
| `ReplicaProofs!ScanCorrect` | `Spec => []ScanIsNewest` | none |
| `ReplicaProofs!AllocCorrect` | `Spec => []AllocIsFirstFit` | none |
| `ReplicaProofs!Geometry` | `DevicesSpec => [](HandleInv /\ StoreInv)`, of `Devices` | the assumptions of `Devices` |
| `ReplicaProofs!ReaderBounds` | `DevicesSpec => []ReaderInBounds` | the same |
| `ReplicaProofs!GoBlocks` | `DevicesSpec => []GoTakesAsManyBlocks` | the same |
| `StoreLockProofs!SharingInvariant` | `Spec => []SharingInv` | none |
| `StoreLockProofs!GetAtomic` | `Spec => []GetIsAtomic` | none |
| `StoreLockProofs!NotFoundTrue` | `Spec => []NotFoundIsTrue` | none |
| `StoreLockProofs!AgreedReplicas` | `Spec => []ReplicasAgree` | none |
| `StoreLockProofs!IteratedStays` | `Spec => []IteratedKeyStays` | none |
| `StoreLockProofs!NeverStuck` | `Spec => []BlockedOnlyByCallback` | none |

The theorems of `StoreLockProofs` are for every set of goroutines, every number of
replicas, every generation limit above 1 and any methods called.

`RecoveryRequired` says that clients call `recover` after a power loss before
`build_index`, `KeysDistinct` that no two keys in use are indexed under one
string. Both are needed. Without recovery the older record of an update cut short
stays, and a delete, which removes the newest only, uncovers it; `README.md` has
clients recover after an unclean shutdown. `lossy_keys` is what happens without the
second. `MaxGen < GenLimit` says that no generation reaches the end of its counter:
when it wraps, an old record that outlives the power loss has the higher generation
and wins. `ReplicaCount = 1` is explained under the bounds. `ReopenAfterError` says
that a client answers an I/O error by opening the store anew and recovering;
`failed_delete` and `failed_put` are what happens without. The theorems with faults are for any number
of errors and kills, and not for kills followed by a power loss, which `kill` shows
to be unsafe, nor for decay, against which only a second replica helps (`decay`).
The theorems about the loops assume of a device only that its blocks are well-formed
contents, with pointers to anywhere, and of the allocator that it is asked for at
least one block.

**The argument.** `PowerLossSafe` speaks of all images a power loss may leave, and
is not inductive: it does not say why a chain on such an image cannot mix old and
new blocks. `Inv` adds that, in seven parts:

* `MediaInv`: a chunk and a descriptor that may be found together, and where the
  chunk names the descriptor's block as its owner, hold parts of one value. This is
  what copy-on-write into free blocks and the flush between the write and the
  erasure buy: a block is reused only when nothing old can be on its medium.
* `LegalInv`: each descriptor that may be on a medium is of a legal value, and a
  key that has to be there has a record all of whose blocks are durable.
* `ControlInv`: outside the window between a write and its flush a medium holds
  exactly what the cache holds.
* `TidyInv`: a replica that needs no recovery holds complete records and free
  blocks only; one per key until the store is ready and put adds a second.
* `IndexInv`: the records of each key on a ready replica are those the index and
  the operation in progress account for.
* `ProgressInv`: the replicas an operation has passed are done.
* `TypeOK`.

The facts about images come first (`BlockFormatProofs`): a block is in one chain of
a descriptor at most, records are disjoint, a record depends on its own blocks
only, `write_record` adds exactly one record, `free_record` takes exactly one
(`ErasedRecord`: what its walk erases of a complete record are the record's
blocks), recovery leaves a tidy image with one record per key, and on such an
image the scan's choice of the newest is unique. `StoreDeviceProofs` lifts them to
replicas with pending writes. Then each action has a lemma, with a step for each
part of `Inv` it can disturb.

Three theorems need more than `Inv`, each an invariant of its own proved on top of
it:

* `IndexedInv`, for `IndexedRecordsUntouched`: what the index points to and get can
  read is durable, block by block. A step that writes or erases blocks then spares
  every other record (`SparedWrite`, `Spared`), because records are disjoint and
  allocation takes free blocks only.
* `NewestInv`, for `FlushedPutSurvives`: the generation a put has chosen, if it has
  not come round to 0, is above
  those the replicas ahead of it index and, once its record is flushed, above
  whatever else the medium may hold for the key, half-erased records included.
* `KeptInv`, for the refinement: a restart finds for every key what a scan of the
  cache finds, except for the key of an operation whose write is pending. Each
  action has a lemma on what a restart may find after it (`StoreRestartProofs`): a
  pending put leaves the old result or the new one (`WrittenRestarts`), a pending
  delete the old one or nothing, an erasure of a superseded record changes nothing,
  and a flush settles the key of the operation. `StoreTheorems` reads these
  lemmas as steps of `KVStore`: one abstract step for each concrete step, or none.

For the faults no new invariant is needed: the state a fault leaves satisfies `Inv`
again, because a process that ends leaves a store that has to be opened and
recovered (`EndedInv`). What has to be shown is that the current replica is good
enough to recover from: a record written in part adds nothing that could be read as
a record of another value and disturbs no other (`PartlyWritten`), a chain erased in
part loses its descriptor first (`StoppedErase`, `PartlyErasedInv`), so that its
chunks are garbage, and a recovery that stops has erased garbage only
(`FormatStopsInv`, `RecordStopsInv`, `EraseStopsInv`, `RecoverStopsInv`). The block
at which a step stops may be torn; it was free or is being freed, so that as garbage
it belongs to no record. The same
facts about images, with what is found on them (`ErasedRecovers`,
`WrittenRecovers`), serve the restarts above.

The loops have an invariant each, which relates what has been collected to the
answer, so that no induction over chains is needed:

* `VerifyInv`: the blocks read are linked chunks of the record, numbered from 1, and
  every chain that makes the record complete begins with them. Hence a chain that
  comes back to a visited block, ends early or leaves the device cannot be one.
* `FreeInv`: the device differs from the image in the blocks walked, which lie in
  every set of blocks the walk cannot leave, and the walk leaves them only for the
  block it goes to next. When it ends they are the least such set, which is what
  `ErasedFrom` says, though the loop reads the device it is erasing.
* `ScanInv`: for each key the scan has kept the record that is preferred among those
  in the blocks seen.
* `AllocInv`: what has been collected are the free blocks seen, in order.

For a shared store none of the four properties is inductive: none says that
nothing moves under a reader. `SharingInv` adds it, in three parts besides types:

* `LockInv`: the read locks a goroutine holds are those of the method it is in and
  of the Iterate around it; the goroutine that writes is the one the lock names,
  and nobody holds a read lock then. A reader is parked only while a writer is
  announced.
* `DataInv`: at each step of the one that writes, the replicas it has passed hold
  the result and those ahead hold what all held before; on the one it is at, the
  record it writes differs in its generation from the one it replaces, also when
  generations wrap, and so erasing the old one leaves the new one.
* `ReadInv`: what a reader has found is the best of the replicas it has looked at,
  and the key of a running callback is indexed.

The proof (`SharingStep`) first shows the lock part for all actions, since every
action but the mutex's moves one goroutine along its method (`BodyStep`,
`BodyLock`); then, that one step of a writer keeps the data part (`PutWriteData`,
`PutCommitData`, `PutFlushData`, `ReplicaDone` and `LoopStep` for the move to the next replica);
then, that readers are undisturbed: when one reads, nobody writes, and Close and
`failed` touch nothing they look at (`ReadAlone`, `ReadFrame`, `LookRead`). That
the highest generation exists, which `PutWrite` chooses, is well-foundedness of
the naturals (`HighestGeneration`).

`Geometry` says of `Devices` that every open device has one of the block sizes
devices are given, and that the devices of an open store are open, can hold a
header and have one geometry; it is inductive as it stands, since a file is created
or opened only while no device is open on it, and format and open wait for the
store to be closed. The rest is arithmetic of words: a capacity is what is left of
the block as long as the block holds a descriptor and its checksum, and wraps to
almost a whole word when it does not (`Capacities`, `SliceBounds`); a chunk is
smaller than a word, so the quotient of the rounding sum changes when that sum
loses a word (`BlockCounts`).

`NeverStuck` follows from the lock part alone. When a call is in progress and
nobody has announced a write, nobody is parked, and whoever asks for the lock gets
it. Otherwise the writer is named, and goes on unless it waits for a reader to
leave (`WriterGoesOn`); that reader holds a read lock and goes on, unless it is in a
callback whose call waits. `BlockedOnlyByCallback` says which goroutines can go on by
their program counters and the lock (`Runs`), not by `ENABLED`, which the prover
does not handle; that a goroutine which `Runs` does take a step is part of
`CallsReturn`.

Only model-checked:

* `Ends`, `CallsReturn`: liveness under fairness, out of the prover's reach;
* `RefinesKV` when generations wrap: the run `refinement` lets them wrap at 2, the
  theorem does not;
* `ReadsLegal` under `decay`: `Inv` says of each replica that it holds what it
  should, which is what decay breaks, and an invariant of what the other replicas
  still hold has not been stated;
* `ChecksumIsCrc32`, `PutRoundTrips`, `LayoutIsTight`: checksums and the sizes of
  chunks are computed by loops over bytes, bits and chunks, and what a recursive
  definition computes for every input is an induction over data, out of the
  prover's reach;
* `OpenExact`: it rests on what damage CRC-32 detects, the same induction;
* `FileIsCovered`: the division of `FileDevice::open`, checked around the limit of
  the word;
* what holds of a live store after an error, `ReopenAfterError` being false:
  `failed_delete` and `failed_put` show that reads and repeated puts are not safe
  there.

## Not modelled

* Error values and texts (`error.rs`, `errors.go`), entry points (`lib.rs`,
  `embedkv.go`): no state. Where an error ends an operation is part of the
  operation.
* The fuzz targets: harnesses around the same operations; what they assert is
  covered by `PutRoundTrips`, `ReaderInBounds`, `VerifyIsComplete` and `Ends`.
* The order of bytes in record headers, which both languages fix by their
  marshalling functions and the repository's fixtures compare; user flags, free
  patterns and the format sequence, which the store carries and never looks at.
* The header's version: `docs/ARCH.md` asks implementations to reject major
  versions they do not support, no code reads it, and only one version exists.
* The system calls behind `FileDevice`; their effect on durability is the model of
  the medium in `Store`.
* Goroutines that share a store while devices also lose power or fail for other
  reasons than Close: `StoreLock` shows that methods take effect one at a time,
  and `Store` and `StoreFaults` are about methods that do.
