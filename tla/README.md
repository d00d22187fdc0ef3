# Specification and verification of SinglePass

SinglePass is a private information retrieval (PIR) scheme with two servers: a
client reads rows of a database without either server learning which. The
client downloads *hints* once, each the XOR of one row out of every block of
the database, spends and refreshes hints as it reads, and keeps them current
when the database changes. The repository also holds the schemes SinglePass is
compared with (puncturable sets, DPF, matrix, non-private), a layered
"waterfall" of databases with key synchronisation, an RPC driver and a
safe-browsing proxy.

This directory holds TLA+ modules for the parts that carry the program's own
logic, the configurations TLC checks, and proofs TLAPS checks.

## 1. Inventory

State, operations, interactions, what is hard, and what makes it correct. Paths
are relative to the repository.

| Part | State | Operations | Talks to |
|---|---|---|---|
| SinglePass client, `pir/pir_single_pass.go`, and reader, `pir/pir_reader.go` | geometry (`nRows`, `setSize`, `nHints`), hints, two position maps per block, version | `Init`, `Read` (query, two answers, reconstruct), `Update` (log replay, growth), `DummyQuery` | two servers, by calls that can fail; kernels |
| Updatable database, `pir/dynamic_db.go` over `pir/static_db.go` | flat rows, capacity, rows in use, operation log, two version counters | `EditRows`, `AppendRows`, `GetRows`, `UpdateRow`, `ExtendDb` | serves hints, answers, updates |
| Kernels, `psetggm/xor.cpp`, `permute.cpp`, `answer.cpp` | one global buffer of random bytes | XOR of rows, Fisher-Yates permutation and its inverse, hints of one pass | called through cgo, on several threads |
| GGM sets, `psetggm/pset_ggm.cpp` | a workspace per generator | evaluate, puncture, evaluate punctured, test for repetitions | AES; called through cgo |
| AES, `psetggm/AES.cpp`, `Defines.h` | round keys | key schedule, loops over blocks | SSE instructions or their emulation |
| Libraries, `psetggm/flat_hash_map.hpp`, `sse2neon.h` | a hash table; none | table operations; SSE instructions on NEON | tests of the filter; AES and kernels on ARM |
| Punc client, `pir/pir_punc.go`, sets `pir/pset*.go` | punctured sets, hints, row-to-set index | `InitClient`, `Query`, `replaceSet`, reconstruct | servers; used by the safe-browsing proxy from concurrent handlers |
| Updatable server, `updatable/pir_updatable_server.go` | key-to-row map, operation log with timestamps, flat rows | `AddRows`, `DeleteRows`, `defrag`, `KeyUpdates` | clients through the driver |
| Updatable client, `updatable/pir_updatable.go` | key-to-position map, its own log, timestamps | `Update`, `Read`, `processKeyUpdate` | both servers, waterfall |
| Waterfall, `updatable/pir_waterfall.go` | a PIR client per layer | layer sizing, hint requests, queries over all layers | a PIR scheme per layer |
| Rice coder, `updatable/rice.go` | a bit stream | encode, decode | key updates on the wire |
| Driver, `driver/pir_server_driver.go` | one updatable server and its configuration | `Configure`, `AddRows`, `DeleteRows`, `KeyUpdates`, `Hint`, `Answer` | `net/rpc`, which calls handlers concurrently |
| RPC, `rpc/client.go`, `rpc/server.go` | HTTP codec under `net/rpc`, request mutex, reader goroutine | `Call`, `Close`, codec reads and writes | network |
| Proxy and tunnel, `cmd/sbproxy`, `cmd/sbtunnel` | one Punc client | HTTP handlers | clients over the network |
| Load generator, `cmd/stress` | worker pool, shutdown flag | start, work, shut down | driver |
| DPF, matrix, non-private schemes, parameters, flags, profiler, demo, benchmarks | none that outlives a call | pure arithmetic, I/O, measurement | - |

What is hard:

* *Long legal call sequences.* A hint is a running XOR: one wrong term and it is
  wrong for ever, and no read notices, because every row has the right length.
  Reads permute the maps, updates patch the hints, growth adds a block; each
  has to keep the same relation between hints, maps, log and database.
* *Two sides that size blocks independently.* The client grows when the log
  names a row it does not have, the server when its fill level reaches its
  capacity, and the server recomputes the block size in every answer.
* *Partial failure.* An answer may fail after the query has been built and
  after the other server has answered.
* *Boundaries.* An append that fills the database exactly; one of no rows, on a full
  database; a batch larger than one extension; an edit past the last row; a set size
  that does not divide the database.
* *Concurrency.* Handlers of the proxy read through one Punc client without a
  lock; hint requests draw through one global buffer; callers of the RPC client
  hold a mutex while they wait for a goroutine that may have ended.
* *Reused memory and hand-written vector code.* Workspaces nobody clears, tails
  of rows that are no multiple of a vector, loops over eight blocks with their
  indices written out, up to three bodies for one instruction.
* *Timestamps.* Client and servers defragment their logs independently and must
  still mean the same operation by a timestamp.

What makes each part correct:

* *SinglePass with DynamicDB*: a read returns the row asked for; hints equal
  the XOR of their rows as of the client's place in the log; the position maps
  are inverse permutations; an up-to-date client covers every row in use and
  has the server's block size; the version counters agree with the log; no
  index leaves its slice.
* *Punc client*: a read returns the row; a failed answer must not corrupt a
  hint; concurrent handlers must not share a set.
* *Updatable server and client*: after an update the client's key-to-position
  map is the server's, whatever was added, deleted and defragmented on either
  side since its last update.
* *Waterfall*: layers partition the rows; a query goes to the layer that holds
  the row and dummies go to the others.
* *Rice*: decode inverts encode, or says that it does not.
* *Kernels, sets, AES*: each computes its definition, inside its arrays, for every
  length and in every build, whatever the call before left behind.
* *Libraries*: a table holds what was put into it; an emulated instruction does
  what the instruction is defined to do.
* *Driver and RPC*: an answer is computed on one database; every call returns;
  a reply goes to the call it belongs to.
* *Stress*: shutdown waits for every worker.

`PROJECT.json` lists the components with their status and, under `hazards`, the
lines where these go wrong.

## 2. Plan

In order of importance. All of it is done.

1. `XorRows`, `DynamicDB`, `SinglePass`: the client, the reader and the
   updatable database, composed; `PIRStore` as its abstract specification.
2. Proofs about them (section 6).
3. `UpdatableServer`, `Waterfall`, `Updatable`: server log, `defrag`, `KeyUpdates`,
   the client's `Update` and `Read` over layers, with failing calls and writers
   that get between them.
4. The code under psetggm/: `XorKernels`, `SinglePassAnswer`, `GgmSet`,
   `DistinctFilter`, `Aes`, `AesBlocks`.
5. `PuncClient`, `HttpPostCodec`, `Rice`: the other client state machine, the RPC
   client and the coder of key updates.
6. The libraries beside the kernels: `FlatHashSet`, `HashPolicies`, `SseLanes`,
   `SseBits`, `SseShifts`, `SseArith`.
7. Theorems about all properties of the updatable system: server logs and
   timestamps, what the client knows, layers, hints, reads and panics.
8. Theorems about the Punc client: its pointers, hints, reads and endless draws.
9. `Kernels` and `Clients`, which put components side by side, and theorems about all
   safety properties of the first and about the RPC client of the second.

No module that is proved about uses a RECURSIVE operator.

## 3. Modules and the code

| Module | Models | Notes |
|---|---|---|
| `XorRows` | rows and XOR, `psetggm/xor.cpp` | a row is the set of its one bits, so XOR is exact, not symbolic |
| `DynamicDB` | `dynamic_db.go`, `static_db.go` | one step per iteration of `EditRows` |
| `SinglePass` | `pir_single_pass.go`, `pir_reader.go`, composed with `DynamicDB` | one step per call to a server and per operation replayed |
| `PIRStore` | abstract: an array that is read, written and extended | reads may be abandoned |
| `MCSinglePass` | rows for TLC | |
| `UpdatableServer` | `pir_updatable_server.go` | a server is a record, an operation maps servers to servers |
| `Waterfall` | `pir_waterfall.go` | the same for the layers |
| `Updatable` | `pir_updatable.go`, composed with both and with a second server | one step per call to a server |
| `MCUpdatable` | rows for TLC | |
| `GgmSet`, `DistinctFilter` | `pset_ggm.cpp` | one step per layer of a tree and per probe; keys are symbolic |
| `XorKernels` | `xor.cpp`, in the builds with 16- and 32-byte vectors | a byte is the set of addresses XORed in it |
| `SinglePassAnswer` | `answer.cpp` over `permute.cpp` | threads over one random buffer |
| `Aes`, `AesBlocks` | `AES.cpp` with the AES instructions of `sse2neon.h`; its loops over blocks | real bytes; then an opaque cipher |
| `PuncClient` | `pir_punc.go`, `pset.go`, the proxy's handlers | a XOR of rows is the set of those in it an odd number of times |
| `Rice` | `rice.go` | bit streams, words of `Width` bits |
| `HttpPostCodec` | the HTTPS codec of `rpc/client.go` | the client of `net/rpc` around it is external |
| `FlatHashSet`, `HashPolicies` | `flat_hash_map.hpp` | one step per public call; words of 64 bits |
| `SseLanes`, `SseBits`, `SseShifts`, `SseArith` | `sse2neon.h` | functions of an operand chosen first |
| `Kernels` | `GgmSet`, `DistinctFilter`, `XorKernels`, `SinglePassAnswer`, `AesBlocks` side by side | one component per behaviour |
| `Clients` | `PuncClient` three times, `Rice`, `HttpPostCodec` side by side | the same |
| `MCKernels`, `MCClients` | values of their constants for TLC | |
| `MCLibraries` | the libraries and `Aes` side by side, with their values for TLC | |
| `Places` | the elements a loop picks from a slice, as in `opsToRows` | section 6 says why not `SelectSeq` |
| `CommonLemmas` | division into blocks; finite sets; picking from sequences | cited by the other proofs |
| `SinglePassProofs` | proofs about `DynamicDB` and `SinglePass` | section 6 |
| `UpdatableProofs` | proofs about `UpdatableServer`, `Waterfall` and `Updatable` | section 6 |
| `PuncProofs` | proofs about `PuncClient` | section 6 |
| `ClientsTheorems` | the same for the clients of `Clients`; proofs about `HttpPostCodec` | section 6 |
| `GgmProofs`, `AnswerProofs` | proofs about `GgmSet` and `SinglePassAnswer` | section 6 |
| `KernelsTheorems` | the same for `Kernels`; proofs about `DistinctFilter`, `XorKernels`, `AesBlocks` | section 6 |

`DynamicDB`. `flatDb` and `numRows` are `StaticDB.FlatDb` and `NumRows`;
`dbVersion` is `StaticDB.Version`, which `UpdateRow` advances row by row, and
`currVersion` is `DynamicDB.currVersion`, which `EditRows` advances once, after
its loop. `ops` is the log and `realSizeDB` the rows in use. `call`, `batch` and
`editIdx` are the call frame: which mutating call runs, on what, how far.
`BeginAppendRows` extends at most once, by `ExtendSize`, which is computed from
the first number of rows; no rows are a batch like any other, and extend a full
database although nothing is logged. `EditStep` logs first and then drops the write if the
index is out of range, as `UpdateRow` does: `EditRows` checks no index.

`SinglePass`. `rd` is where the reader is in its call. `InitReader` stands for the
hint request, the one-pass answer and `initState`; the permutations are chosen
freely. `Query` draws one swap position per block; `AnswerLeft`, `AnswerRight`
compute rows with the block size the *server* derives from its own capacity;
`ReadFails` abandons the read before either answer; `Reconstruct` recovers the
row, swaps and repairs the hints. `BeginUpdate` takes the operations since the
client's version, `ApplyOp` and `GrowAndApplyOp` are one iteration of
`updateState`, `EndUpdate` sets the version. Where the code would index outside a
slice, `rd` becomes `"panicked"` and stays so.

Abstractions: the random source is a free choice; requests carry no byte
layout; hints of an empty log and the rejected empty response change nothing and
have no action. The two servers are the same database, as everywhere in the
repository's SinglePass tests, which share one `DynamicDB`.

Callers. Mutating calls do not overlap a call of the reader (`WriterStep` and
`Quiet`): the repository has no lock there and no caller that overlaps them.
`StaleReads` says whether a caller may read with writes outstanding; every
caller in the repository updates first, and all runs leave it FALSE. Two more constants
say what a caller does that the code accepts and does not get right: `EmptyOnFull`, that it
appends no rows to a full database (no rows are appended to one with room whatever it says),
and `EditsPastEnd`, that it rewrites rows that do not exist. The tests do neither;
`SinglePassGrowth` and the theorems leave both FALSE, `EmptyAppend` is about the first.
`InitAfterGrowth` says whether the reader may be initialised again after a growth; it is FALSE as well.

`UpdatableServer`. The fields of the record are those of `Server` and its
`StaticDB`. `Replayed` is a batch of `kv.Set` and `kv.Delete`. In `Defrag` the first
loop of `defrag` is `Counts` (where it leaves `keyToPos`) and `freed` (what it counts),
the second is `pushed`; the result is cut to the length the code allocates, so a
wrong count would show. `KeyUpdates` leaves `InitialTimestamp` at 0 when there is
nothing to send, as the early return does.

`Waterfall`. A layer has the fields of `clientLayer`; `pir` says whether it has a
client and `hint` holds the rows the server made its hint from. `LayerFor` is the
loop of `updateLayers`, `updateLayers` the rest of it with `HintUpdateReq`.
`WaterfallQuery` lists the requests `Query` makes; layers without a client are left
out and do not advance `LayerEnd`.

`Updatable`. `cli` is `Client` and `wf` its waterfall. `UpdateKeys` stands for `Update` up
to the `Hint` call: `KeyUpdates` at the left server, `processKeyUpdate`,
`HintUpdateReq`. `Hint`, `HintFails` and `HintPanics` end it. `Read`, `Answer` for each
side in either order, `AnswerFails`, `AnswerPanics`, `ReadReturns` and
`ReconstructPanics` are the steps of `Read`. A PIR client of a layer is abstracted to
its contract: it reconstructs the row if both servers and the hint are about the
same rows, and something else (`Garbage`) otherwise; for SinglePass, section 6 is
about that contract. A slice that runs past the database either panics or gives
what lies in its capacity, as in Go. `synced` and `updated` are history.

Callers. `AddLeft`, `DeleteLeft` and `WriteRight` write to the left and then to the right
server, at any time; only the start of a read waits until both have had the
write, as in the tests. A row is named by the timestamp at which it was added
(`RowAdded`), which loses nothing: no timestamp is used twice. Key updates arrive
as they were sent: a key of the model stands for one of 32 bits, and keys are so
far apart that the Rice coder can code them; `Rice` says when it cannot.

`GgmSet`. A block of the tree is known by the path to it under its seed, and what
the code derives from memory that was never set, or from the hole of a punctured
set, is `Garbage`, a block of which nothing is known. `Eval`, `Punc` and `EvalPunc` are the loops over the layers; the
workspace `ws` stays as the last call left it. `DistinctFilter` is `distinct`
with its table in the scratch half of that workspace.

`XorKernels`. `call` is the kernel that runs with its arguments, `out` and `acc` its
output and vector accumulators. Each step of a loop names the bytes it loads and stores, by the
loop's own vectors and offsets, and `wild` says whether one of them lay outside the
array it is in: the database, the bit vector, the output or the parities. `SinglePassAnswer`
has for every thread its arrays and its place in `permute`, `invert_permutation` and
the XOR of the block; `buf` is the global buffer.

`Aes` computes with bytes. `aesenc` is in three versions, and the table of the S-box
is the code's own; the reference is the definition of FIPS-197 from the field up.
`AesBlocks` has the three loops; a block is a set of terms of an opaque cipher.

`PuncClient`. `sets` holds the elements a key stands for. `Query` is the whole call:
`findIndex` with the pointers its scan overwrites, the case, the new set and the
draws, and in case 0 `replaceSet`. Between it and `reconstruct` other handlers may
query; `AnswerFails` ends a read by an error. Query and reconstruct are single steps:
what a data race between two handlers inside them gives is not modelled. `lost` is
history: hints of which an update was dropped, or made before that of an older
query. A set that Query must draw another member of and that has none makes the
reader `spins`.

`Rice`. `CodeOf` is `WriteValue` with words that wrap, `RiceParameter` the truncated
logarithm. The message is decoded value by value.

`HttpPostCodec`. `send` and `FailPending` are what `net/rpc` does around the codec: a
caller registers under `reqMutex`, posts and hands over its body with it; the
goroutine `input` decodes header and body, ends at the first error, and then needs
`reqMutex` to fail what is pending. After an error of the server the body is decoded
to nothing, which may work or not.

`FlatHashSet`. A table is its entries with their distances, slots, size and load
factor. A call is one step, displacement chains and rehashes included.

The four `Sse` modules are functions: a run enumerates the immediate, the bits, the
counts or the lanes. Instructions that only move lanes are checked on symbols,
linear ones on words of one bit, and arithmetic on every pair of lanes with bytes
of three bits instead of eight.

## 4. Runs

The first rows in `MCSinglePass` are bits of their own and the one row callers write is
another bit. A wrong family of rows has another XOR than the right one, unless the two
differ only in rows that hold the written row, an even number of them, or the zeros of
a reserve; so few wrong hints can look right by accident. The theorems are about any rows.

| Run | Instance | Shows |
|---|---|---|
| `SinglePassGrowth` | 4 rows in 2x2 blocks, edits and appends in batches of 2, 5 logged rows: two extensions, exact fits included | types, inverse maps, parity, reads, block sizes, coverage, versions, no panic, and that the whole implements `PIRStore` |
| `ExactFitAppend` | 6 rows in 2 blocks of 3, appends | *violation*: finding 1 |
| `BigBatch` | 4 rows, batches up to 5 | *violation*: finding 3 |
| `EmptyAppend` | 4 rows, appends of one row and of none | *violation*: finding 2 |
| `Updatable` | two keys, additions of one and four rows, deletions of one and two, six operations, layers of 1 and more rows, failing calls | servers and client agree after any mix of writes, updates and defragmentations; hints, reads and layers with writers between all steps; timestamps |
| `RightError` | one key | *violation*: finding 4 |
| `LostHint` | two keys, additions | *violation*: finding 5 |
| `DummyQuery` | SinglePass layers, additions | *violation*: finding 6 |
| `Kernels` | section below | sets, filter, XOR loops, permutations, the loops of AES |
| `DistinctZero` | sets of up to three elements | *violation*: finding 7 |
| `Libraries` | section below | hash table, its sizes, emulated instructions, AES over them |
| `Clients` | section below | Punc client, Rice coder, RPC client |

`Kernels`, `MCLibraries` and `Clients` put components side by side that have no
state in common: `unit` says which one a behaviour is about, the registers `v1` to
`v6` are its variables, and a property says of each unit what it must meet. In
`Clients` the Punc client of two handlers has the variables of `PuncClient` itself.

* `Kernels`: trees for twelve set sizes from 1 to 17, every power of two and its neighbours
  among them, two seeds, all calls in all orders; sets of up to four elements of
  which two pairs collide; rows of 1 to 63 bytes with every tail, in both builds;
  blocks of four drawn with all 16 values of a draw, and two threads; up to 25
  blocks for the loops of AES, three batches and a remainder.
* `Libraries`: eight keys in sixteen slots, of which six want the first of eight, so
  that chains reach `max_lookups` and growth happens within growth; two tables for
  copies and assignments; log2 and powers for all 64 bits; all 256 immediates (of
  `_mm_slli_si128` from 1 on);
  all pairs of bits of two words; counts to 255 and powers of two below 2^63; all
  pairs of six-bit lanes; four keys and three blocks of AES in three versions of the
  instructions, the standard's example among them.
* `Clients`: two readers and three reads with sets of two of four rows, one reader with
  three of seven, sets of one element; all sorted lists of up to four of sixteen
  keys, repetitions included, with words of four bits, so that quotients exceed a
  word; three callers and four calls with a failure at every point.

Bounds: `MaxOps` rows are logged in a behaviour and `MaxBatch` in one call;
reads, updates and initialisations are unbounded. Two operations are enough for
one to be applied and another outstanding, in both orders and on equal and
different hints; five rows over a database of four are enough for two
extensions of two rows and a reserve rewritten before it is used. Section 6
removes these bounds, those of `Updatable`, `Kernels`, the Punc clients and the RPC client,
and covers databases that are no square.

In the updatable runs `MaxTime` bounds the operations of a behaviour; updates and reads are unbounded. `DefragRatio` is 4, as in the code:
with no key left every deletion defragments, with one key five operations do,
so six operations include clients that have missed several defragmentations,
that follow one with their own log and that must delete it. Four rows added at
once and two more make several layers with hints. Deadlock is not checked: the system may stop when `MaxOps` is
reached or after a panic.

Properties, by what would break them: `ReadCorrect` is about the row the store has at the
index, which must exist; `HintParity` relates hints, maps, log
position and database in every state, also half way through an update and with
writes outstanding; `OffsetAgrees` and `EveryRowCovered` relate the client's
geometry to the server's; `VersionsAgree` relates the two counters and the log;
`ImplementsStore` relates every call to the abstract array. `LogSaysTheMap` relates a
server's log, map and flat database; `ClientLogIsPrefix` the client's log, however
old, to the server's; `PositionsRight` and `ReadsSnapshot` the client's positions and
reads to the map it last saw, also while the server moves on. They are stated
for as long as no defragmentation separates client and server, because the
code promises nothing after that: `Garbage` and panics are then reachable, and
`OnlyStaleCallsPanic` says that this and a lost hint are the only ways to get them.

`PuncturedIsRest` relates three calls on one workspace; `FilterRight` the answer of the
filter to the set, and every stored element to its probe path; `AccessesInside` the
accesses of the trees to workspace and keys, those of the row kernels to database, bit
vector, output and parities, and the writes of the block loops, to the arrays their caller gave. `HintsAreParities` holds also
when threads mix up their random bytes, since any draw gives a permutation;
`DrawsAreFair` then bounds how uneven `fastMod` makes them. `ReadsRight` relates hints,
sets and queries in flight: a hint is that of the set the oldest query in flight has
replaced, and a lost update spoils that hint and no other. `RoundTrips` says exactly
when the coder fails, which it does for two adjacent keys: the parameter is then
-1, the encoder writes close to 2^32 bits per key and the decoder rejects the message.

Liveness and fairness. `CallsReturn` is about loops in one thread: the probes of
`distinct` end and the block loops reach their last block. It assumes weak fairness
of a step of the running call: a thread that can go on does. `RpcCallsReturn` says that
every RPC call returns, unless the goroutine `input` has ended while a caller holds
`reqMutex` with a body to hand over (`Stuck`). `RpcSafe` says the same without time:
while a call is unfinished some goroutine can go on, but in that state, and nothing
ends it. The first assumes weak fairness of the goroutines' steps: Go schedules every goroutine, a POST ends in an
answer or an error (the code sets no timeout, so this is an assumption on the
network), and with a bounded number of calls no caller can lose the mutex for ever.
The SinglePass and updatable clients do no waiting of their own.

## 5. Findings

1. `ExactFitAppend`. `AppendRows` extends when the rows fill the database exactly
   (`realSizeDB + numAdds >= NumRows`); the client grows only when an operation
   lies past its rows. Between the two the server derives a larger block size
   if `nHints >= setSize`, and a read that is up to date returns a wrong row. With a
   square number of rows, as in the tests, `nHints` is below `setSize` from the
   first growth on and the division rounds the difference away.
2. `EmptyAppend`. `AppendRows` of no rows extends a full database, since
   `realSizeDB + 0 >= NumRows`, and logs nothing. The client has nothing to fetch and
   keeps its block size; the servers derive another one, and a read that is up to date
   returns a wrong row and refreshes hints with it.
3. `BigBatch`. `AppendRows` extends at most once; rows of a batch that do not fit
   are logged and counted but dropped, and no error is returned.

4. `RightError`. When only the right server fails, `Client.Read` returns the left
   server's error, which is nil, and no row.
5. `LostHint`. `Update` replays operations before it asks for the hint. If that call
   fails, the next `Update` finds nothing new and succeeds; the layer stays
   without a client and a read of its rows calls a nil function.
6. `DummyQuery`. The comment on the SinglePass `DummyQuery` says it is not used; the
   waterfall uses it for every layer but one, and the server divides by its set
   size of 0.

7. `DistinctZero`. `distinct` takes a slot that holds 0 for a free one; a set that has
   the element 0 twice passes. `SpinsOnOneElement` shows what follows in the Punc
   client: a set of two zeros has no other member to draw.

Two more show when a constant of `SinglePass` is TRUE; no run is kept for them. With
`EditsPastEnd`, `ReadCorrect` fails after one edit: `EditRows` logs and counts a row past the end,
with a zero row as the old one, before `UpdateRow` refuses it, and returns no error; the client
that fetches the log grows by a block the servers do not have (`dynamic_db.go:91`). With `InitAfterGrowth`,
a reader initialised after a growth has another quotient `numRows/setSize` than `extendSize`,
which "must equal" it (the comment at `dynamic_db.go:38`) and is computed once.

Seen while modelling, without a statement in the repository that contradicts them:
`encryptECB_MMO_Blocks` masks every batch with the first eight plaintexts
(`AES.cpp:316`; nothing calls it); `_mm_sra_epi16` and `_mm_sra_epi32` read the count as
signed, so that one with bit 63 set is not large (`sse2neon.h:6450`; nothing calls
them, and `BitsRight` stops below that count); `_mm_slli_si128` with immediate 0 goes on to
`vextq_s8` with 16, past the 15 it takes at most (`sse2neon.h:2604`; nothing calls it so); an update that the Rice decoder
rejects fails again at every retry until other operations follow; after one
response that cannot be decoded a persistent RPC client is shut down for good.

## 6. Proofs

Every property of the runs `SinglePassGrowth` and `Updatable`, all of `Kernels` but for
`CallsReturn`, and those of the Punc and RPC clients in the run `Clients` but for
`RpcCallsReturn`, are theorems, for all values of the constants that meet the
assumptions given below. The inductive invariants were checked by TLC first.

### SinglePass

For arbitrary `N`, `Bits`, rows, set size, batch and log bounds.

*Unconditionally*, from the assumptions on the constants alone: `TypeCorrect`
(`TypeOK`) and `PositionMapsInverse` (`PermsInverse`). The two are inductive
together: the maps must be inverse for the positions computed from them to be in
range, and in range for the swaps to keep them inverse.

*Under `Discipline`* (defined in `SinglePassProofs`): reads are made by an up-to-date
reader; no row past the end is edited; the set size divides the database; and if rows are appended, the set
size is the square root of the number of rows, no batch exceeds it, a full database is
not appended no rows, and the reader is not initialised again after a growth. Three of the last four are
dropped by a violation run each (`ExactFitAppend`, `BigBatch`, `EmptyAppend`); section 5 says
what happens without the fourth and the second. Then `HintsStayRight`,
`ReadsAreCorrect`, `NothingPanics`, `OffsetsAgree`, `RowsAreCovered`,
`VersionsStayEqual`, `AppendedRowsExist` and `StoreImplemented` (the system
implements `PIRStore`).

The inductive invariant is `SystemInv`, in four parts.

* `TypeInv`, as above.
* `DbInv(n)` of the server, for extensions of `n` rows: the log is counted, stored
  and about rows that exist; the capacity is a multiple of `n`, at most one block
  of which is unused; every appended row is in the log; and the log never skips
  a block, i.e. before an operation on a row `i` of a later block it has one on
  row `i - n`. The last is why a client that grows by *one* block per operation
  never falls behind.
* `ClientInv`: the client's block size is `n`; it has at most the server's rows;
  the operations it has applied are about rows it has; rows beyond them are zero
  as of its place in the log, so a new block leaves the hints as they are; and
  `HintParity`. The rows the client knows (`ClientRow`) are the server's with the
  operations after its place in the log undone, which makes writes invisible to
  the hints and makes each replayed operation change exactly one row.
* `ReadInv`: what a read in progress has asked and received.

`ReadsAreCorrect` and `StoreImplemented` follow from it: the online answers and
the hint differ in two rows, the wanted one and the decoy of its block
(`ReconstructedRowIs`). That refreshed hints are right again is
`RefreshedHintsRight`, where the two cases are the consumed hint and the others,
and the decoy is what the extra correction undoes. That one more extension does
not change `numRows \div setSize` is `CaughtUpGeometry`: in a square database
`numRows = n * setSize + n` with `n < setSize` once it has grown.

### Updatable

For arbitrary keys, rows, batches, defragmentation ratios, layer sizes and times.
The assumptions are those on the constants (`UpdatableServerAssumption`,
`WaterfallAssumption`, `UpdatableAssumption`), and for `OnlyStaleCallsPanicAlways` that
the layers are not SinglePass ones: there a dummy query may lie outside the
layer and panic, as the run `DummyQuery` shows. There is a theorem for each
property of the run `Updatable`; its name is that of the property with `Always`, but
for `UpdatableTypeOK`.

*What operations do to logs of every length* (the first part of `UpdatableProofs`), free of
any state. `DefragReplays`: wherever `defrag` ends, a log says the same of every key
before and after. `DefragTwice`: defragmenting twice leaves what the later one
alone would have left, so a client that missed several needs only the latest
timestamp; this is what `processKeyUpdate` relies on and no message states. Both
rest on `DefragPlaces`, which says from where each operation of the new log comes
and that the count the code allocates by is the right one, and on
`DefragKeyed`: it makes no difference whether rows are stripped before or after,
so that client and server, which defragment different logs, agree.
`CommonLemmas` has what is needed of subsequences: they are unique, distribute over
concatenation, and compose.

*The inductive invariant*, in the order in which the parts are proved; each is
inductive with those before it.

* `ServersInv`. Each server is `ServerOK`: its map is its log replayed, its flat
  database the rows of its log, and the operations it has compacted are at most the first
  half of its log, and counted when it did. The last part is in no property:
  `DeleteRows` compacts the first half whatever was compacted before, and without
  it the time of the last defragmentation could go back. And `TodoOK`: the right server is the left one but for the write
  on its way, so that what holds between client and left server holds of both.
* `ClientInv`. `ClientOK`: the client's number of rows and positions are those of its
  own log. `Fits`: if it is not so old that it must start anew, its log,
  defragmented at the server's latest time, begins the server's log.
  `Snapshot`: with no defragmentation since, the map it saw last is the beginning of
  the server's log replayed, of just the length of its own.
* `WaterInv`. The layers are `Tiled`, over as many rows as the client knows; `HintsFit`;
  and while the call for a hint is out there is a filled layer for `InitHint` to
  find when the answer comes (`AwaitsHint`).
* `Reading`. Types of the call in progress; no server is behind a client that reads;
  and `ReadOK`: the requests are what `Query` gives, and each answer that came
  from a server that has not defragmented since has the rows of the layer
  asked about, however much was written in between.
* `PanicOK`, from all of these: a slice of a server that has the client's rows does
  not run past its database.
* `CallData`, for `UpdatableTypeOK`: the types of what is asked, answered and returned. A
  request for a row has that row among its own, also when a hint was lost and the
  layers with clients no longer tile the rows, or a request ends before it begins;
  so what a read reconstructs is always a row or `Garbage`. The other variables have
  the types the invariants above give them: `TypeOK` is about all of them.

`ReadsSnapshotAlways` puts them together: the request that matches lies in the one
layer that has the row (`QueryFits`), both answers are that layer's rows, the
hint is about the same ones, and the row at the client's position is the one the map had.

`opsToRows`, `Defrag`, `RowsIn` and `WaterfallQuery` pick elements by their places
(`Places`) instead of with `SelectSeq` and folds: those are recursive, and what they
compute for every input cannot be proved here, while a cardinality can.

### Punc client

For arbitrary rows, sets, generators and numbers of readers, from `PuncAssumption`:
a set has at least one and at most all rows, and the sets that a generator
draws are what the distinct filter lets through. The theorems are
`PointersRightAlways`, `ReadsRightAlways` and `SpinsOnOneElementAlways`; the run `Clients`
checks the same properties with sets of two rows, and as `OtherSizesRight` with sets of
three and of one. `OtherSizesRightAlways` carries the theorems over to those two: there
`PuncProofs` is instantiated with their constants and variables (`ClientsTheorems`).

The lemmas are about what the code computes. `PuncturedParity`: to the parity of a
set without one place of `i`, `i` itself is what is missing, also if `i` is in the
set several times. `GenWithType`: the set drawn for a row has the row, which is
modular arithmetic. `findIndexRight` and `ReplacedRight`: the scan and the replacement
leave pointers that lead to sets with the element. `RequestsFit`: what is sent
is right for the answers to yield the row, or the draw never ends and there is a
set of one element. `OutRight`: so the row comes out, in case 0 if the hint is right.

`ReadsRight` is not inductive: it says for which set a hint is right now, but not for
which it must be right when the oldest query in flight ends. The inductive invariant `IInv` adds three things to it and the types: `Sent`, each query
in flight fits the sets it is about; `Numbered`, no two have the same number;
`ChainedAt`, what a query has put in place is what the next one for that set has found,
or it is the set of now. `FollowedAt`: the hint is right for what the oldest has
found. When the oldest gets its answers, its hint moves on one link of the chain
(`RenewalEnds`); when another one is faster, the hint is `lost`, and nothing is said of
it any more. `QueryKeeps` and `reconstructKeeps` are the steps.

### RPC client

`RpcSafeAlways`, for any number of calling goroutines and calls, from
`CodecAssumption`, which only says that a caller is not called `"nobody"`. The
inductive invariant `CodecInv` says who has the lock (callers that post or hand
over), whose response the goroutine has (a caller that waits), who is pending
(whoever posts, hands over or waits, unless its header was read), and that a caller
waits only for the response in the goroutine's hands or, after the loop, for
`FailPending`; when that is done, nobody waits and `shutdown` lets nobody in again.
`SomeoneGoes` follows it round: a waiting caller waits for the goroutine, the goroutine
for the lock, the lock for a caller that posts or that is `Stuck`.

### Kernels

For arbitrary values of the constants of `Kernels` under `KernelsAssumption`: vectors have 16
or 32 bytes, the two builds there are; a set has 1 to 2^26 elements, so that the byte
counts of `workspace_size` and `pset_buffer_size` fit the 32 bits they are computed
in; the filter has 1 to 2^28 elements, so that four slots for each, rounded up to a power
of two, are a number of 32 bits; rows have a byte and
databases a row; and a block of a hint request has no more cells than a draw has
values. There is a theorem for each safety property of the run `Kernels`; its name is
that of the property with `Always`. Trees and hint requests have modules of their
own, instantiated in `KernelsTheorems`, where `SameGgm`, `SamePass` and `SameRace` say that the
instance is the component; the others are proved about the component in place.

* `GgmInv`, for `PuncturedIsRestAlways`: once a walk has reached a layer, every block of
  that layer in the workspace is the tree's, but in a punctured set the one on the path
  to the hole (`EvalInv`, `EvalPuncInv`); a punctured set has the siblings along that
  path (`KeysInv`). What earlier calls left is overwritten or never read: of the
  workspace at the start of a call nothing is assumed. `HoleHidden` needs the
  leaves of two paths to be different blocks, which paths as values give.
* `DistinctInv`, for `FilterRightAlways`: the slots from an element's home to where it was
  stored are taken (`Reached`), which each further store keeps; a walk has met taken
  slots and not its own element (`Walked`, `NotMet`), so it meets an equal element
  before it comes to a free slot. A walk may go round the end of the table:
  `Steps` counts from the home on modulo the table's size, which is a power of two of
  at least four slots for each element (`TableFits`).
* `RowKernelsInv`, for `XorsExactAlways`: the bytes done so far are those of the rows
  named an odd number of times (`OddStep`), and vector bytes plus accumulators of 8, 4,
  2 and 1 bytes cover the rest of a row exactly once, which is `TailCovers`: the parts
  taken of `len % 16` or `len % 32` add up by halves. For the pass it is the parities
  of the blocks passed, for the hash the rows picked of each of eight pairs.
* `AnswerInv` and `DrawsInv`, for `HintsAreParitiesAlways` and `DrawsAreFairAlways`: arrays
  are permutations whatever the other threads write into the buffer, the inverse of
  each block inverts it and the parities are those of the blocks passed; and the
  array is that of the draws recorded (`History`), from which the draws can be read
  back, the last first.
* `LoopsInv`, for `BlocksExactAlways`: blocks below the index are done, those above are as at
  the start, in place or not. A mask of the third loop is one of the first eight
  plaintexts, as the code has it.

`AccessesInsideAlways` is about the trees, the row kernels and the block loops; the filter and the
permutations index functions whose domains their invariants give. `RowInside`, `OutputInside`
and `HashInside` say of the bytes a vector loop and its tail touch that they lie in the
row, and `NothingOutside` that a row of the database then lies in the database.

### What is not proved

Only model-checked: the hash table, its policies, the emulated instructions, the
cipher over them and the Rice coder (`InsertsRight`, `ErasuresRight`, `ContentsKept`,
`PoliciesRight`, `BitsRight`, `ArithmeticRight`, `CipherIsAes`, `RoundTrips`). The table
grows in the middle of an insertion by inserting everything again, a recursion; the
coder folds over bits; the others are finite tables and words, which TLC enumerates. The
violation runs are about callers or schemes that a theorem's assumptions
exclude or about what the code promises and does not keep. Out of the provers'
reach and not claimed: liveness and ENABLED (`CallsReturn`, `RpcCallsReturn`), and
what a recursive definition computes for every input.

## 7. Not modelled

Listed in `PROJECT.json` with reasons. In short: generated protobuf code, command
line flags, profiling, demo, wrappers, benchmarks and the load generator; the
stateless schemes (DPF, matrix, non-private); cost estimates of the parameters;
the server driver, whose handlers forward to the updatable server (two of them at
once on one database is an open hazard); the RPC server and the TCP codec.

Under psetggm/: gsl-lite; in `sse2neon.h` the floating-point instructions, loads and
stores, wrappers of a single NEON instruction, `_mm_insert_ps` and the ARMv7 population
count; primes of 2^31 and more in `flat_hash_map.hpp` (TLC's integers have 32 bits);
`pset_ggm.cpp` 44 to 94, which nothing calls; alignment (`xor.cpp:111` loads 16 aligned
bytes from a block that need not be), and `permute` of an empty range.
