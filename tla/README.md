# TLA+ models of go-randomx

go-randomx computes RandomX proof-of-work hashes. A `Hasher` holds a 256 MB
cache made from a key, and in fast mode a 2 GB dataset made from the cache; any
number of goroutines hash under it while others change its key or close it. This
directory holds TLA+ modules of that code, TLC configurations that check them on
small instances, and theorems that TLAPS proves for every size.

File and line references are to the repository, without `src/`.

## The system

| Component | State | Operations | Interacts with |
|---|---|---|---|
| Hasher (`randomx.go`) | `config`, `cache`, `ds`, `closed`, guarded by the RWMutex `mu` | `New`, `Hash`, `UpdateCacheKey`, `Close`, `IsReady` | builds and releases caches and datasets, takes machines from the pool |
| Pools (`memory.go`) | `vmPool`, `scratchpadPool`, shared by all hashers | `poolGetVM`, `poolPutVM`, `allocateScratchpad` | the garbage collector may empty a `sync.Pool` at any time |
| Cache (`cache.go`) | `data`, `key`, `programs`, `reciprocals` | `newCache`, `getItem`, `release` | Argon2d fills `data`, the superscalar generator makes `programs` |
| Dataset (`dataset.go`) | `data` | `newDataset`, `generate`, `generateItem`, `getItem`, `release` | one goroutine per processor writes a part of `data` |
| Virtual machine (`vm.go`) | registers, scratchpad, `ma`, `mx`, generator, pointers to a dataset and a cache | `init`, `reset`, `run`, `initialize`, `executeIteration`, `finalize` | reads dataset items, or computes them from the cache |
| Instructions (`instructions.go`, `program.go`) | none of their own | `decodeInstruction`, `getInstructionType`, `executeInstructionFull` | change registers and scratchpad of a machine |
| Superscalar generator (`superscalar_gen.go`) | cycle, port and register times, per call | `generateSuperscalarProgram` | draws from a `blake2Generator` |
| Superscalar executor (`superscalar.go`, `superscalar_program.go`) | none | `executeSuperscalar`, `reciprocal` | reads the cache's reciprocals; called for every dataset item, by the dataset's workers or by a machine in light mode |
| Byte generators (`blake2_generator.go`, `aes_generator.go`) | 64 bytes and a position | `getByte`, `getBytes`, `getUint32`, `setState` | drive the generator, the scratchpad and the programs |
| Argon2d (`internal/argon2d`) | the block memory, per call | `initializeMemory`, `fillMemory`, `fillSegment`, `indexAlpha`, `fillBlock`, `finalizeHash`, `Blake2bLong` | `Argon2dCache` is called by `newCache`, `Argon2d` by nothing but tests |
| Wrappers, tracing, test vectors, examples | none that matters | | |

What is hard about it:

- **Concurrency.** Readers of `mu` hash for milliseconds; a writer regenerates
  for half a minute and releases what readers used. Machines move between
  hashers through a global pool with stale pointers and data in them. The
  dataset is written by many goroutines without a lock.
- **Failure.** A build may fail between cache and dataset, in `New` and in
  `UpdateCacheKey`; `Hash` panics on a closed hasher with the read lock held.
- **Ordering.** Release before swap, `wg.Add` before `go`, the window of Argon2
  blocks that may be read in a pass, two lines of the scratchpad that are written
  back and may be one, a generator that is read to the end before it is reseeded.
- **Stale state.** `executeIteration` combines registers and addresses with what
  they held; what `reset` forgot would make a hash depend on the one before.
- **Twins.** A dataset item is made by `generateItem` in fast mode and by
  `computeDatasetItem` in light mode, two copies of one algorithm.
- **Numbers.** Items that do not divide by the processors, `uint32` windows that
  may wrap, a quadratic mapping that must not go below zero, a shift that counts
  zeros in the wrong width.

What makes each component correct:

- Hasher: it is one atomic object; no hash reads released memory; a hash depends
  on its input and key alone; no failure loses memory or the lock; every call
  returns.
- Dataset: each item is made once, by one worker, before `generate` returns.
- Argon2d: the reference block is always one that may be read; every block holds
  every pass, every word of it depends on every word of the first blocks, and a
  tag is made of the pieces the RFC gives.
- Superscalar: ports and registers are respected, the loop ends by the latency,
  every `IMUL_RCP` finds its own reciprocal.
- Instructions: every type is decoded as often as its frequency says, every
  access stays in the scratchpad level it names, a multiplication keeps the half
  that it names, and what should be reversible loses nothing.
- Machine: a hash depends on its own input and on every dataset item it read, and
  on nothing an earlier hash left; what an iteration writes back is where the
  next one looks for it; both modes read the same item.
- Byte generators: what is read is their stream, without gaps or repetitions.

## Modules

| Module | What it holds |
|---|---|
| `RWMutex` | `sync.RWMutex` as operators on a record; external, from how `randomx.go` uses it |
| `HasherAPI` | the abstract specification: a hasher as an atomic object |
| `Hasher` | `randomx.go`, with the life of caches and datasets, `vmPool` and the machines |
| `HasherProperties` | type invariant, safety, liveness, and the refinement mapping to `HasherAPI` |
| `HasherInvariant` | the inductive invariant |
| `HasherProofs` | its proof, and that `Hasher` implements `HasherAPI` |
| `MCHasher` | `Hasher` for TLC, with symmetry |
| `MCHasherLive` | `Hasher` for TLC, with calls of its own for every goroutine, for liveness |
| `DatasetGen`, `DatasetGenProofs` | `dataset.generate` and its goroutines |
| `Argon2Fill` | how Argon2d fills the memory of a cache |
| `Argon2Block` | which words of a block depend on which, and the pieces of `Blake2bLong` |
| `Argon2d` | the two composed, with the tag |
| `Argon2FillProofs` | the properties of `Argon2Fill` and `Argon2d`, and that the second implements the first |
| `Superscalar`, `SuperscalarProofs` | `generateSuperscalarProgram` and the reciprocals of `newCache` |
| `Instructions` | decoding and executing the instructions of a program, and their scratchpad addresses |
| `InstructionsProofs` | its proof |
| `WordArithmetic` | words of `wordBits` bits: exclusive or, rotation, high halves of products |
| `NumberProofs`, `WordArithmeticProofs` | lemmas on induction, recursion, quotients and words, which the other proofs cite |
| `Scratchpad` | where `readMemory` and `writeMemory` go |
| `DatasetItem` | `executeSuperscalar` and a dataset item, made in both ways |
| `ByteStream` | the abstract specification of a byte generator |
| `ByteGenerators` | position and refill of the three generators |
| `VirtualMachine` | `vm.go`: one machine that serves one hash after another |
| `MCVirtualMachine` | `VirtualMachine` with a small cache, for TLC |
| `VirtualMachineProofs` | its proof |

Each module comes with its mutants: operators marked `Mutant` that change one
definition the way a plausible mistake in the code would. Every property fails
under the mutant listed for it in `PROJECT.json`.

### Hasher

`pc[g]` says which statement goroutine `g` is at and `frame[g]` holds the
arguments, locals and result of its call; `hasher[h]` is the struct. An action
is a run of statements that no other goroutine can see inside of: taking or
leaving the lock, a build of a cache or dataset, release, the swap of the
pointers, taking or returning a machine, one program of a hash. `UpdateRelease`
and `UpdateSwap` are separate because the code between them leaves a hasher
whose pointers name released memory, and only the lock hides that.

*Lock.* `Lock` takes two steps, as in the Go runtime: win the inner mutex and
turn new readers away (`LockAnnounce`), then wait for the readers inside
(`Locked`). `RLock` queues behind an announced writer, and `Unlock` admits those
who queued before another writer can announce itself.

*Memory.* A cache or dataset is an address whose contents are the key it was
made from, `NoKey` once released. Addresses are reused only when nothing refers
to them, as the garbage collector guarantees; of the free ones the least is
taken, which loses nothing because names are arbitrary. A machine in the pool
keeps its pointers, so the address of a released cache stays taken until that
machine is used again.

*Data.* What a register, scratchpad or generator holds is the set of inputs and
keys it was computed from. A hash is right when that set is its input and its
hasher's key. `Programs` is one in the runs: the sets no longer change after the
first program, and the proofs cover any number.

*Errors.* `newCache` and `newDataset` may fail whenever `BuildMayFail`. The code
tests their errors, although as written only an empty key or a wrong size would
make them fail.

*The caller's slice.* `New` stores `config.CacheKey` without copying it
(`randomx.go:117`), so `CallerWritesBuffer` changes what the hasher believes its
key to be. `CallerReusesBuffer` switches that on.

### DatasetGen

The loop that starts the workers, the counter of the WaitGroup, and each worker's
range and loop. `itemsPerWorker`, `Start` and `End` are the code's arithmetic.
The worker's range is computed when it starts to run, which may be after the
loop has ended. An item is its index; `made[n]` says that it has been written.

### Argon2Fill

The loops over passes, slices, lanes and blocks as one state machine, with
`indexAlpha` evaluated for every 32-bit value a block may begin with (`J1`), in
arithmetic modulo `W`. A block is the number of passes folded into it; mixing a
block with itself or with a blank one adds nothing.

### Argon2Block, Argon2d

`Argon2Block` keeps the wiring of the compression function and leaves out its
arithmetic: a block is the set of its words that depend on one word that is
watched, `g` gives each of its four words all it was computed from, and
`columnWord` and `rowWord` are the hand-written indices of `applyBlake2bRound`.
`Argon2d` runs the loops of `Argon2Fill` with `fillBlock` on such blocks, from the
blocks that `initializeMemory` makes to the tag that `finalizeHash` makes of them.
`initializeMemory` ignores the error of `FromBytes`, which it cannot get: what
`Blake2bLong` returns has the length that was asked for, whatever the loop in it
does (`blake2b_long.go:64`). Of that loop the model keeps how many bytes each hash
has and how many of them are used. `ArgonFillBlock` chooses among the reference blocks, not among the
values `J1` that select them.

### Superscalar

One action per turn of the loop of `generateSuperscalarProgram`: an instruction
is issued, or none can be and the cycle passes. The table of instruction types
is the code's, with the ports of every macro-operation. Generator bytes are any
bytes, so the model covers every key; since `selectRegister` gives up after eight
bytes, any register may come out of it. `newCache`'s second loop, which moves
the divisors of `IMUL_RCP` into the table of reciprocals, runs after each
program. `reciprocal` is the code's formula in words of `2 * halfWidth` bits.

### DatasetItem

Items and superscalar instructions are computed on words of `wordBits` bits, as
the code does on 64. `generateItem` and `computeDatasetItem` are translated each
from its own file, although they read the same; `dataset` is the slice that
`generate` fills with windows of one item each, and `getItem` the window that the
machine reads. The cache's data and programs are constants: any that fit
`CacheAssumption`, which is what `newCache` leaves (`Superscalar`). One branch is
left out on that ground: `executeSuperscalar` computes a reciprocal anew where an
`IMUL_RCP` holds no index of the table (`superscalar.go:51-54`); `ReciprocalOfDivisor`
shows that every one holds its own.

### Instructions

The loop of `executeIteration` over a program: fetch eight bytes and decode them,
then execute. The registers begin with any words, and a word of the scratchpad
that no instruction has stored to holds any word, so a program of one
instruction already meets everything that a longer one can; `programLength` is
one in the runs. Decoding compares an opcode with the running sum of the
frequencies, kept modulo 256 as the code keeps it. `destination` is the
arithmetic of `executeInstructionFull` on words of `wordBits` bits. `accessed`
is where `readMemory` and `writeMemory` go for an address. Floating-point
instructions change no integer register and store nothing; of those that load
the model keeps the address.

### ByteGenerators, VirtualMachine

A generator is a seed, the number of times its state was remade, and `pos`. The
function that remakes it is uninterpreted, so the three generators are one.

A step of `VirtualMachine` is a step of the code: those that `executeIteration`
numbers, with 2 and 3 in `LoadLines`, 5 to 7 in `MixDataset`, 10 and 11 in
`StoreFloats`; `reset` is part of `InitMachine`, and the reseeding of `gen4` of
`Reseed`. What a register file, a word of the scratchpad, the configuration, the
program or a seed holds is its *sources*: the inputs and the dataset items it was
computed from. Four things are numbers: the two lines of the scratchpad that an
iteration uses, and the values of `ma` and `mx`. A register that was combined with
an address may hold anything, so the lines and `mx` are any, which includes two
lines that are one. `ExecuteProgram` allows a program that combines no two
registers and one that combines everything, and one that clears every register r,
as `ISUB_R` and `IXOR_R` of a register and itself do (`instructions.go:218`, `:281`);
what the instructions do is `Instructions`. Sources say what a value was computed
from, not that it tells two of them apart: arithmetic that happens to lose a
difference, such as a multiplication by zero, is not seen. Where `Hasher` keeps one set for all the data of a machine,
because it asks what goes from one goroutine to another, this module asks what
goes from one step to the next. A machine in `Hasher` that is taken from the pool
and given back is a round from `idle` to `idle` here; `mode` may differ from one
round to the next, since hashers of both modes share the pool.

## What is checked

| Run | Bounds | States | Question |
|---|---|---|---|
| `hasher_safety` | 2 goroutines, 1 hasher, 2 keys, 1 input, 4 addresses, 2 machines, all modes and operations, builds may fail | 353 thousand | Do the safety properties and the inductive invariant hold, and is every interleaving one of the atomic object? |
| `hasher_pool` | 2 hashers, fast and light, caller reuses its slice | 571 thousand | Does anything leak between hashers through the pool? |
| `hasher_live` | 3 goroutines, one that makes, hashes and closes, one that updates, one that asks `IsReady`; 2 keys, all modes, builds may fail | 93 thousand | Does every call return, on every path, and can neither readers nor writers starve? |
| `dataset_uneven` | 10 items, 4 workers | 1.9 thousand | Is the dataset complete, race-free and quiet on return? |
| `argon2_fill` | 3 passes, 2 lanes, 16 blocks each, 7-bit words; 7 words of both first blocks watched, 11 lengths of a tag | 1.9 thousand | Is every reference allowed, every block complete and mixed through, and the tag as specified? |
| `superscalar_programs` | 2 programs of 3 cycles, 2 registers, 4 types, words of 8 bits | 608 thousand | Are programs well formed and reciprocals found? |
| `instructions_all` | 57 opcodes, 2 registers of 4 bits, levels of 1, 2 and 4 words | 865 thousand | Are decoding and addresses right, and is nothing lost that can be undone? |
| `machine_reuse` | 2 hashes in either mode, 2 programs of 2 iterations, 4 registers, 8 words of scratchpad, 4 cache items, 3 dataset items | 46 thousand | Does a reused machine hash right, and do both modes read the same items? |
| `hasher_alias` | as safety, caller reuses its slice | violation | finding below |
| `superscalar_reciprocal` | 1 program, divisors 0, 3, 11 and 13 in words of 8 bits | violation | finding below |
| `instructions_store` | as `instructions_all` | violation | finding below |
| `instructions_signed` | as `instructions_all` | violation | finding below |

Why the bounds are enough to be interesting:

- Two goroutines reach every pair of concurrent calls: a hash and a close, two
  updates, an update and a hash queued behind it. Starvation needs a third, to
  keep the other two busy, so `hasher_live` has three. It gives each of them calls
  of its own, which keeps it small and leaves every call to be made against the
  other two; that a hash and an update of the same goroutine follow each other is
  in `hasher_safety`. The proofs of the safety properties cover any number.
- Four addresses: the pair in use, the pair being built (a dataset has the address
  of its cache), and two that idle machines still point to. `hasher_live` has one
  machine and does with three; a fourth adds no state to it.
- Ten items over four workers leave a remainder of two.
- Sixteen blocks to a lane make four segments of four, where the first two, an
  inner and the last block of a segment are all different; three passes tell
  the first from the last and from one in between. `W = 128` exceeds twice the
  lane, as 2^32 does, so that both ends of the window can be hit.
- Three cycles are as long as the fastest multiplication, so that a long
  instruction, a short one and a third that must wait for the long one fit. Two
  programs make the table of reciprocals continue from one to the next.
- The opcodes are the first and the last of every type, where a bound off by one
  would show. Four bits have every sign, every rotation and addresses beyond the
  scratchpad of eight bytes; level 1 is a single word, level 3 is all of them.

- One input is enough in `hasher_safety`: what tells two inputs apart is
  `HashOfInputAndKey`, and there the two hashers and two keys of `hasher_pool`
  already give data of different origin; `HashOK` of `IInv` says it of every
  running machine.
- The watched words lie in the first, last and inner columns and rows of a
  block, at even and odd places. All 128 words would give the same answer at
  eighteen times the cost. The tag's lengths are on both sides of 64 and of every multiple
  of 32 up to 129, and the 1024 bytes of a block.
- Two hashes by one machine are what reuse takes; two programs have a last and
  one before it, and so have two iterations. Two lines of scratchpad may be the
  same or different. The cache and its programs hold every kind of
  superscalar instruction; three dataset items do not divide the eight values of `mx`.
- The states of a generator are 8 bytes, the configuration one of them, a program
  two and the scratchpad also two, in place of 64, 128, 2048 and 2 MB: whole
  states as in the code, which `MachineAssumption` asks for.

Symmetry is used over goroutines, keys and inputs, in safety runs only: nothing
in `Hasher` tells two of them apart. Addresses and machines are numbers, since
the allocator takes the least, and are not permuted.

`CHECK_DEADLOCK FALSE` is said where the code ends: `generate` returns, Argon2 is
filled, the cache is built, the program has run, the machine has served its
hashes. The Hasher's runs check deadlock.

### Fairness

`FairSpec` of `Hasher`: weak fairness of each goroutine's steps, since the Go
scheduler runs every runnable goroutine; strong fairness of `LockAnnounce`, since
a `sync.Mutex` waiter that has starved for a millisecond is handed the mutex.
`LiveSpec` of `MCHasherLive` is `FairSpec` with the calls shared out. Calls need
not be made, the pool need not be emptied. Readers need no strong fairness:
`Unlock` admits those who wait. `DatasetGen` assumes weak fairness of the caller
and of each worker.

### What the properties say

- `NoUseAfterRelease`: a machine that runs points to exactly what its hasher
  points to, and that is live.
- `HashOfInputAndKey`: a result depends on the call's input and the hasher's key
  alone, until the read lock is dropped.
- `ResourcesMatchConfig`: outside the swap, cache, dataset, mode and recorded key
  of an open hasher agree, after failed updates too.
- `LiveMemoryOwned`: what has not been released belongs to an open hasher or to
  a build under way.
- `UpdateTakesEffect`: `UpdateCacheKey` answers nil only with the key installed.
- `VMExclusive`: a machine serves one hash, and is not in the pool meanwhile.
- `ImplementsAPI`: `Hasher` implements `HasherAPI`. The abstract state of a
  hasher is absent, closed, or open under its recorded key. A call takes effect
  in the step that fixes its answer, under the lock.
- `CallsReturn`: every call returns.
- `CompleteOnReturn`, `DisjointWindows`, `QuietAfterReturn`, `Returns`: the
  dataset is complete, written without races, not written after return, and
  `generate` does return.
- `ReferenceAllowed`, `WindowReached`, `CacheComplete`: the reference block is
  neither previous, current, blank nor in the rest of the segment; both ends of
  the window can be reached; every block holds every pass.
- `Diffused`: every word of every block of the lane depends on every word of its
  two first blocks.
- `TagAsSpecified`: the tag is made of the whole first lane, in the pieces of
  RFC 9106.
- `PortsRespected`, `SourceDiffers`, `ProgramComplete`, `AddressMostDelayed`,
  `ReciprocalOfDivisor`: see `Superscalar`.
- `DecodedByFrequency`: up to `ISTORE`, a type is decoded from exactly the opcodes
  that unbounded sums of the frequencies reserve for it.
- `AccessInLevel`: an address is a word of the level `mod` selects, and
  `readMemory` and `writeMemory` find nothing to move.
- `DestinationKept`: sums, differences, negation, exclusive or and rotations with
  another register map different destinations to different results.
- `HashPure`: a hash has for sources its input, all items that its programs read,
  and nothing else. That they are all there is a statement on what the hash is
  computed from; it holds although a program may clear the registers that an item
  was mixed into, because the item is in `spAddr0` by then.
- `LinesWrittenBack`: after an iteration the line of `spAddr1` has the item just
  read, in `r`, and the line of `spAddr0` has `f`, also when they are one line.
- `SameItem`: the item that a machine gets in either mode is the one that `mx`
  selects, as `generateItem` makes it.
- `ReadsStream`: `VirtualMachine` implements `ByteStream` by the reads of its
  generators, which are used up when they are dropped or reseeded.

### Findings

1. **A reused key slice makes an update a no-op** (`hasher_alias`,
   `randomx.go:117`). `New` keeps the caller's slice. If the caller writes the
   next key into it and passes it to `UpdateCacheKey`, the key is compared with
   itself, nil is returned, and hashes go on under the old key.
2. **`reciprocal` shifts by 32 bits too many** (`superscalar_reciprocal`,
   `superscalar_program.go:67`). `64 - LeadingZeros32(d)` is the bit length plus
   32, and the quotient and the remainder, shifted by that, lose their upper bits.
   In the 8-bit words of the run the result is 0 where it should be 186 (divisor 11)
   or 157 (divisor 13). In the code's 64 bits it is `0xe8ba2e8ba2e8ba2e` in place of
   `0xba2e8ba2e8ba2e8b` for 11, and `0x89d89d89d89d89d8` in place of
   `0x9d89d89d89d89d89` for 13. It is zero for powers of two. For a few divisors,
   such as 3, 5, 15 and 17, the bits lost repeat in those that are kept and the
   result is right: 126 of the first million that are not powers of two.
3. **`ISTORE` is never executed** (`instructions_store`, `instructions.go:191`).
   The sum 246 + 16 wraps in a `uint8`, so opcodes 246-255 decode to NOP and no
   instruction stores to the scratchpad.
4. **`ISMULH` keeps only a sign** (`instructions_signed`, `instructions.go:250`,
   `:259`). `int128mul` gives the high 64 bits of the signed product, and both
   instructions shift that by 64 bits once more, which leaves 0 or -1. The comments
   (`:247`, `:254`) announce the high part. `smulh`, which superscalar programs use,
   does keep it.

Other disagreements between text and code, which no run is about:

- `vm.go:246-253`: step 8 announces a swap of `mx` and `ma`, which `mixDataset`
  has just made equal (`:322`), so it changes nothing.
- `ARCHITECTURE.md:132` has machines zeroed before they return to the pool;
  `poolGetVM` zeroes them when they leave it.
- `instructions.go:381` names `dst` for `ISTORE` where the code uses `src`.
- `vm.go:260`: "XOR f0-f3 with e0-e3" adds.
- `superscalar_program.go:45`: "3-60 instructions", where up to 170 are generated.
- `internal/argon2d/argon2d.go:142-149`: "each lane" is combined "per Argon2
  specification"; `finalizeHash` combines all blocks of the first lane, where RFC 9106
  combines the last block of every lane. RandomX has one lane, and its cache is made
  without a tag. `TagAsSpecified` is about the pieces that a tag is cut from.
- `internal/argon2d/indexing.go:61`: later passes can reference "all blocks except
  current segment"; the blocks of that segment that precede the previous one are in
  the window too, as RFC 9106 has it. `ReferenceAllowed` and `WindowReached` are
  about that window.
- `internal/argon2d/blake2b_long.go:24` writes the length after the input; the code
  puts it first.
- `ARGON2D_IMPLEMENTATION_GUIDE.md:88-98`, a plan written before the code, takes 64
  bytes of every hash after the first; the code takes 32 until no more than 64 are
  left, as RFC 9106 does.

## What is proved

All theorems hold for every value of the constants under the named assumptions of
the modules (`NoneAssumption`, `SizesAssumption` and so on: nil is not an
address, sizes are positive).

**Hasher.** `IInv` (in `HasherInvariant`) is inductive, and implies the safety
properties. None of them is inductive alone: that a hash never reads released
memory needs that a writer past `Lock` excludes readers (`LockOK`), that the
address a build takes is nobody else's (`OwnersOK`, `LiveMemoryOwned`), that an
open hasher points to live memory except between release and swap (`PointersOK`,
`MemoryOK`), and that a running machine has its hasher's pointers (`HashOK`).

- `HasherProofs!TypeCorrect`: `TypeOK`, and `ControlOK`, what a frame holds
  at each statement.
- `LockExcludes`, `MachinesExclusive`: mutual exclusion of `mu`, and of machines.
  Before them stands what each step does to one goroutine, hasher or address, as
  lemmas the later proofs cite instead of the definitions.
- `Invariant`, then `NoHashAfterRelease`, `HashesRight`,
  `NothingLeaks`; and, where the caller leaves its slice alone
  (`CallerReusesBuffer = FALSE`), `ConfigMatches` and `UpdatesTakeEffect`. That
  assumption is needed: finding 1 refutes the conclusions without it. The
  first three hold with or without it.
- `Atomic`, under the same assumption: `Hasher` implements
  `HasherAPI`. A call's first step is its invocation and its last its return, the
  step that settles its answer is its effect, and every other step, those of the
  lock, the builds, the pool and the programs among them, is a stutter. Beyond
  `IInv` this needs `LacksOK`: an update that builds found another key recorded,
  and nobody changes it before the update does.

**DatasetGen.** For any number of items and workers: `TypeCorrect`, `Complete`,
`Disjoint`, and the action property `Quiet`. The invariant says that each worker
has made the items of its range up to its position, that the ranges tile the
items, and that the counter is the number of workers started and not done, as a
cardinality.

**Argon2Fill.** For any number of passes, lanes and blocks and any word width:
`TypeCorrect`, `References`, `Complete`, and `Window`, that both ends of the window
are reached. The invariant says for each block whether the current pass has
reached it; the lemmas bound the quadratic mapping, and give its value at both
ends. `Implements`: `Argon2d` with its wiring implements `Argon2Fill`, so these
theorems are about `Argon2d` and `Argon2dCache`.

**Argon2d.** For any number of passes above one and any size of the lane:
`AllDiffused` and `TagRight`. `Spread` says that every word of a block which a pass
has mixed into depends on the word that is watched. It is kept because the
permutation spreads a word of either of its two blocks to all 128
(`PermutationFull`: a round over columns fills the sixteen words of one group, and
each round over rows finds one of them in its own), and because one of the two
blocks always has such a word: the previous block has been mixed into, or it and
the reference are the two first blocks, and one of them is watched. The two first
blocks themselves are mixed into from the second pass on, so one pass would leave
them as they were: hence `passes > 1`, where RandomX has three. For the tag, `SpecifiedAs` is the equation
of the RFC's pieces in terms of those for 32 bytes less, and the recursion of
`Blake2bLong` is shown to satisfy it, for any length.

**Superscalar.** For any latency, number of registers and of programs, choice of
instruction types and width of a word: all six properties of the run. The
invariant says what the generator's bookkeeping stands for: a port is busy until
everything issued on it is through (`Busy`), a register is ready when its last
write completes (`Delays`), a cycle issues at most one instruction and the first
one always does (`Progress`), and an `IMUL_RCP` holds its divisor before `newCache`
has looked at it and an index of its own reciprocal after (`Table`).
`PowersAssumption` states that `2^n` is a number above `n`, which the provers do not
know.

**WordArithmetic.** For words of any width: the exclusive or of two words is a word
and can be undone (`XorType`, `XorLossless`), rotation likewise (`RotateType`,
`RotateLossless`), and correcting the product of two words for the signs they stand
for gives the high word of the signed product (`SignedHigh`), which is what `smulh`
returns to superscalar programs. `WordAssumption` states `2^0 = 1` and
`2^n = 2 * 2^(n - 1)`, which the provers do not know of exponents.

**Instructions.** For words of any width, any number of registers, any length of a
program and any sizes of the levels that are multiples of a word, as 16 KiB,
256 KiB and 2 MiB are: `TypeCorrect`, `Decoded`, `InLevel` and `Kept`.
`TypeInv` adds to `TypeOK` that an instruction is executed only while the program
lasts. `Decoded` goes through the 29 frequencies; that it stops before `ISTORE`
is finding 3.

**VirtualMachine.** For any number of hashes, programs, iterations and registers,
any scratchpad and any sizes of what is read from a generator that fit
`MachineAssumption`: `TypeCorrect`, `Streams`, `Purity`, `WrittenBack` and `SameItems`. `TypeInv`
adds to `TypeOK` what the counters of the loops may be at each step, and that
`state` and `pos` are those of a generator; lemmas show that every read and write
goes to a word of the scratchpad. For `Streams`, `AtStateEnd`
says at which steps a generator has been read to the end of a state, which needs
that all sizes are multiples of it; that `getBytes` is n bytes in order is shown
by induction, as the least n for which it is not. For `Purity`, the invariant
`Pure` says what the sources of every part of the machine are bounded by, and
which it must contain, at each step. All items of the iterations done are in the
integer registers or in `spAddr0`, and all of them in `spAddr0` when a program that
may clear registers is executed; the line that `spAddr0` selects is written in every
iteration (`LineStored`), so at the end they are in the scratchpad or the registers,
and the hash is made of both. For `WrittenBack`,
`ItemInLine` says that the item just read is in registers r alone and, once they
are stored, in the line of `spAddr1`; that lines do not overlap, and neither do the
words of one (`DistinctWords`), makes the second store replace exactly what it should. `SameItems` needs no
invariant but itself: `MixDataset` alone leads to "swap". What it needs are
values: every instruction gives a word (`ResultType`), so do every program
(`SuperscalarType`) and every number of programs (`GeneratedType`), and a window
of the dataset holds the words of one item (`Window`). It holds for every cache
that fits `CacheAssumption`: registers that exist and reciprocals that are in the
table, which `Superscalar` proves of the programs that `newCache` makes.

**Induction.** No theorem of the library with an operator as a parameter can be
used. Recursive functions are therefore reasoned about with two lemmas of
`NumberProofs` on sets: `Induction`, by the least number that is not in the
set, and `Recursion`, that a function given by its first value and a step exists.

**Only model-checked.** Liveness (`CallsReturn`, `Returns`): TLAPS does not prove
liveness under fairness. Every safety property of a passing run is a theorem.

## What is not modelled

- The arithmetic of hashing: AES, Blake2b and floating point are uninterpreted, or
  reduced to what they depend on; integers are narrower words. That the hashes
  match the reference implementation is a matter of test vectors.
- `initialHash` (`argon2d.go:44`): a layout of bytes, hashed once.
- `AesHash1R` beyond that it goes over the whole scratchpad: its rounds are AES,
  and nothing of it outlives a call.
- Without a caller outside tests: `releaseScratchpad`, `allocateAlignedDataset`,
  `hashBlake2b`, `copyBytes`, `generateProgram`, `hashProgramEntropy` and `execute`
  of `program.go`, `getUint32` of the AES generators, `Block.Copy`.
- `mixDataset` with neither dataset nor cache (`vm.go:312`), which returns zeros:
  `poolGetVM` always gives a machine one of them (`HashOK` of `HasherInvariant`).
- Wrappers, tracing, test vectors, examples: see `PROJECT.json`.
- Data races on a Config that a caller changes while `UpdateCacheKey` reads it
  are reduced to their atomic outcomes.

## Plan

1. `Hasher` with `HasherAPI`: runs and proof of the safety properties. *Done.*
2. `DatasetGen`, composed with `Hasher` through `NewDataset`, which takes from it
   that a dataset is complete and quiet when the call returns. *Done, proved.*
3. `Argon2Fill`, likewise behind `NewCache`; `Argon2Block` and `Argon2d` around it.
   *Done, proved.*
4. `Superscalar`, the rest of `newCache`. *Done, proved.*
5. `Instructions`: decoding, arithmetic and addresses. *Done, proved.*
6. `VirtualMachine` with `DatasetItem`, `ByteGenerators` and `ByteStream`. *Done,*
   *proved.*
7. `HasherAPI`: that `Hasher` implements it, as a theorem (each step maps to a
   step or a stutter, under `IInv`). *Done, proved.*
