--------------------------- MODULE VirtualMachine ---------------------------
(***************************************************************************)
(* One virtual machine, which a pool hands out for one hash after another  *)
(* (vm.go): init with reset, run, initialize, generateProgram, the twelve  *)
(* steps of executeIteration, mixDataset and finalize.                     *)
(*                                                                         *)
(* What a register, a word of the scratchpad, an address or a seed holds   *)
(* is the set of its sources: the inputs and the dataset items that it was *)
(* computed from.  Kept as numbers are where the machine reads and writes  *)
(* the scratchpad (any two lines, in any iteration) and which dataset item *)
(* it reads (any).                                                         *)
(***************************************************************************)
EXTENDS Scratchpad, ByteGenerators, DatasetItem

CONSTANTS
    Modes,                  \* "fast" with a dataset, "light" with a cache only
    programCount,           \* 8
    programIterations,      \* 2048
    configurationBytes,     \* 128
    programBytes,           \* 2048
    numFloats,              \* 4 registers f and as many e
    maxHashes               \* bound: how many hashes the machine serves

lineBytes == numRegisters * wordBytes
Lines == {a \in Addresses : a % lineBytes = 0}

(* The scratchpad and a program are made of whole states of a generator,   *)
(* and a line holds the registers r, or f and e.                           *)
ASSUME MachineAssumption ==
    /\ Modes \subseteq {"fast", "light"}
    /\ {programCount, programIterations, configurationBytes, programBytes,
        numFloats, maxHashes} \subseteq Nat \ {0}
    /\ 2 * numFloats = numRegisters
    /\ scratchpadL3Size % lineBytes = 0
    /\ scratchpadL3Size % stateBytes = 0
    /\ (configurationBytes + programBytes) % stateBytes = 0

VARIABLES
    pc,                     \* the next step
    hashes,                 \* how many hashes the machine has begun
    mode,                   \* the pointers of the machine: a dataset or only a cache
    progNum, iter,          \* the loops of run
    gen,                    \* gen1 while initialize runs, then gen4
    buffer,                 \* the bytes read last from gen
    config,                 \* vmConfig
    prog,                   \* the program
    reg, regF, regE,        \* the register files
    mem,                    \* the scratchpad
    spAddr0, spAddr1,       \* an address and its sources
    ma, mx,                 \* a value and its sources
    item,                   \* the words of the dataset item read last
    hash                    \* the result of the last run

control == <<pc, hashes, mode, progNum, iter>>
generator == <<gen, buffer, config, prog>>
files == <<reg, regF, regE>>
addresses == <<spAddr0, spAddr1>>
memory == <<ma, mx>>
vars == <<control, generator, files, mem, addresses, memory, item, hash>>

Address(a, sources) == [addr |-> a, sources |-> sources]
Value(v, sources) == [value |-> v, sources |-> sources]
Seed(kind, sources) == [kind |-> kind, sources |-> sources]

(* The sources: the input of a hash, and the item of an iteration. *)
InputOf(h) == <<h>>
ItemRead == <<hashes, progNum, iter>>
ScratchpadSources == UNION {mem[a] : a \in Addresses}

Init ==
    /\ pc = "idle" /\ hashes = 0 /\ mode \in Modes /\ progNum = 0 /\ iter = 0
    /\ gen = newGenerator(Seed("none", {})) /\ buffer = << >>
    /\ config = {} /\ prog = {}
    /\ reg = {} /\ regF = {} /\ regE = {}
    /\ mem = [a \in Addresses |-> {}]
    /\ spAddr0 = Address(0, {}) /\ spAddr1 = Address(0, {})
    /\ ma = Value(0, {}) /\ mx = Value(0, {})
    /\ item = [r \in Registers |-> 0]
    /\ hash = {}

Step(from, to) == pc = from /\ pc' = to
UnchangedLoops == UNCHANGED <<hashes, mode, progNum, iter>>

-----------------------------------------------------------------------------
(* Between hashes. *)

(* Mutant: spAddr0 and spAddr1 keep what the last hash left in them. *)
resetKeepingAddresses ==
    /\ reg' = {} /\ regF' = {} /\ regE' = {}
    /\ mem' = [a \in Addresses |-> {}]
    /\ ma' = Value(0, {}) /\ mx' = Value(0, {})
    /\ UNCHANGED addresses

(* The generator, the configuration and the program are left alone. *)
reset ==
    /\ reg' = {} /\ regF' = {} /\ regE' = {}
    /\ mem' = [a \in Addresses |-> {}]
    /\ ma' = Value(0, {}) /\ mx' = Value(0, {})
    /\ spAddr0' = Address(0, {}) /\ spAddr1' = Address(0, {})

(* init, which the hasher calls before every run. *)
InitMachine ==
    /\ Step("idle", "initialize")
    /\ hashes < maxHashes /\ hashes' = hashes + 1
    /\ mode' \in Modes
    /\ reset
    /\ UNCHANGED <<progNum, iter, generator, item, hash>>

-----------------------------------------------------------------------------
(* initialize. *)

NewAesGenerator1R ==
    /\ Step("initialize", "fill")
    /\ gen' = newGenerator(Seed("1R", {InputOf(hashes)}))
    /\ UNCHANGED <<buffer, config, prog, files, mem, addresses, memory, item, hash>>
    /\ UnchangedLoops

Take(n) == gen' = getBytes(gen, n) /\ buffer' = bytesOf(gen, n)

FillScratchpad ==
    /\ Step("fill", "generator")
    /\ Take(scratchpadL3Size)
    /\ mem' = [a \in Addresses |-> gen.seed.sources]
    /\ UNCHANGED <<config, prog, files, addresses, memory, item, hash>>
    /\ UnchangedLoops

(* The seed is the state that gen1 is left with. *)
NewAesGenerator4R ==
    /\ Step("generator", "configuration")
    /\ gen' = newGenerator(Seed("4R", gen.seed.sources))
    /\ progNum' = 0
    /\ UNCHANGED <<hashes, mode, iter, buffer, config, prog, files, mem, addresses,
                   memory, item, hash>>

-----------------------------------------------------------------------------
(* generateProgram. *)

ParseConfiguration ==
    /\ Step("configuration", "decode")
    /\ Take(configurationBytes)
    /\ config' = gen.seed.sources
    /\ UNCHANGED <<prog, files, mem, addresses, memory, item, hash>>
    /\ UnchangedLoops

(* Mutant: the loop over the iterations is not begun anew. *)
DecodeProgramKeepingIter ==
    /\ Step("decode", "addresses")
    /\ Take(programBytes)
    /\ prog' = gen.seed.sources
    /\ UNCHANGED <<hashes, mode, progNum, iter, config, files, mem, addresses, memory, item, hash>>

DecodeProgram ==
    /\ Step("decode", "addresses")
    /\ Take(programBytes)
    /\ prog' = gen.seed.sources
    /\ iter' = 0
    /\ UNCHANGED <<hashes, mode, progNum, config, files, mem, addresses, memory, item, hash>>

-----------------------------------------------------------------------------
(* executeIteration. *)

(* Step 1.  The registers may hold anything, so an address that has been    *)
(* combined with one of them may be any line.                               *)
UpdateAddresses ==
    /\ Step("addresses", "load")
    /\ \E line0, line1 \in Lines :
        /\ spAddr0' = Address(line0, spAddr0.sources \cup config \cup reg)
        /\ spAddr1' = Address(line1, spAddr1.sources \cup config \cup reg)
    /\ UNCHANGED <<generator, files, mem, memory, item, hash>>
    /\ UnchangedLoops

(* The sources of the n words from the k-th word of a line on. *)
loaded(line, k, n) ==
    line.sources \cup
        UNION {mem[accessed(line.addr + (k + i) * wordBytes)] : i \in 0 .. n - 1}

(* Steps 2 and 3. *)
LoadLines ==
    /\ Step("load", "execute")
    /\ reg' = reg \cup loaded(spAddr0, 0, numRegisters)
    /\ regF' = loaded(spAddr1, 0, numFloats)
    /\ regE' = loaded(spAddr1, numFloats, numFloats) \cup config
    /\ UNCHANGED <<generator, mem, addresses, memory, item, hash>>
    /\ UnchangedLoops

(* Step 4.  A program may load nothing or any word, and combine any two     *)
(* registers or none.  It may also clear registers r, by ISUB_R or IXOR_R of *)
(* one with itself, all of them or none.  It stores nothing: module          *)
(* Instructions, finding on ISTORE.                                          *)
ExecuteProgram ==
    /\ Step("execute", "dataset")
    /\ \E kept \in {{}, reg},
          mixing \in {{}, ScratchpadSources \cup reg \cup regF \cup regE} :
        /\ reg' = kept \cup prog \cup mixing
        /\ regF' = regF \cup prog \cup mixing
        /\ regE' = regE \cup prog \cup mixing
    /\ UNCHANGED <<generator, mem, addresses, memory, item, hash>>
    /\ UnchangedLoops

itemAt(index) == IF mode = "fast" THEN getItem(index) ELSE computeDatasetItem(index)

(* Steps 5 to 7 with mixDataset: mx is combined with two registers, selects *)
(* an item, and is copied to ma.                                            *)
MixDataset ==
    /\ Step("dataset", "swap")
    /\ \E v \in Words :
        /\ mx' = Value(v, mx.sources \cup config \cup reg)
        /\ item' = itemAt(v % datasetItems)
    /\ reg' = reg \cup mx'.sources \cup {ItemRead}
    /\ ma' = mx'
    /\ UNCHANGED <<generator, regF, regE, mem, addresses, hash>>
    /\ UnchangedLoops

(* Step 8, of two values that are equal. *)
Swap ==
    /\ Step("swap", "store")
    /\ mx' = ma /\ ma' = mx
    /\ UNCHANGED <<generator, files, mem, addresses, item, hash>>
    /\ UnchangedLoops

(* The scratchpad with the first n words of a line overwritten. *)
stored(line, n, sources) ==
    LET written == {accessed(line.addr + i * wordBytes) : i \in 0 .. n - 1}
    IN  [a \in Addresses |-> IF a \in written THEN sources \cup line.sources ELSE mem[a]]

(* Mutant: r goes back to the line it was loaded from. *)
StoreIntegersBack ==
    /\ Step("store", "storeFloats")
    /\ mem' = stored(spAddr0, numRegisters, reg)
    /\ UNCHANGED <<generator, files, addresses, memory, item, hash>>
    /\ UnchangedLoops

(* Step 9. *)
StoreIntegers ==
    /\ Step("store", "storeFloats")
    /\ mem' = stored(spAddr1, numRegisters, reg)
    /\ UNCHANGED <<generator, files, addresses, memory, item, hash>>
    /\ UnchangedLoops

(* Steps 10 and 11, and the end of the iteration. *)
StoreFloats ==
    /\ pc = "storeFloats"
    /\ regF' = regF \cup regE
    /\ mem' = stored(spAddr0, numFloats, regF')
    /\ iter' = iter + 1
    /\ pc' = IF iter + 1 < programIterations THEN "addresses" ELSE "reseed"
    /\ UNCHANGED <<hashes, mode, progNum, generator, reg, regE, addresses, memory, item, hash>>

-----------------------------------------------------------------------------
(* The end of a program, and of a hash. *)

Reseed ==
    /\ pc = "reseed"
    /\ gen' = newGenerator(Seed("4R", reg \cup regF \cup regE))
    /\ progNum' = progNum + 1
    /\ pc' = IF progNum + 1 < programCount THEN "configuration" ELSE "finalize"
    /\ UNCHANGED <<hashes, mode, iter, buffer, config, prog, files, mem, addresses,
                   memory, item, hash>>

(* AesHash1R goes over the whole scratchpad. *)
aesHash1R == ScratchpadSources

Finalize ==
    /\ Step("finalize", "idle")
    /\ hash' = aesHash1R \cup reg \cup regF \cup regE \cup ma.sources \cup mx.sources
    /\ UNCHANGED <<generator, files, mem, addresses, memory, item>>
    /\ UnchangedLoops

Next ==
    \/ InitMachine \/ NewAesGenerator1R \/ FillScratchpad \/ NewAesGenerator4R
    \/ ParseConfiguration \/ DecodeProgram
    \/ UpdateAddresses \/ LoadLines \/ ExecuteProgram \/ MixDataset \/ Swap
    \/ StoreIntegers \/ StoreFloats
    \/ Reseed \/ Finalize

Spec == Init /\ [][Next]_vars

-----------------------------------------------------------------------------
(* Properties. *)

AllSources ==
    {InputOf(h) : h \in 1 .. hashes} \cup
    ((1 .. hashes) \X (0 .. programCount - 1) \X (0 .. programIterations - 1))

(* Every variable in its range, but item, which SameItem is about; sources *)
(* are inputs and items of the hashes begun so far.                        *)
TypeOK ==
    /\ pc \in {"idle", "initialize", "fill", "generator", "configuration", "decode",
              "addresses", "load", "execute", "dataset", "swap", "store",
              "storeFloats", "reseed", "finalize"}
    /\ hashes \in 0 .. maxHashes /\ mode \in Modes
    /\ progNum \in 0 .. programCount /\ iter \in 0 .. programIterations
    /\ gen.state \in Nat /\ gen.pos \in 0 .. stateBytes
    /\ UNION {gen.seed.sources, config, prog, reg, regF, regE, hash} \subseteq AllSources
    /\ mem \in [Addresses -> SUBSET AllSources]
    /\ {spAddr0, spAddr1} \subseteq [addr : Lines, sources : SUBSET AllSources]
    /\ {ma, mx} \subseteq [value : Words, sources : SUBSET AllSources]

(* A hash is computed from its own input and from every dataset item that   *)
(* its programs read, and from nothing that the machine still held from an  *)
(* earlier hash: reset and initialize clear all that a run reads before it  *)
(* writes it (vm.go:45-118).  An item that a program clears from registers  *)
(* is still in spAddr0, which has been combined with a register before the  *)
(* program, and so in the choice of the lines that are written back         *)
(* (vm.go:215-216, :255-268).  What is stated is on what a hash depends,     *)
(* not that the dependence is one to one.                                   *)
HashPure ==
    pc = "idle" /\ hashes > 0 =>
        hash = {InputOf(hashes)} \cup
               ({hashes} \X (0 .. programCount - 1) \X (0 .. programIterations - 1))

(* After an iteration, the line of spAddr1 holds registers r that have the  *)
(* item of this iteration mixed in, and the first half of the line of       *)
(* spAddr0 holds registers f, which do not.  Where both are one line, f is  *)
(* written last (vm.go:255-268).                                            *)
LinesWrittenBack ==
    pc \in {"addresses", "reseed"} /\ iter > 0 =>
        LET last == <<hashes, progNum, iter - 1>>
        IN  /\ \A i \in Registers :
                  last \in mem[spAddr1.addr + i * wordBytes] <=>
                      ~(spAddr0.addr = spAddr1.addr /\ i < numFloats)
            /\ \A i \in 0 .. numFloats - 1 :
                  last \notin mem[spAddr0.addr + i * wordBytes]

(* In either mode the item that is combined with the registers is the one   *)
(* that mx selects, as generateItem makes it (vm.go:302-311, dataset.go:85).*)
SameItem ==
    pc = "swap" => item \in [Registers -> Words] /\ item = generateItem(mx.value % datasetItems)

(* The bytes that the machine reads are the streams of its generators, each *)
(* from its first byte and in order, and every generator has been read to   *)
(* the end of a state when it is dropped or given a new seed                *)
(* (aes_generator.go:73-102, :211-249, vm.go:109-151).                      *)
indexOf(g) == (g.state - 1) * stateBytes + g.pos

Stream == INSTANCE ByteStream WITH
    blockBytes <- stateBytes,
    ReadSizes <- {scratchpadL3Size, configurationBytes, programBytes},
    seed <- gen.seed,
    next <- indexOf(gen),
    out <- [k \in DOMAIN buffer |-> [seed |-> buffer[k].seed, index |-> indexOf(buffer[k])]]

ReadsStream == Stream!Spec
=============================================================================
