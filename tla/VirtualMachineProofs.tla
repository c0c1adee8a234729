------------------------ MODULE VirtualMachineProofs ------------------------
(***************************************************************************)
(* The properties of VirtualMachine for every size of a scratchpad, of a   *)
(* program and of a generator's state, and any number of programs,         *)
(* iterations and hashes.                                                  *)
(***************************************************************************)
EXTENDS VirtualMachine, WordArithmeticProofs

-----------------------------------------------------------------------------
(* Arithmetic. *)

LEMMA DivisibleSum ==
    ASSUME NEW a \in Nat, NEW b \in Nat, NEW d \in Nat, d > 0, a % d = 0, b % d = 0
    PROVE  (a + b) % d = 0
<1>1. PICK q \in Nat : a = d * q
  BY Divides
<1>2. PICK r \in Nat : b = d * r
  BY Divides
<1>3. a + b = d * (q + r) /\ q + r \in Nat
  BY <1>1, <1>2
<1>4. (d * (q + r)) % d = 0
  BY <1>3, Multiple
<1>. QED  BY <1>3, <1>4

-----------------------------------------------------------------------------
(* What a generator gives. *)

IsGenerator(g) ==
    /\ g = [seed |-> g.seed, state |-> g.state, pos |-> g.pos]
    /\ g.state \in Nat /\ g.pos \in 0 .. stateBytes
    /\ g.state = 0 => g.pos = stateBytes

LEMMA NewGenerator ==
    ASSUME NEW s
    PROVE  /\ IsGenerator(newGenerator(s)) /\ newGenerator(s).seed = s
           /\ indexOf(newGenerator(s)) = 0
BY StateAssumption DEF IsGenerator, newGenerator, indexOf

LEMMA OneByte ==
    ASSUME NEW g, IsGenerator(g)
    PROVE  /\ IsGenerator(getByte(g)) /\ getByte(g).seed = g.seed
           /\ indexOf(getByte(g)) = indexOf(g) + 1
           /\ byteOf(g).seed = g.seed /\ indexOf(byteOf(g)) = indexOf(g)
           /\ indexOf(g) \in Nat
<1>1. PICK e, s, p : g = [seed |-> e, state |-> s, pos |-> p]
  BY DEF IsGenerator
<1>2. PICK d : d = stateBytes /\ d \in Nat /\ d > 0
  BY StateAssumption
<1>3. /\ g.seed = e /\ g.state = s /\ g.pos = p
      /\ s \in Nat /\ p \in 0 .. d /\ (s = 0 => p = d)
  BY <1>1, <1>2 DEF IsGenerator
<1>4. PICK product \in Nat : /\ product = s * d /\ (s - 1) * d = product - d
                             /\ s # 0 => product >= d
  BY <1>2, <1>3
<1>5. indexOf(g) = product - d + p
  BY <1>2, <1>3, <1>4 DEF indexOf
<1>6. CASE p = d
  <2>1. refilled(g) = [seed |-> e, state |-> s + 1, pos |-> 0]
    <3>1. generate(g) = [seed |-> e, state |-> s + 1, pos |-> 0]
      BY <1>1 DEF generate
    <3>2. refilled(g) = generate(g)
      BY <1>2, <1>3, <1>6 DEF refilled
    <3>. QED  BY <3>1, <3>2
  <2>2. getByte(g) = [seed |-> e, state |-> s + 1, pos |-> 1]
    BY <2>1 DEF getByte
  <2>3. byteOf(g) = [seed |-> e, state |-> s + 1, pos |-> 0]
    BY <2>1, <1>3 DEF byteOf
  <2>4. IsGenerator(getByte(g)) /\ getByte(g).seed = g.seed /\ byteOf(g).seed = g.seed
    BY <2>2, <2>3, <1>2, <1>3 DEF IsGenerator
  <2>5. (s + 1 - 1) * d = product
    BY <1>3, <1>4
  <2>6. indexOf(getByte(g)) = product + 1
    BY <2>2, <2>5, <1>2, <1>3, <1>4 DEF indexOf
  <2>7. indexOf(byteOf(g)) = product
    BY <2>3, <2>5, <1>2, <1>3, <1>4 DEF indexOf
  <2>. QED  BY <2>4, <2>6, <2>7, <1>2, <1>5, <1>6
<1>7. CASE p < d
  <2>1. refilled(g) = g
    BY <1>2, <1>3, <1>7 DEF refilled
  <2>2. getByte(g) = [seed |-> e, state |-> s, pos |-> p + 1]
    BY <2>1, <1>1 DEF getByte
  <2>3. byteOf(g) = [seed |-> e, state |-> s, pos |-> p]
    BY <2>1, <1>3 DEF byteOf
  <2>4. IsGenerator(getByte(g)) /\ getByte(g).seed = g.seed /\ byteOf(g).seed = g.seed
    BY <2>2, <2>3, <1>2, <1>3, <1>7 DEF IsGenerator
  <2>5. indexOf(getByte(g)) = product - d + (p + 1)
    BY <2>2, <1>2, <1>4 DEF indexOf
  <2>6. indexOf(byteOf(g)) = product - d + p
    BY <2>3, <1>2, <1>4 DEF indexOf
  <2>. QED  BY <2>4, <2>5, <2>6, <1>2, <1>3, <1>4, <1>5, <1>7
<1>. QED  BY <1>2, <1>3, <1>6, <1>7

(* The recursion of getBytes has a solution. *)
LEMMA Taken ==
    ASSUME NEW g, NEW n \in Nat
    PROVE  after(g, n) =
               [k \in 0 .. n |-> IF k = 0 THEN g ELSE getByte(after(g, n)[k - 1])]
<1>. DEFINE Solves(f, m) ==
                f = [k \in 0 .. m |-> IF k = 0 THEN g ELSE getByte(f[k - 1])]
            T == {m \in Nat : ~ \E f : Solves(f, m)}
<1>1. SUFFICES T = {}
  <2>1. \E f : Solves(f, n)
    BY <1>1
  <2>. QED  BY <2>1 DEF after
<1>2. SUFFICES ASSUME NEW m \in T, \A y \in T : m <= y
               PROVE  FALSE
  <2>1. T \subseteq Nat
    OBVIOUS
  <2>. HIDE DEF T
  <2>. QED  BY <1>2, <2>1, Least
<1>3. CASE m = 0
  <2>. DEFINE f == [k \in 0 .. 0 |-> g]
  <2>1. Solves(f, 0)
    OBVIOUS
  <2>. QED  BY <2>1, <1>3
<1>4. CASE m # 0
  <2>1. PICK f : Solves(f, m - 1)
    <3>1. m - 1 \in Nat /\ m - 1 \notin T
      BY <1>2, <1>4
    <3>. QED  BY <3>1
  <2>. DEFINE h == [k \in 0 .. m |-> IF k = m THEN getByte(f[m - 1]) ELSE f[k]]
  <2>2. m \in Nat /\ m - 1 \in Nat
    BY <1>4
  <2>3. \A k \in 0 .. m : h[k] = IF k = 0 THEN g ELSE getByte(h[k - 1])
    <3>1. TAKE k \in 0 .. m
    <3>2. CASE k = 0
      BY <3>2, <2>1, <2>2, <1>4
    <3>3. CASE k # 0 /\ k = m
      BY <3>3, <2>2
    <3>4. CASE k # 0 /\ k # m
      <4>1. k \in 0 .. m - 1 /\ k - 1 \in 0 .. m - 1 /\ k - 1 \in 0 .. m /\ k - 1 # m
        BY <3>4, <2>2
      <4>2. f[k] = getByte(f[k - 1])
        BY <4>1, <3>4, <2>1
      <4>. QED  BY <4>1, <4>2, <3>4
    <3>. QED  BY <3>2, <3>3, <3>4
  <2>4. Solves(h, m)
    BY <2>3
  <2>. HIDE DEF h, Solves
  <2>5. \E e : Solves(e, m)
    BY <2>4
  <2>. QED  BY <2>5
<1>. QED  BY <1>3, <1>4

LEMMA Steps ==
    ASSUME NEW g, IsGenerator(g), NEW n \in Nat, NEW k \in 0 .. n
    PROVE  LET a == after(g, n)[k]
           IN  IsGenerator(a) /\ a.seed = g.seed /\ indexOf(a) = indexOf(g) + k
<1>. DEFINE a == after(g, n)
            P(j) == IsGenerator(a[j]) /\ a[j].seed = g.seed /\ indexOf(a[j]) = indexOf(g) + j
            T == {j \in 0 .. n : ~ P(j)}
<1>0. \A j \in 0 .. n : a[j] = IF j = 0 THEN g ELSE getByte(a[j - 1])
  BY Taken
<1>1. SUFFICES T = {}
  OBVIOUS
<1>2. SUFFICES ASSUME NEW m \in T, \A y \in T : m <= y
               PROVE  FALSE
  <2>1. T \subseteq Nat
    OBVIOUS
  <2>. HIDE DEF T
  <2>. QED  BY <1>2, <2>1, Least
<1>3. m \in 0 .. n /\ ~ P(m)
  OBVIOUS
<1>4. indexOf(g) \in Nat
  BY OneByte
<1>. HIDE DEF a
<1>5. CASE m = 0
  BY <1>0, <1>3, <1>4, <1>5
<1>6. CASE m # 0
  <2>1. m - 1 \in 0 .. n /\ m - 1 \notin T /\ a[m] = getByte(a[m - 1])
    BY <1>0, <1>2, <1>3, <1>6
  <2>2. P(m - 1)
    BY <2>1
  <2>3. /\ IsGenerator(a[m]) /\ a[m].seed = a[m - 1].seed
        /\ indexOf(a[m]) = indexOf(a[m - 1]) + 1
    BY <2>1, <2>2, OneByte
  <2>. QED  BY <1>3, <1>4, <2>2, <2>3
<1>. QED  BY <1>5, <1>6

(* A read gives the next bytes of the stream, and nothing else. *)
LEMMA Bytes ==
    ASSUME NEW g, IsGenerator(g), NEW n \in Nat
    PROVE  /\ IsGenerator(getBytes(g, n)) /\ getBytes(g, n).seed = g.seed
           /\ indexOf(getBytes(g, n)) = indexOf(g) + n
           /\ DOMAIN bytesOf(g, n) = 1 .. n
           /\ \A k \in 1 .. n : /\ bytesOf(g, n)[k].seed = g.seed
                                /\ indexOf(bytesOf(g, n)[k]) = indexOf(g) + k - 1
<1>1. n \in 0 .. n
  OBVIOUS
<1>2. IsGenerator(getBytes(g, n)) /\ getBytes(g, n).seed = g.seed
      /\ indexOf(getBytes(g, n)) = indexOf(g) + n
  BY <1>1, Steps DEF getBytes
<1>3. ASSUME NEW k \in 1 .. n
      PROVE  /\ bytesOf(g, n)[k].seed = g.seed
             /\ indexOf(bytesOf(g, n)[k]) = indexOf(g) + k - 1
  <2>. DEFINE a == after(g, n)[k - 1]
  <2>1. k - 1 \in 0 .. n
    OBVIOUS
  <2>2. IsGenerator(a) /\ a.seed = g.seed /\ indexOf(a) = indexOf(g) + (k - 1)
    BY <2>1, Steps
  <2>3. bytesOf(g, n)[k] = byteOf(a)
    BY DEF bytesOf
  <2>4. byteOf(a).seed = a.seed /\ indexOf(byteOf(a)) = indexOf(a) /\ indexOf(g) \in Nat
    BY <2>2, OneByte
  <2>. QED  BY <2>2, <2>3, <2>4
<1>4. DOMAIN bytesOf(g, n) = 1 .. n
  BY DEF bytesOf
<1>. QED  BY <1>2, <1>3, <1>4

-----------------------------------------------------------------------------
(* The streams. *)

(* Where a generator stands when it may be dropped. *)
AtStateEnd ==
    /\ IsGenerator(gen)
    /\ pc # "decode" => indexOf(gen) % stateBytes = 0
    /\ pc = "decode" => (indexOf(gen) + programBytes) % stateBytes = 0

outOf(bytes) == [k \in DOMAIN bytes |-> [seed |-> bytes[k].seed, index |-> indexOf(bytes[k])]]

StepOfStream ==
    \/ /\ gen'.seed = gen.seed
       /\ \E n \in {scratchpadL3Size, configurationBytes, programBytes} :
             /\ outOf(buffer') = [k \in 1 .. n |->
                    [seed |-> gen.seed, index |-> indexOf(gen) + k - 1]]
             /\ indexOf(gen') = indexOf(gen) + n
    \/ /\ indexOf(gen) % stateBytes = 0
       /\ indexOf(gen') = 0
       /\ buffer' = buffer
    \/ UNCHANGED <<gen, buffer>>

LEMMA Sizes ==
    /\ stateBytes \in Nat /\ stateBytes > 0
    /\ scratchpadL3Size \in Nat /\ configurationBytes \in Nat /\ programBytes \in Nat
    /\ scratchpadL3Size % stateBytes = 0
    /\ (configurationBytes + programBytes) % stateBytes = 0
BY StateAssumption, ScratchpadAssumption, MachineAssumption

LEMMA TakeStep ==
    ASSUME NEW n \in {scratchpadL3Size, configurationBytes, programBytes},
           IsGenerator(gen), Take(n)
    PROVE  /\ IsGenerator(gen') /\ indexOf(gen') = indexOf(gen) + n /\ gen'.seed = gen.seed
           /\ indexOf(gen) \in Nat
           /\ StepOfStream
<1>0. n \in Nat
  BY Sizes
<1>1. IsGenerator(gen') /\ indexOf(gen') = indexOf(gen) + n /\ gen'.seed = gen.seed
  BY <1>0, Bytes DEF Take
<1>2. outOf(buffer') = [k \in 1 .. n |-> [seed |-> gen.seed, index |-> indexOf(gen) + k - 1]]
  <2>1. /\ DOMAIN buffer' = 1 .. n
        /\ \A k \in 1 .. n : /\ buffer'[k].seed = gen.seed
                             /\ indexOf(buffer'[k]) = indexOf(gen) + k - 1
    BY <1>0, Bytes DEF Take
  <2>. QED  BY <2>1 DEF outOf
<1>. QED  BY <1>1, <1>2, OneByte DEF StepOfStream

LEMMA StreamInvariant == AtStateEnd /\ [Next]_vars => AtStateEnd' /\ StepOfStream
<1>. SUFFICES ASSUME AtStateEnd, [Next]_vars PROVE AtStateEnd' /\ StepOfStream
  OBVIOUS
<1>0. IsGenerator(gen) /\ indexOf(gen) \in Nat
  BY OneByte DEF AtStateEnd
<1>. DEFINE Same == UNCHANGED <<gen, buffer>> /\ pc # "decode" /\ pc' # "decode"
            Fresh == /\ \E s : gen' = newGenerator(s)
                     /\ buffer' = buffer /\ pc # "decode" /\ pc' # "decode"
<1>1. CASE Same
  BY <1>1 DEF AtStateEnd, StepOfStream
<1>2. CASE Fresh
  <2>1. IsGenerator(gen') /\ indexOf(gen') = 0
    BY <1>2, NewGenerator
  <2>2. 0 % stateBytes = 0
    BY Sizes
  <2>. QED  BY <1>2, <2>1, <2>2 DEF AtStateEnd, StepOfStream
<1>3. CASE FillScratchpad
  <2>1. Take(scratchpadL3Size) /\ pc = "fill" /\ pc' = "generator"
    BY <1>3 DEF FillScratchpad, Step
  <2>2. /\ IsGenerator(gen') /\ indexOf(gen') = indexOf(gen) + scratchpadL3Size
        /\ StepOfStream
    BY <2>1, <1>0, TakeStep
  <2>3. indexOf(gen) % stateBytes = 0
    BY <2>1 DEF AtStateEnd
  <2>4. (indexOf(gen) + scratchpadL3Size) % stateBytes = 0
    BY <1>0, <2>3, Sizes, DivisibleSum
  <2>. QED  BY <2>1, <2>2, <2>4 DEF AtStateEnd
<1>4. CASE ParseConfiguration
  <2>1. Take(configurationBytes) /\ pc = "configuration" /\ pc' = "decode"
    BY <1>4 DEF ParseConfiguration, Step
  <2>2. /\ IsGenerator(gen') /\ indexOf(gen') = indexOf(gen) + configurationBytes
        /\ StepOfStream
    BY <2>1, <1>0, TakeStep
  <2>3. indexOf(gen) % stateBytes = 0
    BY <2>1 DEF AtStateEnd
  <2>4. (indexOf(gen) + (configurationBytes + programBytes)) % stateBytes = 0
    <3>1. configurationBytes + programBytes \in Nat
      BY Sizes
    <3>. QED  BY <1>0, <2>3, <3>1, Sizes, DivisibleSum
  <2>5. (indexOf(gen) + configurationBytes) + programBytes
            = indexOf(gen) + (configurationBytes + programBytes)
    BY <1>0, Sizes
  <2>. QED  BY <2>1, <2>2, <2>4, <2>5 DEF AtStateEnd
<1>5. CASE DecodeProgram
  <2>1. Take(programBytes) /\ pc = "decode" /\ pc' = "addresses"
    BY <1>5 DEF DecodeProgram, Step
  <2>2. /\ IsGenerator(gen') /\ indexOf(gen') = indexOf(gen) + programBytes
        /\ StepOfStream
    BY <2>1, <1>0, TakeStep
  <2>3. (indexOf(gen) + programBytes) % stateBytes = 0
    BY <2>1 DEF AtStateEnd
  <2>. QED  BY <2>1, <2>2, <2>3 DEF AtStateEnd
<1>6. NewAesGenerator1R \/ NewAesGenerator4R \/ Reseed => Fresh
  BY DEF NewAesGenerator1R, NewAesGenerator4R, Reseed, Step
<1>7. InitMachine \/ UpdateAddresses \/ LoadLines \/ ExecuteProgram => Same
  BY DEF InitMachine, UpdateAddresses, LoadLines, ExecuteProgram, Step, generator
<1>8. MixDataset \/ Swap \/ StoreIntegers \/ StoreFloats \/ Finalize => Same
  BY DEF MixDataset, Swap, StoreIntegers, StoreFloats, Finalize, Step, generator
<1>9. CASE UNCHANGED vars
  BY <1>9 DEF vars, control, generator, AtStateEnd, StepOfStream
<1>. HIDE DEF Same, Fresh
<1>. QED  BY <1>1, <1>2, <1>3, <1>4, <1>5, <1>6, <1>7, <1>8, <1>9 DEF Next

LEMMA InitStream == Init => AtStateEnd /\ Stream!Init
<1>. SUFFICES ASSUME Init PROVE AtStateEnd /\ Stream!Init
  OBVIOUS
<1>1. IsGenerator(gen) /\ indexOf(gen) = 0
  BY NewGenerator DEF Init
<1>2. 0 % stateBytes = 0
  BY Sizes
<1>. QED  BY <1>1, <1>2 DEF Init, AtStateEnd, Stream!Init

LEMMA StreamStep == StepOfStream => [Stream!Next]_(Stream!streamVars)
<1>. SUFFICES ASSUME StepOfStream PROVE [Stream!Next]_(Stream!streamVars)
  OBVIOUS
<1>. QED
  BY DEF StepOfStream, outOf, Stream!Next, Stream!Read, Stream!Reseed, Stream!streamVars

(* The bytes the machine reads are whole streams of its generators. *)
THEOREM Streams == Spec => ReadsStream
<1>. QED  BY InitStream, StreamInvariant, StreamStep, PTL DEF Spec, ReadsStream, Stream!Spec

-----------------------------------------------------------------------------
(* The types. *)

Loop == {"addresses", "load", "execute", "dataset", "swap", "store", "storeFloats"}

(* Where the loops of run are. *)
Loops ==
    /\ pc # "idle" => hashes > 0
    /\ pc \in {"configuration", "decode", "reseed"} \cup Loop => progNum < programCount
    /\ pc \in Loop => iter < programIterations
    /\ pc = "reseed" => iter = programIterations
    /\ pc = "finalize" => progNum = programCount

TypeInv == TypeOK /\ Loops /\ IsGenerator(gen)

LEMMA Bounds ==
    /\ programCount \in Nat /\ programCount > 0
    /\ programIterations \in Nat /\ programIterations > 0
    /\ numFloats \in Nat /\ numFloats > 0 /\ numRegisters \in Nat /\ numRegisters > 0
    /\ maxHashes \in Nat
    /\ wordBytes \in Nat /\ wordBytes > 0
    /\ 0 \in Words
BY MachineAssumption, ItemSizesAssumption, ScratchpadAssumption, ModulusType DEF Words

(* A scratchpad is made of whole words. *)
LEMMA WholeWords == scratchpadL3Size % wordBytes = 0 /\ scratchpadL3Size >= wordBytes
<1>. DEFINE b == wordBytes * numRegisters
<1>1. b \in Nat /\ b > 0 /\ lineBytes = b
  BY Bounds DEF lineBytes
<1>2. scratchpadL3Size \in Nat /\ scratchpadL3Size % b = 0
  BY <1>1, MachineAssumption, ScratchpadAssumption
<1>. HIDE DEF b
<1>3. PICK q \in Nat : scratchpadL3Size = b * q
  BY <1>1, <1>2, Divides
<1>4. scratchpadL3Size = wordBytes * (numRegisters * q) /\ numRegisters * q \in Nat
  BY <1>3, Bounds DEF b
<1>5. (wordBytes * (numRegisters * q)) % wordBytes = 0
  BY <1>4, Bounds, Multiple
<1>. QED  BY <1>4, <1>5, ScratchpadAssumption

(* What is read or written is a word of the scratchpad. *)
LEMMA Accessed == ASSUME NEW a \in Nat PROVE accessed(a) \in Addresses
<1>. DEFINE L == scratchpadL3Size
            w == wordBytes
            inside == a % L
            aligned == inside - (inside % w)
<1>1. L \in Nat /\ L > 0 /\ w \in Nat /\ w > 0 /\ L >= w /\ L % w = 0
  BY ScratchpadAssumption, WholeWords
<1>2. inside \in 0 .. L - 1
  BY <1>1, Quotients
<1>3. aligned \in 0 .. L - 1 /\ aligned % w = 0
  <2>1. /\ inside \div w \in Nat /\ inside % w \in 0 .. w - 1
        /\ inside = w * (inside \div w) + (inside % w)
    BY <1>1, <1>2, Quotients
  <2>2. w * (inside \div w) \in Nat /\ (w * (inside \div w)) % w = 0
    BY <2>1, <1>1, Multiple
  <2>3. aligned = w * (inside \div w)
    BY <2>1, <2>2, <1>2
  <2>4. aligned \in Nat /\ aligned <= inside
    BY <2>1, <2>2, <2>3, <1>2
  <2>5. aligned % w = 0
    BY <2>2, <2>3
  <2>. HIDE DEF aligned, inside
  <2>. QED  BY <2>4, <2>5, <1>1, <1>2
<1>4. L - w \in 0 .. L - 1 /\ (L - w) % w = 0
  <2>1. PICK q \in Nat : L = w * q
    BY <1>1, Divides
  <2>2. q >= 1
    BY <2>1, <1>1
  <2>3. L - w = w * (q - 1) /\ q - 1 \in Nat
    BY <2>1, <2>2, <1>1
  <2>4. (w * (q - 1)) % w = 0
    BY <2>3, <1>1, Multiple
  <2>. QED  BY <2>3, <2>4, <1>1
<1>5. accessed(a) = IF aligned + w > L THEN L - w ELSE aligned
  BY DEF accessed
<1>. QED  BY <1>3, <1>4, <1>5 DEF Addresses

LEMMA FirstLine == 0 \in Lines /\ 0 \in Addresses
<1>1. 0 \in Addresses
  BY ScratchpadAssumption DEF Addresses
<1>2. lineBytes \in Nat /\ lineBytes > 0
  BY Bounds DEF lineBytes
<1>. QED  BY <1>1, <1>2 DEF Lines

(* Sources of what is loaded from a line. *)
LEMMA Loaded ==
    ASSUME NEW line, line.addr \in Lines, NEW k \in Nat, NEW n \in Nat, NEW S,
           line.sources \subseteq S, \A a \in Addresses : mem[a] \subseteq S
    PROVE  loaded(line, k, n) \subseteq S
<1>1. line.addr \in Nat
  BY ScratchpadAssumption DEF Lines, Addresses
<1>2. ASSUME NEW i \in 0 .. n - 1
      PROVE  mem[accessed(line.addr + (k + i) * wordBytes)] \subseteq S
  <2>1. line.addr + (k + i) * wordBytes \in Nat
    BY <1>1, Bounds
  <2>. QED  BY <2>1, Accessed
<1>. QED  BY <1>2 DEF loaded

(* The sources that TypeOK is about, one by one. *)
Sourced ==
    /\ gen.seed.sources \subseteq AllSources
    /\ config \subseteq AllSources /\ prog \subseteq AllSources
    /\ reg \subseteq AllSources /\ regF \subseteq AllSources /\ regE \subseteq AllSources
    /\ hash \subseteq AllSources

Machine ==
    /\ mem \in [Addresses -> SUBSET AllSources]
    /\ spAddr0 \in [addr : Lines, sources : SUBSET AllSources]
    /\ spAddr1 \in [addr : Lines, sources : SUBSET AllSources]
    /\ ma \in [value : Words, sources : SUBSET AllSources]
    /\ mx \in [value : Words, sources : SUBSET AllSources]

Scalars ==
    /\ pc \in {"idle", "initialize", "fill", "generator", "configuration", "decode",
              "addresses", "load", "execute", "dataset", "swap", "store",
              "storeFloats", "reseed", "finalize"}
    /\ hashes \in 0 .. maxHashes /\ mode \in Modes
    /\ progNum \in 0 .. programCount /\ iter \in 0 .. programIterations

LEMMA TypeParts ==
    TypeInv <=> Scalars /\ Sourced /\ Machine /\ Loops /\ IsGenerator(gen)
BY DEF TypeInv, TypeOK, Scalars, Sourced, Machine, IsGenerator

LEMMA InitType == Init => TypeInv
<1>. SUFFICES ASSUME Init PROVE TypeInv
  OBVIOUS
<1>1. IsGenerator(gen) /\ gen.seed.sources = {}
  BY NewGenerator DEF Init, Seed
<1>2. Scalars /\ Loops
  BY Bounds DEF Init, Scalars, Loops, Loop
<1>3. Sourced
  BY <1>1 DEF Init, Sourced
<1>4. Machine
  BY FirstLine, Bounds DEF Init, Machine, Address, Value
<1>. QED  BY <1>1, <1>2, <1>3, <1>4, TypeParts

LEMMA GeneratorType == AtStateEnd /\ [Next]_vars => IsGenerator(gen')
BY StreamInvariant DEF AtStateEnd

LEMMA ScalarsType == TypeInv /\ [Next]_vars => Scalars' /\ Loops'
<1>. SUFFICES ASSUME TypeInv, [Next]_vars PROVE Scalars' /\ Loops'
  OBVIOUS
<1>0. Scalars /\ Loops
  BY TypeParts
<1>. USE <1>0, Bounds DEF Scalars, Loops, Loop, Step, UnchangedLoops
<1>1. CASE InitMachine
  BY <1>1 DEF InitMachine
<1>2. CASE NewAesGenerator1R \/ FillScratchpad \/ ParseConfiguration
  BY <1>2 DEF NewAesGenerator1R, FillScratchpad, ParseConfiguration
<1>3. CASE NewAesGenerator4R
  BY <1>3 DEF NewAesGenerator4R
<1>4. CASE DecodeProgram
  BY <1>4 DEF DecodeProgram
<1>5. CASE UpdateAddresses \/ LoadLines \/ ExecuteProgram
  BY <1>5 DEF UpdateAddresses, LoadLines, ExecuteProgram
<1>6. CASE MixDataset \/ Swap \/ StoreIntegers
  BY <1>6 DEF MixDataset, Swap, StoreIntegers
<1>7. CASE StoreFloats
  BY <1>7 DEF StoreFloats
<1>8. CASE Reseed
  BY <1>8 DEF Reseed
<1>9. CASE Finalize
  BY <1>9 DEF Finalize
<1>10. CASE UNCHANGED vars
  BY <1>10 DEF vars, control
<1>. QED  BY <1>1, <1>2, <1>3, <1>4, <1>5, <1>6, <1>7, <1>8, <1>9, <1>10 DEF Next

LEMMA SourcesGrow ==
    ASSUME TypeInv, [Next]_vars
    PROVE  /\ AllSources \subseteq AllSources'
           /\ ~ InitMachine => AllSources' = AllSources
<1>0. hashes \in Nat
  BY TypeParts, Bounds DEF Scalars
<1>1. CASE InitMachine
  <2>1. hashes' = hashes + 1
    BY <1>1 DEF InitMachine
  <2>2. 1 .. hashes \subseteq 1 .. hashes'
    BY <1>0, <2>1
  <2>. QED  BY <1>1, <2>2 DEF AllSources
<1>2. CASE ~ InitMachine
  <2>1. hashes' = hashes
    BY <1>2 DEF Next, NewAesGenerator1R, FillScratchpad, NewAesGenerator4R,
        ParseConfiguration, DecodeProgram, UpdateAddresses, LoadLines, ExecuteProgram,
        MixDataset, Swap, StoreIntegers, StoreFloats, Reseed, Finalize, UnchangedLoops,
        vars, control
  <2>. QED  BY <1>2, <2>1 DEF AllSources
<1>. QED  BY <1>1, <1>2

(* The sources at the step that reads them. *)
LEMMA InputSource == TypeInv /\ pc # "idle" => InputOf(hashes) \in AllSources
<1>. SUFFICES ASSUME TypeInv, pc # "idle" PROVE InputOf(hashes) \in AllSources
  OBVIOUS
<1>1. hashes \in 1 .. hashes
  BY TypeParts, Bounds DEF Scalars, Loops
<1>. QED  BY <1>1 DEF AllSources

LEMMA ItemSource == TypeInv /\ pc \in Loop => ItemRead \in AllSources
<1>. SUFFICES ASSUME TypeInv, pc \in Loop PROVE ItemRead \in AllSources
  OBVIOUS
<1>1. hashes \in 1 .. hashes
  BY TypeParts, Bounds DEF Scalars, Loops, Loop
<1>2. progNum \in 0 .. programCount - 1 /\ iter \in 0 .. programIterations - 1
  BY TypeParts, Bounds DEF Scalars, Loops
<1>. QED  BY <1>1, <1>2 DEF AllSources, ItemRead

LEMMA StoredSources ==
    ASSUME NEW line, NEW n, NEW sources, NEW S,
           mem \in [Addresses -> SUBSET S], line.sources \subseteq S, sources \subseteq S
    PROVE  stored(line, n, sources) \in [Addresses -> SUBSET S]
BY DEF stored

LEMMA TakeKeepsSeed ==
    ASSUME NEW n \in {scratchpadL3Size, configurationBytes, programBytes},
           IsGenerator(gen), Take(n)
    PROVE  gen'.seed = gen.seed
BY TakeStep

LEMMA SourcesType == TypeInv /\ [Next]_vars => Sourced' /\ Machine'
<1>. SUFFICES ASSUME TypeInv, [Next]_vars PROVE Sourced' /\ Machine'
  OBVIOUS
<1>0. Scalars /\ Sourced /\ Machine /\ Loops /\ IsGenerator(gen)
  BY TypeParts
<1>1. CASE InitMachine
  <2>1. AllSources \subseteq AllSources'
    BY SourcesGrow
  <2>2. Sourced'
    BY <1>0, <1>1, <2>1 DEF InitMachine, reset, Sourced, generator
  <2>3. Machine'
    BY <1>1, FirstLine, Bounds DEF InitMachine, reset, Machine, Address, Value
  <2>. QED  BY <2>2, <2>3
<1>2. SUFFICES ASSUME ~ InitMachine, AllSources' = AllSources PROVE Sourced' /\ Machine'
  BY <1>1, SourcesGrow
<1>3. \A a \in Addresses : mem[a] \subseteq AllSources
  BY <1>0 DEF Machine
<1>4. ScratchpadSources \subseteq AllSources
  BY <1>3 DEF ScratchpadSources
<1>. USE <1>0, <1>2
<1>5. CASE NewAesGenerator1R
  <2>1. gen'.seed.sources = {InputOf(hashes)} /\ InputOf(hashes) \in AllSources
    BY <1>5, InputSource, NewGenerator DEF NewAesGenerator1R, Step, Seed
  <2>. QED  BY <1>5, <2>1 DEF NewAesGenerator1R, Sourced, Machine, files, addresses, memory
<1>6. CASE FillScratchpad
  <2>1. gen'.seed = gen.seed
    BY <1>6, TakeKeepsSeed DEF FillScratchpad
  <2>. QED  BY <1>6, <2>1 DEF FillScratchpad, Sourced, Machine, files, addresses, memory
<1>7. CASE NewAesGenerator4R
  <2>1. gen'.seed.sources = gen.seed.sources
    BY <1>7, NewGenerator DEF NewAesGenerator4R, Seed
  <2>. QED  BY <1>7, <2>1 DEF NewAesGenerator4R, Sourced, Machine, files, addresses, memory
<1>8. CASE ParseConfiguration
  <2>1. gen'.seed = gen.seed
    BY <1>8, TakeKeepsSeed DEF ParseConfiguration
  <2>. QED  BY <1>8, <2>1 DEF ParseConfiguration, Sourced, Machine, files, addresses, memory
<1>9. CASE DecodeProgram
  <2>1. gen'.seed = gen.seed
    BY <1>9, TakeKeepsSeed DEF DecodeProgram
  <2>. QED  BY <1>9, <2>1 DEF DecodeProgram, Sourced, Machine, files, addresses, memory
<1>10. CASE UpdateAddresses
  BY <1>10 DEF UpdateAddresses, Sourced, Machine, Address, generator, files, memory
<1>11. CASE LoadLines
  <2>1. /\ spAddr0.addr \in Lines /\ spAddr0.sources \subseteq AllSources
        /\ spAddr1.addr \in Lines /\ spAddr1.sources \subseteq AllSources
    BY DEF Machine
  <2>2. /\ loaded(spAddr0, 0, numRegisters) \subseteq AllSources
        /\ loaded(spAddr1, 0, numFloats) \subseteq AllSources
        /\ loaded(spAddr1, numFloats, numFloats) \subseteq AllSources
    BY <1>3, <2>1, Loaded, Bounds
  <2>. QED  BY <1>11, <2>2 DEF LoadLines, Sourced, Machine, generator, addresses, memory
<1>12. CASE ExecuteProgram
  <2>1. PICK kept \in {{}, reg},
             mixing \in {{}, ScratchpadSources \cup reg \cup regF \cup regE} :
            /\ reg' = kept \cup prog \cup mixing
            /\ regF' = regF \cup prog \cup mixing
            /\ regE' = regE \cup prog \cup mixing
    BY <1>12 DEF ExecuteProgram
  <2>2. kept \subseteq AllSources /\ mixing \subseteq AllSources
    BY <1>4 DEF Sourced
  <2>3. UNCHANGED <<generator, mem, addresses, memory, hash>>
    BY <1>12 DEF ExecuteProgram
  <2>. QED  BY <2>1, <2>2, <2>3 DEF Sourced, Machine, generator, addresses, memory
<1>13. CASE MixDataset
  <2>1. ItemRead \in AllSources
    BY <1>13, ItemSource DEF MixDataset, Step, Loop
  <2>2. mx' \in [value : Words, sources : SUBSET AllSources] /\ ma' = mx'
        /\ reg' = reg \cup mx'.sources \cup {ItemRead}
    BY <1>13 DEF MixDataset, Value, Sourced, Machine
  <2>3. UNCHANGED <<generator, regF, regE, mem, addresses, hash>>
    BY <1>13 DEF MixDataset
  <2>. QED  BY <2>1, <2>2, <2>3 DEF Sourced, Machine, generator, addresses
<1>14. CASE Swap
  BY <1>14 DEF Swap, Sourced, Machine, generator, files, addresses
<1>15. CASE StoreIntegers
  <2>1. mem' \in [Addresses -> SUBSET AllSources]
    BY <1>15, StoredSources DEF StoreIntegers, Sourced, Machine
  <2>. QED  BY <1>15, <2>1 DEF StoreIntegers, Sourced, Machine, generator, files, addresses, memory
<1>16. CASE StoreFloats
  <2>1. regF' \subseteq AllSources
    BY <1>16 DEF StoreFloats, Sourced
  <2>2. mem' \in [Addresses -> SUBSET AllSources]
    BY <1>16, <2>1, StoredSources DEF StoreFloats, Machine
  <2>. QED  BY <1>16, <2>1, <2>2 DEF StoreFloats, Sourced, Machine, generator, addresses, memory
<1>17. CASE Reseed
  <2>1. gen'.seed.sources = reg \cup regF \cup regE
    BY <1>17, NewGenerator DEF Reseed, Seed
  <2>. QED  BY <1>17, <2>1 DEF Reseed, Sourced, Machine, files, addresses, memory
<1>18. CASE Finalize
  <2>1. hash' \subseteq AllSources
    BY <1>18, <1>4 DEF Finalize, aesHash1R, Sourced, Machine
  <2>. QED  BY <1>18, <2>1 DEF Finalize, Sourced, Machine, generator, files, addresses, memory
<1>19. CASE UNCHANGED vars
  BY <1>19 DEF vars, Sourced, Machine, generator, files, addresses, memory
<1>. QED
  BY <1>5, <1>6, <1>7, <1>8, <1>9, <1>10, <1>11, <1>12, <1>13, <1>14, <1>15, <1>16,
     <1>17, <1>18, <1>19 DEF Next

LEMMA TypeInvariant == TypeInv /\ AtStateEnd /\ [Next]_vars => TypeInv'
<1>. SUFFICES ASSUME TypeInv, AtStateEnd, [Next]_vars PROVE TypeInv'
  OBVIOUS
<1>1. (Scalars /\ Sourced /\ Machine /\ Loops /\ IsGenerator(gen))'
  BY ScalarsType, SourcesType, GeneratorType
<1>2. TypeInv' <=> (Scalars /\ Sourced /\ Machine /\ Loops /\ IsGenerator(gen))'
  BY DEF TypeInv, TypeOK, Scalars, Sourced, Machine, IsGenerator
<1>. QED  BY <1>1, <1>2

(* Every variable in its range, for every size. *)
THEOREM TypeCorrect == Spec => []TypeOK
<1>1. Init => TypeInv /\ AtStateEnd
  BY InitType, InitStream
<1>2. (TypeInv /\ AtStateEnd) /\ [Next]_vars => (TypeInv /\ AtStateEnd)'
  BY TypeInvariant, StreamInvariant
<1>3. TypeInv => TypeOK
  BY DEF TypeInv
<1>. QED  BY <1>1, <1>2, <1>3, PTL DEF Spec

-----------------------------------------------------------------------------
(* What a hash is computed from.  Until it is finished, everything that a  *)
(* step reads has no source but the input and the items read so far.  Of    *)
(* those items, all but the last are in spAddr0 when a program, which may   *)
(* clear registers, is executed, and the lines that are written back follow *)
(* from spAddr0.                                                            *)

Programs == 0 .. programCount - 1
Iterations == 0 .. programIterations - 1

HasRead(p, i) ==
    /\ pc \notin {"initialize", "fill", "generator"}
    /\ \/ p < progNum
       \/ /\ p = progNum /\ pc \in {"reseed"} \cup Loop
          /\ i < iter \/ (i = iter /\ pc \in {"swap", "store", "storeFloats"})

ItemsRead == {t \in {hashes} \X Programs \X Iterations : HasRead(t[2], t[3])}
Sources == {InputOf(hashes)} \cup ItemsRead

OnlySources ==
    /\ reg \subseteq Sources /\ regF \subseteq Sources /\ regE \subseteq Sources
    /\ \A a \in Addresses : mem[a] \subseteq Sources
    /\ spAddr0.sources \subseteq Sources /\ spAddr1.sources \subseteq Sources
    /\ ma.sources \subseteq Sources /\ mx.sources \subseteq Sources
    /\ pc # "initialize" => gen.seed.sources \subseteq Sources
    /\ pc \in {"decode"} \cup Loop => config \subseteq Sources
    /\ pc \in Loop => prog \subseteq Sources

AllOfThem ==
    /\ ItemsRead \subseteq spAddr0.sources \cup reg
    /\ pc \in {"load", "execute", "dataset"} => ItemsRead \subseteq spAddr0.sources
    /\ pc \in {"reseed", "finalize"} => spAddr0.sources \subseteq ScratchpadSources
    /\ pc # "initialize" => InputOf(hashes) \in gen.seed.sources
    /\ pc \in Loop => InputOf(hashes) \in prog
    /\ pc \in {"dataset", "swap", "store", "storeFloats", "reseed", "finalize"} =>
           InputOf(hashes) \in reg

Pure == pc # "idle" => OnlySources /\ AllOfThem

LEMMA ItemsKept ==
    ASSUME hashes' = hashes,
           \A p \in Programs, i \in Iterations : HasRead(p, i)' <=> HasRead(p, i)
    PROVE  ItemsRead' = ItemsRead /\ Sources' = Sources
<1>1. \A t \in {hashes} \X Programs \X Iterations : t[2] \in Programs /\ t[3] \in Iterations
  OBVIOUS
<1>2. ItemsRead' = ItemsRead
  BY <1>1 DEF ItemsRead
<1>. QED  BY <1>2 DEF Sources

(* No step but that of mixDataset reads an item. *)
LEMMA NothingRead ==
    ASSUME TypeInv, Next, ~ InitMachine, ~ MixDataset, ~ Finalize
    PROVE  ItemsRead' = ItemsRead /\ Sources' = Sources
<1>0. /\ progNum \in Nat /\ iter \in Nat /\ programCount \in Nat /\ programIterations \in Nat
      /\ (pc = "reseed" => iter = programIterations)
  BY TypeParts, Bounds DEF Scalars, Loops
<1>. USE <1>0 DEF Step, UnchangedLoops, HasRead, Loop, Programs, Iterations
<1>1. CASE NewAesGenerator1R \/ FillScratchpad
  BY <1>1, ItemsKept DEF NewAesGenerator1R, FillScratchpad
<1>2. CASE NewAesGenerator4R
  BY <1>2, ItemsKept DEF NewAesGenerator4R
<1>3. CASE ParseConfiguration
  BY <1>3, ItemsKept DEF ParseConfiguration
<1>4. CASE DecodeProgram
  BY <1>4, ItemsKept DEF DecodeProgram
<1>5. CASE UpdateAddresses \/ LoadLines \/ ExecuteProgram
  BY <1>5, ItemsKept DEF UpdateAddresses, LoadLines, ExecuteProgram
<1>6. CASE Swap \/ StoreIntegers
  BY <1>6, ItemsKept DEF Swap, StoreIntegers
<1>7. CASE StoreFloats
  BY <1>7, ItemsKept DEF StoreFloats
<1>8. CASE Reseed
  BY <1>8, ItemsKept DEF Reseed
<1>. QED  BY <1>1, <1>2, <1>3, <1>4, <1>5, <1>6, <1>7, <1>8 DEF Next

LEMMA OneRead ==
    ASSUME TypeInv, MixDataset
    PROVE  ItemsRead' = ItemsRead \cup {ItemRead} /\ Sources' = Sources \cup {ItemRead}
<1>0. /\ progNum \in Programs /\ iter \in Iterations
      /\ pc = "dataset" /\ pc' = "swap" /\ UNCHANGED <<hashes, progNum, iter>>
  BY TypeParts, Bounds DEF Scalars, Loops, Loop, MixDataset, Step, UnchangedLoops,
     Programs, Iterations
<1>1. \A p \in Programs, i \in Iterations :
          HasRead(p, i)' <=> HasRead(p, i) \/ (p = progNum /\ i = iter)
  BY <1>0 DEF HasRead, Loop, Programs, Iterations
<1>2. \A t \in {hashes} \X Programs \X Iterations :
          /\ t[2] \in Programs /\ t[3] \in Iterations
          /\ t = ItemRead <=> t[2] = progNum /\ t[3] = iter
  BY <1>0 DEF ItemRead
<1>3. ItemRead \in {hashes} \X Programs \X Iterations
  BY <1>0 DEF ItemRead
<1>4. ItemsRead' = {t \in {hashes} \X Programs \X Iterations : HasRead(t[2], t[3])'}
  BY <1>0 DEF ItemsRead, Programs, Iterations
<1>5. ItemsRead' = ItemsRead \cup {ItemRead}
  BY <1>1, <1>2, <1>3, <1>4 DEF ItemsRead
<1>6. InputOf(hashes)' = InputOf(hashes)
  BY <1>0 DEF InputOf
<1>. QED  BY <1>5, <1>6 DEF Sources

(* A hash begins with nothing. *)
LEMMA PureInit == ASSUME InitMachine PROVE Pure'
<1>1. pc' = "initialize" /\ ItemsRead' = {}
  BY DEF InitMachine, Step, ItemsRead, HasRead
<1>2. /\ reg' = {} /\ regF' = {} /\ regE' = {} /\ \A a \in Addresses : mem'[a] = {}
      /\ spAddr0'.sources = {} /\ spAddr1'.sources = {}
      /\ ma'.sources = {} /\ mx'.sources = {}
  BY DEF InitMachine, reset, Address, Value
<1>. QED  BY <1>1, <1>2 DEF Pure, OnlySources, AllOfThem, Loop

LEMMA PureStoredBy ==
    ASSUME NEW line, NEW n, NEW sources, NEW S,
           \A a \in Addresses : mem[a] \subseteq S, line.sources \subseteq S, sources \subseteq S
    PROVE  \A a \in Addresses : stored(line, n, sources)[a] \subseteq S
BY DEF stored

(* What the choice of a line follows from is in the words written to it. *)
LEMMA LineStored ==
    ASSUME NEW line, line.addr \in Lines, NEW n \in Nat, n > 0, NEW sources,
           mem' = stored(line, n, sources)
    PROVE  line.sources \subseteq ScratchpadSources'
<1>. DEFINE written == {accessed(line.addr + i * wordBytes) : i \in 0 .. n - 1}
            a == accessed(line.addr + 0 * wordBytes)
<1>1. line.addr + 0 * wordBytes \in Nat /\ 0 \in 0 .. n - 1
  BY ScratchpadAssumption, Bounds DEF Lines, Addresses
<1>2. a \in Addresses /\ a \in written
  BY <1>1, Accessed
<1>3. mem'[a] = sources \cup line.sources
  BY <1>2 DEF stored
<1>. QED  BY <1>2, <1>3 DEF ScratchpadSources

LEMMA PureStep ==
    ASSUME TypeInv, Pure, Next, ~ InitMachine, ~ Finalize
    PROVE  Pure'
<1>1. pc # "idle" /\ UNCHANGED hashes
  BY DEF Next, NewAesGenerator1R, FillScratchpad, NewAesGenerator4R,
     ParseConfiguration, DecodeProgram, UpdateAddresses, LoadLines, ExecuteProgram,
     MixDataset, Swap, StoreIntegers, StoreFloats, Reseed, UnchangedLoops, Step
<1>2. /\ OnlySources /\ AllOfThem
      /\ Scalars /\ Sourced /\ Machine /\ Loops /\ IsGenerator(gen)
  BY <1>1, TypeParts DEF Pure
<1>3. InputOf(hashes)' = InputOf(hashes) /\ InputOf(hashes) \in Sources
  BY <1>1 DEF InputOf, Sources
<1>4. ScratchpadSources \subseteq Sources
  BY <1>2 DEF OnlySources, ScratchpadSources
<1>5. SUFFICES OnlySources' /\ AllOfThem'
  BY DEF Pure
<1>6. CASE MixDataset
  <2>1. ItemsRead' = ItemsRead \cup {ItemRead} /\ Sources' = Sources \cup {ItemRead}
    BY <1>6, OneRead
  <2>2. pc = "dataset" /\ pc' = "swap" /\ UNCHANGED <<generator, regF, regE, mem, addresses>>
    BY <1>6 DEF MixDataset, Step
  <2>3. /\ mx'.sources = mx.sources \cup config \cup reg /\ ma' = mx'
        /\ reg' = reg \cup mx'.sources \cup {ItemRead}
    BY <1>6 DEF MixDataset, Value
  <2>4. OnlySources'
    BY <1>2, <2>1, <2>2, <2>3 DEF OnlySources, Loop, generator, addresses
  <2>5. AllOfThem'
    <3>1. ItemsRead \subseteq spAddr0.sources /\ InputOf(hashes) \in reg
          /\ InputOf(hashes) \in gen.seed.sources /\ InputOf(hashes) \in prog
      BY <1>2, <2>2 DEF AllOfThem, Loop
    <3>2. spAddr0' = spAddr0 /\ gen' = gen /\ prog' = prog
      BY <2>2 DEF addresses, generator
    <3>3. ItemsRead' \subseteq spAddr0'.sources \cup reg' /\ InputOf(hashes) \in reg'
      BY <2>1, <2>3, <3>1, <3>2
    <3>. QED  BY <1>3, <2>2, <3>1, <3>2, <3>3 DEF AllOfThem
  <2>. QED  BY <2>4, <2>5
<1>7. SUFFICES ASSUME ~ MixDataset, ItemsRead' = ItemsRead, Sources' = Sources
               PROVE  OnlySources' /\ AllOfThem'
  BY <1>6, NothingRead
<1>. USE <1>2, <1>3, <1>7 DEF OnlySources, AllOfThem, Loop, Step,
         generator, files, addresses, memory
<1>8. CASE NewAesGenerator1R
  <2>1. gen'.seed.sources = {InputOf(hashes)}
    BY <1>8, NewGenerator DEF NewAesGenerator1R, Seed
  <2>. QED  BY <1>8, <2>1 DEF NewAesGenerator1R
<1>9. CASE FillScratchpad
  <2>1. gen'.seed = gen.seed
    BY <1>9, TakeKeepsSeed DEF FillScratchpad
  <2>. QED  BY <1>9, <2>1 DEF FillScratchpad
<1>10. CASE NewAesGenerator4R
  <2>1. gen'.seed.sources = gen.seed.sources
    BY <1>10, NewGenerator DEF NewAesGenerator4R, Seed
  <2>. QED  BY <1>10, <2>1 DEF NewAesGenerator4R
<1>11. CASE ParseConfiguration
  <2>1. gen'.seed = gen.seed
    BY <1>11, TakeKeepsSeed DEF ParseConfiguration
  <2>. QED  BY <1>11, <2>1 DEF ParseConfiguration
<1>12. CASE DecodeProgram
  <2>1. gen'.seed = gen.seed
    BY <1>12, TakeKeepsSeed DEF DecodeProgram
  <2>. QED  BY <1>12, <2>1 DEF DecodeProgram
<1>13. CASE UpdateAddresses
  <2>1. /\ spAddr0'.sources = spAddr0.sources \cup config \cup reg
        /\ spAddr1'.sources = spAddr1.sources \cup config \cup reg
    BY <1>13 DEF UpdateAddresses, Address
  <2>. QED  BY <1>13, <2>1 DEF UpdateAddresses
<1>14. CASE LoadLines
  <2>1. spAddr0.addr \in Lines /\ spAddr1.addr \in Lines
    BY DEF Machine
  <2>2. /\ loaded(spAddr0, 0, numRegisters) \subseteq Sources
        /\ loaded(spAddr1, 0, numFloats) \subseteq Sources
        /\ loaded(spAddr1, numFloats, numFloats) \subseteq Sources
    BY <2>1, Loaded, Bounds
  <2>. QED  BY <1>14, <2>2 DEF LoadLines
<1>15. CASE ExecuteProgram
  <2>1. PICK kept \in {{}, reg},
             mixing \in {{}, ScratchpadSources \cup reg \cup regF \cup regE} :
            /\ reg' = kept \cup prog \cup mixing
            /\ regF' = regF \cup prog \cup mixing
            /\ regE' = regE \cup prog \cup mixing
    BY <1>15 DEF ExecuteProgram
  <2>2. kept \subseteq Sources /\ mixing \subseteq Sources /\ prog \subseteq Sources
    BY <1>4, <1>15 DEF ExecuteProgram
  <2>3. pc = "execute" /\ pc' = "dataset" /\ UNCHANGED <<generator, mem, addresses, memory>>
    BY <1>15 DEF ExecuteProgram
  <2>. QED  BY <2>1, <2>2, <2>3
<1>16. CASE Swap
  BY <1>16 DEF Swap
<1>17. CASE StoreIntegers
  <2>1. \A a \in Addresses : mem'[a] \subseteq Sources
    BY <1>17, PureStoredBy DEF StoreIntegers
  <2>. QED  BY <1>17, <2>1 DEF StoreIntegers
<1>18. CASE StoreFloats
  <2>1. regF' = regF \cup regE /\ regF' \subseteq Sources
    BY <1>18 DEF StoreFloats
  <2>2. \A a \in Addresses : mem'[a] \subseteq Sources
    BY <1>18, <2>1, PureStoredBy DEF StoreFloats
  <2>3. pc = "storeFloats" /\ pc' \in {"addresses", "reseed"}
    BY <1>18 DEF StoreFloats
  <2>4. spAddr0'.sources \subseteq ScratchpadSources'
    <3>1. mem' = stored(spAddr0, numFloats, regF \cup regE) /\ spAddr0' = spAddr0
      BY <1>18 DEF StoreFloats
    <3>2. spAddr0.addr \in Lines
      BY DEF Machine
    <3>. QED  BY <3>1, <3>2, LineStored, Bounds
  <2>. QED  BY <1>18, <2>1, <2>2, <2>3, <2>4 DEF StoreFloats
<1>19. CASE Reseed
  <2>1. gen'.seed.sources = reg \cup regF \cup regE
    BY <1>19, NewGenerator DEF Reseed, Seed
  <2>2. pc = "reseed" /\ pc' \in {"configuration", "finalize"}
    BY <1>19 DEF Reseed
  <2>3. spAddr0' = spAddr0 /\ ScratchpadSources' = ScratchpadSources
    BY <1>19 DEF Reseed, ScratchpadSources
  <2>. QED  BY <1>19, <2>1, <2>2, <2>3 DEF Reseed
<1>. QED
  BY <1>8, <1>9, <1>10, <1>11, <1>12, <1>13, <1>14, <1>15, <1>16, <1>17, <1>18, <1>19
     DEF Next

(* All items have been read at the end, and so they are all in the hash. *)
LEMMA PureFinalize ==
    ASSUME TypeInv, Pure, Finalize
    PROVE  HashPure'
<1>1. /\ pc = "finalize" /\ progNum = programCount /\ UNCHANGED hashes
      /\ OnlySources /\ AllOfThem
  BY TypeParts DEF Finalize, Step, UnchangedLoops, Loops, Pure
<1>2. ItemsRead = {hashes} \X Programs \X Iterations
  <2>1. \A p \in Programs, i \in Iterations : HasRead(p, i)
    BY <1>1, Bounds DEF HasRead, Programs
  <2>2. \A t \in {hashes} \X Programs \X Iterations : t[2] \in Programs /\ t[3] \in Iterations
    OBVIOUS
  <2>. QED  BY <2>1, <2>2 DEF ItemsRead
<1>3. ScratchpadSources \subseteq Sources
  BY <1>1 DEF OnlySources, ScratchpadSources
<1>4. hash' \subseteq Sources
  BY <1>1, <1>3 DEF Finalize, aesHash1R, OnlySources
<1>5. Sources \subseteq hash'
  BY <1>1 DEF Finalize, AllOfThem, Sources, aesHash1R
<1>. QED  BY <1>1, <1>2, <1>4, <1>5 DEF HashPure, Sources, InputOf, Programs, Iterations

LEMMA PureInvariant ==
    TypeInv /\ Pure /\ HashPure /\ [Next]_vars => Pure' /\ HashPure'
<1>. SUFFICES ASSUME TypeInv, Pure, HashPure, [Next]_vars PROVE Pure' /\ HashPure'
  OBVIOUS
<1>1. CASE InitMachine
  <2>1. pc' # "idle"
    BY <1>1 DEF InitMachine, Step
  <2>. QED  BY <1>1, <2>1, PureInit DEF HashPure
<1>2. CASE Finalize
  <2>1. pc' = "idle"
    BY <1>2 DEF Finalize, Step
  <2>. QED  BY <1>2, <2>1, PureFinalize DEF Pure
<1>3. CASE Next /\ ~ InitMachine /\ ~ Finalize
  <2>1. pc' # "idle"
    BY <1>3 DEF Next, NewAesGenerator1R, FillScratchpad, NewAesGenerator4R,
       ParseConfiguration, DecodeProgram, UpdateAddresses, LoadLines, ExecuteProgram,
       MixDataset, Swap, StoreIntegers, StoreFloats, Reseed, Step
  <2>. QED  BY <1>3, <2>1, PureStep DEF HashPure
<1>4. CASE UNCHANGED vars
  BY <1>4 DEF vars, control, generator, files, addresses, memory, Pure, HashPure,
     OnlySources, AllOfThem, Sources, ItemsRead, HasRead, InputOf, ScratchpadSources
<1>. QED  BY <1>1, <1>2, <1>3, <1>4

(* A hash is computed from its input and its items, for every size. *)
THEOREM Purity == Spec => []HashPure
<1>1. Init => (TypeInv /\ AtStateEnd) /\ (Pure /\ HashPure)
  BY InitType, InitStream DEF Init, Pure, HashPure
<1>2. (TypeInv /\ AtStateEnd) /\ (Pure /\ HashPure) /\ [Next]_vars
          => ((TypeInv /\ AtStateEnd) /\ (Pure /\ HashPure))'
  BY TypeInvariant, StreamInvariant, PureInvariant
<1>. QED  BY <1>1, <1>2, PTL DEF Spec

-----------------------------------------------------------------------------
(* The lines that an iteration writes. *)

LEMMA LineSize ==
    /\ lineBytes \in Nat /\ lineBytes > 0 /\ lineBytes = numRegisters * wordBytes
    /\ lineBytes % wordBytes = 0
    /\ scratchpadL3Size \in Nat /\ scratchpadL3Size % lineBytes = 0
<1>1. lineBytes = wordBytes * numRegisters
  BY Bounds DEF lineBytes
<1>2. (wordBytes * numRegisters) % wordBytes = 0
  BY Bounds, Multiple
<1>. QED  BY <1>1, <1>2, Bounds, MachineAssumption, ScratchpadAssumption DEF lineBytes

(* The i-th word of a line. *)
LEMMA WordInLine ==
    ASSUME NEW i \in Registers
    PROVE  i * wordBytes \in 0 .. lineBytes - wordBytes /\ (i * wordBytes) % wordBytes = 0
<1>1. i \in Nat /\ i <= numRegisters - 1
  BY Bounds DEF Registers
<1>2. PICK k \in Nat : k = numRegisters - 1 - i
  BY <1>1, Bounds
<1>3. lineBytes = i * wordBytes + k * wordBytes + wordBytes
  <2>1. numRegisters = i + k + 1
    BY <1>1, <1>2, Bounds
  <2>. QED  BY <2>1, <1>1, <1>2, Bounds DEF lineBytes
<1>4. i * wordBytes \in Nat /\ k * wordBytes \in Nat
  BY <1>1, <1>2, Bounds
<1>5. i * wordBytes = wordBytes * i /\ (wordBytes * i) % wordBytes = 0
  BY <1>1, Bounds, Multiple
<1>. QED  BY <1>3, <1>4, <1>5, Bounds

LEMMA LineWord ==
    ASSUME NEW l \in Lines, NEW i \in Registers
    PROVE  LET a == l + i * wordBytes IN a \in Addresses /\ accessed(a) = a
<1>. DEFINE o == i * wordBytes
            L == scratchpadL3Size
            a == l + o
<1>1. l \in 0 .. L - 1 /\ l \in Nat /\ l % wordBytes = 0 /\ l % lineBytes = 0
  BY DEF Lines, Addresses
<1>2. o \in 0 .. lineBytes - wordBytes /\ o % wordBytes = 0 /\ o \in Nat
  BY WordInLine
<1>. HIDE DEF o
<1>3. l + lineBytes <= L
  <2>1. PICK q \in Nat : l = lineBytes * q
    BY <1>1, LineSize, Divides
  <2>2. PICK r \in Nat : L = lineBytes * r
    BY LineSize, Divides
  <2>3. q < r
    BY <2>1, <2>2, <1>1, LineSize
  <2>4. r - q - 1 \in Nat /\ lineBytes * (r - q - 1) \in Nat
    BY <2>3, LineSize
  <2>5. lineBytes * r = lineBytes * q + lineBytes + lineBytes * (r - q - 1)
    BY <2>3, <2>4, LineSize
  <2>. QED  BY <2>1, <2>2, <2>4, <2>5, LineSize
<1>4. a \in 0 .. L - wordBytes /\ a \in 0 .. L - 1 /\ a \in Nat
  BY <1>1, <1>2, <1>3, LineSize, Bounds
<1>5. a % wordBytes = 0
  BY <1>1, <1>2, DivisibleSum, Bounds
<1>. HIDE DEF a
<1>6. a % L = a
  BY <1>4, LineSize
<1>7. accessed(a) = a
  BY <1>4, <1>5, <1>6, Bounds, LineSize DEF accessed
<1>8. a \in Addresses
  BY <1>4, <1>5 DEF Addresses
<1>. QED  BY <1>7, <1>8 DEF a, o

(* Lines do not overlap, and neither do the words of one. *)
LEMMA DistinctWords ==
    ASSUME NEW l \in Lines, NEW m \in Lines, NEW i \in Registers, NEW j \in Registers,
           l + i * wordBytes = m + j * wordBytes
    PROVE  l = m /\ i = j
<1>0. l \in Nat /\ l % lineBytes = 0 /\ m \in Nat /\ m % lineBytes = 0
  BY DEF Lines, Addresses
<1>1. PICK p \in Nat : l = lineBytes * p
  BY <1>0, LineSize, Divides
<1>2. PICK q \in Nat : m = lineBytes * q
  BY <1>0, LineSize, Divides
<1>3. i * wordBytes \in 0 .. lineBytes - 1 /\ j * wordBytes \in 0 .. lineBytes - 1
  BY WordInLine, LineSize, Bounds
<1>4. p = q /\ i * wordBytes = j * wordBytes
  <2>. DEFINE d == lineBytes
              x == i * wordBytes
              y == j * wordBytes
  <2>1. d * p + x = d * q + y /\ x \in 0 .. d - 1 /\ y \in 0 .. d - 1
    BY <1>1, <1>2, <1>3, Zenon
  <2>2. p \in Int /\ q \in Int /\ d \in Nat /\ d > 0
    BY LineSize
  <2>. HIDE DEF d, x, y
  <2>3. p = q /\ x = y
    BY <2>1, <2>2, SameQuotient
  <2>. QED  BY <2>3 DEF x, y
<1>5. i = j
  <2>1. i \in Nat /\ j \in Nat
    BY DEF Registers
  <2>2. wordBytes * i + 0 = wordBytes * j + 0 /\ 0 \in 0 .. wordBytes - 1
    BY <2>1, <1>4, Bounds
  <2>. QED  BY <2>1, <2>2, Bounds
<1>. QED  BY <1>1, <1>2, <1>4, <1>5

Storing == {"swap", "store", "storeFloats"}

(* The item of an iteration reaches the registers r alone, and by them the *)
(* line of spAddr1.                                                        *)
ItemInLine ==
    /\ pc \in Storing => ItemRead \in reg /\ ItemRead \notin regF \cup regE \cup spAddr0.sources
    /\ pc = "storeFloats" =>
           \A i \in Registers : ItemRead \in mem[spAddr1.addr + i * wordBytes]

LEMMA ItemIsNew ==
    ASSUME TypeInv, Pure, pc = "dataset"
    PROVE  ItemRead \notin regF \cup regE \cup spAddr0.sources
<1>1. ItemRead # InputOf(hashes)
  BY DEF ItemRead, InputOf
<1>2. ItemRead \notin ItemsRead
  <2>1. progNum \in Nat /\ iter \in Nat
    BY TypeParts DEF Scalars
  <2>2. ~ HasRead(progNum, iter)
    BY <2>1 DEF HasRead, Loop
  <2>3. ItemRead[2] = progNum /\ ItemRead[3] = iter
    BY DEF ItemRead
  <2>. QED  BY <2>2, <2>3 DEF ItemsRead
<1>3. ItemRead \notin Sources
  BY <1>1, <1>2 DEF Sources
<1>. QED  BY <1>3 DEF Pure, OnlySources

(* What a store leaves in each word of a line. *)
LEMMA StoredWords ==
    ASSUME NEW line, line.addr \in Lines, NEW n \in 0 .. numRegisters, NEW sources,
           NEW l \in Lines, NEW i \in Registers
    PROVE  LET a == l + i * wordBytes
           IN  /\ line.addr = l /\ i < n =>
                      stored(line, n, sources)[a] = sources \cup line.sources
               /\ ~ (line.addr = l /\ i < n) => stored(line, n, sources)[a] = mem[a]
<1>. DEFINE written == {accessed(line.addr + j * wordBytes) : j \in 0 .. n - 1}
            a == l + i * wordBytes
<1>1. a \in Addresses
  BY LineWord
<1>2. \A j \in 0 .. n - 1 :
          j \in Registers /\ accessed(line.addr + j * wordBytes) = line.addr + j * wordBytes
  <2>1. ASSUME NEW j \in 0 .. n - 1 PROVE j \in Registers
    BY Bounds DEF Registers
  <2>. QED  BY <2>1, LineWord
<1>3. a \in written <=> line.addr = l /\ i < n
  <2>1. ASSUME a \in written PROVE line.addr = l /\ i < n
    <3>1. PICK j \in 0 .. n - 1 : a = line.addr + j * wordBytes
      BY <2>1, <1>2
    <3>2. l = line.addr /\ i = j
      BY <3>1, <1>2, DistinctWords
    <3>. QED  BY <3>2
  <2>2. ASSUME line.addr = l, i < n PROVE a \in written
    <3>1. i \in 0 .. n - 1
      BY <2>2 DEF Registers
    <3>. QED  BY <2>2, <3>1, <1>2
  <2>. QED  BY <2>1, <2>2
<1>4. stored(line, n, sources)[a] = IF a \in written THEN sources \cup line.sources ELSE mem[a]
  BY <1>1 DEF stored
<1>. QED  BY <1>3, <1>4

LEMMA WrittenByStores ==
    ASSUME TypeInv, ItemInLine, StoreFloats
    PROVE  LinesWrittenBack'
<1>0. PICK floats : floats = regF \cup regE
  OBVIOUS
<1>1. /\ pc = "storeFloats" /\ mem' = stored(spAddr0, numFloats, floats)
      /\ iter' = iter + 1 /\ UNCHANGED <<hashes, progNum, spAddr0, spAddr1>>
  BY <1>0 DEF StoreFloats, addresses
<1>2. spAddr0.addr \in Lines /\ spAddr1.addr \in Lines /\ iter \in Nat
  BY TypeParts DEF Machine, Scalars
<1>3. <<hashes, progNum, iter - 1>>' = ItemRead
  BY <1>1, <1>2 DEF ItemRead
<1>4. /\ ItemRead \notin floats \cup spAddr0.sources
      /\ \A i \in Registers : ItemRead \in mem[spAddr1.addr + i * wordBytes]
  BY <1>0, <1>1 DEF ItemInLine, Storing
<1>5. numFloats \in 0 .. numRegisters /\ \A i \in 0 .. numFloats - 1 : i \in Registers /\ i < numFloats
  BY Bounds, MachineAssumption DEF Registers
<1>6. \A l \in Lines, i \in Registers :
          /\ spAddr0.addr = l /\ i < numFloats =>
                 mem'[l + i * wordBytes] = floats \cup spAddr0.sources
          /\ ~ (spAddr0.addr = l /\ i < numFloats) =>
                 mem'[l + i * wordBytes] = mem[l + i * wordBytes]
  BY <1>1, <1>2, <1>5, StoredWords
<1>7. \A i \in Registers :
          ItemRead \in mem'[spAddr1.addr + i * wordBytes] <=>
              ~ (spAddr0.addr = spAddr1.addr /\ i < numFloats)
  BY <1>2, <1>4, <1>6
<1>8. \A i \in 0 .. numFloats - 1 : ItemRead \notin mem'[spAddr0.addr + i * wordBytes]
  BY <1>2, <1>4, <1>5, <1>6
<1>. QED  BY <1>1, <1>3, <1>7, <1>8 DEF LinesWrittenBack

LEMMA WrittenInvariant ==
    TypeInv /\ Pure /\ ItemInLine /\ LinesWrittenBack /\ [Next]_vars
        => ItemInLine' /\ LinesWrittenBack'
<1>. SUFFICES ASSUME TypeInv, Pure, ItemInLine, LinesWrittenBack, [Next]_vars
              PROVE  ItemInLine' /\ LinesWrittenBack'
  OBVIOUS
<1>. DEFINE Away == /\ pc' \notin Storing
                    /\ pc' \in {"addresses", "reseed"} => iter' = 0
<1>1. CASE Away
  BY <1>1 DEF ItemInLine, LinesWrittenBack, Storing
<1>2. InitMachine \/ NewAesGenerator1R \/ FillScratchpad \/ NewAesGenerator4R
          \/ ParseConfiguration \/ DecodeProgram => Away
  BY DEF InitMachine, NewAesGenerator1R, FillScratchpad, NewAesGenerator4R,
     ParseConfiguration, DecodeProgram, Step, Storing
<1>3. UpdateAddresses \/ LoadLines \/ ExecuteProgram \/ Reseed \/ Finalize => Away
  BY DEF UpdateAddresses, LoadLines, ExecuteProgram, Reseed, Finalize, Step, Storing
<1>. HIDE DEF Away
<1>4. CASE MixDataset
  <2>1. /\ pc = "dataset" /\ pc' = "swap" /\ ItemRead \in reg'
        /\ ItemRead' = ItemRead /\ UNCHANGED <<regF, regE, spAddr0>>
    BY <1>4 DEF MixDataset, Step, UnchangedLoops, ItemRead, addresses
  <2>. QED  BY <2>1, ItemIsNew DEF ItemInLine, LinesWrittenBack
<1>5. CASE Swap
  <2>1. /\ pc = "swap" /\ pc' = "store" /\ ItemRead' = ItemRead
        /\ UNCHANGED <<reg, regF, regE, spAddr0>>
    BY <1>5 DEF Swap, Step, UnchangedLoops, ItemRead, files, addresses
  <2>. QED  BY <2>1 DEF ItemInLine, LinesWrittenBack, Storing
<1>6. CASE StoreIntegers
  <2>1. /\ pc = "store" /\ pc' = "storeFloats" /\ ItemRead' = ItemRead
        /\ UNCHANGED <<reg, regF, regE, spAddr0, spAddr1>>
        /\ mem' = stored(spAddr1, numRegisters, reg)
    BY <1>6 DEF StoreIntegers, Step, UnchangedLoops, ItemRead, files, addresses
  <2>2. spAddr1.addr \in Lines /\ numRegisters \in 0 .. numRegisters
    BY TypeParts, Bounds DEF Machine
  <2>3. \A i \in Registers : i < numRegisters
    BY Bounds DEF Registers
  <2>4. \A i \in Registers : mem'[spAddr1.addr + i * wordBytes] = reg \cup spAddr1.sources
    BY <2>1, <2>2, <2>3, StoredWords
  <2>. QED  BY <2>1, <2>4 DEF ItemInLine, LinesWrittenBack, Storing
<1>7. CASE StoreFloats
  <2>1. pc' \notin Storing
    BY <1>7 DEF StoreFloats, Storing
  <2>. QED  BY <1>7, <2>1, WrittenByStores DEF ItemInLine, Storing
<1>8. CASE UNCHANGED vars
  BY <1>8 DEF vars, control, generator, files, addresses, ItemInLine, LinesWrittenBack, ItemRead
<1>. QED  BY <1>1, <1>2, <1>3, <1>4, <1>5, <1>6, <1>7, <1>8 DEF Next

(* An iteration leaves its item in the line of spAddr1, and nowhere in the *)
(* words of spAddr0, whichever lines they are and whatever the sizes.      *)
THEOREM WrittenBack == Spec => []LinesWrittenBack
<1>1. Init => (TypeInv /\ AtStateEnd) /\ (Pure /\ HashPure) /\ (ItemInLine /\ LinesWrittenBack)
  BY InitType, InitStream DEF Init, Pure, HashPure, ItemInLine, LinesWrittenBack, Storing
<1>2. (TypeInv /\ AtStateEnd) /\ (Pure /\ HashPure) /\ (ItemInLine /\ LinesWrittenBack)
          /\ [Next]_vars
          => ((TypeInv /\ AtStateEnd) /\ (Pure /\ HashPure) /\ (ItemInLine /\ LinesWrittenBack))'
  BY TypeInvariant, StreamInvariant, PureInvariant, WrittenInvariant
<1>. QED  BY <1>1, <1>2, PTL DEF Spec

-----------------------------------------------------------------------------
(* The dataset item of an iteration. *)

Files == [Registers -> Words]
States == [registers : Files, value : Words]

LEMMA ItemSizes ==
    /\ numRegisters \in Nat /\ numRegisters > 0 /\ datasetItems \in Nat /\ datasetItems > 0
    /\ cacheItems \in Nat /\ cacheItems > 0 /\ cacheAccesses \in Nat
    /\ Modulus \in Nat /\ Modulus > 0 /\ 0 \in Registers
BY ItemSizesAssumption, ModulusType DEF Registers

LEMMA Reduced == \A n \in Int : n % Modulus \in Words
<1>. DEFINE M == Modulus
<1>1. M \in Nat /\ M > 0
  BY ModulusType
<1>. HIDE DEF M
<1>2. \A n \in Int : n % M \in 0 .. M - 1
  BY <1>1
<1>. QED  BY <1>2 DEF M, Words

LEMMA Extended == \A x \in 0 .. 2^halfBits - 1 : signExtend2sCompl(x) \in Words
<1>1. halfBits \in Nat /\ halfBits <= wordBits
  <2>. DEFINE b == wordBits
  <2>1. b \in Nat
    BY WordAssumption
  <2>. HIDE DEF b
  <2>2. b \div 2 \in Nat /\ b \div 2 <= b
    BY <2>1
  <2>. QED  BY <2>2 DEF halfBits, b
<1>. DEFINE h == 2^halfBits
            M == Modulus
            half == 2^(halfBits - 1)
<1>2. h \in Nat /\ h > 0 /\ M \in Nat /\ M > 0 /\ h <= M
  <2>1. wordBits - halfBits \in Nat /\ halfBits + (wordBits - halfBits) = wordBits
    BY <1>1, WordAssumption
  <2>2. 2^halfBits \in Nat \ {0} /\ 2^(wordBits - halfBits) \in Nat \ {0}
    BY <1>1, <2>1, WordAssumption, Powers
  <2>3. 2^halfBits * 2^(wordBits - halfBits) = 2^wordBits
    BY <1>1, <2>1, PowerSum, WordAssumption
  <2>4. ASSUME NEW a \in Nat \ {0}, NEW b \in Nat \ {0} PROVE a <= a * b
    <3>1. a * (b - 1) \in Nat /\ a * b = a + a * (b - 1)
      OBVIOUS
    <3>. QED  BY <3>1
  <2>. QED  BY <2>2, <2>3, <2>4, ModulusType DEF Modulus
<1>3. ASSUME NEW x \in 0 .. h - 1
      PROVE  signExtend2sCompl(x) \in Words
  <2>1. signExtend2sCompl(x) = IF x >= half THEN x + (M - h) ELSE x
    BY DEF signExtend2sCompl
  <2>. HIDE DEF h, M, half
  <2>2. x + (M - h) \in 0 .. M - 1 /\ x \in 0 .. M - 1
    BY <1>2
  <2>. QED  BY <2>1, <2>2 DEF Words, M
<1>. QED  BY <1>3

(* An instruction of a program of the cache. *)
IsInstruction(instr) ==
    /\ instr \in superscalarInstructions
    /\ instr.opcode = "IMUL_RCP" => instr.imm32 < Len(reciprocals)

LEMMA CacheProgram ==
    ASSUME NEW p \in 1 .. cacheAccesses
    PROVE  /\ programs[p].addressReg \in Registers
           /\ Len(programs[p].instructions) \in Nat
           /\ \A k \in 1 .. Len(programs[p].instructions) :
                 IsInstruction(programs[p].instructions[k])
<1>1. programs[p] \in [instructions : Seq(superscalarInstructions), addressReg : Registers]
  <2>. DEFINE S == [instructions : Seq(superscalarInstructions), addressReg : Registers]
  <2>1. programs \in Seq(S) /\ Len(programs) = cacheAccesses
    BY CacheAssumption, Zenon
  <2>2. programs[p] \in S
    <3>. HIDE DEF S
    <3>. QED  BY <2>1
  <2>. QED  BY <2>2
<1>2. programs[p].instructions \in Seq(superscalarInstructions)
  BY <1>1
<1>3. /\ Len(programs[p].instructions) \in Nat
      /\ DOMAIN programs[p].instructions = 1 .. Len(programs[p].instructions)
      /\ \A k \in 1 .. Len(programs[p].instructions) :
            programs[p].instructions[k] \in superscalarInstructions
  BY <1>2
<1>4. \A k \in DOMAIN programs[p].instructions :
         programs[p].instructions[k].opcode = "IMUL_RCP"
            => programs[p].instructions[k].imm32 < Len(reciprocals)
  BY CacheAssumption
<1>. QED  BY <1>1, <1>3, <1>4 DEF IsInstruction

LEMMA ResultType ==
    ASSUME NEW instr, IsInstruction(instr), NEW a \in Words, NEW b \in Words
    PROVE  result(instr, a, b) \in Words
<1>1. /\ instr.opcode \in opcodes /\ instr.mod \in 0 .. 255
      /\ instr.imm32 \in 0 .. 2^halfBits - 1
  BY DEF IsInstruction, superscalarInstructions
<1>2. a \in Nat /\ b \in Nat
  BY ModulusType DEF Words
<1>3. a - b \in Int /\ a * b \in Int
  BY <1>2
<1>4. CASE instr.opcode = "ISUB_R"
  BY <1>4, <1>3, Reduced DEF result
<1>5. CASE instr.opcode = "IXOR_R"
  BY <1>5, XorType DEF result
<1>6. CASE instr.opcode = "IADD_RS"
  <2>1. instr.mod % 4 \in 0 .. 3
    BY <1>1
  <2>2. 2^(instr.mod % 4) \in Nat
    BY <2>1, Powers, WordAssumption
  <2>3. a + b * 2^(instr.mod % 4) \in Int
    BY <1>2, <2>2
  <2>. QED  BY <1>6, <2>3, Reduced DEF result
<1>7. CASE instr.opcode = "IMUL_R"
  BY <1>7, <1>3, Reduced DEF result
<1>8. CASE instr.opcode = "IROR_C"
  <2>1. -instr.imm32 \in Int
    <3>. DEFINE h == 2^halfBits
    <3>1. instr.imm32 \in 0 .. h - 1
      BY <1>1
    <3>. HIDE DEF h
    <3>. QED  BY <3>1
  <2>. QED  BY <1>8, <2>1, RotateType DEF result
<1>9. CASE instr.opcode \in {"IADD_C7", "IADD_C8", "IADD_C9"}
  <2>1. signExtend2sCompl(instr.imm32) \in Words
    BY <1>1, Extended
  <2>2. a + signExtend2sCompl(instr.imm32) \in Int
    BY <2>1, <1>2, ModulusType DEF Words
  <2>. QED  BY <1>9, <2>2, Reduced DEF result
<1>10. CASE instr.opcode \in {"IXOR_C7", "IXOR_C8", "IXOR_C9"}
  <2>1. signExtend2sCompl(instr.imm32) \in Words
    BY <1>1, Extended
  <2>. QED  BY <1>10, <2>1, XorType DEF result
<1>11. CASE instr.opcode = "IMULH_R"
  BY <1>11, HighType DEF result
<1>12. CASE instr.opcode = "ISMULH_R"
  <2>1. high(a, b) \in Int
    BY HighType, ModulusType DEF Words
  <2>2. high(a, b) - (IF SignedValue(a) < 0 THEN b ELSE 0)
                   - (IF SignedValue(b) < 0 THEN a ELSE 0) \in Int
    BY <2>1, <1>2
  <2>3. int128mul(a, b) \in Words
    BY <2>2, Reduced DEF int128mul
  <2>. QED  BY <1>12, <2>3 DEF result
<1>13. CASE instr.opcode = "IMUL_RCP"
  <2>1. instr.imm32 \in Nat /\ instr.imm32 < Len(reciprocals)
    <3>. DEFINE h == 2^halfBits
    <3>1. instr.imm32 \in 0 .. h - 1
      BY <1>1
    <3>. HIDE DEF h
    <3>. QED  BY <3>1, <1>13 DEF IsInstruction
  <2>2. reciprocals \in Seq(Words)
    BY CacheAssumption
  <2>3. reciprocals[instr.imm32 + 1] \in Words
    BY <2>1, <2>2
  <2>4. a * reciprocals[instr.imm32 + 1] \in Int
    BY <2>3, <1>2, ModulusType DEF Words
  <2>. QED  BY <1>13, <2>4, Reduced DEF result
<1>. QED
  BY <1>1, <1>4, <1>5, <1>6, <1>7, <1>8, <1>9, <1>10, <1>11, <1>12, <1>13 DEF opcodes

LEMMA ExecutedType ==
    ASSUME NEW regs \in Files, NEW instr, IsInstruction(instr)
    PROVE  executed(regs, instr) \in Files
<1>1. instr.dst \in Registers /\ instr.src \in Registers
  BY DEF IsInstruction, superscalarInstructions
<1>2. result(instr, regs[instr.dst], regs[instr.src]) \in Words
  BY <1>1, ResultType DEF Files
<1>. QED  BY <1>1, <1>2 DEF executed, Files

(* A program leaves words in the registers. *)
LEMMA SuperscalarType ==
    ASSUME NEW r \in Files, NEW p \in 1 .. cacheAccesses
    PROVE  executeSuperscalar(r, programs[p]) \in Files
<1>. DEFINE code == programs[p].instructions
            N == Len(code)
            regs == registersAfter(r, programs[p])
            F == [k \in 1 .. N |-> [x \in Files |-> executed(x, code[k])]]
<1>1. N \in Nat /\ \A k \in 1 .. N : IsInstruction(code[k])
  <2>. HIDE DEF IsInstruction
  <2>1. /\ Len(programs[p].instructions) \in Nat
        /\ \A k \in 1 .. Len(programs[p].instructions) :
              IsInstruction(programs[p].instructions[k])
    BY CacheProgram, Zenon
  <2>. QED  BY <2>1, Zenon
<1>. HIDE DEF N
<1>2. F \in [1 .. N -> [Files -> Files]]
  BY <1>1, ExecutedType
<1>3. PICK h \in [0 .. N -> Files] : Recursive(h, N, r, F)
  BY <1>1, <1>2, Recursion
<1>4. h = [k \in 0 .. N |-> IF k = 0 THEN r ELSE executed(h[k - 1], code[k])]
  <2>1. h = [k \in 0 .. N |-> IF k = 0 THEN r ELSE F[k][h[k - 1]]]
    BY <1>3 DEF Recursive
  <2>2. ASSUME NEW k \in 0 .. N, k # 0 PROVE F[k][h[k - 1]] = executed(h[k - 1], code[k])
    <3>1. k \in 1 .. N /\ k - 1 \in 0 .. N
      BY <1>1, <2>2
    <3>2. h[k - 1] \in Files
      BY <3>1
    <3>. QED  BY <3>1, <3>2
  <2>. HIDE DEF F
  <2>. QED  BY <2>1, <2>2
<1>5. regs = [k \in 0 .. N |-> IF k = 0 THEN r ELSE executed(regs[k - 1], code[k])]
  BY <1>4 DEF registersAfter, N
<1>. HIDE DEF regs
<1>. DEFINE T == {k \in 0 .. N : regs[k] \in Files}
<1>6. 0 \in T
  BY <1>1, <1>5
<1>7. ASSUME NEW k \in 1 .. N, k - 1 \in T PROVE k \in T
  <2>1. k \in 0 .. N /\ k # 0
    BY <1>1
  <2>2. regs[k] = executed(regs[k - 1], code[k])
    BY <1>5, <2>1
  <2>. QED  BY <2>1, <2>2, <1>1, <1>7, ExecutedType
<1>8. N \in T
  <2>. HIDE DEF T
  <2>1. N \in 0 .. N
    BY <1>1
  <2>. QED  BY <1>1, <1>6, <1>7, <2>1, Induction
<1>. QED  BY <1>8 DEF executeSuperscalar, regs, N

(* After every number of programs the registers hold words, and a word     *)
(* selects the next item of the cache.                                     *)
LEMMA GeneratedType ==
    ASSUME NEW n \in Nat
    PROVE  \A i \in 0 .. cacheAccesses : generated(n)[i] \in States
<1>. DEFINE N == cacheAccesses
            first == ((n + 1) * superscalarMul0) % Modulus
            start ==
                [registers |-> [r \in Registers |->
                                   IF r = 0 THEN first ELSE xor[first][superscalarAdd[r]]],
                 value     |-> n % Modulus]
            Access(s, p) ==
                LET mixBlock  == getCacheItem(s.value % cacheItems)
                    registers == mixed(executeSuperscalar(s.registers, p), mixBlock)
                IN  [registers |-> registers, value |-> registers[p.addressReg]]
            states == generated(n)
            F == [i \in 1 .. N |-> [s \in States |-> Access(s, programs[i])]]
<1>0. N \in Nat
  BY ItemSizes
<1>1. start \in States
  <2>1. first \in Words /\ n % Modulus \in Words
    <3>1. superscalarMul0 \in Int
      BY ItemSizesAssumption, ModulusType DEF Words
    <3>2. (n + 1) * superscalarMul0 \in Int /\ n \in Int
      BY <3>1
    <3>. QED  BY <3>2, Reduced
  <2>. HIDE DEF first
  <2>2. ASSUME NEW r \in Registers
        PROVE  (IF r = 0 THEN first ELSE xor[first][superscalarAdd[r]]) \in Words
    <3>1. CASE r = 0
      BY <3>1, <2>1
    <3>2. CASE r # 0
      <4>1. r \in 1 .. numRegisters - 1
        BY <3>2, ItemSizes DEF Registers
      <4>2. superscalarAdd[r] \in Words
        BY <4>1, ItemSizesAssumption
      <4>. QED  BY <3>2, <4>2, <2>1, XorType
    <3>. QED  BY <3>1, <3>2
  <2>. QED  BY <2>1, <2>2 DEF States, Files
<1>2. ASSUME NEW s \in States, NEW i \in 1 .. N
      PROVE  Access(s, programs[i]) \in States
  <2>. DEFINE registers == mixed(executeSuperscalar(s.registers, programs[i]),
                                 getCacheItem(s.value % cacheItems))
  <2>1. s.registers \in Files /\ s.value \in Words
    BY DEF States
  <2>2. executeSuperscalar(s.registers, programs[i]) \in Files
    BY <2>1, SuperscalarType
  <2>3. getCacheItem(s.value % cacheItems) \in Files
    <3>1. s.value \in Int
      BY <2>1, ModulusType DEF Words
    <3>2. s.value % cacheItems \in Int
      BY <3>1, ItemSizes, Quotients
    <3>3. (s.value % cacheItems) % cacheItems \in 0 .. cacheItems - 1
      BY <3>2, ItemSizes, Quotients
    <3>. QED  BY <3>3, CacheAssumption DEF getCacheItem, Files
  <2>4. registers \in Files
    BY <2>2, <2>3, XorType DEF mixed, Files
  <2>5. registers[programs[i].addressReg] \in Words
    BY <2>4, CacheProgram DEF Files
  <2>. HIDE DEF registers
  <2>6. [registers |-> registers, value |-> registers[programs[i].addressReg]] \in States
    BY <2>4, <2>5 DEF States
  <2>. QED  BY <2>6 DEF registers
<1>3. \E h : h = [i \in 0 .. N |-> IF i = 0 THEN start ELSE Access(h[i - 1], programs[i])]
  <2>. HIDE DEF start, Access
  <2>1. F \in [1 .. N -> [States -> States]]
    BY <1>2
  <2>2. PICK h \in [0 .. N -> States] : Recursive(h, N, start, F)
    BY <1>0, <1>1, <2>1, Recursion
  <2>3. h = [i \in 0 .. N |-> IF i = 0 THEN start ELSE F[i][h[i - 1]]]
    BY <2>2 DEF Recursive
  <2>4. ASSUME NEW i \in 0 .. N, i # 0 PROVE F[i][h[i - 1]] = Access(h[i - 1], programs[i])
    <3>1. i \in 1 .. N /\ i - 1 \in 0 .. N
      BY <1>0, <2>4
    <3>2. h[i - 1] \in States
      BY <3>1
    <3>. QED  BY <3>1, <3>2
  <2>. HIDE DEF F
  <2>. QED  BY <2>3, <2>4
<1>4. states = [i \in 0 .. N |-> IF i = 0 THEN start ELSE Access(states[i - 1], programs[i])]
  BY <1>3, Zenon DEF generated
<1>. HIDE DEF start, Access, states
<1>. DEFINE T == {i \in 0 .. N : states[i] \in States}
<1>5. 0 \in T
  BY <1>0, <1>1, <1>4
<1>6. ASSUME NEW i \in 1 .. N, i - 1 \in T PROVE i \in T
  <2>1. i \in 0 .. N /\ i # 0
    BY <1>0
  <2>2. states[i] = Access(states[i - 1], programs[i])
    BY <1>4, <2>1
  <2>. QED  BY <2>1, <2>2, <1>2, <1>6
<1>7. \A i \in 0 .. N : i \in T
  <2>. HIDE DEF T
  <2>. QED  BY <1>0, <1>5, <1>6, Induction
<1>. QED  BY <1>7 DEF states

LEMMA ItemType == \A n \in Nat : generateItem(n) \in Files
<1>1. cacheAccesses \in 0 .. cacheAccesses
  BY ItemSizes
<1>. QED  BY <1>1, GeneratedType DEF generateItem, States

(* Light mode computes what the workers generate. *)
LEMMA SameComputation == \A n : computeDatasetItem(n) = generateItem(n)
<1>1. \A n : computed(n) = generated(n)
  BY Zenon DEF computed, generated
<1>. QED  BY <1>1, Zenon DEF computeDatasetItem, generateItem

(* A window of the dataset is one item, for every number of registers. *)
LEMMA Window == \A n \in Items : getItem(n) = generateItem(n)
<1>. SUFFICES ASSUME NEW n \in Items PROVE getItem(n) = generateItem(n)
  OBVIOUS
<1>1. n \in Nat /\ n < datasetItems /\ n % datasetItems = n
  BY ItemSizes DEF Items
<1>2. ASSUME NEW r \in Registers
      PROVE  dataset[(n % datasetItems) * numRegisters + r] = generateItem(n)[r]
  <2>. DEFINE offset == n * numRegisters + r
  <2>1. r \in 0 .. numRegisters - 1 /\ n \in Int
    BY <1>1 DEF Registers
  <2>2. offset = numRegisters * n + r
    BY <2>1, <1>1, ItemSizes
  <2>3. offset \div numRegisters = n /\ offset % numRegisters = r
    BY <2>1, <2>2, ItemSizes, QuotientIs
  <2>4. offset \in 0 .. datasetItems * numRegisters - 1
    <3>1. (datasetItems - 1 - n) * numRegisters \in Nat /\ n * numRegisters \in Nat
      BY <1>1, ItemSizes
    <3>2. datasetItems * numRegisters
              = n * numRegisters + numRegisters + (datasetItems - 1 - n) * numRegisters
      BY <1>1, ItemSizes
    <3>. QED  BY <2>1, <3>1, <3>2, ItemSizes
  <2>. HIDE DEF offset
  <2>5. dataset[offset] = generateItem(n)[r]
    BY <2>3, <2>4 DEF dataset
  <2>. QED  BY <2>5, <1>1 DEF offset
<1>3. generateItem(n) = [r \in Registers |-> generateItem(n)[r]]
  BY <1>1, ItemType DEF Files
<1>. QED  BY <1>2, <1>3 DEF getItem

LEMMA ItemAt ==
    ASSUME NEW v \in Words
    PROVE  /\ itemAt(v % datasetItems) = generateItem(v % datasetItems)
           /\ generateItem(v % datasetItems) \in Files
<1>1. v \in Int
  BY ModulusType DEF Words
<1>2. v % datasetItems \in Items /\ v % datasetItems \in Nat
  BY <1>1, ItemSizes, Quotients DEF Items
<1>. QED  BY <1>2, ItemType, SameComputation, Window DEF itemAt

LEMMA ItemInvariant == SameItem /\ [Next]_vars => SameItem'
<1>. SUFFICES ASSUME SameItem, [Next]_vars PROVE SameItem'
  OBVIOUS
<1>1. CASE MixDataset
  <2>1. PICK v \in Words : mx'.value = v /\ item' = itemAt(v % datasetItems)
    BY <1>1 DEF MixDataset, Value
  <2>. QED  BY <2>1, ItemAt DEF SameItem, Files
<1>2. CASE UNCHANGED vars
  BY <1>2 DEF vars, control, memory, SameItem
<1>3. InitMachine \/ NewAesGenerator1R \/ FillScratchpad \/ NewAesGenerator4R => pc' # "swap"
  BY DEF InitMachine, NewAesGenerator1R, FillScratchpad, NewAesGenerator4R, Step
<1>4. ParseConfiguration \/ DecodeProgram \/ UpdateAddresses \/ LoadLines => pc' # "swap"
  BY DEF ParseConfiguration, DecodeProgram, UpdateAddresses, LoadLines, Step
<1>5. ExecuteProgram \/ Swap \/ StoreIntegers \/ StoreFloats => pc' # "swap"
  BY DEF ExecuteProgram, Swap, StoreIntegers, StoreFloats, Step
<1>6. Reseed \/ Finalize => pc' # "swap"
  BY DEF Reseed, Finalize, Step
<1>7. pc' # "swap" => SameItem'
  BY DEF SameItem
<1>. QED  BY <1>1, <1>2, <1>3, <1>4, <1>5, <1>6, <1>7 DEF Next

(* In fast mode and in light mode a machine mixes in the item that mx       *)
(* selects, for every word width and every cache that newCache can make.   *)
THEOREM SameItems == Spec => []SameItem
<1>1. Init => SameItem
  BY DEF Init, SameItem
<1>. QED  BY <1>1, ItemInvariant, PTL DEF Spec
=============================================================================
