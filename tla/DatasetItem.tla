---------------------------- MODULE DatasetItem ----------------------------
(***************************************************************************)
(* What a dataset item is: executeSuperscalar (superscalar.go) on words of *)
(* wordBits bits, generateItem, which fills the dataset of a fast hasher   *)
(* (dataset.go), and computeDatasetItem, which a machine calls in light    *)
(* mode (vm.go).  The code has the algorithm twice, and so has this        *)
(* module: nothing but equal text keeps the two modes together.            *)
(***************************************************************************)
EXTENDS WordArithmetic, Sequences

CONSTANTS
    numRegisters,           \* 8
    datasetItems,           \* 34078720
    cacheItems,             \* 4194304
    cacheAccesses,          \* 8 programs
    superscalarMul0,        \* 6364136223846793005
    superscalarAdd,         \* superscalarAdd[r], for every register r but 0
    data,                   \* data[n]: the words of item n of the cache
    programs,               \* the superscalar programs of the cache
    reciprocals             \* its table of reciprocals

Registers == 0 .. numRegisters - 1
Items == 0 .. datasetItems - 1

(* The types of superscalarInstruction; an immediate is half a word. *)
opcodes == {"ISUB_R", "IXOR_R", "IADD_RS", "IMUL_R", "IROR_C", "IADD_C7", "IADD_C8",
            "IADD_C9", "IXOR_C7", "IXOR_C8", "IXOR_C9", "IMULH_R", "ISMULH_R", "IMUL_RCP"}
halfBits == wordBits \div 2
superscalarInstructions ==
    [opcode : opcodes, dst : Registers, src : Registers, mod : 0 .. 255,
     imm32 : 0 .. 2^halfBits - 1]

(* The cache is one that newCache has made: module Superscalar shows that  *)
(* every register exists and every IMUL_RCP holds an index into the table. *)
ASSUME ItemSizesAssumption ==
    /\ {numRegisters, datasetItems, cacheItems, cacheAccesses} \subseteq Nat \ {0}
    /\ \E k \in 0 .. cacheItems : cacheItems = 2^k
    /\ superscalarMul0 \in Words /\ superscalarAdd \in [1 .. numRegisters - 1 -> Words]

ASSUME CacheAssumption ==
    /\ data \in [0 .. cacheItems - 1 -> [Registers -> Words]]
    /\ reciprocals \in Seq(Words)
    /\ programs \in Seq([instructions : Seq(superscalarInstructions),
                         addressReg   : Registers])
    /\ Len(programs) = cacheAccesses
    /\ \A p \in 1 .. cacheAccesses :
          \A k \in DOMAIN programs[p].instructions :
             LET instr == programs[p].instructions[k]
             IN  instr.opcode = "IMUL_RCP" => instr.imm32 < Len(reciprocals)

-----------------------------------------------------------------------------
(* An immediate of half a word, extended by its sign. *)
signExtend2sCompl(x) ==
    IF x >= 2^(halfBits - 1) THEN x + (Modulus - 2^halfBits) ELSE x

(* executeSuperscalar also computes a reciprocal where an index is out of   *)
(* the table (superscalar.go:51-54).  That is not here: CacheAssumption     *)
(* excludes it, and Superscalar shows that no program needs it.             *)
result(instr, a, b) ==
    CASE instr.opcode = "ISUB_R"   -> (a - b) % Modulus
      [] instr.opcode = "IXOR_R"   -> xor[a][b]
      [] instr.opcode = "IADD_RS"  -> (a + b * 2^(instr.mod % 4)) % Modulus
      [] instr.opcode = "IMUL_R"   -> (a * b) % Modulus
      [] instr.opcode = "IROR_C"   -> RotateLeft(a, -instr.imm32)
      [] instr.opcode \in {"IADD_C7", "IADD_C8", "IADD_C9"}
                                   -> (a + signExtend2sCompl(instr.imm32)) % Modulus
      [] instr.opcode \in {"IXOR_C7", "IXOR_C8", "IXOR_C9"}
                                   -> xor[a][signExtend2sCompl(instr.imm32)]
      [] instr.opcode = "IMULH_R"  -> high(a, b)
      [] instr.opcode = "ISMULH_R" -> int128mul(a, b)
      [] instr.opcode = "IMUL_RCP" -> (a * reciprocals[instr.imm32 + 1]) % Modulus

executed(regs, instr) == [regs EXCEPT ![instr.dst] = result(instr, @, regs[instr.src])]

(* The registers after every number of instructions. *)
registersAfter(r, prog) ==
    LET regs[k \in 0 .. Len(prog.instructions)] ==
            IF k = 0 THEN r ELSE executed(regs[k - 1], prog.instructions[k])
    IN  regs

executeSuperscalar(r, prog) == registersAfter(r, prog)[Len(prog.instructions)]

getCacheItem(index) == data[index % cacheItems]

mixed(registers, mixBlock) == [r \in Registers |-> xor[registers[r]][mixBlock[r]]]

-----------------------------------------------------------------------------
(* The dataset: items one after the other, as the workers generate them.   *)
(* generated and computed: the registers and the value that selects the    *)
(* next item of the cache, after every number of programs.                 *)
generated(itemNumber) ==
    LET first == ((itemNumber + 1) * superscalarMul0) % Modulus
        start ==
            [registers |-> [r \in Registers |->
                               IF r = 0 THEN first ELSE xor[first][superscalarAdd[r]]],
             value     |-> itemNumber % Modulus]
        Access(s, prog) ==
            LET mixBlock  == getCacheItem(s.value % cacheItems)
                registers == mixed(executeSuperscalar(s.registers, prog), mixBlock)
            IN  [registers |-> registers, value |-> registers[prog.addressReg]]
        states[i \in 0 .. cacheAccesses] ==
            IF i = 0 THEN start ELSE Access(states[i - 1], programs[i])
    IN  states

generateItem(itemNumber) == generated(itemNumber)[cacheAccesses].registers

dataset ==
    [offset \in 0 .. datasetItems * numRegisters - 1 |->
        generateItem(offset \div numRegisters)[offset % numRegisters]]

(* Mutant: items that overlap. *)
getItemOverlapping(index) ==
    [r \in Registers |-> dataset[(index % datasetItems) + r]]

getItem(index) ==
    [r \in Registers |-> dataset[(index % datasetItems) * numRegisters + r]]

(* Light mode. *)
computed(itemNumber) ==
    LET first == ((itemNumber + 1) * superscalarMul0) % Modulus
        start ==
            [registers |-> [r \in Registers |->
                               IF r = 0 THEN first ELSE xor[first][superscalarAdd[r]]],
             value     |-> itemNumber % Modulus]
        Access(s, prog) ==
            LET mixBlock  == getCacheItem(s.value % cacheItems)
                registers == mixed(executeSuperscalar(s.registers, prog), mixBlock)
            IN  [registers |-> registers, value |-> registers[prog.addressReg]]
        states[i \in 0 .. cacheAccesses] ==
            IF i = 0 THEN start ELSE Access(states[i - 1], programs[i])
    IN  states

computeDatasetItem(itemNumber) == computed(itemNumber)[cacheAccesses].registers
=============================================================================
