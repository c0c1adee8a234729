---------------------------- MODULE Instructions ----------------------------
(***************************************************************************)
(* The instructions of a program, as the virtual machine decodes and       *)
(* executes them: decodeInstruction (program.go), getInstructionType and   *)
(* executeInstructionFull (instructions.go), and the scratchpad addresses  *)
(* of getMemoryAddress, readMemory and writeMemory (vm.go).                *)
(*                                                                         *)
(* Integer instructions compute on words of wordBits bits.  A word of the  *)
(* scratchpad that no instruction has stored to holds any word, and so do  *)
(* the registers of the first instruction.  Floating point is left out:    *)
(* of its instructions the model keeps the addresses they read.            *)
(***************************************************************************)
EXTENDS WordArithmetic, Scratchpad, Sequences, SequencesExt

CONSTANTS
    programLength,          \* 256
    numRegisters,           \* 8
    scratchpadL1Size,       \* 16384 bytes
    scratchpadL2Size,       \* 262144 bytes
    Opcodes,                \* the opcodes that occur, of 0 .. 255
    Mods, Immediates        \* the mod and imm fields that occur

ASSUME SizesAssumption ==
    /\ {programLength, numRegisters} \subseteq Nat \ {0}
    /\ scratchpadL1Size \in Nat /\ scratchpadL1Size >= wordBytes
    /\ scratchpadL2Size \in Nat /\ scratchpadL2Size >= scratchpadL1Size
    /\ scratchpadL3Size >= scratchpadL2Size
    /\ scratchpadL1Size % wordBytes = 0 /\ scratchpadL2Size % wordBytes = 0
    /\ scratchpadL3Size % wordBytes = 0

ASSUME FieldsAssumption ==
    /\ Opcodes \subseteq 0 .. 255 /\ Mods \subseteq 0 .. 255
    /\ Immediates \subseteq 0 .. 2^wordBits - 1

Registers == 0 .. numRegisters - 1

(* A word that has not been stored to. *)
filled == -1

-----------------------------------------------------------------------------
(* Decoding. *)

(* The instruction types in the order getInstructionType asks for them,    *)
(* with their frequencies.                                                 *)
Frequencies ==
    <<<<"IADD_RS", 16>>, <<"IADD_M", 7>>, <<"ISUB_R", 16>>, <<"ISUB_M", 7>>,
      <<"IMUL_R", 16>>, <<"IMUL_M", 4>>, <<"IMULH_R", 4>>, <<"IMULH_M", 4>>,
      <<"ISMULH_R", 4>>, <<"ISMULH_M", 4>>, <<"IMUL_RCP", 8>>, <<"INEG_R", 2>>,
      <<"IXOR_R", 15>>, <<"IXOR_M", 5>>, <<"IROR_R", 8>>, <<"IROL_R", 2>>,
      <<"ISWAP_R", 4>>,
      <<"FSWAP_R", 4>>, <<"FADD_R", 16>>, <<"FADD_M", 5>>, <<"FSUB_R", 16>>,
      <<"FSUB_M", 5>>, <<"FSCAL_R", 6>>, <<"FMUL_R", 32>>, <<"FDIV_M", 4>>,
      <<"FSQRT_R", 6>>,
      <<"CBRANCH", 25>>, <<"CFROUND", 1>>, <<"ISTORE", 16>>>>

Reading == {"IADD_M", "ISUB_M", "IMUL_M", "IMULH_M", "ISMULH_M", "IXOR_M",
            "FADD_M", "FSUB_M", "FDIV_M"}

(* The running sum of the frequencies, in a uint8. *)
cumulative[k \in 0 .. Len(Frequencies)] ==
    IF k = 0 THEN 0 ELSE (cumulative[k - 1] + Frequencies[k][2]) % 256

(* Mutant: a bound that is taken for the last opcode of its type. *)
getInstructionTypeInclusive(opcode) ==
    LET below == {k \in DOMAIN Frequencies : opcode <= cumulative[k]}
    IN  IF below = {} THEN "NOP" ELSE Frequencies[Min(below)][1]

getInstructionType(opcode) ==
    LET below == {k \in DOMAIN Frequencies : opcode < cumulative[k]}
    IN  IF below = {} THEN "NOP" ELSE Frequencies[Min(below)][1]

typeOf == [opcode \in 0 .. 255 |-> getInstructionType(opcode)]

Instruction(opcode, dst, src, mod, imm) ==
    [opcode |-> opcode, dst |-> dst, src |-> src, mod |-> mod, imm |-> imm]

(* Mutant: register bytes that are not masked. *)
decodeInstructionUnmasked(opcode, dst, src, mod, imm) ==
    Instruction(opcode, dst, src, mod, imm)

decodeInstruction(opcode, dst, src, mod, imm) ==
    Instruction(opcode, dst % numRegisters, src % numRegisters, mod, imm)

-----------------------------------------------------------------------------
VARIABLES
    i,          \* how many instructions have been executed
    stage,      \* "fetch" or "execute"
    instr,      \* the instruction fetched last
    reg,        \* the integer registers
    mem         \* the scratchpad: what instructions have stored

vars == <<i, stage, instr, reg, mem>>

Init ==
    /\ i = 0
    /\ stage = "fetch"
    /\ instr = Instruction(0, 0, 0, 0, 0)
    /\ reg \in [Registers -> Words]
    /\ mem = [a \in Addresses |-> filled]

-----------------------------------------------------------------------------
(* Addresses. *)

levelSize(mod) ==
    CASE mod % 4 = 0 -> scratchpadL3Size
      [] mod % 4 = 2 -> scratchpadL1Size
      [] OTHER       -> scratchpadL2Size

(* Mutant: levels of whole bytes. *)
masksUnaligned(addr, size) == addr % size

(* addr & ((size - 1) &^ 7), where size is a power of two. *)
masks(addr, size) == (addr % size) - ((addr % size) % wordBytes)

getMemoryAddress ==
    masks((reg[instr.src] + instr.imm) % Modulus, levelSize(instr.mod))

readMemory(addr) ==
    LET word == mem[accessed(addr)] IN IF word = filled THEN Words ELSE {word}

-----------------------------------------------------------------------------
(* Arithmetic. *)

(* int128mul is the high word already: shifted right by the width of a      *)
(* word, with its sign, nothing but the sign is left.                       *)
signedHigh(a, b) == (SignedValue(int128mul(a, b)) \div Modulus) % Modulus

reciprocalApprox(divisor) == (Modulus - 1) \div divisor

(* The value of the destination after an instruction of a type, from the    *)
(* destination and the other operand: the source or a word of the           *)
(* scratchpad.                                                              *)
destination(kind, a, b) ==
    CASE kind = "IADD_RS"                  -> (a + b * 2^(instr.mod % 4)) % Modulus
      [] kind = "IADD_M"                   -> (a + b) % Modulus
      [] kind \in {"ISUB_R", "ISUB_M"}     -> (a - b) % Modulus
      [] kind \in {"IMUL_R", "IMUL_M"}     -> (a * b) % Modulus
      [] kind \in {"IMULH_R", "IMULH_M"}   -> high(a, b)
      [] kind \in {"ISMULH_R", "ISMULH_M"} -> signedHigh(a, b)
      [] kind = "IMUL_RCP" /\ instr.imm # 0
                                           -> (a * reciprocalApprox(instr.imm)) % Modulus
      [] kind = "INEG_R"                   -> (-a) % Modulus
      [] kind \in {"IXOR_R", "IXOR_M"}     -> xor[a][b]
      [] kind = "IROR_R"                   -> RotateLeft(a, -(b % wordBits))
      [] kind = "IROL_R"                   -> RotateLeft(a, b % wordBits)
      [] kind = "CBRANCH" /\ ((a + instr.imm) % Modulus) % 2^(instr.mod % 4) = 0
                                           -> (a + instr.imm) % Modulus
      [] OTHER                             -> a

-----------------------------------------------------------------------------
(* The steps of the loop over a program. *)

(* A register is chosen by a byte, of which this many values are tried. *)
RegisterBytes == 0 .. 2 * numRegisters - 1

Fetch ==
    /\ stage = "fetch" /\ i < programLength
    /\ stage' = "execute"
    /\ \E opcode \in Opcodes, dst, src \in RegisterBytes, mod \in Mods, imm \in Immediates :
           instr' = decodeInstruction(opcode, dst, src, mod, imm)
    /\ UNCHANGED <<i, reg, mem>>

Executing ==
    stage = "execute" /\ stage' = "fetch" /\ i' = i + 1 /\ UNCHANGED instr

(* Instructions that read the scratchpad; floating point leaves reg alone. *)
ExecuteRead ==
    LET kind == typeOf[instr.opcode]
    IN  /\ Executing
        /\ kind \in Reading
        /\ \E word \in readMemory(getMemoryAddress) :
               reg' = [reg EXCEPT ![instr.dst] = destination(kind, @, word)]
        /\ UNCHANGED mem

ExecuteSwap ==
    /\ Executing
    /\ typeOf[instr.opcode] = "ISWAP_R"
    /\ reg' = [reg EXCEPT ![instr.dst] = reg[instr.src], ![instr.src] = reg[instr.dst]]
    /\ UNCHANGED mem

(* Every other instruction; ISTORE alone stores. *)
ExecuteRegister ==
    LET kind == typeOf[instr.opcode]
    IN  /\ Executing
        /\ kind \notin Reading \cup {"ISWAP_R"}
        /\ reg' = [reg EXCEPT ![instr.dst] = destination(kind, @, reg[instr.src])]
        /\ mem' = IF kind # "ISTORE" THEN mem
                  ELSE [mem EXCEPT ![accessed(getMemoryAddress)] = reg[instr.src]]

Next == Fetch \/ ExecuteRead \/ ExecuteSwap \/ ExecuteRegister

Spec == Init /\ [][Next]_vars

-----------------------------------------------------------------------------
(* Properties. *)

(* Fields, registers and the scratchpad keep to their ranges: the byte that *)
(* chooses a register chooses one that exists.                              *)
TypeOK ==
    /\ i \in 0 .. programLength
    /\ stage \in {"fetch", "execute"}
    /\ instr \in [opcode : 0 .. 255, dst : Registers, src : Registers,
                  mod : 0 .. 255, imm : Words]
    /\ reg \in [Registers -> Words]
    /\ mem \in [Addresses -> Words \cup {filled}]

(* The opcodes that the frequencies reserve for the k-th type, one type     *)
(* after the other; no uint8 limits these sums.                              *)
FrequencySum[k \in 0 .. Len(Frequencies)] ==
    IF k = 0 THEN 0 ELSE FrequencySum[k - 1] + Frequencies[k][2]
Reserved ==
    [k \in DOMAIN Frequencies |-> FrequencySum[k - 1] .. FrequencySum[k] - 1]

(* Up to ISTORE, where the sums pass 255, each type of instruction is        *)
(* decoded from the opcodes its frequency reserves for it, so every type is  *)
(* as frequent in random programs as the constants of instructions.go say.   *)
DecodedByFrequency ==
    \A k \in 1 .. Len(Frequencies) - 1 :
        typeOf[instr.opcode] = Frequencies[k][1] <=> instr.opcode \in Reserved[k]

(* The address of a load or store is a word of the level that mod selects,   *)
(* and the one that is read or written: readMemory and writeMemory, which    *)
(* move addresses that are unaligned or outside, have nothing to move.       *)
AccessInLevel ==
    LET addr == getMemoryAddress
    IN  /\ addr \in Addresses
        /\ addr + wordBytes <= levelSize(instr.mod)
        /\ accessed(addr) = addr

(* What adds, subtracts, rotates, negates or combines by exclusive or loses *)
(* nothing: from different words in the destination it makes different      *)
(* words, as long as the source is another register or a loaded word.  A    *)
(* register that is subtracted from itself, or combined with itself by      *)
(* exclusive or, is cleared (instructions.go:216-218, :279-281).            *)
Lossless == {"IADD_RS", "IADD_M", "ISUB_R", "ISUB_M", "INEG_R", "IXOR_R",
             "IXOR_M", "IROR_R", "IROL_R"}

DestinationKept ==
    LET kind == typeOf[instr.opcode]
    IN  stage = "execute" /\ kind \in Lossless =>
            \A a \in Words :
                a # reg[instr.dst] =>
                    destination(kind, a, reg[instr.src]) #
                        destination(kind, reg[instr.dst], reg[instr.src])

(* "dst = (dst * src) >> 64 (signed high part)" and "dst = (dst * mem[src + *)
(* imm]) >> 64 (signed)" (instructions.go:247 and :254): what ISMULH_R and   *)
(* ISMULH_M leave in the destination is the high word of the product of the  *)
(* signed values of the destination and the other operand.                   *)
SignedHighPart ==
    LET kind == typeOf[instr.opcode]
        dst == reg[instr.dst]
        operands == IF kind = "ISMULH_R" THEN {reg[instr.src]} ELSE readMemory(getMemoryAddress)
    IN  stage = "execute" /\ kind \in {"ISMULH_R", "ISMULH_M"} =>
            \A b \in operands :
                SignedValue(destination(kind, dst, b)) =
                    (SignedValue(dst) * SignedValue(b)) \div Modulus

(* "246-261 (wraps)" and "Store integer to memory: mem[dst + imm] = src"     *)
(* (instructions.go:191 and :381): an instruction of those opcodes leaves    *)
(* the word of its source in the scratchpad.                                 *)
StoreOpcodesStore ==
    stage = "fetch" /\ instr.opcode \in 246 .. 255 /\ instr.dst = instr.src =>
        mem[getMemoryAddress] = reg[instr.src]
=============================================================================
