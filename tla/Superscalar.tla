---------------------------- MODULE Superscalar ----------------------------
(***************************************************************************)
(* How newCache makes the superscalar programs of a cache (cache.go):      *)
(* generateSuperscalarProgram, which simulates the ports and registers of  *)
(* a processor to choose instructions (superscalar_gen.go), and the table  *)
(* of reciprocals that newCache moves the divisors of each program to.     *)
(*                                                                         *)
(* The bytes of the Blake2Generator are any bytes.  Of the operands only   *)
(* registers and the divisor of IMUL_RCP are kept.  The fields "at" and    *)
(* "divisor" of an instruction are history: when it was issued, and the    *)
(* divisor it was generated with.                                          *)
(***************************************************************************)
EXTENDS Integers, Sequences, FiniteSetsExt

CONSTANTS
    superscalarLatency,     \* 170 cycles
    cacheAccesses,          \* 8 programs
    numRegisters,           \* 8 registers
    Kinds,                  \* the instruction types that are selected
    Immediates,             \* values of getUint32
    halfWidth               \* 32 bits: a word has twice as many

ASSUME SizesAssumption ==
    /\ superscalarLatency \in Nat \ {0} /\ cacheAccesses \in Nat \ {0}
    /\ numRegisters \in Nat \ {0} /\ halfWidth \in Nat \ {0}
    /\ Immediates \subseteq 0 .. 2^halfWidth - 1

(* Arithmetic that the provers do not have. *)
ASSUME PowersAssumption == \A n \in 0 .. 3 * halfWidth : 2^n \in Nat /\ 2^n > n

superscalarMaxSize == 3 * superscalarLatency + 2
Registers == 0 .. numRegisters - 1
Ports == {"P0", "P1", "P5"}

(* The macro-operations: how long they take, and the ports that each of    *)
(* their micro-operations may use, none for one that does not exist.       *)
MacroOp(latency, uop1, uop2) == [latency |-> latency, uop1 |-> uop1, uop2 |-> uop2]

AluRR   == MacroOp(1, Ports, {})
LeaSIB  == MacroOp(1, {"P0", "P1"}, {})
ImulRR  == MacroOp(3, {"P1"}, {})
RorRI   == MacroOp(1, {"P0", "P5"}, {})
MulR    == MacroOp(4, {"P1"}, {"P5"})
MovRR   == MacroOp(0, {}, {})

Info(ops, latency, hasSrc) == [ops |-> ops, latency |-> latency, hasSrc |-> hasSrc]

superscalarInstrInfos ==
    [ISUB_R   |-> Info(<<AluRR>>, 1, TRUE),
     IXOR_R   |-> Info(<<AluRR>>, 1, TRUE),
     IADD_RS  |-> Info(<<LeaSIB>>, 1, TRUE),
     IMUL_R   |-> Info(<<ImulRR>>, 3, TRUE),
     IROR_C   |-> Info(<<RorRI>>, 1, FALSE),
     IADD_C7  |-> Info(<<AluRR>>, 1, FALSE),
     IXOR_C7  |-> Info(<<AluRR>>, 1, FALSE),
     IMULH_R  |-> Info(<<MovRR, MulR, MovRR>>, 3, TRUE),
     ISMULH_R |-> Info(<<MovRR, MulR, MovRR>>, 3, TRUE),
     IMUL_RCP |-> Info(<<AluRR, ImulRR>>, 4, FALSE)]

ASSUME KindsAssumption == Kinds # {} /\ Kinds \subseteq DOMAIN superscalarInstrInfos

OpsOf(kind) ==
    LET ops == superscalarInstrInfos[kind].ops IN {ops[i] : i \in DOMAIN ops}
isEliminated(op) == op.uop1 = {}
isSimple(op) == op.uop2 = {}

VARIABLES
    pc,             \* "generate", "precompute" or "built"
    cycle,          \* the cycle of the processor
    instructions,   \* the program being generated
    registers,      \* registers[r]: the cycle in which r will be ready
    portBusy,       \* portBusy[p]: the cycle from which port p is free
    j,              \* the instruction whose divisor is looked at
    programs,       \* the finished programs of the cache
    reciprocals     \* the reciprocals of the cache

vars == <<pc, cycle, instructions, registers, portBusy, j, programs, reciprocals>>

AllReady == [r \in Registers |-> 0]
AllFree == [p \in Ports |-> 0]

Init ==
    /\ pc = "generate"
    /\ cycle = 0 /\ instructions = <<>>
    /\ registers = AllReady /\ portBusy = AllFree
    /\ j = 1 /\ programs = <<>> /\ reciprocals = <<>>

-----------------------------------------------------------------------------
(* generateSuperscalarProgram: one turn of its loop. *)

(* A single micro-operation is issued whatever the ports; of the others    *)
(* every port that a first micro-operation may use has to be free.         *)
canGenerateInstruction(kind) ==
    \/ /\ Len(superscalarInstrInfos[kind].ops) = 1
       /\ \A op \in OpsOf(kind) : isSimple(op)
    \/ \A op \in OpsOf(kind) : \A p \in op.uop1 : portBusy[p] <= cycle

(* selectRegister: a register that is ready, or, when eight bytes named    *)
(* none, whatever the ninth says.                                          *)
Ready == {r \in Registers : registers[r] <= cycle}
selectRegister == Ready \cup (IF Ready = Registers THEN {} ELSE Registers)

(* Mutant: the source is left equal to the destination. *)
sourceForKept(kind, src, dst) ==
    IF superscalarInstrInfos[kind].hasSrc THEN src ELSE 0

(* Mutant: the source moved on without the mask. *)
sourceForUnmasked(kind, src, dst) ==
    IF ~superscalarInstrInfos[kind].hasSrc THEN 0
    ELSE IF src = dst THEN src + 1 ELSE src

(* The source of an instruction, moved on when it is the destination. *)
sourceFor(kind, src, dst) ==
    IF ~superscalarInstrInfos[kind].hasSrc THEN 0
    ELSE IF src = dst THEN (src + 1) % numRegisters ELSE src

(* The divisor of IMUL_RCP, never zero; other immediates are data. *)
immFor(kind, imm32) ==
    IF kind # "IMUL_RCP" THEN 0 ELSE IF imm32 = 0 THEN 1 ELSE imm32

(* Mutant: port times that are overwritten, not raised. *)
portsAfterOverwritten(kind) ==
    [p \in Ports |->
        LET using == {op \in OpsOf(kind) : ~isEliminated(op) /\ p \in op.uop1 \cup op.uop2}
        IN  IF using = {} THEN portBusy[p] ELSE Max({cycle + op.latency : op \in using})]

(* scheduleInstruction: every port that an operation may use is busy until *)
(* it is through.                                                          *)
portsAfter(kind) ==
    [p \in Ports |->
        Max({portBusy[p]} \cup
            {cycle + op.latency : op \in {o \in OpsOf(kind) :
                                    ~isEliminated(o) /\ p \in o.uop1 \cup o.uop2}})]

(* Mutant: a register that keeps the latest of its completions. *)
registersAfterRaised(kind, dst) ==
    [registers EXCEPT ![dst] = Max({@, cycle + superscalarInstrInfos[kind].latency})]

registersAfter(kind, dst) ==
    [registers EXCEPT ![dst] = cycle + superscalarInstrInfos[kind].latency]

(* Mutant: one cycle too many. *)
LoopingInclusive ==
    /\ pc = "generate"
    /\ cycle <= superscalarLatency
    /\ Len(instructions) < superscalarMaxSize /\ cycle <= superscalarLatency * 2

(* The condition of the loop, and its "safety check". *)
Looping ==
    /\ pc = "generate"
    /\ cycle < superscalarLatency
    /\ Len(instructions) < superscalarMaxSize /\ cycle <= superscalarLatency * 2

Issue ==
    /\ Looping
    /\ \E kind \in Kinds, dst \in selectRegister, src \in selectRegister,
          imm32 \in Immediates :
          /\ canGenerateInstruction(kind)
          /\ instructions' = Append(instructions,
                 [kind |-> kind, dst |-> dst, src |-> sourceFor(kind, src, dst),
                  imm32 |-> immFor(kind, imm32),
                  at |-> cycle, divisor |-> immFor(kind, imm32)])
          /\ registers' = registersAfter(kind, dst)
          /\ portBusy' = portsAfter(kind)
    /\ cycle' = cycle + 1
    /\ UNCHANGED <<pc, j, programs, reciprocals>>

Stall ==
    /\ Looping
    /\ \E kind \in Kinds : ~canGenerateInstruction(kind)
    /\ cycle' = cycle + 1
    /\ UNCHANGED <<pc, instructions, registers, portBusy, j, programs, reciprocals>>

(* The first register with the highest latency. *)
selectAddressRegister ==
    LET latest == Max({registers[r] : r \in Registers})
    IN  CHOOSE r \in Registers :
            /\ registers[r] = latest
            /\ \A q \in Registers : registers[q] = latest => r <= q

Finish ==
    /\ pc = "generate" /\ ~Looping
    /\ programs' = Append(programs, [instructions |-> instructions,
                                     addressReg |-> selectAddressRegister])
    /\ pc' = "precompute" /\ j' = 1
    /\ UNCHANGED <<cycle, instructions, registers, portBusy, reciprocals>>

-----------------------------------------------------------------------------
(* newCache: the reciprocals of the program just generated. *)
Width == 2^(2 * halfWidth)
bitLength(d) == CHOOSE b \in 0 .. halfWidth : d < 2^b /\ (b > 0 => d >= 2^(b - 1))

(* reciprocal, in words of 2 * halfWidth bits.  LeadingZeros32 counts in   *)
(* half a word: the shift is that much more than the length of divisor.    *)
reciprocal(divisor) ==
    LET d == IF divisor = 0 THEN 1 ELSE divisor
        p2exp63 == 2^(2 * halfWidth - 1)
        q == p2exp63 \div d
        r == p2exp63 % d
        shift == 2 * halfWidth - (halfWidth - bitLength(d))
    IN  (q * 2^shift + (((r * 2^shift) % Width) \div d)) % Width

current == programs[Len(programs)]

(* Mutant: the index of the entry after the one appended. *)
PrecomputeNextIndex ==
    /\ pc = "precompute" /\ j <= Len(current.instructions)
    /\ current.instructions[j].kind = "IMUL_RCP"
    /\ programs' = [programs EXCEPT ![Len(programs)].instructions[j].imm32 =
                       Len(reciprocals) + 1]
    /\ reciprocals' = Append(reciprocals, reciprocal(current.instructions[j].imm32))
    /\ j' = j + 1
    /\ UNCHANGED <<pc, cycle, instructions, registers, portBusy>>

(* The immediate of an IMUL_RCP becomes the index of its reciprocal. *)
Precompute ==
    /\ pc = "precompute" /\ j <= Len(current.instructions)
    /\ current.instructions[j].kind = "IMUL_RCP"
    /\ programs' = [programs EXCEPT ![Len(programs)].instructions[j].imm32 =
                       Len(reciprocals)]
    /\ reciprocals' = Append(reciprocals, reciprocal(current.instructions[j].imm32))
    /\ j' = j + 1
    /\ UNCHANGED <<pc, cycle, instructions, registers, portBusy>>

Keep ==
    /\ pc = "precompute" /\ j <= Len(current.instructions)
    /\ current.instructions[j].kind # "IMUL_RCP"
    /\ j' = j + 1
    /\ UNCHANGED <<pc, cycle, instructions, registers, portBusy, programs, reciprocals>>

NextProgram ==
    /\ pc = "precompute" /\ j > Len(current.instructions)
    /\ Len(programs) < cacheAccesses
    /\ pc' = "generate"
    /\ cycle' = 0 /\ instructions' = <<>>
    /\ registers' = AllReady /\ portBusy' = AllFree
    /\ UNCHANGED <<j, programs, reciprocals>>

Built ==
    /\ pc = "precompute" /\ j > Len(current.instructions)
    /\ Len(programs) = cacheAccesses
    /\ pc' = "built"
    /\ UNCHANGED <<cycle, instructions, registers, portBusy, j, programs, reciprocals>>

Next ==
    \/ Issue \/ Stall \/ Finish
    \/ Precompute \/ Keep \/ NextProgram \/ Built

Spec == Init /\ [][Next]_vars

-----------------------------------------------------------------------------
(* executeSuperscalar: what an IMUL_RCP multiplies by, taken from the      *)
(* table, or computed when its immediate is not an index of it.            *)
Multiplier(instr) ==
    IF instr.imm32 < Len(reciprocals) THEN reciprocals[instr.imm32 + 1]
    ELSE reciprocal(instr.imm32)

-----------------------------------------------------------------------------
Instructions ==
    [kind : Kinds, dst : Registers, src : Registers, imm32 : Nat, at : Nat,
     divisor : Nat]

(* Every variable in its range; no loop of newCache overruns. *)
TypeOK ==
    /\ pc \in {"generate", "precompute", "built"}
    /\ cycle \in 0 .. superscalarLatency
    /\ instructions \in Seq(Instructions)
    /\ registers \in [Registers -> Nat] /\ portBusy \in [Ports -> Nat]
    /\ j \in 1 .. superscalarMaxSize + 1
    /\ programs \in Seq([instructions : Seq(Instructions), addressReg : Registers])
    /\ Len(programs) <= cacheAccesses
    /\ reciprocals \in Seq(0 .. Width - 1)

(* An instruction of several macro-operations is issued only when every    *)
(* port its first micro-operations may use is free of all that were issued *)
(* before it, however many short ones have been issued since               *)
(* (superscalar_gen.go:292-308, 388-417).                                  *)
Holds(instr, p, t) ==
    \E op \in OpsOf(instr.kind) :
        ~isEliminated(op) /\ p \in op.uop1 \cup op.uop2 /\ instr.at + op.latency > t

PortsRespected ==
    \A i \in DOMAIN instructions :
        LET instr == instructions[i] IN
        Len(superscalarInstrInfos[instr.kind].ops) > 1 =>
            \A op \in OpsOf(instr.kind), p \in Ports : p \in op.uop1 =>
                \A k \in 1 .. i - 1 : ~Holds(instructions[k], p, instr.at)

(* No instruction works on one register twice: subtracting it from itself  *)
(* would wipe out all it has been mixed with (superscalar_gen.go:328-331). *)
SourceDiffers ==
    \A i \in DOMAIN instructions :
        superscalarInstrInfos[instructions[i].kind].hasSrc /\ numRegisters > 1 =>
            instructions[i].src # instructions[i].dst

(* The loop ends by the latency, never by the "safety check", with a       *)
(* program that is neither empty nor beyond its capacity: a cycle that     *)
(* issues nothing is still counted (superscalar_gen.go:207-241).           *)
ProgramComplete ==
    pc = "precompute" =>
        /\ cycle = superscalarLatency
        /\ Len(instructions) \in 1 .. superscalarLatency

(* The register that selects the next cache item is one the program wrote, *)
(* and the last write to no other register completes after the last write  *)
(* to it (superscalar_gen.go:423-437).                                     *)
IsLastWrite(i) ==
    \A k \in DOMAIN instructions : instructions[k].dst = instructions[i].dst => k <= i
Completes(i) ==
    instructions[i].at + superscalarInstrInfos[instructions[i].kind].latency

AddressMostDelayed ==
    pc = "precompute" =>
        \E i \in DOMAIN instructions :
            /\ instructions[i].dst = current.addressReg /\ IsLastWrite(i)
            /\ \A k \in DOMAIN instructions :
                  IsLastWrite(k) => Completes(k) <= Completes(i)

(* Once the cache is built, every IMUL_RCP of every program multiplies by  *)
(* the reciprocal of the divisor it was generated with: no index is off,   *)
(* shared with another program, or taken for a divisor (cache.go:55-64;    *)
(* superscalar.go:46-54).                                                  *)
ReciprocalOfDivisor ==
    pc = "built" =>
        \A n \in DOMAIN programs : \A i \in DOMAIN programs[n].instructions :
            LET instr == programs[n].instructions[i] IN
            instr.kind = "IMUL_RCP" => Multiplier(instr) = reciprocal(instr.divisor)

(* "reciprocal computes a fast reciprocal approximation"                   *)
(* (superscalar_program.go:54): of a power of two over the divisor, to    *)
(* the last bit and with as many bits as a word less the divisor's at     *)
(* least, unless the divisor is itself a power of two.                     *)
IsReciprocal(rcp, d) ==
    \E x \in 2 * halfWidth .. 3 * halfWidth : rcp \in {2^x \div d - 1, 2^x \div d, 2^x \div d + 1}

ReciprocalApproximates ==
    pc = "built" =>
        \A n \in DOMAIN programs : \A i \in DOMAIN programs[n].instructions :
            LET instr == programs[n].instructions[i] IN
            instr.kind = "IMUL_RCP" /\ (\A x \in 0 .. halfWidth : instr.divisor # 2^x) =>
                IsReciprocal(Multiplier(instr), instr.divisor)
=============================================================================
