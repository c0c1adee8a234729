------------------------- MODULE SuperscalarProofs -------------------------
(***************************************************************************)
(* The properties of Superscalar for every latency, number of registers,   *)
(* number of programs, choice of instruction types and width of a word.    *)
(***************************************************************************)
EXTENDS Superscalar, NumberProofs

-----------------------------------------------------------------------------
(* Numbers. *)

(* A bounded set of numbers has a maximum. *)
LEMMA Maximum ==
    ASSUME NEW T, T \subseteq Nat, T # {}, NEW b \in Nat, \A x \in T : x <= b
    PROVE  Max(T) \in T /\ \A x \in T : Max(T) >= x
<1>. DEFINE D == {d \in Nat : \E x \in T : d = b - x}
<1>1. D \subseteq Nat /\ D # {}
  <2>1. PICK x \in T : TRUE
    OBVIOUS
  <2>2. b - x \in Nat
    BY <2>1
  <2>. QED  BY <2>1, <2>2
<1>2. PICK d \in D : \A e \in D : d <= e
  <2>. HIDE DEF D
  <2>. QED  BY <1>1, Least
<1>3. PICK m \in T : d = b - m
  BY <1>2
<1>4. \A x \in T : m >= x
  <2>. TAKE x \in T
  <2>1. b - x \in D
    OBVIOUS
  <2>. QED  BY <2>1, <1>2, <1>3
<1>. QED  BY <1>3, <1>4 DEF Max

LEMMA BitLength ==
    ASSUME NEW d \in Nat, d < 2^halfWidth
    PROVE  bitLength(d) \in 0 .. halfWidth
<1>. DEFINE T == {b \in 0 .. halfWidth : d < 2^b}
<1>0. halfWidth \in Nat /\ \A n \in 0 .. halfWidth : 2^n \in Nat
  BY SizesAssumption, PowersAssumption
<1>1. PICK b \in T : \A c \in T : b <= c
  <2>1. T \subseteq Nat /\ T # {}
    BY <1>0
  <2>. HIDE DEF T
  <2>. QED  BY <2>1, Least
<1>2. b > 0 => d >= 2^(b - 1)
  BY <1>0, <1>1
<1>3. \E c \in 0 .. halfWidth : d < 2^c /\ (c > 0 => d >= 2^(c - 1))
  BY <1>1, <1>2
<1>. QED  BY <1>3 DEF bitLength

LEMMA ReciprocalWord ==
    ASSUME NEW divisor \in Nat, divisor < 2^halfWidth
    PROVE  reciprocal(divisor) \in 0 .. Width - 1
<1>. DEFINE d == IF divisor = 0 THEN 1 ELSE divisor
            shift == 2 * halfWidth - (halfWidth - bitLength(d))
            p == 2^(2 * halfWidth - 1)
            q == p \div d
            r == p % d
            power == 2^shift
<1>0. halfWidth \in Nat /\ halfWidth > 0
  BY SizesAssumption
<1>1. Width \in Nat /\ Width > 0 /\ p \in Nat /\ 2^halfWidth > 1
  BY <1>0, PowersAssumption DEF Width
<1>2. d \in Nat /\ d > 0 /\ d < 2^halfWidth
  BY <1>0, <1>1, PowersAssumption
<1>3. bitLength(d) \in 0 .. halfWidth
  <2>. HIDE DEF d
  <2>. QED  BY <1>2, BitLength
<1>4. power \in Nat
  BY <1>0, <1>3, PowersAssumption
<1>5. reciprocal(divisor) = (q * power + (((r * power) % Width) \div d)) % Width
  BY DEF reciprocal
<1>. HIDE DEF power, p, d
<1>6. q \in Int /\ r \in Int
  BY <1>1, <1>2
<1>. HIDE DEF q, r
<1>7. ((r * power) % Width) \div d \in Int
  BY <1>1, <1>2, <1>4, <1>6
<1>. QED  BY <1>1, <1>4, <1>5, <1>6, <1>7

-----------------------------------------------------------------------------
(* The table of instruction types. *)

Duration(kind) == superscalarInstrInfos[kind].latency

LEMMA Infos ==
    ASSUME NEW kind \in Kinds
    PROVE  /\ Duration(kind) \in 1 .. 4
           /\ \A op \in OpsOf(kind) : op.latency \in 0 .. 4
           /\ OpsOf(kind) \subseteq {AluRR, LeaSIB, ImulRR, RorRI, MulR, MovRR}
<1>1. kind \in {"ISUB_R", "IXOR_R", "IADD_RS", "IMUL_R", "IROR_C", "IADD_C7", "IXOR_C7",
               "IMULH_R", "ISMULH_R", "IMUL_RCP"}
  BY KindsAssumption DEF superscalarInstrInfos
<1>2. Duration(kind) \in 1 .. 4
  BY <1>1 DEF superscalarInstrInfos, Duration, Info
<1>3. OpsOf(kind) \subseteq {AluRR, LeaSIB, ImulRR, RorRI, MulR, MovRR}
  BY <1>1 DEF superscalarInstrInfos, OpsOf, Info
<1>4. \A op \in {AluRR, LeaSIB, ImulRR, RorRI, MulR, MovRR} : op.latency \in 0 .. 4
  BY DEF AluRR, LeaSIB, ImulRR, RorRI, MulR, MovRR, MacroOp
<1>. QED  BY <1>2, <1>3, <1>4

LEMMA OpsLength ==
    ASSUME NEW kind \in Kinds
    PROVE  Len(superscalarInstrInfos[kind].ops) \in Nat
<1>1. kind \in {"ISUB_R", "IXOR_R", "IADD_RS", "IMUL_R", "IROR_C", "IADD_C7", "IXOR_C7",
               "IMULH_R", "ISMULH_R", "IMUL_RCP"}
  BY KindsAssumption DEF superscalarInstrInfos
<1>2. superscalarInstrInfos[kind].ops \in {<<AluRR>>, <<LeaSIB>>, <<ImulRR>>, <<RorRI>>,
                                           <<MovRR, MulR, MovRR>>, <<AluRR, ImulRR>>}
  BY <1>1 DEF superscalarInstrInfos, Info
<1>. QED  BY <1>2

LEMMA SeveralOps ==
    ASSUME NEW kind \in Kinds, Len(superscalarInstrInfos[kind].ops) > 1
    PROVE  Len(superscalarInstrInfos[kind].ops) # 1
<1>. DEFINE n == Len(superscalarInstrInfos[kind].ops)
<1>1. n \in Nat
  BY OpsLength
<1>2. n > 1
  OBVIOUS
<1>. HIDE DEF n
<1>3. n # 1
  BY <1>1, <1>2
<1>. QED  BY <1>3 DEF n

-----------------------------------------------------------------------------
(* The parts of the invariant. *)

(* Every cycle counts and issues at most one instruction, and the first     *)
(* cycle issues one, since all ports are free.                              *)
Progress ==
    /\ Len(instructions) <= cycle
    /\ cycle > 0 => Len(instructions) > 0
    /\ cycle = 0 => portBusy = AllFree
    /\ pc = "generate" => Len(programs) < cacheAccesses
    /\ pc # "generate" => Len(programs) > 0 /\ cycle = superscalarLatency
    /\ pc = "precompute" => /\ Len(current.instructions) = Len(instructions)
                            /\ j <= Len(instructions) + 1

Uses(op, p) == ~isEliminated(op) /\ p \in op.uop1 \cup op.uop2

(* A port is busy until all that were issued on it are through. *)
Busy ==
    \A i \in DOMAIN instructions, p \in Ports : \A op \in OpsOf(instructions[i].kind) :
        Uses(op, p) => instructions[i].at + op.latency <= portBusy[p]

(* A register is ready when the last instruction that writes it completes. *)
Delayed(r) ==
    \/ registers[r] = 0 /\ \A i \in DOMAIN instructions : instructions[i].dst # r
    \/ \E i \in DOMAIN instructions :
          instructions[i].dst = r /\ IsLastWrite(i) /\ registers[r] = Completes(i)

Delays == \A r \in Registers : Delayed(r) /\ registers[r] <= cycle + 4

(* An IMUL_RCP before newCache has looked at it, and after. *)
Raw(instr) == instr.imm32 = instr.divisor /\ instr.divisor < 2^halfWidth

Indexed(instr, table) ==
    instr.kind = "IMUL_RCP" =>
        /\ instr.imm32 < Len(table)
        /\ table[instr.imm32 + 1] = reciprocal(instr.divisor)

Untouched(n, i) == pc = "precompute" /\ n = Len(programs) /\ i >= j

Table ==
    /\ \A i \in DOMAIN instructions : Raw(instructions[i])
    /\ \A n \in DOMAIN programs : \A i \in DOMAIN programs[n].instructions :
          /\ Untouched(n, i) => Raw(programs[n].instructions[i])
          /\ ~ Untouched(n, i) => Indexed(programs[n].instructions[i], reciprocals)

IInv ==
    /\ TypeOK /\ Progress /\ SourceDiffers
    /\ Busy /\ PortsRespected
    /\ Delays /\ AddressMostDelayed
    /\ Table

LEMMA Sizes ==
    /\ superscalarLatency \in Nat /\ superscalarLatency > 0
    /\ cacheAccesses \in Nat /\ cacheAccesses > 0
    /\ numRegisters \in Nat /\ numRegisters > 0
    /\ superscalarMaxSize \in Nat /\ superscalarMaxSize > superscalarLatency
    /\ 0 \in Registers
    /\ 2^halfWidth \in Nat /\ 2^halfWidth > 1
<1>1. 2^halfWidth \in Nat /\ 2^halfWidth > 1
  BY SizesAssumption, PowersAssumption
<1>. QED  BY <1>1, SizesAssumption DEF superscalarMaxSize, Registers

LEMMA InitInvariant == Init => IInv
<1>. SUFFICES ASSUME Init PROVE IInv
  OBVIOUS
<1>. USE DEF Init, AllReady, AllFree
<1>1. TypeOK /\ Progress
  BY Sizes DEF TypeOK, Progress
<1>2. SourceDiffers /\ Busy /\ PortsRespected /\ AddressMostDelayed /\ Table
  BY DEF SourceDiffers, Busy, PortsRespected, AddressMostDelayed, Table
<1>3. Delays
  BY DEF Delays, Delayed
<1>. QED  BY <1>1, <1>2, <1>3 DEF IInv

-----------------------------------------------------------------------------
(* An instruction is issued. *)

LEMMA PortsAfter ==
    ASSUME TypeOK, NEW kind \in Kinds, NEW p \in Ports
    PROVE  /\ portsAfter(kind)[p] \in Nat /\ portsAfter(kind)[p] >= portBusy[p]
           /\ \A op \in OpsOf(kind) :
                 Uses(op, p) => portsAfter(kind)[p] >= cycle + op.latency
<1>. DEFINE ops == {o \in OpsOf(kind) : ~isEliminated(o) /\ p \in o.uop1 \cup o.uop2}
            T == {portBusy[p]} \cup {cycle + op.latency : op \in ops}
<1>0. portBusy[p] \in Nat /\ cycle \in Nat
  BY Sizes DEF TypeOK
<1>1. /\ T \subseteq Nat /\ T # {} /\ portBusy[p] + cycle + 4 \in Nat
      /\ \A x \in T : x <= portBusy[p] + cycle + 4
  BY <1>0, Infos
<1>2. portsAfter(kind)[p] = Max(T)
  BY DEF portsAfter
<1>. HIDE DEF T
<1>3. Max(T) \in T /\ \A x \in T : Max(T) >= x
  BY <1>0, <1>1, Maximum
<1>. QED  BY <1>1, <1>2, <1>3 DEF T, Uses

Issued(kind, dst, src, d) ==
    [kind |-> kind, dst |-> dst, src |-> src, imm32 |-> d, at |-> cycle, divisor |-> d]

LEMMA IssueFacts ==
    ASSUME TypeOK, Issue
    PROVE  \E kind \in Kinds, dst \in Registers, src \in Registers, d \in Nat :
               /\ canGenerateInstruction(kind)
               /\ superscalarInstrInfos[kind].hasSrc /\ numRegisters > 1 => src # dst
               /\ d < 2^halfWidth
               /\ instructions' = Append(instructions, Issued(kind, dst, src, d))
               /\ registers' = registersAfter(kind, dst)
               /\ portBusy' = portsAfter(kind)
               /\ cycle' = cycle + 1 /\ cycle < superscalarLatency /\ pc = "generate"
               /\ UNCHANGED <<pc, j, programs, reciprocals>>
<1>1. PICK kind \in Kinds, dst \in selectRegister, src \in selectRegister,
           imm32 \in Immediates :
          /\ canGenerateInstruction(kind)
          /\ instructions' = Append(instructions,
                 [kind |-> kind, dst |-> dst, src |-> sourceFor(kind, src, dst),
                  imm32 |-> immFor(kind, imm32),
                  at |-> cycle, divisor |-> immFor(kind, imm32)])
          /\ registers' = registersAfter(kind, dst)
          /\ portBusy' = portsAfter(kind)
  BY DEF Issue
<1>2. dst \in Registers /\ src \in Registers
  BY DEF selectRegister, Ready
<1>3. sourceFor(kind, src, dst) \in Registers
      /\ (superscalarInstrInfos[kind].hasSrc /\ numRegisters > 1 =>
              sourceFor(kind, src, dst) # dst)
  <2>1. CASE ~superscalarInstrInfos[kind].hasSrc \/ src # dst
    BY <2>1, <1>2, Sizes DEF sourceFor
  <2>2. CASE superscalarInstrInfos[kind].hasSrc /\ src = dst
    <3>1. sourceFor(kind, src, dst) = (dst + 1) % numRegisters
      BY <2>2 DEF sourceFor
    <3>2. CASE dst + 1 < numRegisters
      BY <3>1, <3>2, <1>2, Sizes DEF Registers
    <3>3. CASE dst + 1 = numRegisters
      <4>1. (dst + 1) % numRegisters = 0
        BY <3>3, Sizes
      <4>. QED  BY <3>1, <3>3, <4>1, <1>2, Sizes DEF Registers
    <3>. QED  BY <3>2, <3>3, <1>2, Sizes DEF Registers
  <2>. QED  BY <2>1, <2>2
<1>4. immFor(kind, imm32) \in Nat /\ immFor(kind, imm32) < 2^halfWidth
  BY Sizes, SizesAssumption DEF immFor
<1>5. /\ cycle' = cycle + 1 /\ cycle < superscalarLatency /\ pc = "generate"
      /\ UNCHANGED <<pc, j, programs, reciprocals>>
  BY DEF Issue, Looping
<1>6. instructions' = Append(instructions,
          Issued(kind, dst, sourceFor(kind, src, dst), immFor(kind, imm32)))
  BY <1>1 DEF Issued
<1>. QED  BY <1>1, <1>2, <1>3, <1>4, <1>5, <1>6


LEMMA IssueInvariant == IInv /\ Issue => IInv'
<1>. SUFFICES ASSUME IInv, Issue PROVE IInv'
  OBVIOUS
<1>0. PICK kind \in Kinds, dst \in Registers, src \in Registers, d \in Nat :
               /\ canGenerateInstruction(kind)
               /\ superscalarInstrInfos[kind].hasSrc /\ numRegisters > 1 => src # dst
               /\ d < 2^halfWidth
               /\ instructions' = Append(instructions, Issued(kind, dst, src, d))
               /\ registers' = registersAfter(kind, dst)
               /\ portBusy' = portsAfter(kind)
               /\ cycle' = cycle + 1 /\ cycle < superscalarLatency /\ pc = "generate"
               /\ UNCHANGED <<pc, j, programs, reciprocals>>
  BY IssueFacts DEF IInv
<1>. DEFINE new == Issued(kind, dst, src, d)
<1>1. /\ cycle \in Nat /\ instructions \in Seq(Instructions)
      /\ registers \in [Registers -> Nat] /\ portBusy \in [Ports -> Nat]
  BY Sizes DEF IInv, TypeOK
<1>2. /\ new \in Instructions
      /\ new.kind = kind /\ new.dst = dst /\ new.src = src /\ new.at = cycle
      /\ new.imm32 = d /\ new.divisor = d
  BY <1>1 DEF Issued, Instructions
<1>N. PICK N \in Nat : N = Len(instructions)
  BY <1>1
<1>3. /\ instructions' \in Seq(Instructions) /\ Len(instructions') = N + 1 /\ N \in Nat
      /\ DOMAIN instructions = 1 .. N /\ DOMAIN instructions' = 1 .. N + 1
      /\ instructions'[N + 1] = new
      /\ \A i \in 1 .. N : instructions'[i] = instructions[i] /\ instructions[i] \in Instructions
  <2>. HIDE DEF new
  <2>1. instructions' = Append(instructions, new)
    BY <1>0 DEF new
  <2>2. new \in Instructions
    BY <1>2
  <2>3. DOMAIN instructions = 1 .. N /\ \A i \in 1 .. N : instructions[i] \in Instructions
    BY <1>1, <1>N
  <2>4. instructions' \in Seq(Instructions) /\ Len(instructions') = N + 1
    BY <2>1, <2>2, <1>1, <1>N
  <2>5. instructions'[N + 1] = new /\ \A i \in 1 .. N : instructions'[i] = instructions[i]
    BY <2>1, <2>2, <1>1, <1>N
  <2>. QED  BY <2>3, <2>4, <2>5
<1>4. Duration(kind) \in 1 .. 4
  BY Infos
<1>5. registers' = [registers EXCEPT ![dst] = cycle + Duration(kind)]
  BY <1>0 DEF registersAfter, Duration
<1>6. \A p \in Ports : portBusy'[p] \in Nat /\ portBusy'[p] >= portBusy[p]
  BY <1>0, PortsAfter DEF IInv
<1>. HIDE DEF new
<1>7. TypeOK'
  <2>1. portBusy' \in [Ports -> Nat]
    BY <1>0, <1>6 DEF portsAfter
  <2>2. registers' \in [Registers -> Nat]
    BY <1>1, <1>4, <1>5
  <2>. QED  BY <1>0, <1>3, <2>1, <2>2, Sizes DEF IInv, TypeOK
<1>8. Progress'
  BY <1>0, <1>1, <1>N, <1>3, Sizes DEF IInv, Progress
<1>9. SourceDiffers'
  <2>. SUFFICES ASSUME NEW i \in 1 .. N + 1,
                       superscalarInstrInfos[instructions'[i].kind].hasSrc, numRegisters > 1
                PROVE  instructions'[i].src # instructions'[i].dst
    BY <1>3 DEF SourceDiffers
  <2>1. CASE i = N + 1
    BY <2>1, <1>0, <1>2, <1>3
  <2>2. CASE i \in 1 .. N
    BY <2>2, <1>3 DEF IInv, SourceDiffers
  <2>. QED  BY <2>1, <2>2, <1>3
<1>10. Busy'
  <2>. SUFFICES ASSUME NEW i \in 1 .. N + 1, NEW p \in Ports,
                       NEW op \in OpsOf(instructions'[i].kind), Uses(op, p)
                PROVE  instructions'[i].at + op.latency <= portBusy'[p]
    BY <1>3 DEF Busy
  <2>1. CASE i = N + 1
    BY <2>1, <1>0, <1>2, <1>3, PortsAfter DEF IInv
  <2>2. CASE i \in 1 .. N
    <3>1. instructions[i].at + op.latency <= portBusy[p]
      BY <2>2, <1>3 DEF IInv, Busy
    <3>2. instructions[i].at \in Nat /\ instructions[i].kind \in Kinds
      BY <2>2, <1>3 DEF Instructions
    <3>3. op.latency \in Nat
      BY <3>2, <2>2, <1>3, Infos
    <3>. QED  BY <3>1, <3>2, <3>3, <2>2, <1>1, <1>3, <1>6
  <2>. QED  BY <2>1, <2>2, <1>3
<1>11. PortsRespected'
  <2>. SUFFICES ASSUME NEW i \in 1 .. N + 1,
                       Len(superscalarInstrInfos[instructions'[i].kind].ops) > 1,
                       NEW op \in OpsOf(instructions'[i].kind), NEW p \in Ports, p \in op.uop1,
                       NEW k \in 1 .. i - 1
                PROVE  ~Holds(instructions'[k], p, instructions'[i].at)
    BY <1>3 DEF PortsRespected
  <2>0. i \in Nat /\ k \in 1 .. N
    BY <1>3
  <2>1. CASE i = N + 1
    <3>1. portBusy[p] <= cycle
      <4>1. instructions'[i].kind = kind
        BY <2>1, <1>2, <1>3
      <4>2. op \in OpsOf(kind) /\ Len(superscalarInstrInfos[kind].ops) > 1
        BY <4>1
      <4>3. Len(superscalarInstrInfos[kind].ops) # 1
        BY <4>2, <1>0, SeveralOps
      <4>. QED  BY <4>2, <4>3, <1>0 DEF canGenerateInstruction
    <3>2. SUFFICES ASSUME NEW o \in OpsOf(instructions[k].kind), Uses(o, p),
                          instructions[k].at + o.latency > cycle
                   PROVE  FALSE
      BY <2>0, <2>1, <1>2, <1>3 DEF Holds, Uses
    <3>3. instructions[k].at + o.latency <= portBusy[p]
      BY <2>0, <3>2, <1>3 DEF IInv, Busy
    <3>4. instructions[k].at \in Nat /\ instructions[k].kind \in Kinds
      BY <2>0, <1>3 DEF Instructions
    <3>5. o.latency \in Nat /\ portBusy[p] \in Nat
      <4>1. o.latency \in 0 .. 4
        BY <3>2, <3>4, Infos
      <4>. QED  BY <4>1, <1>1
    <3>. QED  BY <3>1, <3>2, <3>3, <3>4, <3>5, <1>1
  <2>2. CASE i \in 1 .. N
    <3>1. ~Holds(instructions[k], p, instructions[i].at)
      BY <2>2, <1>3 DEF IInv, PortsRespected
    <3>. QED  BY <3>1, <2>0, <2>2, <1>3
  <2>. QED  BY <2>1, <2>2, <1>3
<1>12. Delays'
  <2>. SUFFICES ASSUME NEW r \in Registers
                PROVE  Delayed(r)' /\ registers'[r] <= cycle' + 4
    BY DEF Delays
  <2>1. CASE r = dst
    <3>1. registers'[r] = cycle + Duration(kind)
      BY <2>1, <1>1, <1>5
    <3>2. IsLastWrite(N + 1)'
      BY <1>3 DEF IsLastWrite
    <3>3. Completes(N + 1)' = cycle + Duration(kind)
      BY <1>2, <1>3 DEF Completes, Duration
    <3>4. N + 1 \in DOMAIN instructions' /\ instructions'[N + 1].dst = r
      BY <2>1, <1>2, <1>3
    <3>5. Delayed(r)'
      BY <3>1, <3>2, <3>3, <3>4 DEF Delayed
    <3>. QED  BY <3>1, <3>5, <1>0, <1>1, <1>4
  <2>2. CASE r # dst
    <3>1. registers'[r] = registers[r] /\ registers[r] <= cycle + 4 /\ registers[r] \in Nat
      BY <2>2, <1>1, <1>5 DEF IInv, Delays
    <3>2. CASE registers[r] = 0 /\ \A i \in DOMAIN instructions : instructions[i].dst # r
      <4>1. \A i \in 1 .. N + 1 : instructions'[i].dst # r
        <5>1. \A i \in 1 .. N + 1 : i \in 1 .. N \/ i = N + 1
          BY <1>3
        <5>. QED  BY <5>1, <3>2, <2>2, <1>2, <1>3
      <4>. QED  BY <4>1, <3>1, <3>2, <1>0, <1>1, <1>3 DEF Delayed
    <3>3. ASSUME NEW i \in DOMAIN instructions, instructions[i].dst = r, IsLastWrite(i),
                 registers[r] = Completes(i)
          PROVE  Delayed(r)'
      <4>1. i \in 1 .. N + 1 /\ instructions'[i] = instructions[i]
        BY <3>3, <1>3
      <4>2. IsLastWrite(i)'
        <5>. SUFFICES ASSUME NEW k \in 1 .. N + 1, instructions'[k].dst = instructions'[i].dst
                      PROVE  k <= i
          BY <1>3 DEF IsLastWrite
        <5>1. k # N + 1
          BY <4>1, <3>3, <2>2, <1>2, <1>3
        <5>2. k \in 1 .. N
          BY <5>1, <1>3
        <5>. QED  BY <5>2, <4>1, <3>3, <1>3 DEF IsLastWrite
      <4>3. Completes(i)' = Completes(i)
        BY <4>1 DEF Completes
      <4>. QED  BY <4>1, <4>2, <4>3, <3>1, <3>3, <1>3 DEF Delayed
    <3>4. Delayed(r)'
      BY <3>1, <3>2, <3>3 DEF IInv, Delays, Delayed
    <3>. QED  BY <3>1, <3>4, <1>0, <1>1
  <2>. QED  BY <2>1, <2>2
<1>13. AddressMostDelayed'
  BY <1>0 DEF AddressMostDelayed
<1>14. Table'
  <2>1. ASSUME NEW i \in 1 .. N + 1 PROVE Raw(instructions'[i])
    <3>1. CASE i = N + 1
      BY <3>1, <1>0, <1>2, <1>3 DEF Raw
    <3>2. CASE i \in 1 .. N
      BY <3>2, <1>3 DEF IInv, Table
    <3>. QED  BY <3>1, <3>2, <1>3
  <2>. QED  BY <2>1, <1>0, <1>3 DEF IInv, Table, Untouched, Indexed
<1>. QED  BY <1>7, <1>8, <1>9, <1>10, <1>11, <1>12, <1>13, <1>14 DEF IInv


-----------------------------------------------------------------------------
(* The other steps of the generator. *)

LEMMA StallInvariant == IInv /\ Stall => IInv'
<1>. SUFFICES ASSUME IInv, Stall PROVE IInv'
  OBVIOUS
<1>0. /\ pc = "generate" /\ cycle < superscalarLatency /\ cycle' = cycle + 1
      /\ \E kind \in Kinds : ~canGenerateInstruction(kind)
      /\ UNCHANGED <<pc, instructions, registers, portBusy, j, programs, reciprocals>>
  BY DEF Stall, Looping
<1>1. cycle \in Nat /\ instructions \in Seq(Instructions) /\ registers \in [Registers -> Nat]
  BY Sizes DEF IInv, TypeOK
<1>2. cycle > 0
  <2>. SUFFICES ASSUME portBusy = AllFree, cycle = 0 PROVE FALSE
    BY <1>1 DEF IInv, Progress
  <2>1. PICK kind \in Kinds : ~canGenerateInstruction(kind)
    BY <1>0
  <2>2. ASSUME NEW op \in OpsOf(kind), NEW p \in op.uop1 PROVE portBusy[p] <= cycle
    <3>1. op \in {AluRR, LeaSIB, ImulRR, RorRI, MulR, MovRR}
      BY Infos
    <3>2. op.uop1 \subseteq Ports
      BY <3>1 DEF AluRR, LeaSIB, ImulRR, RorRI, MulR, MovRR, MacroOp, Ports
    <3>. QED  BY <3>2 DEF AllFree
  <2>. QED  BY <2>1, <2>2 DEF canGenerateInstruction
<1>3. TypeOK'
  BY <1>0, <1>1, Sizes DEF IInv, TypeOK
<1>4. Progress'
  BY <1>0, <1>1, <1>2 DEF IInv, Progress
<1>5. Delays'
  <2>. SUFFICES ASSUME NEW r \in Registers
                PROVE  Delayed(r)' /\ registers'[r] <= cycle' + 4
    BY DEF Delays
  <2>1. Delayed(r)'
    BY <1>0 DEF IInv, Delays, Delayed, IsLastWrite, Completes
  <2>. QED  BY <2>1, <1>0, <1>1 DEF IInv, Delays
<1>6. SourceDiffers' /\ Busy' /\ AddressMostDelayed'
  BY <1>0 DEF IInv, SourceDiffers, Busy, AddressMostDelayed
<1>7. PortsRespected'
  BY <1>0 DEF IInv, PortsRespected, Holds
<1>8. Table'
  BY <1>0 DEF IInv, Table, Untouched, Indexed
<1>. QED  BY <1>3, <1>4, <1>5, <1>6, <1>7, <1>8 DEF IInv

(* The address register exists, and is the one that is ready last. *)
LEMMA AddressRegister ==
    ASSUME IInv
    PROVE  /\ selectAddressRegister \in Registers
           /\ \A r \in Registers : registers[selectAddressRegister] >= registers[r]
<1>. DEFINE T == {registers[r] : r \in Registers}
            latest == Max(T)
            C == {r \in Registers : registers[r] = latest}
<1>0. cycle + 4 \in Nat /\ registers \in [Registers -> Nat]
  BY Sizes DEF IInv, TypeOK
<1>1. T \subseteq Nat /\ T # {} /\ \A x \in T : x <= cycle + 4
  BY <1>0, Sizes DEF IInv, Delays
<1>2. latest \in T /\ \A x \in T : latest >= x
  <2>. HIDE DEF T
  <2>. QED  BY <1>0, <1>1, Maximum
<1>. HIDE DEF latest
<1>3. C \subseteq Nat /\ C # {}
  BY <1>2, Sizes DEF Registers
<1>4. PICK r \in C : \A q \in C : r <= q
  <2>. HIDE DEF C
  <2>. QED  BY <1>3, Least
<1>5. \E a \in Registers : /\ registers[a] = latest
                           /\ \A q \in Registers : registers[q] = latest => a <= q
  BY <1>4
<1>6. /\ selectAddressRegister \in Registers
      /\ registers[selectAddressRegister] = latest
  BY <1>5 DEF selectAddressRegister, latest
<1>. QED  BY <1>2, <1>6

LEMMA FinishInvariant == IInv /\ Finish => IInv'
<1>. SUFFICES ASSUME IInv, Finish PROVE IInv'
  OBVIOUS
<1>. DEFINE a == selectAddressRegister
            program == [instructions |-> instructions, addressReg |-> a]
<1>0. /\ pc = "generate" /\ pc' = "precompute" /\ j' = 1 /\ ~Looping
      /\ programs' = Append(programs, program)
      /\ UNCHANGED <<cycle, instructions, registers, portBusy, reciprocals>>
  BY DEF Finish
<1>1. /\ cycle \in 0 .. superscalarLatency /\ instructions \in Seq(Instructions)
      /\ Len(instructions) \in Nat
      /\ programs \in Seq([instructions : Seq(Instructions), addressReg : Registers])
      /\ Len(programs) < cacheAccesses
  BY <1>0 DEF IInv, TypeOK, Progress
<1>A. \A k \in DOMAIN instructions :
          /\ k \in Nat /\ instructions[k] \in Instructions
          /\ instructions[k].dst \in Registers
          /\ instructions[k].at \in Nat /\ instructions[k].kind \in Kinds
  <2>. TAKE k \in DOMAIN instructions
  <2>1. k \in Nat /\ instructions[k] \in Instructions
    BY <1>1
  <2>. QED  BY <2>1 DEF Instructions
<1>2. cycle = superscalarLatency /\ Len(instructions) > 0
  BY <1>0, <1>1, Sizes DEF Looping, IInv, Progress
<1>3. PICK N \in Nat : N = Len(programs)
  BY <1>1
<1>4. program \in [instructions : Seq(Instructions), addressReg : Registers]
  BY <1>1, AddressRegister
<1>. HIDE DEF program
<1>5. /\ programs' \in Seq([instructions : Seq(Instructions), addressReg : Registers])
      /\ Len(programs') = N + 1 /\ programs'[N + 1] = program
      /\ DOMAIN programs = 1 .. N /\ DOMAIN programs' = 1 .. N + 1
      /\ \A n \in 1 .. N : programs'[n] = programs[n]
  BY <1>0, <1>1, <1>3, <1>4
<1>6. current' = program /\ program.instructions = instructions /\ program.addressReg = a
  BY <1>5 DEF current, program
<1>7. TypeOK'
  BY <1>0, <1>1, <1>3, <1>5, Sizes DEF IInv, TypeOK
<1>8. Progress'
  BY <1>0, <1>1, <1>2, <1>3, <1>5, <1>6 DEF IInv, Progress
<1>9. SourceDiffers' /\ Busy'
  BY <1>0 DEF IInv, SourceDiffers, Busy
<1>10. PortsRespected'
  BY <1>0 DEF IInv, PortsRespected, Holds
<1>11. Delays'
  BY <1>0 DEF IInv, Delays, Delayed, IsLastWrite, Completes
<1>12. AddressMostDelayed'
  <2>1. \A r \in Registers : registers[r] \in Nat /\ registers[a] >= registers[r]
    BY AddressRegister DEF IInv, TypeOK
  <2>2. ASSUME NEW k \in DOMAIN instructions, IsLastWrite(k)
        PROVE  registers[instructions[k].dst] = Completes(k) /\ instructions[k].dst \in Registers
    <3>1. instructions[k].dst \in Registers /\ k \in Nat
      BY <1>A
    <3>2. PICK i \in DOMAIN instructions :
              /\ instructions[i].dst = instructions[k].dst /\ IsLastWrite(i)
              /\ registers[instructions[k].dst] = Completes(i)
      BY <3>1 DEF IInv, Delays, Delayed
    <3>3. i <= k /\ k <= i /\ i \in Nat
      BY <3>2, <2>2, <1>A DEF IsLastWrite
    <3>. QED  BY <3>1, <3>2, <3>3
  <2>3. registers[a] > 0
    <3>1. instructions[1] \in Instructions /\ 1 \in DOMAIN instructions
      BY <1>1, <1>2
    <3>2. instructions[1].dst \in Registers
      BY <3>1 DEF Instructions
    <3>3. PICK i \in DOMAIN instructions : registers[instructions[1].dst] = Completes(i)
      BY <3>1, <3>2 DEF IInv, Delays, Delayed
    <3>4. instructions[i].at \in Nat /\ instructions[i].kind \in Kinds
      BY <1>A
    <3>5. Completes(i) > 0
      <4>1. Duration(instructions[i].kind) \in 1 .. 4
        BY <3>4, Infos
      <4>2. Completes(i) = instructions[i].at + Duration(instructions[i].kind)
        BY DEF Completes, Duration
      <4>. QED  BY <3>4, <4>1, <4>2
    <3>. QED  BY <2>1, <3>2, <3>3, <3>5, AddressRegister
  <2>4. PICK i \in DOMAIN instructions :
            instructions[i].dst = a /\ IsLastWrite(i) /\ registers[a] = Completes(i)
    BY <2>3, AddressRegister DEF IInv, Delays, Delayed
  <2>5. \A k \in DOMAIN instructions : IsLastWrite(k) => Completes(k) <= Completes(i)
    BY <2>1, <2>2, <2>4
  <2>6. \A k \in DOMAIN instructions : /\ IsLastWrite(k)' <=> IsLastWrite(k)
                                       /\ Completes(k)' = Completes(k)
    BY <1>0 DEF IsLastWrite, Completes
  <2>. QED  BY <2>4, <2>5, <2>6, <1>0, <1>6 DEF AddressMostDelayed
<1>13. Table'
  <2>1. ASSUME NEW i \in DOMAIN instructions PROVE i \in Nat /\ i >= 1 /\ Raw(instructions[i])
    BY <1>1 DEF IInv, Table
  <2>2. ASSUME NEW n \in 1 .. N, NEW i \in DOMAIN programs[n].instructions
        PROVE  Indexed(programs[n].instructions[i], reciprocals)
    BY <1>0, <1>5 DEF IInv, Table, Untouched
  <2>3. ASSUME NEW n \in 1 .. N + 1, NEW i \in DOMAIN programs'[n].instructions
        PROVE  /\ Untouched(n, i)' => Raw(programs'[n].instructions[i])
               /\ ~ Untouched(n, i)' => Indexed(programs'[n].instructions[i], reciprocals')
    <3>1. CASE n = N + 1
      BY <3>1, <2>1, <1>0, <1>5, <1>6 DEF Untouched
    <3>2. CASE n \in 1 .. N
      <4>1. ~ Untouched(n, i)'
        BY <3>2, <1>5 DEF Untouched
      <4>2. programs'[n] = programs[n]
        BY <3>2, <1>5
      <4>3. Indexed(programs[n].instructions[i], reciprocals)
        BY <3>2, <4>2, <2>2
      <4>4. Indexed(programs'[n].instructions[i], reciprocals')
        BY <4>2, <4>3, <1>0 DEF Indexed
      <4>. QED  BY <4>1, <4>4
    <3>3. n = N + 1 \/ n \in 1 .. N
      BY <1>3
    <3>. QED  BY <3>1, <3>2, <3>3
  <2>. QED  BY <2>1, <2>3, <1>0, <1>5 DEF Table
<1>. QED  BY <1>7, <1>8, <1>9, <1>10, <1>11, <1>12, <1>13 DEF IInv


-----------------------------------------------------------------------------
(* The reciprocals, and the end of a program. *)

ProgramRecord == [instructions : Seq(Instructions), addressReg : Registers]

(* The program that newCache is at, and the instruction. *)
LEMMA Position ==
    ASSUME IInv, pc = "precompute"
    PROVE  /\ Len(programs) \in Nat /\ Len(programs) > 0
           /\ programs \in Seq(ProgramRecord)
           /\ current \in ProgramRecord
           /\ \A i \in DOMAIN current.instructions : current.instructions[i] \in Instructions
           /\ j \in Nat /\ j > 0
           /\ Len(current.instructions) \in Nat
           /\ DOMAIN current.instructions = 1 .. Len(current.instructions)
           /\ reciprocals \in Seq(0 .. Width - 1) /\ Len(reciprocals) \in Nat
<1>1. /\ programs \in Seq(ProgramRecord) /\ j \in 1 .. superscalarMaxSize + 1
      /\ Len(programs) > 0 /\ reciprocals \in Seq(0 .. Width - 1)
  BY DEF IInv, TypeOK, Progress, ProgramRecord
<1>2. current \in ProgramRecord
  BY <1>1 DEF current
<1>3. current.instructions \in Seq(Instructions)
  BY <1>2 DEF ProgramRecord
<1>. QED  BY <1>1, <1>2, <1>3, Sizes

(* What Precompute does to the programs. *)
LEMMA PrecomputeFacts ==
    ASSUME IInv, Precompute
    PROVE  /\ programs' \in Seq(ProgramRecord) /\ Len(programs') = Len(programs)
           /\ \A n \in 1 .. Len(programs) - 1 : programs'[n] = programs[n]
           /\ current'.addressReg = current.addressReg
           /\ DOMAIN current'.instructions = DOMAIN current.instructions
           /\ Len(current'.instructions) = Len(current.instructions)
           /\ \A i \in DOMAIN current.instructions :
                 i # j => current'.instructions[i] = current.instructions[i]
           /\ current'.instructions[j].imm32 = Len(reciprocals)
           /\ current'.instructions[j].kind = "IMUL_RCP"
           /\ current'.instructions[j].divisor = current.instructions[j].divisor
<1>. PICK N \in Nat : N = Len(programs)
  BY Position DEF Precompute
<1>. DEFINE old == current.instructions
            instr == [old[j] EXCEPT !.imm32 = Len(reciprocals)]
            list == [old EXCEPT ![j] = instr]
            program == [current EXCEPT !.instructions = list]
<1>0. pc = "precompute" /\ j <= Len(old) /\ old[j].kind = "IMUL_RCP"
  BY DEF Precompute
<1>1. j \in DOMAIN old /\ old[j] \in Instructions /\ old \in Seq(Instructions)
  BY <1>0, Position DEF ProgramRecord
<1>2. /\ instr \in Instructions
      /\ instr.imm32 = Len(reciprocals) /\ instr.kind = old[j].kind
      /\ instr.divisor = old[j].divisor
  BY <1>0, <1>1, Position DEF Instructions
<1>. HIDE DEF instr
<1>3. list \in Seq(Instructions) /\ DOMAIN list = DOMAIN old /\ Len(list) = Len(old)
      /\ list[j] = instr /\ \A i \in DOMAIN old : i # j => list[i] = old[i]
  <2>. HIDE DEF old
  <2>. QED  BY <1>1, <1>2
<1>. HIDE DEF list
<1>4. /\ program \in ProgramRecord /\ program.instructions = list
      /\ program.addressReg = current.addressReg
  BY <1>0, <1>3, Position DEF ProgramRecord
<1>5. programs' = [programs EXCEPT ![N] = program]
  <2>1. programs' = [programs EXCEPT ![Len(programs)].instructions[j].imm32 = Len(reciprocals)]
    BY DEF Precompute
  <2>. QED  BY <2>1 DEF program, list, instr, current
<1>. HIDE DEF program
<1>6. /\ programs' \in Seq(ProgramRecord) /\ Len(programs') = N
      /\ programs'[N] = program /\ \A n \in 1 .. N - 1 : programs'[n] = programs[n]
  BY <1>0, <1>4, <1>5, Position
<1>7. current' = program
  BY <1>6 DEF current
<1>. QED  BY <1>0, <1>2, <1>3, <1>4, <1>6, <1>7


(* What has been entered into the table stays. *)
LEMMA TableGrows ==
    ASSUME NEW table \in Seq(Nat), NEW x \in Nat, NEW instr \in Instructions,
           Indexed(instr, table)
    PROVE  Indexed(instr, Append(table, x))
<1>1. instr.imm32 \in Nat
  BY DEF Instructions
<1>. QED  BY <1>1 DEF Indexed

(* Nothing of the generator changes. *)
LEMMA GeneratorKept ==
    ASSUME IInv, UNCHANGED <<cycle, instructions, registers, portBusy>>
    PROVE  SourceDiffers' /\ Busy' /\ PortsRespected' /\ Delays'
<1>1. SourceDiffers' /\ Busy'
  BY DEF IInv, SourceDiffers, Busy
<1>2. PortsRespected'
  BY DEF IInv, PortsRespected, Holds
<1>3. Delays'
  BY DEF IInv, Delays, Delayed, IsLastWrite, Completes
<1>. QED  BY <1>1, <1>2, <1>3

LEMMA AddressKept ==
    ASSUME IInv, pc = "precompute", UNCHANGED instructions,
           current'.addressReg = current.addressReg
    PROVE  AddressMostDelayed'
<1>1. PICK i \in DOMAIN instructions :
          /\ instructions[i].dst = current.addressReg /\ IsLastWrite(i)
          /\ \A k \in DOMAIN instructions : IsLastWrite(k) => Completes(k) <= Completes(i)
  BY DEF IInv, AddressMostDelayed
<1>2. \A k \in DOMAIN instructions : /\ IsLastWrite(k)' <=> IsLastWrite(k)
                                     /\ Completes(k)' = Completes(k)
  BY DEF IsLastWrite, Completes
<1>. QED  BY <1>1, <1>2 DEF AddressMostDelayed

LEMMA PrecomputeInvariant == IInv /\ Precompute => IInv'
<1>. SUFFICES ASSUME IInv, Precompute PROVE IInv'
  OBVIOUS
<1>0. /\ pc = "precompute" /\ j <= Len(current.instructions) /\ j' = j + 1
      /\ current.instructions[j].kind = "IMUL_RCP"
      /\ reciprocals' = Append(reciprocals, reciprocal(current.instructions[j].imm32))
      /\ UNCHANGED <<pc, cycle, instructions, registers, portBusy>>
  BY DEF Precompute
<1>. PICK N \in Nat : N = Len(programs)
  BY <1>0, Position
<1>1. /\ N > 0 /\ programs[N] = current
      /\ DOMAIN programs = 1 .. N /\ DOMAIN programs' = 1 .. N
      /\ j \in DOMAIN current.instructions /\ j \in Nat
  BY <1>0, Position, PrecomputeFacts DEF current
<1>2. programs'[N] = current'
  BY PrecomputeFacts DEF current
<1>. DEFINE instr == current.instructions[j]
            x == reciprocal(instr.imm32)
<1>3. Raw(instr) /\ instr \in Instructions
  <2>1. Untouched(N, j)
    BY <1>0, <1>1 DEF Untouched
  <2>2. Raw(programs[N].instructions[j])
    BY <2>1, <1>1 DEF IInv, Table
  <2>. QED  BY <2>2, <1>1, Position, <1>0
<1>4. x \in 0 .. Width - 1 /\ x = reciprocal(instr.divisor)
  <2>1. instr.imm32 \in Nat /\ instr.imm32 = instr.divisor /\ instr.divisor < 2^halfWidth
    BY <1>3 DEF Raw, Instructions
  <2>. QED  BY <2>1, ReciprocalWord
<1>5. /\ Width \in Nat /\ reciprocals \in Seq(0 .. Width - 1) /\ reciprocals \in Seq(Nat)
      /\ Len(reciprocals) \in Nat /\ x \in Nat
  <2>1. Width \in Nat
    BY SizesAssumption, PowersAssumption DEF Width
  <2>2. reciprocals \in Seq(0 .. Width - 1) /\ Len(reciprocals) \in Nat
    BY <1>0, Position
  <2>. QED  BY <2>1, <2>2, <1>4
<1>6. reciprocals' = Append(reciprocals, x)
  BY <1>0
<1>. HIDE DEF x, instr
<1>7. Len(current.instructions) = Len(instructions) /\ Len(instructions) \in Nat
      /\ Len(instructions) <= superscalarLatency /\ j <= Len(instructions)
      /\ Len(programs') = N /\ Len(current'.instructions) = Len(instructions)
  <2>1. cycle = superscalarLatency /\ instructions \in Seq(Instructions)
    BY <1>0 DEF IInv, Progress, TypeOK
  <2>2. Len(current.instructions) = Len(instructions) /\ Len(instructions) <= cycle
    BY <1>0 DEF IInv, Progress
  <2>3. Len(programs') = N /\ Len(current'.instructions) = Len(current.instructions)
    BY PrecomputeFacts
  <2>. QED  BY <1>0, <2>1, <2>2, <2>3
<1>8. TypeOK'
  <2>1. reciprocals' \in Seq(0 .. Width - 1)
    BY <1>4, <1>5, <1>6
  <2>2. j' \in 1 .. superscalarMaxSize + 1
    BY <1>0, <1>1, <1>7, Position, Sizes
  <2>. QED  BY <1>0, <1>7, <2>1, <2>2, PrecomputeFacts DEF IInv, TypeOK, ProgramRecord
<1>9. Progress'
  BY <1>0, <1>1, <1>7 DEF IInv, Progress
<1>10. SourceDiffers' /\ Busy' /\ PortsRespected' /\ Delays'
  BY <1>0, GeneratorKept
<1>11. AddressMostDelayed'
  BY <1>0, AddressKept, PrecomputeFacts
<1>12. Table'
  <2>1. ASSUME NEW n \in 1 .. N - 1, NEW i \in DOMAIN programs[n].instructions
        PROVE  Indexed(programs[n].instructions[i], reciprocals')
    <3>1. ~ Untouched(n, i)
      BY DEF Untouched
    <3>2. Indexed(programs[n].instructions[i], reciprocals)
      BY <3>1, <1>1 DEF IInv, Table
    <3>3. programs[n].instructions[i] \in Instructions
      <4>1. programs \in Seq(ProgramRecord)
        BY <1>0, Position
      <4>2. programs[n] \in ProgramRecord
        BY <4>1, <1>1
      <4>3. programs[n].instructions \in Seq(Instructions)
        BY <4>2 DEF ProgramRecord
      <4>. QED  BY <4>3
    <3>. QED  BY <3>2, <3>3, <1>5, <1>6, TableGrows
  <2>2. ASSUME NEW i \in DOMAIN current.instructions
        PROVE  /\ i > j => Raw(current'.instructions[i])
               /\ i <= j => Indexed(current'.instructions[i], reciprocals')
    <3>0. i \in Nat /\ current.instructions[i] \in Instructions
      BY <1>0, Position
    <3>1. CASE i > j
      <4>1. Untouched(N, i)
        BY <3>1, <3>0, <1>0, <1>1 DEF Untouched
      <4>2. Raw(programs[N].instructions[i])
        BY <4>1, <1>1 DEF IInv, Table
      <4>3. current'.instructions[i] = current.instructions[i]
        BY <3>0, <3>1, <1>1, PrecomputeFacts
      <4>. QED  BY <4>2, <4>3, <3>0, <3>1, <1>1
    <3>2. CASE i = j
      <4>1. /\ current'.instructions[i].imm32 = Len(reciprocals)
            /\ current'.instructions[i].divisor = instr.divisor
        BY <3>2, PrecomputeFacts DEF instr
      <4>2. reciprocals'[Len(reciprocals) + 1] = x /\ Len(reciprocals') = Len(reciprocals) + 1
        BY <1>5, <1>6
      <4>. QED  BY <4>1, <4>2, <3>2, <1>1, <1>4, <1>5 DEF Indexed
    <3>3. CASE i < j
      <4>1. ~ Untouched(N, i)
        BY <3>3, <3>0, <1>1 DEF Untouched
      <4>2. Indexed(programs[N].instructions[i], reciprocals)
        BY <4>1, <1>1 DEF IInv, Table
      <4>3. current'.instructions[i] = current.instructions[i]
        BY <3>0, <3>3, <1>1, PrecomputeFacts
      <4>4. Indexed(current.instructions[i], reciprocals')
        BY <4>2, <3>0, <1>1, <1>5, <1>6, TableGrows
      <4>. QED  BY <4>3, <4>4, <3>0, <3>3, <1>1
    <3>. QED  BY <3>0, <3>1, <3>2, <3>3, <1>1
  <2>3. ASSUME NEW n \in 1 .. N, NEW i \in DOMAIN programs'[n].instructions
        PROVE  /\ Untouched(n, i)' => Raw(programs'[n].instructions[i])
               /\ ~ Untouched(n, i)' => Indexed(programs'[n].instructions[i], reciprocals')
    <3>1. CASE n = N
      <4>1. i \in DOMAIN current.instructions /\ i \in Nat
        BY <3>1, <1>0, <1>2, Position, PrecomputeFacts
      <4>2. Untouched(n, i)' <=> i > j
        BY <3>1, <4>1, <1>0, <1>1, <1>7 DEF Untouched
      <4>. QED  BY <4>1, <4>2, <2>2, <3>1, <1>1, <1>2
    <3>2. CASE n \in 1 .. N - 1
      <4>1. programs'[n] = programs[n]
        BY <3>2, PrecomputeFacts
      <4>2. ~ Untouched(n, i)'
        BY <3>2, <1>7 DEF Untouched
      <4>3. Indexed(programs[n].instructions[i], reciprocals')
        BY <3>2, <4>1, <2>1
      <4>. QED  BY <4>1, <4>2, <4>3
    <3>3. n = N \/ n \in 1 .. N - 1
      OBVIOUS
    <3>. QED  BY <3>1, <3>2, <3>3
  <2>. QED  BY <2>3, <1>0, <1>1 DEF IInv, Table
<1>. QED  BY <1>8, <1>9, <1>10, <1>11, <1>12 DEF IInv


LEMMA KeepInvariant == IInv /\ Keep => IInv'
<1>. SUFFICES ASSUME IInv, Keep PROVE IInv'
  OBVIOUS
<1>0. /\ pc = "precompute" /\ j <= Len(current.instructions) /\ j' = j + 1
      /\ current.instructions[j].kind # "IMUL_RCP"
      /\ UNCHANGED <<pc, cycle, instructions, registers, portBusy, programs, reciprocals>>
  BY DEF Keep
<1>1. /\ Len(current.instructions) = Len(instructions) /\ Len(instructions) <= cycle
      /\ cycle = superscalarLatency /\ instructions \in Seq(Instructions) /\ j \in Nat /\ j > 0
  BY <1>0, Position DEF IInv, Progress, TypeOK
<1>2. current' = current
  BY <1>0 DEF current
<1>3. TypeOK'
  BY <1>0, <1>1, Sizes DEF IInv, TypeOK
<1>4. Progress'
  BY <1>0, <1>1, <1>2 DEF IInv, Progress
<1>5. SourceDiffers' /\ Busy' /\ PortsRespected' /\ Delays'
  BY <1>0, GeneratorKept
<1>6. AddressMostDelayed'
  BY <1>0, <1>2, AddressKept
<1>7. Table'
  <2>1. ASSUME NEW n \in DOMAIN programs, NEW i \in DOMAIN programs[n].instructions
        PROVE  /\ Untouched(n, i)' => Raw(programs[n].instructions[i])
               /\ ~ Untouched(n, i)' => Indexed(programs[n].instructions[i], reciprocals)
    <3>1. CASE n = Len(programs) /\ i = j
      <4>1. programs[n].instructions[i].kind # "IMUL_RCP"
        BY <3>1, <1>0 DEF current
      <4>2. ~ Untouched(n, i)'
        BY <3>1, <1>0, <1>1 DEF Untouched
      <4>. QED  BY <4>1, <4>2 DEF Indexed
    <3>2. CASE n # Len(programs)
      <4>1. ~ Untouched(n, i)' /\ ~ Untouched(n, i)
        BY <3>2, <1>0 DEF Untouched
      <4>. QED  BY <4>1 DEF IInv, Table
    <3>3. CASE n = Len(programs) /\ i # j
      <4>1. i \in Nat
        BY <3>3, <1>0, Position DEF current
      <4>2. Untouched(n, i)' <=> Untouched(n, i)
        BY <3>3, <4>1, <1>0, <1>1 DEF Untouched
      <4>. QED  BY <4>2 DEF IInv, Table
    <3>. QED  BY <3>1, <3>2, <3>3
  <2>. QED  BY <2>1, <1>0 DEF IInv, Table
<1>. QED  BY <1>3, <1>4, <1>5, <1>6, <1>7 DEF IInv

(* When newCache has looked at every instruction of a program, none is      *)
(* untouched.                                                               *)
LEMMA NoneLeft ==
    ASSUME IInv, pc = "precompute", j > Len(current.instructions),
           NEW n \in DOMAIN programs, NEW i \in DOMAIN programs[n].instructions
    PROVE  ~ Untouched(n, i)
<1>. SUFFICES ASSUME n = Len(programs), i >= j PROVE FALSE
  BY DEF Untouched
<1>1. i \in 1 .. Len(current.instructions)
  BY Position DEF current
<1>. QED  BY <1>1, Position

LEMMA NextProgramInvariant == IInv /\ NextProgram => IInv'
<1>. SUFFICES ASSUME IInv, NextProgram PROVE IInv'
  OBVIOUS
<1>0. /\ pc = "precompute" /\ j > Len(current.instructions) /\ Len(programs) < cacheAccesses
      /\ pc' = "generate" /\ cycle' = 0 /\ instructions' = << >>
      /\ registers' = AllReady /\ portBusy' = AllFree
      /\ UNCHANGED <<j, programs, reciprocals>>
  BY DEF NextProgram
<1>1. TypeOK' /\ Progress'
  BY <1>0, Sizes DEF IInv, TypeOK, Progress, AllReady, AllFree
<1>2. SourceDiffers' /\ Busy' /\ PortsRespected' /\ AddressMostDelayed'
  BY <1>0 DEF SourceDiffers, Busy, PortsRespected, AddressMostDelayed
<1>3. Delays'
  BY <1>0 DEF Delays, Delayed, AllReady
<1>4. Table'
  <2>1. ASSUME NEW n \in DOMAIN programs, NEW i \in DOMAIN programs[n].instructions
        PROVE  ~ Untouched(n, i)' /\ Indexed(programs[n].instructions[i], reciprocals)
    BY <1>0, NoneLeft DEF IInv, Table, Untouched
  <2>. QED  BY <2>1, <1>0 DEF Table
<1>. QED  BY <1>1, <1>2, <1>3, <1>4 DEF IInv

LEMMA BuiltInvariant == IInv /\ Built => IInv'
<1>. SUFFICES ASSUME IInv, Built PROVE IInv'
  OBVIOUS
<1>0. /\ pc = "precompute" /\ j > Len(current.instructions) /\ pc' = "built"
      /\ UNCHANGED <<cycle, instructions, registers, portBusy, j, programs, reciprocals>>
  BY DEF Built
<1>1. TypeOK' /\ Progress' /\ AddressMostDelayed'
  BY <1>0 DEF IInv, TypeOK, Progress, AddressMostDelayed
<1>2. SourceDiffers' /\ Busy' /\ PortsRespected' /\ Delays'
  BY <1>0, GeneratorKept
<1>3. Table'
  <2>1. ASSUME NEW n \in DOMAIN programs, NEW i \in DOMAIN programs[n].instructions
        PROVE  ~ Untouched(n, i)' /\ Indexed(programs[n].instructions[i], reciprocals)
    BY <1>0, NoneLeft DEF IInv, Table, Untouched
  <2>. QED  BY <2>1, <1>0 DEF IInv, Table
<1>. QED  BY <1>1, <1>2, <1>3 DEF IInv

LEMMA NextInvariant == IInv /\ [Next]_vars => IInv'
<1>1. IInv /\ UNCHANGED vars => IInv'
  <2>. SUFFICES ASSUME IInv, UNCHANGED vars PROVE IInv'
    OBVIOUS
  <2>0. UNCHANGED <<pc, cycle, instructions, registers, portBusy, j, programs, reciprocals>>
    BY DEF vars
  <2>1. TypeOK' /\ Progress'
    BY <2>0 DEF IInv, TypeOK, Progress, current
  <2>2. SourceDiffers' /\ Busy' /\ PortsRespected' /\ Delays'
    BY <2>0, GeneratorKept
  <2>3. AddressMostDelayed'
    <3>1. CASE pc = "precompute"
      BY <2>0, <3>1, AddressKept DEF current
    <3>2. CASE pc # "precompute"
      BY <2>0, <3>2 DEF AddressMostDelayed
    <3>. QED  BY <3>1, <3>2
  <2>4. Table'
    BY <2>0 DEF IInv, Table, Untouched
  <2>. QED  BY <2>1, <2>2, <2>3, <2>4 DEF IInv
<1>. QED  BY <1>1, IssueInvariant, StallInvariant, FinishInvariant, PrecomputeInvariant,
             KeepInvariant, NextProgramInvariant, BuiltInvariant DEF Next

-----------------------------------------------------------------------------
(* The theorems. *)

THEOREM Invariant == Spec => []IInv
<1>. QED  BY InitInvariant, NextInvariant, PTL DEF Spec

(* Registers and addresses are those of the machine, and no loop of         *)
(* newCache overruns (superscalar_gen.go:189-246, cache.go:40-70).          *)
THEOREM TypeCorrect == Spec => []TypeOK
<1>1. IInv => TypeOK
  BY DEF IInv
<1>. QED  BY <1>1, Invariant, PTL

(* A long instruction finds the ports of its first micro-operations free,   *)
(* whatever was issued before (superscalar_gen.go:292-308, 388-417).        *)
THEOREM PortsFree == Spec => []PortsRespected
<1>1. IInv => PortsRespected
  BY DEF IInv
<1>. QED  BY <1>1, Invariant, PTL

(* No instruction works on one register twice, for every number of          *)
(* registers but one (superscalar_gen.go:328-331).                          *)
THEOREM Sources == Spec => []SourceDiffers
<1>1. IInv => SourceDiffers
  BY DEF IInv
<1>. QED  BY <1>1, Invariant, PTL

(* The loop of the generator ends by the latency, with a program            *)
(* (superscalar_gen.go:207-241).                                            *)
THEOREM Complete == Spec => []ProgramComplete
<1>1. IInv => ProgramComplete
  <2>. SUFFICES ASSUME IInv, pc = "precompute"
                PROVE  cycle = superscalarLatency /\ Len(instructions) \in 1 .. superscalarLatency
    BY DEF ProgramComplete
  <2>1. /\ cycle = superscalarLatency /\ instructions \in Seq(Instructions)
        /\ Len(instructions) <= cycle /\ (cycle > 0 => Len(instructions) > 0)
    BY DEF IInv, Progress, TypeOK
  <2>2. Len(instructions) \in Nat
    BY <2>1
  <2>. QED  BY <2>1, <2>2, Sizes
<1>. QED  BY <1>1, Invariant, PTL

(* The address register is one that is written, and the last to be ready    *)
(* (superscalar_gen.go:423-437).                                            *)
THEOREM AddressDelayed == Spec => []AddressMostDelayed
<1>1. IInv => AddressMostDelayed
  BY DEF IInv
<1>. QED  BY <1>1, Invariant, PTL

(* Every IMUL_RCP of every program multiplies by the reciprocal of its own  *)
(* divisor (cache.go:55-64, superscalar.go:46-54).                          *)
THEOREM OwnReciprocal == Spec => []ReciprocalOfDivisor
<1>1. IInv => ReciprocalOfDivisor
  <2>. SUFFICES ASSUME IInv, pc = "built", NEW n \in DOMAIN programs,
                       NEW i \in DOMAIN programs[n].instructions,
                       programs[n].instructions[i].kind = "IMUL_RCP"
                PROVE  Multiplier(programs[n].instructions[i]) =
                           reciprocal(programs[n].instructions[i].divisor)
    BY DEF ReciprocalOfDivisor
  <2>1. Indexed(programs[n].instructions[i], reciprocals)
    BY DEF IInv, Table, Untouched
  <2>. QED  BY <2>1 DEF Indexed, Multiplier
<1>. QED  BY <1>1, Invariant, PTL

=============================================================================
