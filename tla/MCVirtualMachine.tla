-------------------------- MODULE MCVirtualMachine --------------------------
(* VirtualMachine with a cache of four items and two superscalar programs   *)
(* that between them hold every kind of instruction.                        *)
EXTENDS VirtualMachine

Instr(opcode, dst, src, mod, imm32) ==
    [opcode |-> opcode, dst |-> dst, src |-> src, mod |-> mod, imm32 |-> imm32]

MCAdd == <<1, 5, 2>>

MCData == [n \in 0 .. 3 |-> [r \in 0 .. 3 |-> (3 * n + 2 * r + 1) % 8]]

MCPrograms ==
    <<[instructions |-> <<Instr("IMUL_R", 0, 1, 0, 0), Instr("IADD_RS", 1, 2, 2, 0),
                          Instr("IROR_C", 2, 0, 0, 1), Instr("IMUL_RCP", 3, 0, 0, 0),
                          Instr("ISUB_R", 3, 2, 0, 0), Instr("IADD_C7", 0, 0, 0, 1)>>,
       addressReg   |-> 3],
      [instructions |-> <<Instr("IXOR_R", 1, 3, 0, 0), Instr("IMULH_R", 2, 1, 0, 0),
                          Instr("ISMULH_R", 0, 3, 0, 0), Instr("IXOR_C9", 3, 0, 0, 1),
                          Instr("IMUL_RCP", 1, 0, 0, 1)>>,
       addressReg   |-> 2]>>

MCReciprocals == <<5, 3>>
=============================================================================
