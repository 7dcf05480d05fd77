---------------------------- MODULE MCMergedCore ----------------------------
(***************************************************************************)
(* Small instances of the single-file core.                                *)
(***************************************************************************)
EXTENDS MergedCore

I(op, rd, rs1, rs2, imm) ==
    [op |-> op, rd |-> rd, rs1 |-> rs1, rs2 |-> rs2, imm |-> imm]

Programmed(instrs) ==
    [a \in Word |-> IF a < Len(instrs) THEN instrs[a + 1] ELSE IllegalWord]

\* One of each kind, with forward and backward transfers.
MCPool ==
    {I("alu", 1, 1, 0, 1), I("alu", 2, 1, 2, 0), I("fence", 0, 0, 0, 0),
     I("branch", 0, 1, 2, 2), I("branch", 0, 1, 0, WordCount - 1),
     I("jal", 2, 0, 0, 2), I("jal", 0, 0, 0, WordCount - 2), I("jalr", 1, 2, 0, 1),
     I("load", 1, 1, 0, 1), I("store", 0, 1, 2, 0), I("illload", 1, 0, 0, 0),
     I("illstore", 0, 0, 0, 0), I("ecall", 0, 0, 0, 0)}

\* Every transfer goes forward, so that no instruction is dropped twice: each drop
\* loses a physical register (see README), and the list would run dry.
GoesForward(p) ==
    \A a \in Word : IsTransfer(p[a]) => p[a].op # "jalr" /\ a + p[a].imm \in Word

HasMemory(p) == \E a \in Word : IqMem(p[a])

MCPrograms ==
    {p \in {Programmed(s) : s \in [1 .. 3 -> MCPool]} : HasMemory(p) => GoesForward(p)}

=============================================================================
