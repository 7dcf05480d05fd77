--------------------------- MODULE MCDifferential ---------------------------
(***************************************************************************)
(* The benches over small programs: every three instructions of a pool in  *)
(* which a load is not followed at once by a transfer.                     *)
(***************************************************************************)
EXTENDS Differential

I(op, rd, rs1, rs2, imm) ==
    [op |-> op, rd |-> rd, rs1 |-> rs1, rs2 |-> rs2, imm |-> imm]

Pool ==
    {I("alu", 1, 1, 0, 1), I("alu", 2, 1, 2, 1), I("load", 1, 2, 0, 0),
     I("store", 0, 0, 1, 0), I("store", 0, 1, 2, 0),
     I("branch", 0, 1, 2, 2), I("jal", 2, 0, 0, WordCount - 2), I("jalr", 1, 2, 0, 1),
     I("ecall", 0, 0, 0, 0)}

LoadsSettle(p) ==
    \A a \in Word : p[a].op = "load" => ~IsTransfer(p[Plus(a, 1)])

Programmed(instrs) ==
    [a \in Word |-> IF a < Len(instrs) THEN instrs[a + 1] ELSE IllegalWord]

MCPrograms == {p \in {Programmed(s) : s \in [1 .. 3 -> Pool]} : LoadsSettle(p)}

=============================================================================
