----------------------------- MODULE MCBoomCore -----------------------------
(***************************************************************************)
(* Small cores and small programs.  A program is a few instructions from   *)
(* address 0 on; every other word is illegal.                              *)
(***************************************************************************)
EXTENDS BoomCore

I(op, rd, rs1, rs2, imm) ==
    [op |-> op, rd |-> rd, rs1 |-> rs1, rs2 |-> rs2, imm |-> imm]

\* A negative offset.
Back(n) == WordCount - n

Programmed(instrs) ==
    [a \in Word |-> IF a < Len(instrs) THEN instrs[a + 1] ELSE IllegalWord]

\* Every program of n instructions from a set.
ProgramsOver(n, pool) == {Programmed(s) : s \in [1 .. n -> pool]}

LoadR1 == I("load", 1, 0, 0, 0)
LoadR2 == I("load", 2, 0, 0, 0)
AddR1 == I("alu", 1, 1, 0, 1)
AddR2 == I("alu", 2, 2, 0, 1)

Pool ==
    {I("alu", 1, 1, 0, 1), I("alu", 2, 1, 2, 0), I("fence", 0, 0, 0, 0),
     I("branch", 0, 1, 2, 2), I("branch", 0, 1, 0, Back(1)),
     I("jal", 2, 0, 0, 2), I("jal", 0, 0, 0, Back(2)), I("jalr", 1, 2, 0, 1),
     I("load", 1, 1, 0, 1), I("load", 2, 1, 0, 0), I("store", 0, 1, 2, 0),
     I("store", 0, 0, 1, 1), I("ecall", 0, 0, 0, 0)}

\* No load is followed at once by an instruction that may redirect.
LoadsSettle(p) ==
    \A a \in Word : p[a].op = "load" => ~IsTransfer(p[Plus(a, 1)])

MCSettled == {p \in ProgramsOver(3, Pool) : LoadsSettle(p)}

\* Any two instructions.
MCPairs == ProgramsOver(2, Pool)

\* Loops of loads and stores, with illegal encodings of both; a loop whose jump
\* drops its load, which uses another address each time round; and a loop in which
\* a load follows two stores to its address.
MCMemoryLoops ==
    ProgramsOver(2, {I("load", 1, 1, 0, 1),
                     I("store", 0, 0, 1, 0), I("store", 0, 1, 2, 1),
                     I("jal", 2, 0, 0, Back(1)), I("jalr", 0, 1, 0, 0),
                     I("branch", 0, 1, 0, Back(1)), I("ecall", 0, 0, 0, 0),
                     I("illload", 1, 0, 0, 0), I("illstore", 0, 0, 0, 0)})
    \cup {Programmed(<<I("alu", 1, 1, 0, 2), I("store", 0, 1, 1, 1),
                       I("load", 2, 1, 0, 1), I("jal", 0, 0, 0, 1)>>),
          Programmed(<<AddR1, I("store", 0, 0, 2, 0), I("store", 0, 0, 1, 0), LoadR2>>)}

-----------------------------------------------------------------------------
(* Programs of a few chosen instructions.                                  *)

MCStraightLine == {Programmed(<<LoadR1, AddR2, AddR2, AddR2>>)}
MCLoadThenJump == {Programmed(<<LoadR1, I("branch", 0, 0, 0, 2)>>)}
MCLoadThenUse == {Programmed(<<LoadR1, I("alu", 2, 1, 0, 1)>>)}

=============================================================================
