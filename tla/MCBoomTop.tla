----------------------------- MODULE MCBoomTop -----------------------------
(***************************************************************************)
(* Small instances of the top level: loops of loads and stores.            *)
(***************************************************************************)
EXTENDS BoomTop

I(op, rd, rs1, rs2, imm) ==
    [op |-> op, rd |-> rd, rs1 |-> rs1, rs2 |-> rs2, imm |-> imm]

Back(n) == WordCount - n

Programmed(instrs) ==
    [a \in Word |-> IF a < Len(instrs) THEN instrs[a + 1] ELSE IllegalWord]

AddR1 == I("alu", 1, 1, 0, 1)
Store(addr) == I("store", 0, 0, 1, addr)
StoreMoves == I("store", 0, 1, 1, 1)
Load(addr) == I("load", 1, 0, 0, addr)
LoadMoves == I("load", 1, 1, 0, 1)
JumpBack(n) == I("jal", 0, 0, 0, Back(n))

\* A store and a load of the same address round a loop; two stores in a row; a load
\* and a store whose addresses move; a jump right behind its load; illegal encodings of
\* both behind a load.
MCPrograms ==
    {Programmed(<<AddR1, Store(0), Load(0), JumpBack(3)>>),
     Programmed(<<Store(0), Store(1), AddR1, JumpBack(3)>>),
     Programmed(<<LoadMoves, StoreMoves, JumpBack(2)>>),
     Programmed(<<LoadMoves, JumpBack(1)>>),
     Programmed(<<Store(0), Load(0), I("illload", 1, 0, 0, 0)>>),
     Programmed(<<Load(0), I("illstore", 0, 0, 0, 0), Store(0), JumpBack(3)>>)}

=============================================================================
