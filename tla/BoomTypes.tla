----------------------------- MODULE BoomTypes -----------------------------
(***************************************************************************)
(* The data every stage shares (boom_types.hpp, boom_config.hpp), reduced  *)
(* to what the stages tell apart.                                          *)
(*                                                                         *)
(*  - A machine word, a memory address and an instruction address are all  *)
(*    members of Word, with wrap-around arithmetic; one instruction is one *)
(*    word, so "pc + 4" is pc + 1 and the masks that align a target are    *)
(*    left out.                                                            *)
(*  - An instruction is its decode class with its register numbers and its *)
(*    immediate.  "alu" stands for every instruction that writes rd from   *)
(*    rs1, rs2 and the immediate, "fence" for those that only retire, and  *)
(*    "illload" and "illstore" for the load and store opcodes with an      *)
(*    illegal funct3, which decode keeps marked as memory operations.      *)
(***************************************************************************)
EXTENDS Integers, Sequences

CONSTANTS WordCount,    \* machine words are 0 .. WordCount - 1 (2^64 in the code)
          LogicalRegs,  \* LOGICAL_REG_COUNT, 32
          IntPhysRegs,  \* INT_PHYS_REGS, 52
          RobSlots,     \* ROB_DEPTH, 32
          A0            \* the logical register ECALL reports, 10

ASSUME WordCountAssumption == WordCount \in Nat \ {0}
ASSUME LogicalRegsAssumption == LogicalRegs \in Nat \ {0}
ASSUME IntPhysRegsAssumption == IntPhysRegs \in Nat /\ IntPhysRegs > 1
ASSUME RobSlotsAssumption == RobSlots \in Nat \ {0}
ASSUME A0Assumption == A0 \in 0 .. LogicalRegs - 1

Word == 0 .. WordCount - 1
Reg  == 0 .. LogicalRegs - 1
Preg == 0 .. IntPhysRegs - 1

Plus(a, b) == (a + b) % WordCount

Ops == {"alu", "fence", "jal", "jalr", "branch", "load", "store",
        "ecall", "illegal", "illload", "illstore"}

\* Decode takes a word for ECALL only if its rd is 0.
Instr == {i \in [op : Ops, rd : Reg, rs1 : Reg, rs2 : Reg, imm : Word] :
              i.op = "ecall" => i.rd = 0}

\* What a word outside the program reads as: all zero bits.
IllegalWord == [op |-> "illegal", rd |-> 0, rs1 |-> 0, rs2 |-> 0, imm |-> 0]

-----------------------------------------------------------------------------
(* The decode table.                                                       *)

\* ctrl.is_load and ctrl.is_sta.
CtrlIsLoad(i) == i.op \in {"load", "illload"}
CtrlIsSta(i)  == i.op \in {"store", "illstore"}

Faults(i) == i.op \in {"ecall", "illegal", "illload", "illstore"}

\* dst_rtype = DST_INT.  It is 0, the value a uop starts with, so opcodes that
\* set nothing have an integer destination too; jumps to x0 have none.
HasIntDst(i) == \/ i.op \in {"alu", "load", "illload", "illegal", "ecall"}
                \/ i.op \in {"jal", "jalr"} /\ i.rd # 0

-----------------------------------------------------------------------------
(* What an instruction computes, from its address and its source values.   *)

IsTransfer(i) == i.op \in {"jal", "jalr", "branch"}

\* A transfer leaves the fall-through path: jumps always, a branch when taken.
Redirects(i, a, b) == i.op \in {"jal", "jalr"} \/ (i.op = "branch" /\ a = b)

Target(i, a, pc) == IF i.op = "jalr" THEN Plus(a, i.imm) ELSE Plus(pc, i.imm)

Result(i, a, b, pc) ==
    CASE i.op = "alu"                 -> Plus(Plus(a, b), i.imm)
      [] i.op \in {"jal", "jalr"}     -> Plus(pc, 1)
      [] i.op \in {"load", "store"}   -> Plus(a, i.imm)
      [] OTHER                        -> 0

Address(i, a) == Plus(a, i.imm)

-----------------------------------------------------------------------------
(* Records that travel between the stages.                                 *)

\* MicroOp, from decode (no register renamed yet) to commit.
MicroOp == [pc : Word, inst : Instr, ldst : Reg, exception : BOOLEAN,
            prs1 : Preg, prs2 : Preg, pdst : Preg, stale : Preg,
            rob : 0 .. RobSlots - 1]

NoUop == [none |-> TRUE]

\* The memory fields of a RobEntry.
MemInfo == [valid : BOOLEAN, isLoad : BOOLEAN, isStore : BOOLEAN,
            sent : BOOLEAN, completed : BOOLEAN, addr : Word, data : Word]

NoMem == [valid |-> FALSE, isLoad |-> FALSE, isStore |-> FALSE,
          sent |-> FALSE, completed |-> FALSE, addr |-> 0, data |-> 0]

\* ExecuteState::AluResult.
NoResult == [valid |-> FALSE]

AluResult == [valid : {TRUE}, uop : MicroOp, redirect : BOOLEAN, target : Word,
              exception : BOOLEAN, isLoad : BOOLEAN, isStore : BOOLEAN,
              addr : Word, data : Word, result : Word]

=============================================================================
