-------------------------------- MODULE Isa --------------------------------
(***************************************************************************)
(* What the core promises to software: a machine that executes the program *)
(* one instruction at a time.  There is no pipeline, no renaming and no    *)
(* memory latency here.                                                    *)
(***************************************************************************)
EXTENDS BoomTypes

CONSTANTS ResetVector,  \* where execution starts
          FaultAddrs    \* addresses whose loads fault

VARIABLES program, archPc, regs, mem, trapped

archVars == <<archPc, regs, mem, trapped>>

Here == program[archPc]
Rs1 == regs[Here.rs1]
Rs2 == regs[Here.rs2]

\* A write to register 0 is lost.
WriteReg(v) == regs' = [r \in Reg |-> IF r = Here.rd /\ r # 0 THEN v ELSE regs[r]]

Init ==
    /\ archPc = ResetVector
    /\ regs = [r \in Reg |-> 0]
    /\ mem = [a \in Word |-> 0]
    /\ trapped = FALSE

Compute ==
    /\ Here.op \in {"alu", "jal", "jalr", "branch"}
    /\ IF HasIntDst(Here) THEN WriteReg(Result(Here, Rs1, Rs2, archPc)) ELSE UNCHANGED regs
    /\ archPc' = IF Redirects(Here, Rs1, Rs2) THEN Target(Here, Rs1, archPc)
                 ELSE Plus(archPc, 1)
    /\ UNCHANGED <<mem, trapped>>

Load ==
    /\ Here.op = "load"
    /\ Address(Here, Rs1) \notin FaultAddrs
    /\ WriteReg(mem[Address(Here, Rs1)])
    /\ archPc' = Plus(archPc, 1)
    /\ UNCHANGED <<mem, trapped>>

Store ==
    /\ Here.op = "store"
    /\ mem' = [mem EXCEPT ![Address(Here, Rs1)] = Rs2]
    /\ archPc' = Plus(archPc, 1)
    /\ UNCHANGED <<regs, trapped>>

\* Fences and environment calls only let execution go on.
Pass ==
    /\ Here.op \in {"fence", "ecall"}
    /\ archPc' = Plus(archPc, 1)
    /\ UNCHANGED <<regs, mem, trapped>>

Trap ==
    /\ \/ Here.op \in {"illegal", "illload", "illstore"}
       \/ Here.op = "load" /\ Address(Here, Rs1) \in FaultAddrs
    /\ trapped' = TRUE
    /\ UNCHANGED <<archPc, regs, mem>>

Next ==
    /\ ~trapped
    /\ Compute \/ Load \/ Store \/ Pass \/ Trap
    /\ UNCHANGED program

Spec == Init /\ [][Next]_<<program, archVars>>

=============================================================================
