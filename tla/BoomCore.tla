------------------------------ MODULE BoomCore ------------------------------
(***************************************************************************)
(* One core: boom_core_step composed of its stages.  A cycle is one pass   *)
(* of "stage" through the calls of boom_core_step, in their order, each an *)
(* action; the memories move between cycles.  boom_core_step works on a    *)
(* copy and nothing else runs meanwhile, so cutting the call into actions  *)
(* adds no interleaving: the memory moves only when stage = "branch".      *)
(*                                                                         *)
(* csr_module only counts cycles and is left out.  global_flush is set by  *)
(* rob_commit_module at the end of a cycle and cleared before any stage of *)
(* the next one reads it: the branches it guards in lsu, frontend, decode, *)
(* rename, rob_allocate and issue never run, and it is not kept.           *)
(***************************************************************************)
EXTENDS Frontend, Rename, Lsu, SequencesExt

CONSTANTS IqDepth,      \* ISSUE_QUEUE_ALU_DEPTH, 8
          IdealMemory   \* the data memory finishes its work between two cycles

ASSUME IqDepthAssumption == IqDepth \in Nat \ {0}
ASSUME IdealMemoryAssumption == IdealMemory \in BOOLEAN

VARIABLES stage,        \* the call of boom_core_step that runs next
          program,      \* the instruction memory
          redirect,     \* brupdate.valid /\ brupdate.mispredict
          target,       \* brupdate.jalr_target
          decUop,       \* decode.dec_uops[0] when it is valid, else NoUop
          aluIq,        \* the valid entries of issue.alu_iq, in order
          issuedUop,    \* issue.issued_uops[0] when it is valid, else NoUop
          aluResult,    \* execute.alu_results[0]
          ioSuccess,    \* io_success
          ioTrap        \* io_trap

robRing == <<entries, robHead, robTail, maybeFull, robState>>
pipeVars == <<decUop, aluIq, issuedUop, aluResult>>
branchVars == <<redirect, target>>
ioVars == <<ioSuccess, ioTrap>>

vars == <<stage, program, branchVars, frontendVars, pipeVars, renameVars,
          robRing, lsuVars, memoryVars, intRf, ioVars>>

Init ==
    /\ stage = "branch"
    /\ program \in Programs
    /\ redirect = FALSE
    /\ target = 0
    /\ decUop = NoUop
    /\ aluIq = <<>>
    /\ issuedUop = NoUop
    /\ aluResult = NoResult
    /\ ioSuccess = FALSE
    /\ ioTrap = FALSE
    /\ FrontendInit
    /\ RenameInit
    /\ RobInit
    /\ LsuInit

At(s, next) == stage = s /\ stage' = next

-----------------------------------------------------------------------------

\* Mutant of Branch: branch_module forgets is_jalr.
BranchNotJalr ==
    /\ At("branch", "lsu")
    /\ IdealMemory => dmemReq = <<>>
    /\ redirect' = (/\ aluResult.valid
                    /\ aluResult.redirect
                    /\ aluResult.uop.inst.op # "jalr")
    /\ target' = IF redirect' THEN aluResult.target ELSE target
    /\ ioSuccess' = FALSE
    /\ ioTrap' = FALSE
    /\ UNCHANGED <<program, frontendVars, pipeVars, renameVars, robRing,
                   lsuVars, memoryVars, intRf>>

\* The flags are reset, then branch_module looks at the last cycle's result.
Branch ==
    /\ At("branch", "lsu")
    /\ IdealMemory => dmemReq = <<>>
    /\ redirect' = (aluResult.valid /\ aluResult.redirect)
    /\ target' = IF redirect' THEN aluResult.target ELSE target
    /\ ioSuccess' = FALSE
    /\ ioTrap' = FALSE
    /\ UNCHANGED <<program, frontendVars, pipeVars, renameVars, robRing,
                   lsuVars, memoryVars, intRf>>

LsuStage ==
    /\ At("lsu", "frontend")
    /\ LsuModule(aluResult)
    /\ UNCHANGED <<program, branchVars, frontendVars, pipeVars, renameVars, ioVars>>

\* frontend_module with or without an answer to read.
FetchFrame ==
    /\ At("frontend", "decode")
    /\ UNCHANGED <<program, branchVars, pipeVars, renameVars, robRing, lsuVars,
                   memoryVars, intRf, ioVars>>

FetchStopped ==
    /\ FetchFrame
    /\ robState = "EXCEPTION"
    /\ FrontendStopped(redirect, target)

FetchWaits ==
    /\ FetchFrame
    /\ robState # "EXCEPTION"
    /\ FrontendWaits(redirect, target)

FetchReads ==
    /\ FetchFrame
    /\ robState # "EXCEPTION"
    /\ FrontendReads(redirect, target, program)

\* The uop that decode makes of a fetched instruction.
Decoded(f) ==
    [pc |-> f.pc, inst |-> f.inst, ldst |-> f.inst.rd, exception |-> Faults(f.inst),
     prs1 |-> 0, prs2 |-> 0, pdst |-> 0, stale |-> 0, rob |-> 0]

Decode ==
    /\ At("decode", "rename")
    /\ decUop' = IF fetchUop = NoUop THEN NoUop ELSE Decoded(fetchUop)
    /\ UNCHANGED <<program, branchVars, frontendVars, aluIq, issuedUop, aluResult,
                   renameVars, robRing, lsuVars, memoryVars, intRf, ioVars>>

RenameStage ==
    /\ At("rename", "rob_allocate")
    /\ IF decUop = NoUop THEN RenameNothing(redirect) ELSE RenameUop(decUop, redirect)
    /\ UNCHANGED <<program, branchVars, frontendVars, pipeVars, robRing, lsuVars,
                   memoryVars, intRf, ioVars>>

\* rob_allocate: the uop takes the tail slot and remembers it; when the ring is
\* full it stops being valid, and nothing tells the stages before.
RobAllocate ==
    /\ At("rob_allocate", "issue")
    /\ \/ /\ renamedUop = NoUop
          /\ WakeRob
          /\ UNCHANGED <<entries, robHead, robTail, maybeFull, renamedUop>>
       \/ /\ renamedUop # NoUop
          /\ LET u == [renamedUop EXCEPT !.rob = robTail]
             IN  /\ Allocate(u)
                 /\ renamedUop' = IF RobFull THEN NoUop ELSE u
    /\ UNCHANGED <<program, branchVars, frontendVars, pipeVars, mapTable,
                   committedMap, freeListVars, lsuVars, memoryVars, intRf, ioVars>>

\* issue_module: dispatch if there is room, then grant the oldest entry.  Every
\* entry is ready, since no source is ever busy.
Issue ==
    /\ At("issue", "execute")
    /\ LET queue == IF renamedUop # NoUop /\ Len(aluIq) < IqDepth
                    THEN Append(aluIq, renamedUop) ELSE aluIq
       IN  IF queue = <<>>
           THEN /\ issuedUop' = NoUop
                /\ aluIq' = <<>>
           ELSE /\ issuedUop' = Head(queue)
                /\ aluIq' = Tail(queue)
    /\ UNCHANGED <<program, branchVars, frontendVars, decUop, aluResult, renameVars,
                   robRing, lsuVars, memoryVars, intRf, ioVars>>

\* A source register; physical register 0 reads as zero.
Source(p) == IF p # 0 THEN intRf[p] ELSE 0

\* What execute_module puts into alu_results[0].
Executed(u) ==
    LET a == Source(u.prs1)
        b == Source(u.prs2)
    IN  [valid |-> TRUE, uop |-> u,
         redirect |-> Redirects(u.inst, a, b),
         target |-> Target(u.inst, a, u.pc),
         exception |-> u.exception,
         isLoad |-> u.inst.op = "load",
         isStore |-> u.inst.op = "store",
         addr |-> Address(u.inst, a),
         data |-> b,
         result |-> Result(u.inst, a, b, u.pc)]

\* Every destination but a load's is written at once.
Execute ==
    /\ At("execute", "rob_commit")
    /\ IF issuedUop = NoUop
       THEN /\ aluResult' = NoResult
            /\ UNCHANGED intRf
       ELSE LET r == Executed(issuedUop)
                p == issuedUop.pdst
            IN  /\ aluResult' = r
                /\ intRf' = IF ~r.isLoad /\ HasIntDst(issuedUop.inst) /\ p # 0
                            THEN [intRf EXCEPT ![p] = r.result] ELSE intRf
    /\ UNCHANGED <<program, branchVars, frontendVars, decUop, aluIq, issuedUop,
                   renameVars, robRing, lsuVars, memoryVars, ioVars>>

-----------------------------------------------------------------------------
(* rob_commit_module.                                                      *)

\* The last result marks its entry done, unless it belongs to the LSU.
WithResult ==
    IF ~aluResult.valid THEN entries
    ELSE LET i == aluResult.uop.inst IN
         IF CtrlIsLoad(i) \/ CtrlIsSta(i) THEN entries
         ELSE MarkDone(entries, aluResult.uop.rob, aluResult.exception)

CommitFrame ==
    /\ At("rob_commit", "branch")
    /\ UNCHANGED <<program, branchVars, frontendVars, pipeVars, mapTable, renamedUop,
                   loadPending, pendingTx, pendingRob, dmemResp, memory, intRf>>

\* Mutant of CommitFlush: the load in flight is forgotten with the rest.
CommitFlushForgetsLoad ==
    /\ At("rob_commit", "branch")
    /\ redirect
    /\ SquashAll
    /\ loadPending' = FALSE
    /\ pendingTx' = 0
    /\ pendingRob' = 0
    /\ UNCHANGED <<program, branchVars, frontendVars, pipeVars, mapTable, renamedUop,
                   committedMap, freeListVars, nextTx, memoryVars, intRf, ioVars>>

\* A mispredict drops everything in flight, whatever its age.
CommitFlush ==
    /\ CommitFrame
    /\ redirect
    /\ SquashAll
    /\ UNCHANGED <<committedMap, freeListVars, nextTx, dmemReq, ioVars>>

\* The head cannot leave: it is not done, or its memory operation is not.
HeadWaits(es) ==
    HeadReady(es) =>
       LET h == es[robHead] IN
       /\ ~h.exception
       /\ \/ (CtrlIsLoad(h.uop.inst) \/ h.mem.isLoad) /\ ~h.mem.completed
          \/ (CtrlIsSta(h.uop.inst) \/ h.mem.isStore) /\ (~h.mem.valid \/ DmemFull)

CommitNothing ==
    /\ CommitFrame
    /\ ~redirect
    /\ HeadWaits(WithResult)
    /\ entries' = WithResult
    /\ UNCHANGED <<robHead, robTail, maybeFull, robState, committedMap, freeListVars,
                   nextTx, dmemReq, ioVars>>

\* The head leaves: its mapping commits, and a store's request goes out.
CommitHead ==
    /\ CommitFrame
    /\ ~redirect
    /\ LET es == WithResult
           h == es[robHead]
       IN  /\ ~HeadWaits(es)
           /\ ~h.exception
           /\ PopHead(es)
           /\ CommitMapping(h.uop)
           /\ IF h.mem.isStore
              THEN /\ dmemReq' = Append(dmemReq, [isStore |-> TRUE, addr |-> h.mem.addr,
                                                  data |-> h.mem.data, tx |-> nextTx])
                   /\ nextTx' = NextTx
              ELSE UNCHANGED <<dmemReq, nextTx>>
    /\ UNCHANGED <<robState, ioVars>>

\* Mutant of CommitEcall: register 10 itself is read, not the one a0 is mapped to.
CommitEcallUnmapped ==
    /\ CommitFrame
    /\ ~redirect
    /\ LET es == WithResult
           h == es[robHead]
       IN  /\ HeadReady(es)
           /\ h.exception
           /\ h.uop.inst.op = "ecall"
           /\ PopHead(es)
    /\ ioSuccess' = (Source(A0) = 0)
    /\ ioTrap' = (Source(A0) # 0)
    /\ UNCHANGED <<robState, committedMap, freeListVars, nextTx, dmemReq>>

\* ECALL reports a0 as the speculative map sees it and leaves.
CommitEcall ==
    /\ CommitFrame
    /\ ~redirect
    /\ LET es == WithResult
           h == es[robHead]
       IN  /\ HeadReady(es)
           /\ h.exception
           /\ h.uop.inst.op = "ecall"
           /\ PopHead(es)
    /\ ioSuccess' = (Source(mapTable[A0]) = 0)
    /\ ioTrap' = (Source(mapTable[A0]) # 0)
    /\ UNCHANGED <<robState, committedMap, freeListVars, nextTx, dmemReq>>

\* Any other exception stays at the head and stops the front end.
CommitTrap ==
    /\ CommitFrame
    /\ ~redirect
    /\ LET es == WithResult
           h == es[robHead]
       IN  /\ HeadReady(es)
           /\ h.exception
           /\ h.uop.inst.op # "ecall"
           /\ entries' = es
    /\ robState' = "EXCEPTION"
    /\ ioTrap' = TRUE
    /\ UNCHANGED <<robHead, robTail, maybeFull, committedMap, freeListVars,
                   nextTx, dmemReq, ioSuccess>>

-----------------------------------------------------------------------------

\* The data memory, between two cycles.
Memory ==
    /\ stage = "branch"
    /\ MemoryServes
    /\ UNCHANGED <<stage, program, branchVars, frontendVars, pipeVars, renameVars,
                   robRing, lsuVars, intRf, ioVars>>

Cycle ==
    \/ Branch \/ LsuStage
    \/ FetchStopped \/ FetchWaits \/ FetchReads
    \/ Decode \/ RenameStage \/ RobAllocate \/ Issue \/ Execute
    \/ CommitFlush \/ CommitNothing \/ CommitHead \/ CommitEcall \/ CommitTrap

Next == Cycle \/ Memory

Spec == Init /\ [][Next]_vars

-----------------------------------------------------------------------------
(* The architectural state, read off the core's own state.                 *)

\* Where the next instruction to retire is: at the head of the ROB; or, when the
\* ROB is empty, in the pipeline registers in front of it; or at the target of
\* the transfer that has just left; or where the front end will fetch next.
ArchPc ==
    IF ~RobEmpty THEN entries[robHead].uop.pc
    ELSE IF stage \in {"decode", "rename", "rob_allocate"} /\ fetchUop # NoUop
         THEN fetchUop.pc
    ELSE IF stage # "branch" /\ redirect THEN target
    ELSE IF aluResult.valid /\ aluResult.redirect THEN aluResult.target
    ELSE pc

ArchRegs == [r \in Reg |-> Source(committedMap[r])]

\* The places in dmem_req of the stores to a.
StoresTo(a) == {n \in DOMAIN dmemReq : dmemReq[n].isStore /\ dmemReq[n].addr = a}

\* Memory once every store on its way has arrived: the youngest store to a word
\* decides.
ArchMem ==
    [a \in Word |-> IF StoresTo(a) = {} THEN memory[a] ELSE dmemReq[Max(StoresTo(a))].data]

Arch == INSTANCE Isa WITH archPc <- ArchPc, regs <- ArchRegs, mem <- ArchMem,
                          trapped <- (robState = "EXCEPTION")

\* Retirement follows the instruction set: what commits is, one after another,
\* what a machine without a pipeline executes, with the same registers, memory
\* and traps.
ExecutesProgram == Arch!Spec
-----------------------------------------------------------------------------
(* Properties.                                                             *)

\* Every component of the core has its type.
CoreTypeOK ==
    /\ stage \in {"branch", "lsu", "frontend", "decode", "rename", "rob_allocate",
                  "issue", "execute", "rob_commit"}
    /\ redirect \in BOOLEAN /\ target \in Word
    /\ decUop \in MicroOp \cup {NoUop}
    /\ aluIq \in Seq(MicroOp) /\ Len(aluIq) <= IqDepth
    /\ issuedUop \in MicroOp \cup {NoUop}
    /\ aluResult \in AluResult \cup {NoResult}
    /\ ioSuccess \in BOOLEAN /\ ioTrap \in BOOLEAN
    /\ FrontendTypeOK
    /\ RenameTypeOK
    /\ RobTypeOK
    /\ LsuTypeOK

\* Transfers that leave the fall-through path whatever the registers hold.
AlwaysLeaves(i) == i.op \in {"jal", "jalr"} \/ (i.op = "branch" /\ i.rs1 = i.rs2)

\* No wrong path: nothing enters the ROB behind a jump, because branch_module
\* redirects the front end before it can read another answer.  The core has no
\* other means to tell the wrong path from the right one: a flush drops all.
NoWrongPath ==
    \A k \in 1 .. RobLength - 1 : ~AlwaysLeaves(RobQueue[k].inst)

\* The loads that memory has not answered, or whose answer is not read.
LoadsInFlight ==
    {req.tx : req \in {r \in Range(dmemReq) : ~r.isStore}}
        \cup {resp.tx : resp \in Range(dmemResp)}

\* The load in flight is the one the LSU waits for, and a ROB entry that waits
\* for memory is waited for by the LSU.  load_response_pending is cleared only by
\* that answer: were the two to disagree, loads would stop or take foreign data.
LoadAnswerComing ==
    /\ LoadsInFlight = IF loadPending THEN {pendingTx} ELSE {}
    /\ \A i \in Slots :
          entries[i].valid /\ entries[i].mem.sent /\ ~entries[i].mem.completed
              => loadPending /\ pendingRob = i

\* A load that has its data has what memory will hold once every store that has
\* left the ROB has arrived: no older store is passed, no answer to a flushed
\* load is taken for it.
LoadValueIsCurrent ==
    \A i \in Slots :
        LET e == entries[i]
        IN  e.valid /\ e.mem.isLoad /\ e.mem.completed /\ ~e.exception
                => e.mem.data = ArchMem[e.mem.addr]

\* The mapping that renaming starts from is the committed one with every
\* destination in flight laid over it, the youngest last.  A flush restores it
\* from the committed mapping alone.
MapsAgree ==
    LET Mapped[n \in 0 .. RobLength] ==
            IF n = 0 THEN committedMap
            ELSE IF RobQueue[n].pdst = 0 THEN Mapped[n - 1]
            ELSE [Mapped[n - 1] EXCEPT ![RobQueue[n].ldst] = RobQueue[n].pdst]
    IN  stage = "branch" => mapTable = Mapped[RobLength]

\* The free registers the list can hand out.  Its last position is not one of
\* them: the first release overwrites the register there (see README).
FreeRegs == {freeList[(freeHead + k) % IntPhysRegs] : k \in 0 .. freeCount - 2}

\* The registers that hold a value someone may read.
HeldRegs ==
    ({committedMap[r] : r \in Reg}
        \cup {entries[i].uop.pdst : i \in {j \in Slots : entries[j].valid}}) \ {0}

\* No register is both free and held, none is in the list twice, and none is
\* lost: what is not held can be handed out again.
RegistersConserved ==
    stage = "branch" =>
        /\ FreeRegs \cap (HeldRegs \cup {0}) = {}
        /\ Cardinality(FreeRegs) = freeCount - 1
        /\ Cardinality(FreeRegs) + Cardinality(HeldRegs) = IntPhysRegs - 2

\* No uop arrives at a full ROB.
RoomForUop == stage = "rob_allocate" /\ renamedUop # NoUop => ~RobFull

\* When a uop wants a register, the list has one besides its last position.
RegisterLeft ==
    stage = "rename" /\ decUop # NoUop /\ WantsReg(decUop) => freeCount > 1

\* A flush drops no uop that holds a register.
FlushDropsNoRegister ==
    stage = "rob_commit" /\ redirect =>
        \A i \in Slots : entries[i].valid => entries[i].uop.pdst = 0

\* Nothing is lost in the three ways that no stage guards against: rob_allocate drops
\* a uop at a full ROB, rename goes on without a register (or hands out the list's
\* last position), and a flush drops entries without giving their registers back.
NothingLost == RoomForUop /\ RegisterLeft /\ FlushDropsNoRegister

\* ECALL reports the a0 that the program sees: nothing younger shows through.
EcallReportsA0 == [][CommitEcall => (ioSuccess' <=> ArchRegs[A0] = 0)]_vars

-----------------------------------------------------------------------------
(* What the runs of chosen programs look at.                               *)

\* In a program without transfers, what is in flight sits at consecutive
\* addresses: no instruction is skipped.
NothingSkipped ==
    \A k \in 1 .. RobLength - 1 : RobQueue[k + 1].pc = Plus(RobQueue[k].pc, 1)

\* A flush drops no uop that the program goes through: since nothing younger
\* than the transfer is in the ROB, it finds nothing to drop.
FlushFindsNothing == stage = "rob_commit" /\ redirect => RobEmpty

\* The destinations of the loads that have no data yet.
LoadsDue ==
    {entries[i].uop.pdst : i \in {j \in Slots : /\ entries[j].valid
                                                /\ CtrlIsLoad(entries[j].uop.inst)
                                                /\ ~entries[j].mem.completed}}

\* A uop reads its sources only once the loads that write them have their data.
\* Every operand counts as ready, so that no stage keeps a uop back.
SourcesArrived ==
    stage = "execute" /\ issuedUop # NoUop =>
        {issuedUop.prs1, issuedUop.prs2} \cap LoadsDue \subseteq {0}

\* ECALL leaves an otherwise empty ROB: it reads a0 by the speculative map, which
\* a uop behind it would already have changed.
EcallAlone ==
    stage = "rob_commit" /\ ~redirect /\ HeadReady(WithResult)
          /\ entries[robHead].uop.inst.op = "ecall" =>
        NextSlot(robHead) = robTail

\* No stage guards against any of these.  Where none of them happens, the core
\* executes its program.
Undisturbed == NothingLost /\ FlushFindsNothing /\ SourcesArrived /\ EcallAlone

-----------------------------------------------------------------------------
(* Liveness.                                                               *)

\* The clock runs, and both memories answer what they were asked.
FairSpec ==
    /\ Spec
    /\ WF_vars(Cycle)
    /\ SF_vars(FetchReads)
    /\ SF_vars(Memory)

\* Instructions retire for ever, unless one traps.
Retires ==
    []<><<CommitHead \/ CommitEcall>>_vars \/ <>[](robState = "EXCEPTION")

=============================================================================
