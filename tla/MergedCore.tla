----------------------------- MODULE MergedCore -----------------------------
(***************************************************************************)
(* The single-file core boom_core_merged.cpp with its boom_core_top.  It   *)
(* is an older state of the modelled files: the stages are those of        *)
(* BoomCore, with an empty LSU, no data streams, and an issue stage that   *)
(* knows one queue.  What decode sends to the memory queue (loads, stores, *)
(* their illegal encodings, FENCE) is never issued, and its ROB entry is   *)
(* busy until a flush drops it.                                            *)
(*                                                                         *)
(* Only LD and SD are legal memory encodings here; the other widths are    *)
(* "illload" and "illstore".  MRET and WFI go to the ALU queue and are     *)
(* instances of "alu" with rd 0.                                           *)
(***************************************************************************)
EXTENDS BoomCore

CONSTANT TraceDepth     \* entries pipe.commit_trace holds

ASSUME TraceDepthAssumption == TraceDepth \in Nat \ {0}

VARIABLE commitTrace    \* pipe.commit_trace

mergedVars == <<vars, commitTrace>>

\* iq_type = IQ_MEM.
IqMem(i) == i.op \in {"load", "store", "illload", "illstore", "fence"}

MergedInit == Init /\ commitTrace = <<>>

-----------------------------------------------------------------------------
(* boom_core_top's loop around the step, and the stages up to execute.     *)

\* Mutant of MergedBranch: the top takes an entry only with a fetch in flight.
MergedBranchKeepsTrace ==
    /\ Branch
    /\ commitTrace' = IF fetches = <<>> THEN commitTrace ELSE <<>>

\* Between two cycles the top takes one entry out of commit_trace; then the flags
\* are reset and branch_module looks at the last result.  While its ports of fetches
\* and of the trace are full the top waits for their readers, and the step is not taken.
MergedBranch ==
    /\ Branch
    /\ commitTrace' = IF commitTrace = <<>> THEN <<>> ELSE Tail(commitTrace)

\* lsu_module is empty.
MergedLsu ==
    /\ At("lsu", "frontend")
    /\ UNCHANGED <<program, branchVars, frontendVars, pipeVars, renameVars, robRing,
                   lsuVars, memoryVars, intRf, ioVars, commitTrace>>

MergedFetch ==
    /\ FetchStopped \/ FetchWaits \/ FetchReads
    /\ UNCHANGED commitTrace

MergedDecode == Decode /\ UNCHANGED commitTrace

MergedRename == RenameStage /\ UNCHANGED commitTrace

MergedRobAllocate == RobAllocate /\ UNCHANGED commitTrace

\* Mutant of Dispatched: whatever is renamed is dispatched.
DispatchedAll == renamedUop # NoUop /\ Len(aluIq) < IqDepth

\* Only a uop for the ALU queue is dispatched.
Dispatched == renamedUop # NoUop /\ Len(aluIq) < IqDepth /\ ~IqMem(renamedUop.inst)

MergedIssue ==
    /\ At("issue", "execute")
    /\ LET queue == IF Dispatched THEN Append(aluIq, renamedUop) ELSE aluIq
       IN  /\ issuedUop' = IF queue = <<>> THEN NoUop ELSE Head(queue)
           /\ aluIq' = IF queue = <<>> THEN <<>> ELSE Tail(queue)
    /\ UNCHANGED <<program, branchVars, frontendVars, decUop, aluResult, renameVars,
                   robRing, lsuVars, memoryVars, intRf, ioVars, commitTrace>>

MergedExecute == Execute /\ UNCHANGED commitTrace

-----------------------------------------------------------------------------
(* rob_commit_module, where no memory operation holds the head back.       *)

\* Mutant of Completed: a result without a destination completes nothing.
CompletedWithDestination ==
    IF aluResult.valid /\ aluResult.uop.pdst # 0
    THEN MarkDone(entries, aluResult.uop.rob, aluResult.exception)
    ELSE entries

\* The last result marks its entry done.
Completed ==
    IF aluResult.valid THEN MarkDone(entries, aluResult.uop.rob, aluResult.exception)
    ELSE entries

MergedCommitFlush == CommitFlush /\ UNCHANGED commitTrace

MergedCommitNothing ==
    /\ CommitFrame
    /\ ~redirect
    /\ ~HeadReady(Completed)
    /\ entries' = Completed
    /\ UNCHANGED <<robHead, robTail, maybeFull, robState, committedMap, freeListVars,
                   nextTx, dmemReq, ioVars, commitTrace>>

\* The CommitEntry of a uop.
Traced(u) ==
    [pc |-> u.pc, rdValid |-> HasIntDst(u.inst) /\ u.pdst # 0, rd |-> u.ldst,
     value |-> Source(u.pdst)]

\* The head commits; with commit_trace full its entry is lost.
MergedCommitHead ==
    /\ CommitFrame
    /\ ~redirect
    /\ HeadReady(Completed)
    /\ ~Completed[robHead].exception
    /\ PopHead(Completed)
    /\ CommitMapping(Completed[robHead].uop)
    /\ commitTrace' = IF Len(commitTrace) < TraceDepth
                      THEN Append(commitTrace, Traced(entries[robHead].uop))
                      ELSE commitTrace
    /\ UNCHANGED <<robState, nextTx, dmemReq, ioVars>>

\* ECALL and the other exceptions are treated as in BoomCore.
MergedCommitException ==
    /\ CommitEcall \/ CommitTrap
    /\ UNCHANGED commitTrace

MergedNext ==
    \/ MergedBranch \/ MergedLsu \/ MergedFetch \/ MergedDecode \/ MergedRename
    \/ MergedRobAllocate \/ MergedIssue \/ MergedExecute
    \/ MergedCommitFlush \/ MergedCommitNothing \/ MergedCommitHead
    \/ MergedCommitException

MergedSpec == MergedInit /\ [][MergedNext]_mergedVars

\* The clock runs and instruction memory answers.
MergedFairSpec ==
    /\ MergedSpec
    /\ WF_mergedVars(MergedNext)
    /\ SF_mergedVars(FetchReads /\ UNCHANGED commitTrace)

-----------------------------------------------------------------------------
(* Properties.                                                             *)

HeadIsMemory == ~RobEmpty /\ IqMem(entries[robHead].uop.inst)

\* A flush that finds a memory instruction at the head drops it and all that
\* follows up to the transfer; execution goes on at the target.
SkipsMemory ==
    /\ HeadIsMemory
    /\ MergedCommitFlush
    /\ UNCHANGED <<ArchRegs, ArchMem>>
    /\ ArchPc' = target

\* Retirement follows the instruction set: every instruction that retires is the
\* one a machine without a pipeline executes next.  The only departure, for which
\* no instruction but a memory one can be the cause, is that a transfer behind it
\* drops it.
MergedExecutesProgram ==
    Arch!Init /\ [][Arch!Next \/ SkipsMemory]_<<program, ArchPc, ArchRegs, ArchMem, robState = "EXCEPTION">>

\* A memory instruction neither retires nor reaches the units behind the queue, and
\* nothing passes it: it leaves the ROB with a flush only.
MemoryNeverIssues ==
    /\ \A k \in DOMAIN aluIq : ~IqMem(aluIq[k].inst)
    /\ issuedUop # NoUop => ~IqMem(issuedUop.inst)
    /\ \A i \in Slots : entries[i].valid /\ IqMem(entries[i].uop.inst) => entries[i].busy

\* Whenever a commit may happen, its trace entry has room: the top takes one entry
\* a cycle and a cycle makes at most one.
TraceHasRoom == stage = "rob_commit" => Len(commitTrace) < TraceDepth

\* Instructions retire for ever, unless one traps or a memory instruction comes to
\* the head again and again: nothing else stops the pipeline.
StopsOnlyForMemory ==
    \/ []<><<MergedCommitHead \/ (CommitEcall /\ UNCHANGED commitTrace)>>_mergedVars
    \/ <>[](robState = "EXCEPTION")
    \/ []<>HeadIsMemory

=============================================================================
