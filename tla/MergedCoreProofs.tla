-------------------------- MODULE MergedCoreProofs --------------------------
(***************************************************************************)
(* Theorems about the single-file core, for every depth of its queues and  *)
(* of its commit trace and every set of programs: the types, that nothing  *)
(* enters the ROB behind a jump, that a memory instruction is never issued *)
(* and never done, and that no trace entry is lost.                        *)
(*                                                                         *)
(* Its stages are those of BoomCore but for four, so that the lemmas about *)
(* BoomCore's actions do most of the work.  Where no memory instruction    *)
(* comes, the four do the same too: the last parts show that this core is  *)
(* then BoomCore, and take over that it executes its program.              *)
(***************************************************************************)
EXTENDS MergedCore, CoreIsaProofs

-----------------------------------------------------------------------------
(* The invariant of the core holds here too.                               *)

\* An empty lsu_module passes on what it finds.
LEMMA MergedLsuKeepsBase ==
    ASSUME BaseInv, MergedLsu
    PROVE  BaseInv'
<1> USE DEF BaseInv, MergedLsu, At
<1>1. PipeTypeOK'
  BY DEF PipeTypeOK, Stages, branchVars, pipeVars, ioVars
<1>2. FrontendInv' /\ RenameTypeOK' /\ RingInv'
  BY FrontendSame, RenameSame, RingSame
<1>3. RedirectEmpties' /\ OneUop'
  BY DEF RedirectEmpties, OneUop, pipeVars
<1>4. ResultInv'
  BY DEF ResultInv, pipeVars
<1>5. JumpIsYoungest'
  BY DEF JumpIsYoungest, Leaving, branchVars, robRing
<1> QED
  BY <1>1, <1>2, <1>3, <1>4, <1>5

\* What is renamed is issued in the same cycle if it is for the ALU queue, and
\* otherwise nothing is.
LEMMA MergedIssues ==
    ASSUME BaseInv, MergedIssue
    PROVE  /\ aluIq' = <<>>
           /\ issuedUop' = IF renamedUop # NoUop /\ ~IqMem(renamedUop.inst)
                           THEN renamedUop ELSE NoUop
<1>1. aluIq = <<>> /\ Len(aluIq) < IqDepth
  BY IqDepthAssumption DEF BaseInv, OneUop
<1>2. CASE Dispatched
  <2>1. Append(aluIq, renamedUop) = <<renamedUop>>
    BY <1>1
  <2>2. <<renamedUop>> # <<>> /\ Head(<<renamedUop>>) = renamedUop
        /\ Tail(<<renamedUop>>) = <<>>
    OBVIOUS
  <2> QED
    BY <1>2, <2>1, <2>2 DEF MergedIssue, Dispatched
<1>3. CASE ~Dispatched
  BY <1>1, <1>3 DEF MergedIssue, Dispatched
<1> QED
  BY <1>2, <1>3

LEMMA MergedIssueKeepsBase ==
    ASSUME BaseInv, MergedIssue
    PROVE  BaseInv'
<1>1. AlwaysLeaves(renamedUop.inst) => ~IqMem(renamedUop.inst)
  BY DEF AlwaysLeaves, IqMem
<1> QED
  BY <1>1, MergedIssues, IssuedKeepsBase DEF MergedIssue

LEMMA CompletedMarks ==
    ASSUME PipeTypeOK, RingInv
    PROVE  OnlyMarked(Completed)
<1>1. OnlyMarked(entries)
  BY DEF OnlyMarked, RingInv, RobTypeOK
<1> QED
  BY <1>1, ResultMarks DEF Completed

LEMMA MergedCommitNothingKeepsBase ==
    ASSUME BaseInv, MergedCommitNothing
    PROVE  BaseInv'
<1>1. OnlyMarked(Completed)
  BY CompletedMarks DEF BaseInv
<1>2. /\ At("rob_commit", "branch") /\ ~redirect /\ entries' = Completed
      /\ UNCHANGED <<program, branchVars, frontendVars, pipeVars, intRf, renameVars>>
      /\ UNCHANGED <<robHead, robTail, maybeFull>>
      /\ robState' \in RobStates /\ ioSuccess' \in BOOLEAN /\ ioTrap' \in BOOLEAN
  BY DEF MergedCommitNothing, CommitFrame, BaseInv, PipeTypeOK, RingInv, RobTypeOK,
         renameVars, ioVars
<1> QED
  BY <1>1, <1>2, MarkKeepsBase

LEMMA MergedCommitHeadKeepsBase ==
    ASSUME BaseInv, MergedCommitHead
    PROVE  BaseInv'
<1>1. OnlyMarked(Completed)
  BY CompletedMarks DEF BaseInv
<1>2. /\ At("rob_commit", "branch") /\ ~redirect
      /\ HeadReady(Completed) /\ PopHead(Completed)
      /\ UNCHANGED <<program, branchVars, frontendVars, pipeVars, intRf>>
      /\ UNCHANGED <<mapTable, renamedUop>>
      /\ CommitMapping(Completed[robHead].uop)
      /\ robState' \in RobStates /\ ioSuccess' \in BOOLEAN /\ ioTrap' \in BOOLEAN
  BY DEF MergedCommitHead, CommitFrame, BaseInv, PipeTypeOK, RingInv, RobTypeOK, ioVars
<1> QED
  BY <1>1, <1>2, PopKeepsBase

LEMMA MergedKeepsCore == CoreInv /\ [MergedNext]_mergedVars => CoreInv'
<1> SUFFICES ASSUME CoreInv, [MergedNext]_mergedVars
             PROVE  CoreInv'
  OBVIOUS
<1> USE DEF CoreInv
<1>1. CASE \/ MergedBranch \/ MergedFetch \/ MergedDecode \/ MergedRename
           \/ MergedRobAllocate \/ MergedExecute
           \/ MergedCommitFlush \/ MergedCommitException
  <2>1. Next
    BY <1>1 DEF MergedBranch, MergedFetch, MergedDecode, MergedRename, MergedRobAllocate,
       MergedExecute, MergedCommitFlush, MergedCommitException, Next, Cycle
  <2> QED
    BY <2>1, CoreInvStep
<1>2. CASE MergedLsu
  BY <1>2, MergedLsuKeepsBase, LsuTypeSame DEF MergedLsu
<1>3. CASE MergedIssue
  BY <1>3, MergedIssueKeepsBase, LsuTypeSame DEF MergedIssue
<1>4. CASE MergedCommitNothing
  BY <1>4, MergedCommitNothingKeepsBase, LsuTypeSame
  DEF MergedCommitNothing, CommitFrame, lsuVars, memoryVars
<1>5. CASE MergedCommitHead
  BY <1>5, MergedCommitHeadKeepsBase, LsuTypeSame
  DEF MergedCommitHead, CommitFrame, lsuVars, memoryVars
<1>6. CASE UNCHANGED mergedVars
  BY <1>6, CoreInvStep DEF mergedVars
<1> QED
  BY <1>1, <1>2, <1>3, <1>4, <1>5, <1>6 DEF MergedNext

-----------------------------------------------------------------------------
(* The memory queue.                                                       *)

\* The result of the last cycle is no memory instruction's.  Without it a busy bit
\* could be cleared that nothing else may clear.
MemoryInv ==
    /\ issuedUop # NoUop => ~IqMem(issuedUop.inst)
    /\ aluResult.valid => ~IqMem(aluResult.uop.inst)
    /\ \A i \in Slots : entries[i].valid /\ IqMem(entries[i].uop.inst) => entries[i].busy

\* Marking the result of the last cycle leaves the memory instructions busy.
LEMMA CompletedKeepsBusy ==
    ASSUME BaseInv, MemoryInv, stage = "rob_commit", aluResult.valid
    PROVE  LET es == MarkDone(entries, aluResult.uop.rob, aluResult.exception)
           IN  \A i \in Slots : es[i].valid /\ IqMem(es[i].uop.inst) => es[i].busy
<1> DEFINE s == aluResult.uop.rob
           es == MarkDone(entries, s, aluResult.exception)
<1>1. aluResult \in AluResult /\ entries \in [Slots -> Entry]
  BY DEF BaseInv, PipeTypeOK, NoResult, RingInv, RobTypeOK
<1>2. s \in Slots /\ aluResult.exception \in BOOLEAN
  BY <1>1 DEF AluResult, MicroOp, Slots
<1>3. entries[s].valid => entries[s].uop = aluResult.uop
  BY DEF BaseInv, ResultInv, Fresh
<1> HIDE DEF s
<1>4. \A i \in Slots : /\ es[i].valid = entries[i].valid /\ es[i].uop = entries[i].uop
                       /\ i # s => es[i] = entries[i]
  BY <1>1, <1>2, MarkDoneIs
<1> HIDE DEF es
<1>5. ASSUME NEW i \in Slots, es[i].valid, IqMem(es[i].uop.inst)
      PROVE  es[i].busy
  BY <1>2, <1>3, <1>4, <1>5 DEF MemoryInv
<1> QED
  BY <1>5 DEF es, s

\* The commit stage keeps the invariant if what it leaves was busy where it matters.
LEMMA CommitKeepsMemory ==
    ASSUME MemoryInv, UNCHANGED pipeVars, NEW es,
           \A i \in Slots : es[i].valid /\ IqMem(es[i].uop.inst) => es[i].busy,
           \A i \in Slots : entries'[i].valid => entries'[i] = es[i]
    PROVE  MemoryInv'
  BY DEF MemoryInv, pipeVars

LEMMA MergedKeepsMemory ==
    ASSUME CoreInv, CoreInv', MemoryInv, [MergedNext]_mergedVars
    PROVE  MemoryInv'
<1> USE DEF CoreInv
<1>1. CASE MergedRobAllocate
  <2>1. UNCHANGED pipeVars
    BY <1>1 DEF MergedRobAllocate, RobAllocate
  <2>2. CASE UNCHANGED entries
    BY <2>1, <2>2 DEF MemoryInv, pipeVars
  <2>3. CASE \E u : entries' = [entries EXCEPT ![robTail] = FreshEntry(u)]
    <3>1. PICK u : entries' = [entries EXCEPT ![robTail] = FreshEntry(u)]
      BY <2>3
    <3>2. FreshEntry(u).busy
      BY DEF FreshEntry
    <3>3. \A i \in Slots : i # robTail => entries'[i] = entries[i]
      BY <3>1 DEF BaseInv, RingInv, RobTypeOK
    <3>4. entries'[robTail] = FreshEntry(u)
      BY <3>1 DEF BaseInv, RingInv, RobTypeOK
    <3> QED
      BY <2>1, <3>2, <3>3, <3>4 DEF MemoryInv, pipeVars
  <2> QED
    BY <1>1, <2>2, <2>3 DEF MergedRobAllocate, RobAllocate, Allocate
<1>2. CASE MergedIssue
  BY <1>2, MergedIssues DEF MergedIssue, MemoryInv, robRing
<1>3. CASE MergedExecute
  <2>1. UNCHANGED <<issuedUop, robRing>>
    BY <1>3 DEF MergedExecute, Execute
  <2>2. aluResult'.valid => issuedUop # NoUop /\ aluResult'.uop = issuedUop
    BY <1>3 DEF MergedExecute, Execute, NoResult, Executed
  <2> QED
    BY <2>1, <2>2 DEF MemoryInv, robRing
<1>4. CASE MergedCommitFlush
  <2>1. UNCHANGED pipeVars /\ \A i \in Slots : ~entries'[i].valid
    BY <1>4, SquashKeepsRing DEF MergedCommitFlush, CommitFlush, CommitFrame
  <2> QED
    BY <2>1 DEF MemoryInv, pipeVars
<1>5. CASE MergedCommitNothing \/ MergedCommitHead
  <2>1. UNCHANGED pipeVars /\ stage = "rob_commit"
    BY <1>5 DEF MergedCommitNothing, MergedCommitHead, CommitFrame, At
  <2>2. \A i \in Slots : Completed[i].valid /\ IqMem(Completed[i].uop.inst)
            => Completed[i].busy
    BY <2>1, CompletedKeepsBusy DEF Completed, MemoryInv
  <2>3. \A i \in Slots : entries'[i].valid => entries'[i] = Completed[i]
    BY <1>5, CompletedMarks DEF BaseInv, OnlyMarked, MergedCommitNothing, MergedCommitHead,
       PopHead, EmptyEntry
  <2> QED
    BY <2>1, <2>2, <2>3, CommitKeepsMemory
<1>6. CASE MergedCommitException
  <2>1. UNCHANGED pipeVars /\ stage = "rob_commit"
    BY <1>6 DEF MergedCommitException, CommitEcall, CommitTrap, CommitFrame, At
  <2>2. \A i \in Slots : WithResult[i].valid /\ IqMem(WithResult[i].uop.inst)
            => WithResult[i].busy
    BY <2>1, CompletedKeepsBusy DEF WithResult, MemoryInv
  <2>3. \A i \in Slots : entries'[i].valid => entries'[i] = WithResult[i]
    BY <1>6, WithResultMarks DEF BaseInv, OnlyMarked, MergedCommitException, CommitEcall,
       CommitTrap, PopHead, EmptyEntry
  <2> QED
    BY <2>1, <2>2, <2>3, CommitKeepsMemory
<1>7. CASE UNCHANGED <<issuedUop, aluResult, entries>>
  BY <1>7 DEF MemoryInv
<1>8. CASE \/ MergedBranch \/ MergedLsu \/ MergedFetch \/ MergedDecode \/ MergedRename
           \/ UNCHANGED mergedVars
  BY <1>7, <1>8 DEF MergedBranch, Branch, MergedLsu, MergedFetch, FetchStopped, FetchWaits,
     FetchReads, FetchFrame, MergedDecode, Decode, MergedRename, RenameStage, mergedVars,
     vars, pipeVars, robRing
<1> QED
  BY <1>1, <1>2, <1>3, <1>4, <1>5, <1>6, <1>8 DEF MergedNext

-----------------------------------------------------------------------------
(* The commit trace.                                                       *)

TraceEntry == [pc : Word, rdValid : BOOLEAN, rd : Reg, value : Word]

\* The trace is empty whenever a step runs, but for the entry it has just made.
TraceInv ==
    \/ commitTrace = <<>>
    \/ stage = "branch" /\ commitTrace \in Seq(TraceEntry) /\ Len(commitTrace) = 1

LEMMA TracedType ==
    ASSUME BaseInv, NEW u \in MicroOp
    PROVE  Traced(u) \in TraceEntry
<1>1. u.pc \in Word /\ u.ldst \in Reg /\ u.pdst \in Preg
  BY DEF MicroOp
<1>2. Source(u.pdst) \in Word
  BY <1>1, SourceType DEF BaseInv, PipeTypeOK
<1>3. (HasIntDst(u.inst) /\ u.pdst # 0) \in BOOLEAN
  BY DEF HasIntDst
<1> QED
  BY <1>1, <1>2, <1>3 DEF Traced, TraceEntry

LEMMA MergedKeepsTrace ==
    ASSUME CoreInv, TraceInv, [MergedNext]_mergedVars
    PROVE  TraceInv'
<1>1. CASE MergedBranch
  <2>1. commitTrace' = IF commitTrace = <<>> THEN <<>> ELSE Tail(commitTrace)
    BY <1>1 DEF MergedBranch
  <2>2. commitTrace # <<>> => Tail(commitTrace) = <<>>
    <3> SUFFICES ASSUME commitTrace # <<>> PROVE Tail(commitTrace) = <<>>
      OBVIOUS
    <3>1. Tail(commitTrace) \in Seq(TraceEntry) /\ Len(Tail(commitTrace)) = 0
      BY HeadTailProperties DEF TraceInv
    <3> QED
      BY <3>1, EmptySeq
  <2> QED
    BY <2>1, <2>2 DEF TraceInv
<1>2. CASE MergedCommitHead
  <2>1. stage = "rob_commit" /\ stage' = "branch" /\ commitTrace = <<>>
    BY <1>2 DEF MergedCommitHead, CommitFrame, At, TraceInv
  <2> DEFINE t == Traced(entries[robHead].uop)
  <2>2. t \in TraceEntry
    <3>1. OnlyMarked(Completed) /\ robHead \in Slots /\ BaseInv
      BY CompletedMarks DEF CoreInv, BaseInv, RingInv, RobTypeOK
    <3>2. entries[robHead].valid
      BY <1>2, <3>1 DEF MergedCommitHead, HeadReady, OnlyMarked
    <3>3. entries[robHead].uop \in MicroOp
      BY <3>1, <3>2 DEF BaseInv, RingInv
    <3> QED
      BY <3>1, <3>3, TracedType
  <2>3. commitTrace' = commitTrace \/ commitTrace' = Append(commitTrace, t)
    BY <1>2 DEF MergedCommitHead
  <2> HIDE DEF t
  <2>4. Append(<<>>, t) \in Seq(TraceEntry) /\ Len(Append(<<>>, t)) = 1
    BY <2>2
  <2> QED
    BY <2>1, <2>3, <2>4 DEF TraceInv
<1>3. CASE commitTrace' = commitTrace /\ (stage = "branch" => stage' = "branch")
  BY <1>3 DEF TraceInv
<1>4. CASE \/ MergedLsu \/ MergedFetch \/ MergedDecode \/ MergedRename
           \/ MergedRobAllocate \/ MergedIssue \/ MergedExecute
           \/ MergedCommitFlush \/ MergedCommitNothing \/ MergedCommitException
           \/ UNCHANGED mergedVars
  BY <1>3, <1>4 DEF MergedLsu, MergedFetch, FetchStopped, FetchWaits, FetchReads, FetchFrame,
     MergedDecode, Decode, MergedRename, RenameStage, MergedRobAllocate, RobAllocate,
     MergedIssue, MergedExecute, Execute, MergedCommitFlush, CommitFlush,
     MergedCommitNothing, MergedCommitException, CommitEcall, CommitTrap, CommitFrame, At,
     mergedVars, vars
<1> QED
  BY <1>1, <1>2, <1>4 DEF MergedNext

-----------------------------------------------------------------------------
(* The theorems.                                                           *)

MergedInv == CoreInv /\ MemoryInv /\ TraceInv

LEMMA MergedInvInit == MergedInit => MergedInv
<1> SUFFICES ASSUME MergedInit PROVE MergedInv
  OBVIOUS
<1>1. CoreInv
  BY CoreInvInit DEF MergedInit
<1>2. MemoryInv
  BY DEF MergedInit, Init, RobInit, EmptyEntry, NoResult, MemoryInv
<1> QED
  BY <1>1, <1>2 DEF MergedInit, MergedInv, TraceInv

LEMMA MergedInvStep == MergedInv /\ [MergedNext]_mergedVars => MergedInv'
  BY MergedKeepsCore, MergedKeepsMemory, MergedKeepsTrace DEF MergedInv

LEMMA MergedInvAlways == MergedSpec => []MergedInv
  BY MergedInvInit, MergedInvStep, PTL DEF MergedSpec

\* The single-file core keeps the types of every component, and in its ROB too no
\* uop is behind a jump.
THEOREM MergedTypes == MergedSpec => [](CoreTypeOK /\ NoWrongPath)
<1>1. MergedInv => CoreTypeOK /\ NoWrongPath
  BY CoreInvTypes, BaseNoWrongPath DEF MergedInv, CoreInv
<1> QED
  BY <1>1, MergedInvAlways, PTL

\* A memory instruction is never issued and never done, whatever is in the ROB with
\* it: dispatch leaves it out (issue_module of boom_core_merged.cpp), and no result
\* of another uop marks its entry.
THEOREM MergedMemoryNeverIssues == MergedSpec => []MemoryNeverIssues
<1>1. MergedInv => MemoryNeverIssues
  BY DEF MergedInv, CoreInv, BaseInv, OneUop, MemoryInv, MemoryNeverIssues
<1> QED
  BY <1>1, MergedInvAlways, PTL

\* No entry of commit_trace is lost, even with a trace of one entry: boom_core_top
\* takes one entry in each cycle and a cycle makes at most one.
THEOREM MergedTraceHasRoom == MergedSpec => []TraceHasRoom
<1>1. MergedInv => TraceHasRoom
  BY TraceDepthAssumption DEF MergedInv, TraceInv, TraceHasRoom
<1> QED
  BY <1>1, MergedInvAlways, PTL

-----------------------------------------------------------------------------
(* Programs that keep away from the memory queue.  As long as no memory     *)
(* instruction is in the ROB, each step of the single-file core is a step  *)
(* of BoomCore, and what is proved of that core holds of this one.         *)

\* No instruction for the memory queue is in the ROB.
MemoryAbsent == \A i \in Slots : entries[i].valid => ~IqMem(entries[i].uop.inst)

\* No memory operation is anywhere: with no lsu_module nothing starts one.
QuietInv ==
    /\ dmemReq = <<>> /\ dmemResp = <<>> /\ ~loadPending
    /\ \A i \in Slots : entries[i].valid => entries[i].mem = NoMem

LEMMA QuietInvInit == Init => QuietInv
  BY DEF Init, LsuInit, RobInit, EmptyEntry, QuietInv

\* The commit stage keeps the memory fields of the entries it leaves.
LEMMA CommitKeepsQuiet ==
    ASSUME QuietInv, NEW es, OnlyMarked(es),
           UNCHANGED <<dmemReq, dmemResp, loadPending>>,
           \A i \in Slots : entries'[i].valid => entries'[i] = es[i]
    PROVE  QuietInv'
  BY DEF QuietInv, OnlyMarked

LEMMA QuietInvStep ==
    ASSUME CoreInv, QuietInv, [MergedNext]_mergedVars
    PROVE  QuietInv'
<1> USE DEF CoreInv
<1>1. CASE MergedRobAllocate
  <2>1. UNCHANGED <<dmemReq, dmemResp, loadPending>>
    BY <1>1 DEF MergedRobAllocate, RobAllocate, lsuVars, memoryVars
  <2>2. CASE UNCHANGED entries
    BY <2>1, <2>2 DEF QuietInv
  <2>3. CASE \E u : entries' = [entries EXCEPT ![robTail] = FreshEntry(u)]
    <3>1. PICK u : entries' = [entries EXCEPT ![robTail] = FreshEntry(u)]
      BY <2>3
    <3>2. FreshEntry(u).mem = NoMem
      BY DEF FreshEntry
    <3>3. \A i \in Slots : i # robTail => entries'[i] = entries[i]
      BY <3>1 DEF BaseInv, RingInv, RobTypeOK
    <3>4. entries'[robTail] = FreshEntry(u)
      BY <3>1 DEF BaseInv, RingInv, RobTypeOK
    <3> QED
      BY <2>1, <3>2, <3>3, <3>4 DEF QuietInv
  <2> QED
    BY <1>1, <2>2, <2>3 DEF MergedRobAllocate, RobAllocate, Allocate
<1>2. CASE MergedCommitFlush
  <2>1. UNCHANGED <<dmemReq, dmemResp, loadPending>>
    BY <1>2 DEF MergedCommitFlush, CommitFlush, CommitFrame
  <2>2. \A i \in Slots : ~entries'[i].valid
    BY <1>2, SquashKeepsRing DEF MergedCommitFlush, CommitFlush
  <2> QED
    BY <2>1, <2>2 DEF QuietInv
<1>3. CASE MergedCommitNothing \/ MergedCommitHead
  <2>1. UNCHANGED <<dmemReq, dmemResp, loadPending>>
    BY <1>3 DEF MergedCommitNothing, MergedCommitHead, CommitFrame
  <2>2. OnlyMarked(Completed)
    BY CompletedMarks DEF BaseInv
  <2>3. \A i \in Slots : entries'[i].valid => entries'[i] = Completed[i]
    BY <1>3, <2>2 DEF OnlyMarked, MergedCommitNothing, MergedCommitHead, PopHead, EmptyEntry
  <2> QED
    BY <2>1, <2>2, <2>3, CommitKeepsQuiet
<1>4. CASE MergedCommitException
  <2>1. UNCHANGED <<dmemReq, dmemResp, loadPending>>
    BY <1>4 DEF MergedCommitException, CommitEcall, CommitTrap, CommitFrame
  <2>2. OnlyMarked(WithResult)
    BY WithResultMarks DEF BaseInv
  <2>3. \A i \in Slots : entries'[i].valid => entries'[i] = WithResult[i]
    BY <1>4, <2>2 DEF OnlyMarked, MergedCommitException, CommitEcall, CommitTrap, PopHead,
       EmptyEntry
  <2> QED
    BY <2>1, <2>2, <2>3, CommitKeepsQuiet
<1>5. CASE UNCHANGED <<dmemReq, dmemResp, loadPending, entries>>
  BY <1>5 DEF QuietInv
<1>6. CASE \/ MergedBranch \/ MergedLsu \/ MergedFetch \/ MergedDecode \/ MergedRename
           \/ MergedIssue \/ MergedExecute \/ UNCHANGED mergedVars
  BY <1>5, <1>6 DEF MergedBranch, Branch, MergedLsu, MergedFetch, FetchStopped, FetchWaits,
     FetchReads, FetchFrame, MergedDecode, Decode, MergedRename, RenameStage, MergedIssue,
     MergedExecute, Execute, mergedVars, vars, robRing, lsuVars, memoryVars
<1> QED
  BY <1>1, <1>2, <1>3, <1>4, <1>6 DEF MergedNext

\* With no answer, no address and no load, lsu_module does what the empty one does.
LEMMA MergedLsuIsLsu ==
    ASSUME CoreInv, MemoryInv, QuietInv, MergedLsu
    PROVE  LsuStage
<1> USE DEF CoreInv, BaseInv
<1>1. ~Answered /\ ~Completes
  BY DEF QuietInv, Answered, Completes
<1>2. WithResponse = entries /\ RfWithResponse = intRf
  BY <1>1 DEF WithResponse, RfWithResponse
<1>3. aluResult.valid => ~aluResult.isLoad /\ ~aluResult.isStore
  BY DEF MemoryInv, ResultInv, IqMem
<1>4. WithAddress(entries, aluResult) = entries
  BY <1>3 DEF WithAddress
<1>5. {k \in Slots : ~(loadPending /\ ~Answered) /\ MaySend(entries, k)} = {}
  <2>1. \A k \in Slots : SlotFromHead(k) \in Slots
    BY SentSlot DEF RingInv, RobTypeOK
  <2>2. \A i \in Slots : ~(entries[i].valid /\ entries[i].mem.isLoad)
    BY DEF QuietInv, NoMem
  <2> QED
    BY <2>1, <2>2 DEF MaySend
<1>6. SendLoad(entries, loadPending /\ ~Answered)
  <2>1. loadPending' = (loadPending /\ ~Answered)
    <3>1. loadPending = FALSE /\ loadPending' = loadPending
      BY DEF LsuTypeOK, QuietInv, MergedLsu, lsuVars
    <3> QED
      BY <3>1
  <2> QED
    BY <1>1, <1>5, <2>1 DEF SendLoad, MergedLsu, robRing, lsuVars, memoryVars
<1>7. LsuModule(aluResult)
  BY <1>2, <1>4, <1>6 DEF LsuModule, MergedLsu, QuietInv, robRing, memoryVars
<1> QED
  BY <1>7 DEF MergedLsu, LsuStage

\* The commit stages mark the same.
LEMMA CompletedIsWithResult ==
    ASSUME MemoryInv
    PROVE  Completed = WithResult
  BY DEF MemoryInv, IqMem, CtrlIsLoad, CtrlIsSta, Completed, WithResult

LEMMA MergedIssueIsIssue ==
    ASSUME CoreInv, MemoryAbsent, MergedIssue
    PROVE  Issue
<1>1. stage = "issue"
  BY DEF MergedIssue, At
<1>2. renamedUop # NoUop => ~IqMem(renamedUop.inst)
  <2> SUFFICES ASSUME renamedUop # NoUop PROVE ~IqMem(renamedUop.inst)
    OBVIOUS
  <2>1. Fresh(renamedUop)
    BY <1>1 DEF CoreInv, BaseInv, OneUop
  <2>2. renamedUop.rob \in Slots
    BY DEF CoreInv, BaseInv, RenameTypeOK, MicroOp, Slots
  <2> QED
    BY <2>1, <2>2 DEF Fresh, MemoryAbsent
<1>3. Dispatched <=> renamedUop # NoUop /\ Len(aluIq) < IqDepth
  BY <1>2 DEF Dispatched
<1> DEFINE queue == IF renamedUop # NoUop /\ Len(aluIq) < IqDepth
                    THEN Append(aluIq, renamedUop) ELSE aluIq
<1>4. /\ issuedUop' = IF queue = <<>> THEN NoUop ELSE Head(queue)
      /\ aluIq' = IF queue = <<>> THEN <<>> ELSE Tail(queue)
  BY <1>3 DEF MergedIssue
<1>5. IF queue = <<>> THEN issuedUop' = NoUop /\ aluIq' = <<>>
      ELSE issuedUop' = Head(queue) /\ aluIq' = Tail(queue)
  <2> HIDE DEF queue
  <2> QED
    BY <1>4
<1> QED
  BY <1>5 DEF MergedIssue, Issue

LEMMA MergedHeadIsHead ==
    ASSUME CoreInv, MemoryInv, QuietInv, MemoryAbsent, MergedCommitHead
    PROVE  CommitHead
<1> DEFINE es == WithResult
<1>1. Completed = es
  BY CompletedIsWithResult
<1>2. OnlyMarked(es)
  BY WithResultMarks DEF CoreInv, BaseInv
<1> HIDE DEF es
<1>3. /\ CommitFrame /\ ~redirect
      /\ HeadReady(es) /\ ~es[robHead].exception /\ PopHead(es)
      /\ CommitMapping(es[robHead].uop)
      /\ UNCHANGED <<robState, nextTx, dmemReq, ioVars>>
  BY <1>1 DEF MergedCommitHead
<1>4. robHead \in Slots
  BY DEF CoreInv, BaseInv, RingInv, RobTypeOK
<1>5. entries[robHead].valid /\ es[robHead].uop = entries[robHead].uop
      /\ es[robHead].mem = entries[robHead].mem
  BY <1>2, <1>3, <1>4 DEF OnlyMarked, HeadReady
<1>6. ~IqMem(es[robHead].uop.inst) /\ es[robHead].mem = NoMem
  BY <1>4, <1>5 DEF MemoryAbsent, QuietInv
<1>7. ~es[robHead].mem.isStore /\ ~HeadWaits(es)
  BY <1>3, <1>6 DEF HeadWaits, IqMem, CtrlIsLoad, CtrlIsSta, NoMem
<1> QED
  BY <1>3, <1>7 DEF CommitHead, es

LEMMA MergedNothingIsNothing ==
    ASSUME MemoryInv, MergedCommitNothing
    PROVE  CommitNothing
<1>1. Completed = WithResult
  BY CompletedIsWithResult
<1> QED
  BY <1>1 DEF MergedCommitNothing, CommitNothing, HeadWaits

LEMMA MergedStepIsStep ==
    ASSUME CoreInv, MemoryInv, QuietInv, MemoryAbsent, [MergedNext]_mergedVars
    PROVE  [Next]_vars
<1>1. CASE MergedLsu
  BY <1>1, MergedLsuIsLsu DEF Next, Cycle
<1>2. CASE MergedIssue
  BY <1>2, MergedIssueIsIssue DEF Next, Cycle
<1>3. CASE MergedCommitNothing
  BY <1>3, MergedNothingIsNothing DEF Next, Cycle
<1>4. CASE MergedCommitHead
  BY <1>4, MergedHeadIsHead DEF Next, Cycle
<1>5. CASE \/ MergedBranch \/ MergedFetch \/ MergedDecode \/ MergedRename
           \/ MergedRobAllocate \/ MergedExecute
           \/ MergedCommitFlush \/ MergedCommitException
  BY <1>5 DEF MergedBranch, MergedFetch, MergedDecode, MergedRename, MergedRobAllocate,
     MergedExecute, MergedCommitFlush, MergedCommitException, Next, Cycle
<1>6. CASE UNCHANGED mergedVars
  BY <1>6 DEF mergedVars
<1> QED
  BY <1>1, <1>2, <1>3, <1>4, <1>5, <1>6 DEF MergedNext

\* Until a memory instruction comes into the ROB, boom_core_merged.cpp does what the
\* divided sources do: every run of the one is a run of the other.
THEOREM MergedIsCore == MergedSpec /\ []MemoryAbsent => Spec
<1>1. MergedInit => Init /\ QuietInv
  BY QuietInvInit DEF MergedInit
<1>2. MergedInv /\ QuietInv /\ [MergedNext]_mergedVars => QuietInv'
  BY QuietInvStep DEF MergedInv
<1>3. MergedInv /\ QuietInv /\ MemoryAbsent /\ [MergedNext]_mergedVars => [Next]_vars
  BY MergedStepIsStep DEF MergedInv
<1> QED
  BY <1>1, <1>2, <1>3, MergedInvAlways, PTL DEF MergedSpec, Spec

\* What a machine without a pipeline may do, the single-file core's retirement may.
LEMMA ExecutesIsMergedExecutes == ExecutesProgram => MergedExecutesProgram
<1>1. [Arch!Next]_<<program, Arch!archVars>>
      => [Arch!Next \/ SkipsMemory]_<<program, ArchPc, ArchRegs, ArchMem, robState = "EXCEPTION">>
  BY DEF Arch!archVars
<1> QED
  BY <1>1, PTL DEF ExecutesProgram, Arch!Spec, MergedExecutesProgram

\* So a run of boom_core_merged.cpp in which no memory instruction comes into the ROB
\* executes its program, and drops nothing of it, as long as none of the things happens
\* that no stage guards against.  That no uop reads a register that a load has still to
\* write need not be asked for: there is no load.
THEOREM MergedRunExecutesProgram ==
    MergedSpec /\ []MemoryAbsent /\ []NothingLost /\ []FlushFindsNothing /\ []EcallAlone
        => ExecutesProgram /\ MergedExecutesProgram
<1>1. MemoryAbsent => SourcesArrived
  <2> SUFFICES ASSUME MemoryAbsent PROVE SourcesArrived
    OBVIOUS
  <2>1. \A i \in Slots : entries[i].valid => ~CtrlIsLoad(entries[i].uop.inst)
    BY DEF MemoryAbsent, IqMem, CtrlIsLoad
  <2>2. LoadsDue = {}
    BY <2>1 DEF LoadsDue
  <2> QED
    BY <2>2 DEF SourcesArrived
<1>2. NothingLost /\ FlushFindsNothing /\ SourcesArrived /\ EcallAlone => Undisturbed
  BY DEF Undisturbed
<1> QED
  BY <1>1, <1>2, MergedIsCore, CoreExecutesProgram, ExecutesIsMergedExecutes, PTL

-----------------------------------------------------------------------------
(* Programs without memory instructions never fill the memory queue.       *)

MemoryFree == \A p \in Programs, a \in Word : ~IqMem(p[a])

\* No memory instruction is in front of the ROB either.
FreeInv ==
    /\ fetchUop # NoUop => ~IqMem(fetchUop.inst)
    /\ decUop # NoUop => ~IqMem(decUop.inst)
    /\ renamedUop # NoUop => ~IqMem(renamedUop.inst)
    /\ MemoryAbsent

LEMMA FreeInvInit == Init => FreeInv
  BY DEF Init, FrontendInit, RenameInit, RobInit, EmptyEntry, FreeInv, MemoryAbsent

LEMMA FetchKeepsFree ==
    ASSUME MemoryFree, CoreInv, FreeInv, MergedFetch
    PROVE  FreeInv'
<1>1. UNCHANGED <<decUop, renamedUop, entries>>
  BY DEF MergedFetch, FetchStopped, FetchWaits, FetchReads, FetchFrame, pipeVars, renameVars,
     robRing
<1>2. fetchUop' # NoUop => ~IqMem(fetchUop'.inst)
  <2>1. CASE fetchUop' = NoUop
    BY <2>1
  <2>2. CASE fetchUop' # NoUop
    <3>1. FetchReads
      BY <2>2 DEF MergedFetch, FetchStopped, FetchWaits, FrontendStopped, FrontendWaits
    <3>2. fetches # <<>> /\ fetchUop' = [pc |-> Head(fetches).address,
                                         inst |-> program[Head(fetches).address]]
      BY <2>2, <3>1 DEF FetchReads, FrontendReads
    <3>3. Head(fetches).address \in Word
      <4>1. fetches \in Seq(FetchRequest)
        BY DEF CoreInv, BaseInv, FrontendInv, FrontendTypeOK
      <4>2. Head(fetches) \in FetchRequest
        BY <3>2, <4>1, HeadTailProperties
      <4> QED
        BY <4>2 DEF FetchRequest
    <3>4. program \in Programs
      BY DEF CoreInv, BaseInv, PipeTypeOK
    <3> QED
      BY <3>2, <3>3, <3>4 DEF MemoryFree
  <2> QED
    BY <2>1, <2>2
<1> QED
  BY <1>1, <1>2 DEF FreeInv, MemoryAbsent

LEMMA RenameKeepsFree ==
    ASSUME CoreInv, FreeInv, MergedRename
    PROVE  FreeInv'
<1>1. UNCHANGED <<fetchUop, decUop, entries>>
  BY DEF MergedRename, RenameStage, frontendVars, pipeVars, robRing
<1>2. renamedUop' # NoUop => decUop # NoUop /\ renamedUop'.inst = decUop.inst
  <2>1. CASE decUop = NoUop
    BY <2>1 DEF MergedRename, RenameStage, RenameNothing
  <2>2. CASE decUop # NoUop
    <3>1. decUop \in MicroOp
      BY <2>2 DEF CoreInv, BaseInv, PipeTypeOK
    <3>2. \A map, p, l : Renamed(decUop, map, p, l).inst = decUop.inst
      BY <3>1 DEF Renamed, MicroOp
    <3>3. \E map, p, l : renamedUop' = Renamed(decUop, map, p, l)
      BY <2>2 DEF MergedRename, RenameStage, RenameUop, RenameTakes, RenameStarves,
         RenameWithoutDst
    <3> QED
      BY <2>2, <3>2, <3>3
  <2> QED
    BY <2>1, <2>2
<1> QED
  BY <1>1, <1>2 DEF FreeInv, MemoryAbsent

LEMMA RobAllocateKeepsFree ==
    ASSUME CoreInv, FreeInv, MergedRobAllocate
    PROVE  FreeInv'
<1>1. UNCHANGED <<fetchUop, decUop>>
  BY DEF MergedRobAllocate, RobAllocate, frontendVars, pipeVars
<1>2. CASE renamedUop = NoUop
  BY <1>1, <1>2 DEF MergedRobAllocate, RobAllocate, FreeInv, MemoryAbsent
<1>3. CASE renamedUop # NoUop
  <2> DEFINE u == [renamedUop EXCEPT !.rob = robTail]
  <2>1. Allocate(u) /\ renamedUop' = IF RobFull THEN NoUop ELSE u
    BY <1>3 DEF MergedRobAllocate, RobAllocate
  <2>2. u.inst = renamedUop.inst
    BY <1>3 DEF CoreInv, BaseInv, RenameTypeOK, MicroOp
  <2> HIDE DEF u
  <2>3. ~IqMem(u.inst)
    BY <1>3, <2>2 DEF FreeInv
  <2>4. UNCHANGED entries \/ entries' = [entries EXCEPT ![robTail] = FreshEntry(u)]
    BY <2>1 DEF Allocate
  <2>5. FreshEntry(u).uop = u
    BY DEF FreshEntry
  <2>6. MemoryAbsent'
    BY <2>3, <2>4, <2>5 DEF FreeInv, MemoryAbsent, CoreInv, BaseInv, RingInv, RobTypeOK
  <2> QED
    BY <1>1, <2>1, <2>3, <2>6 DEF FreeInv
<1> QED
  BY <1>2, <1>3

\* The commit stage leaves the uops as they are, or drops them.
LEMMA CommitKeepsFree ==
    ASSUME FreeInv, NEW es, OnlyMarked(es),
           UNCHANGED <<fetchUop, decUop, renamedUop>>,
           \A i \in Slots : entries'[i].valid => entries'[i] = es[i]
    PROVE  FreeInv'
  BY DEF FreeInv, MemoryAbsent, OnlyMarked

LEMMA FreeInvStep ==
    ASSUME MemoryFree, CoreInv, FreeInv, [MergedNext]_mergedVars
    PROVE  FreeInv'
<1> USE DEF CoreInv
<1>1. CASE MergedDecode
  <2>1. UNCHANGED <<fetchUop, renamedUop, entries>>
    BY <1>1 DEF MergedDecode, Decode, frontendVars, renameVars, robRing
  <2>2. decUop' # NoUop => fetchUop # NoUop /\ decUop'.inst = fetchUop.inst
    BY <1>1 DEF MergedDecode, Decode, Decoded
  <2> QED
    BY <2>1, <2>2 DEF FreeInv, MemoryAbsent
<1>2. CASE MergedCommitFlush
  <2>1. UNCHANGED <<fetchUop, decUop, renamedUop>>
    BY <1>2 DEF MergedCommitFlush, CommitFlush, CommitFrame, frontendVars, pipeVars
  <2>2. \A i \in Slots : ~entries'[i].valid
    BY <1>2, SquashKeepsRing DEF MergedCommitFlush, CommitFlush
  <2> QED
    BY <2>1, <2>2 DEF FreeInv, MemoryAbsent
<1>3. CASE MergedCommitNothing \/ MergedCommitHead
  <2>1. UNCHANGED <<fetchUop, decUop, renamedUop>>
    BY <1>3 DEF MergedCommitNothing, MergedCommitHead, CommitFrame, frontendVars, pipeVars
  <2>2. OnlyMarked(Completed)
    BY CompletedMarks DEF BaseInv
  <2>3. \A i \in Slots : entries'[i].valid => entries'[i] = Completed[i]
    BY <1>3, <2>2 DEF OnlyMarked, MergedCommitNothing, MergedCommitHead, PopHead, EmptyEntry
  <2> QED
    BY <2>1, <2>2, <2>3, CommitKeepsFree
<1>4. CASE MergedCommitException
  <2>1. UNCHANGED <<fetchUop, decUop, renamedUop>>
    BY <1>4 DEF MergedCommitException, CommitEcall, CommitTrap, CommitFrame, frontendVars,
       pipeVars
  <2>2. OnlyMarked(WithResult)
    BY WithResultMarks DEF BaseInv
  <2>3. \A i \in Slots : entries'[i].valid => entries'[i] = WithResult[i]
    BY <1>4, <2>2 DEF OnlyMarked, MergedCommitException, CommitEcall, CommitTrap, PopHead,
       EmptyEntry
  <2> QED
    BY <2>1, <2>2, <2>3, CommitKeepsFree
<1>5. CASE UNCHANGED <<fetchUop, decUop, renamedUop, entries>>
  BY <1>5 DEF FreeInv, MemoryAbsent
<1>6. CASE \/ MergedBranch \/ MergedLsu \/ MergedIssue \/ MergedExecute
           \/ UNCHANGED mergedVars
  BY <1>5, <1>6 DEF MergedBranch, Branch, MergedLsu, MergedIssue, MergedExecute, Execute,
     mergedVars, vars, frontendVars, pipeVars, renameVars, robRing
<1> QED
  BY <1>1, <1>2, <1>3, <1>4, <1>6, FetchKeepsFree, RenameKeepsFree, RobAllocateKeepsFree
  DEF MergedNext

\* A program without loads, stores and fences runs on boom_core_merged.cpp as the
\* instruction set has it, whatever its transfers and traps: with more than one ROB slot
\* and more than two physical registers beside those of the logical ones, none of the
\* things happens that no stage guards against.  IdealMemory says nothing here, since
\* no request is made of the data memory.
THEOREM MemoryFreeExecutesProgram ==
    ASSUME MemoryFree, IdealMemory, RobSlots > 1, IntPhysRegs > LogicalRegs + 2
    PROVE  MergedSpec => ExecutesProgram /\ MergedExecutesProgram
<1>1. Settled
  BY DEF Settled, MemoryFree, IqMem
<1>2. MergedSpec => []MemoryAbsent
  <2>1. MergedInit => FreeInv
    BY FreeInvInit DEF MergedInit
  <2>2. MergedInv /\ FreeInv /\ [MergedNext]_mergedVars => FreeInv'
    BY FreeInvStep DEF MergedInv
  <2>3. FreeInv => MemoryAbsent
    BY DEF FreeInv
  <2> QED
    BY <2>1, <2>2, <2>3, MergedInvAlways, PTL DEF MergedSpec
<1>3. Spec => ExecutesProgram
  BY <1>1, SettledExecutesProgram
<1> QED
  BY <1>2, <1>3, MergedIsCore, ExecutesIsMergedExecutes, PTL

=============================================================================
