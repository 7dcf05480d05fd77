------------------------------ MODULE BoomTop ------------------------------
(***************************************************************************)
(* boom_core_top: the endless loop around boom_core_step that connects the *)
(* core's streams (PipeSignals) to the ports of the design.  Each time     *)
(* round it moves at most one answer in and, after the step, one request   *)
(* and one trace entry out.                                                *)
(*                                                                         *)
(* The core's dmemReq and dmemResp are the inner data streams; the memory  *)
(* is behind the outer ones and may also send answers nobody asked for.    *)
(* The fetch side needs no second pair of streams: the answers in fetches  *)
(* come at any time anyway.                                                *)
(***************************************************************************)
EXTENDS BoomCore

CONSTANTS PortDepth,    \* what an outer stream holds; a write to a full one waits
          TraceDepth    \* entries pipe.commit_trace holds, 1024

ASSUME DepthsAssumption == PortDepth \in Nat \ {0} /\ TraceDepth \in Nat \ {0}

VARIABLES loop,         \* where the loop is: "in", "step" or "out"
          dmemReqOut,   \* dmem_req_out, the oldest first
          dmemRespIn,   \* dmem_resp_in
          commitTrace   \* pipe.commit_trace, as the addresses of what committed

portVars == <<dmemReqOut, dmemRespIn>>
topVars == <<vars, loop, portVars, commitTrace>>

\* A transaction id that belongs to no load in flight.
StrayTx == TxIds

TopInit ==
    /\ Init
    /\ loop = "in"
    /\ dmemReqOut = <<>>
    /\ dmemRespIn = <<>>
    /\ commitTrace = <<>>

-----------------------------------------------------------------------------

CoreFrame ==
    UNCHANGED <<stage, program, branchVars, frontendVars, pipeVars, renameVars,
                robRing, lsuVars, memory, intRf, ioVars>>

\* An answer goes in when there is one and the core's stream has room.
TopIn ==
    /\ loop = "in"
    /\ loop' = "step"
    /\ IF dmemRespIn # <<>> /\ Len(dmemResp) < DmemDepth
       THEN /\ dmemResp' = Append(dmemResp, Head(dmemRespIn))
            /\ dmemRespIn' = Tail(dmemRespIn)
       ELSE UNCHANGED <<dmemResp, dmemRespIn>>
    /\ UNCHANGED <<dmemReq, dmemReqOut, commitTrace>>
    /\ CoreFrame

\* The step itself is BoomCore's cycle; a commit also writes its trace entry, which
\* is lost when the stream is full.
TopStep ==
    /\ loop = "step"
    /\ loop' = IF stage = "rob_commit" THEN "out" ELSE "step"
    /\ \/ /\ CommitHead
          /\ commitTrace' = IF Len(commitTrace) < TraceDepth
                            THEN Append(commitTrace, entries[robHead].uop.pc)
                            ELSE commitTrace
       \/ /\ Cycle
          /\ ~CommitHead
          /\ UNCHANGED commitTrace
    /\ UNCHANGED portVars

\* Mutant of TopOut: requests leave only in cycles without a trace entry.
TopOutTraceFirst ==
    /\ loop = "out"
    /\ loop' = "in"
    /\ IF dmemReq # <<>> /\ commitTrace = <<>>
       THEN /\ Len(dmemReqOut) < PortDepth
            /\ dmemReqOut' = Append(dmemReqOut, Head(dmemReq))
            /\ dmemReq' = Tail(dmemReq)
       ELSE UNCHANGED <<dmemReq, dmemReqOut>>
    /\ commitTrace' = IF commitTrace = <<>> THEN <<>> ELSE Tail(commitTrace)
    /\ UNCHANGED <<dmemResp, dmemRespIn>>
    /\ CoreFrame

\* One request and one trace entry leave; a full data port holds the loop.  While the
\* ports of fetches or of the trace are full, the loop waits for their readers: the
\* action is not taken yet.  What memory does with a request that has already left, it
\* does in the model after the action, and to the core that is the same.
TopOut ==
    /\ loop = "out"
    /\ loop' = "in"
    /\ IF dmemReq # <<>>
       THEN /\ Len(dmemReqOut) < PortDepth
            /\ dmemReqOut' = Append(dmemReqOut, Head(dmemReq))
            /\ dmemReq' = Tail(dmemReq)
       ELSE UNCHANGED <<dmemReq, dmemReqOut>>
    /\ commitTrace' = IF commitTrace = <<>> THEN <<>> ELSE Tail(commitTrace)
    /\ UNCHANGED <<dmemResp, dmemRespIn>>
    /\ CoreFrame

TopLoop == TopIn \/ TopStep \/ TopOut

\* The memory works while the loop is between two steps; a step is one call.
Outside == stage = "branch"

MemoryFrame ==
    /\ Outside
    /\ UNCHANGED <<stage, program, branchVars, frontendVars, pipeVars, renameVars,
                   robRing, lsuVars, dmemReq, dmemResp, intRf, ioVars, loop, commitTrace>>

MemoryStores ==
    /\ MemoryFrame
    /\ dmemReqOut # <<>>
    /\ Head(dmemReqOut).isStore
    /\ memory' = [memory EXCEPT ![Head(dmemReqOut).addr] = Head(dmemReqOut).data]
    /\ dmemReqOut' = Tail(dmemReqOut)
    /\ UNCHANGED dmemRespIn

\* A load is answered with the word it asked for; an answer with a foreign id may
\* come in front of it.
MemoryLoads ==
    /\ MemoryFrame
    /\ dmemReqOut # <<>>
    /\ ~Head(dmemReqOut).isStore
    /\ LET req == Head(dmemReqOut)
           due == [tx |-> req.tx, data |-> memory[req.addr], fault |-> req.addr \in FaultAddrs]
       IN  \E strays \in {<<>>} \cup {<<[tx |-> StrayTx, data |-> d, fault |-> FALSE]>> : d \in {1}} :
              /\ dmemRespIn' = dmemRespIn \o strays \o <<due>>
              /\ Len(dmemRespIn') <= PortDepth
    /\ dmemReqOut' = Tail(dmemReqOut)
    /\ UNCHANGED memory

OuterMemory == MemoryStores \/ MemoryLoads

TopNext == TopLoop \/ OuterMemory

TopSpec == TopInit /\ [][TopNext]_topVars

\* The loop runs and both memories answer.
TopFairSpec ==
    /\ TopSpec
    /\ WF_topVars(TopLoop)
    /\ SF_topVars(TopStep /\ FetchReads)
    /\ SF_topVars(OuterMemory)

-----------------------------------------------------------------------------
(* Properties.                                                             *)

\* The store at the head is complete and only waits for room in dmem_req.
StoreLeaves ==
    LET h == WithResult[robHead]
    IN  HeadReady(WithResult) /\ ~h.exception /\ CtrlIsSta(h.uop.inst) /\ h.mem.valid

\* One move a cycle keeps up: the LSU and the commit stage never use dmem_req in
\* the same cycle, so a store that may leave always finds it empty, and a commit
\* always finds room for its trace entry.  A store held at the head could be
\* dropped by a younger transfer, and a lost entry would go unnoticed.
TopKeepsUp ==
    stage = "rob_commit" =>
        /\ StoreLeaves => dmemReq = <<>>
        /\ Len(commitTrace) < TraceDepth

\* A load that has its data has what memory will hold once every store on its way
\* has arrived, wherever those stores are and whatever answers with foreign ids
\* came before.
TopLoadValueIsCurrent ==
    LET reqs == dmemReqOut \o dmemReq
        Stores(a) == {n \in DOMAIN reqs : reqs[n].isStore /\ reqs[n].addr = a}
        Arrived(a) == IF Stores(a) = {} THEN memory[a] ELSE reqs[Max(Stores(a))].data
    IN  \A i \in Slots :
           LET e == entries[i]
           IN  e.valid /\ e.mem.isLoad /\ e.mem.completed /\ ~e.exception
                   => e.mem.data = Arrived(e.mem.addr)

\* The load in flight is the one the LSU waits for, wherever on its way it is.
TopLoadAnswerComing ==
    LET Requests == {r \in Range(dmemReq \o dmemReqOut) : ~r.isStore}
        Answers == {r \in Range(dmemResp \o dmemRespIn) : r.tx # StrayTx}
    IN  {r.tx : r \in Requests} \cup {r.tx : r \in Answers}
            = IF loadPending THEN {pendingTx} ELSE {}

\* A flush that drops something older than its transfer.
FlushDrops == stage = "rob_commit" /\ redirect /\ ~RobEmpty

\* The head waits for the LSU to complete what decode took for a load or store and
\* execute, which found the encoding illegal, has not sent there.
HeadWaitsForNobody ==
    entries[robHead].valid /\ entries[robHead].uop.inst.op \in {"illload", "illstore"}

\* Instructions retire for ever, unless one traps, transfers keep dropping the load in
\* front of them, or an illegal load or store encoding stays at the head.  Every other
\* uop is completed by the stage that decode's flags leave it to.
RetiresUnlessDropped ==
    \/ []<><<TopStep /\ (CommitHead \/ CommitEcall)>>_topVars
    \/ <>[](robState = "EXCEPTION")
    \/ []<>FlushDrops
    \/ <>[]HeadWaitsForNobody

=============================================================================
