---------------------------- MODULE Differential ----------------------------
(***************************************************************************)
(* How the core is judged: the reference records its trace, a test bench   *)
(* runs the core and records another, and the matcher compares the two.    *)
(*                                                                         *)
(* There are three benches.  hls_prefix_trace_tb runs a program for a      *)
(* number of commits ("prefix") or up to its store of 1 to tohost          *)
(* ("complete") and writes events; tb_boom_core runs it up to its ECALL    *)
(* and looks at the registers ("observed").  They step the core, answer    *)
(* its requests between two steps and give up after a number of cycles.    *)
(* The observing bench has no data memory.                                 *)
(*                                                                         *)
(* Addresses count from kEntryPc, where the program is loaded and execution*)
(* starts.  The recording bench writes no event for a pc below it; there   *)
(* is no such address here.                                                *)
(***************************************************************************)
EXTENDS BoomCore

CONSTANTS Kinds,        \* the benches tried
          Targets,      \* numbers of commits asked for
          Tohost,       \* kTohostAddr
          MaxCycles     \* kMaxCycles, 500

ASSUME KindsAssumption == Kinds \subseteq {"prefix", "complete", "observed"}
ASSUME TargetsAssumption == Targets \subseteq Nat \ {0}
ASSUME TohostAssumption == Tohost \in Word /\ MaxCycles \in Nat

VARIABLES kind, commitTarget,
          at,           \* "reference", then "feed", "step" and "serve" in turn, "closed"
          cycle,        \* c
          answers,      \* what imem_resp holds: how many of the fetches are answered
          events,       \* the trace file
          sawTohost,    \* saw_tohost
          ok,           \* the verdict
          refTrace,     \* the reference's trace
          refTohost,    \* the retirement that first stored 1 to tohost, or 0
          refPc, refRegs, refMem, refTrapped

Ref == INSTANCE Isa WITH archPc <- refPc, regs <- refRegs, mem <- refMem,
                         trapped <- refTrapped

refVars == <<refTrace, refTohost, refPc, refRegs, refMem, refTrapped>>
benchVars == <<kind, commitTarget, at, cycle, answers, events, sawTohost, ok>>
allVars == <<vars, benchVars, refVars>>

\* The observing bench serves the fetches and nothing else.
UsesMemory(p) == \E a \in Word : p[a].op \in {"load", "store"}

BenchInit ==
    /\ Init
    /\ kind \in Kinds
    /\ kind = "observed" => ~UsesMemory(program)
    /\ commitTarget \in Targets
    /\ at = "reference"
    /\ cycle = 0
    /\ answers = 0
    /\ events = <<>>
    /\ sawTohost = FALSE
    /\ ok = FALSE
    /\ refTrace = <<>>
    /\ refTohost = 0
    /\ Ref!Init

-----------------------------------------------------------------------------
(* Events.                                                                 *)

CommitEvent(address, inst, rdValid, value) ==
    [type |-> "commit", pc |-> address, instruction |-> inst, rdValid |-> rdValid,
     value |-> IF rdValid THEN value ELSE 0]

IsCommit(e) == e.type = "commit"

\* The events of one type, in their order.
OfType(trace, type) ==
    FlattenSeq([n \in DOMAIN trace |->
                   IF trace[n].type = type THEN <<trace[n]>> ELSE <<>>])

\* A transfer in alu_results, written after the step that executed it.
BranchEvents(r) ==
    IF r.valid /\ IsTransfer(r.uop.inst)
    THEN <<[type |-> "branch", pc |-> r.uop.pc, instruction |-> r.uop.inst,
            taken |-> r.redirect, target |-> r.target]>>
    ELSE <<>>

\* Mutant of Retired: the value is read from the register that is released.
RetiredStale(u) ==
    CommitEvent(u.pc, u.inst, HasIntDst(u.inst) /\ u.pdst # 0, intRf[u.stale])

\* The CommitEntry of the uop that leaves.
Retired(u) ==
    CommitEvent(u.pc, u.inst, HasIntDst(u.inst) /\ u.pdst # 0, intRf[u.pdst])

-----------------------------------------------------------------------------
(* The reference, one instruction at a time.  ECALL writes no event.       *)

ReferenceEnds ==
    \/ refTrapped
    \/ Ref!Here.op = "ecall" /\ kind = "observed"
    \/ Len(refTrace) = commitTarget

ReferenceRetires ==
    /\ at = "reference"
    /\ ~ReferenceEnds
    /\ Ref!Next
    /\ LET i == Ref!Here
           stored == i.op = "store" /\ refMem'[Tohost] = 1
                        /\ Address(i, refRegs[i.rs1]) = Tohost
       IN  IF i.op = "ecall" \/ refTrapped'
           THEN UNCHANGED <<refTrace, refTohost>>
           ELSE /\ refTrace' = Append(refTrace, CommitEvent(refPc, i,
                                          HasIntDst(i) /\ i.rd # 0, refRegs'[i.rd]))
                /\ refTohost' = IF stored /\ refTohost = 0 THEN Len(refTrace') ELSE refTohost
    /\ UNCHANGED <<vars, benchVars>>

\* The bench starts once the reference trace is there.
ReferenceRecorded ==
    /\ at = "reference"
    /\ ReferenceEnds
    /\ at' = "feed"
    /\ UNCHANGED <<vars, refVars, kind, commitTarget, cycle, answers, events, sawTohost, ok>>

-----------------------------------------------------------------------------
(* The benches.                                                            *)

Commits == Len(OfType(events, "commit"))

\* The observing bench stops on the flags the step left.
FlagsRaised == ioSuccess \/ ioTrap

\* The bench has seen what it waits for.
Decided ==
    IF kind = "observed" THEN FlagsRaised ELSE Commits >= commitTarget \/ sawTohost

\* The loop goes on.
GoesOn == cycle < MaxCycles /\ ~Decided

BenchFrame == UNCHANGED <<kind, commitTarget, refVars>>

\* One fetch request is answered before each step.
Feed ==
    /\ at = "feed"
    /\ GoesOn
    /\ at' = "step"
    /\ answers' = IF answers < Len(fetches) THEN answers + 1 ELSE answers
    /\ BenchFrame
    /\ UNCHANGED <<vars, cycle, events, sawTohost, ok>>

\* The step.  The front end reads an answer when there is one; at the end the
\* events of the cycle are written, branches first.
Step ==
    /\ at = "step"
    /\ at' = IF stage = "rob_commit" THEN "serve" ELSE "step"
    /\ \/ /\ Branch \/ LsuStage \/ Decode \/ RenameStage \/ RobAllocate \/ Issue \/ Execute
             \/ FetchStopped
          /\ UNCHANGED <<answers, events>>
       \/ /\ answers = 0
          /\ FetchWaits
          /\ UNCHANGED <<answers, events>>
       \/ /\ answers > 0
          /\ FetchReads
          /\ answers' = answers - 1
          /\ UNCHANGED events
       \/ /\ CommitFlush \/ CommitNothing \/ CommitEcall \/ CommitTrap
          /\ events' = events \o BranchEvents(aluResult)
          /\ UNCHANGED answers
       \/ /\ CommitHead
          /\ events' = Append(events \o BranchEvents(aluResult), Retired(entries[robHead].uop))
          /\ UNCHANGED answers
    /\ BenchFrame
    /\ UNCHANGED <<cycle, sawTohost, ok>>

\* Mutant of Serve: any store to tohost ends the run.
ServeAnyValue ==
    /\ at = "serve"
    /\ kind # "observed"
    /\ Memory
    /\ sawTohost' = \/ sawTohost
                    \/ Head(dmemReq).isStore /\ Head(dmemReq).addr = Tohost
    /\ BenchFrame
    /\ UNCHANGED <<at, cycle, answers, events, ok>>

\* The data requests of the step are served, all of them; the last store to
\* tohost decides whether it was seen.
Serve ==
    /\ at = "serve"
    /\ kind # "observed"
    /\ Memory
    /\ sawTohost' = IF Head(dmemReq).isStore /\ Head(dmemReq).addr = Tohost
                    THEN Head(dmemReq).data = 1 ELSE sawTohost
    /\ BenchFrame
    /\ UNCHANGED <<at, cycle, answers, events, ok>>

\* Mutant of NextCycle: the cycles are not counted.
NextCycleUncounted ==
    /\ at = "serve"
    /\ dmemReq = <<>>
    /\ at' = "feed"
    /\ BenchFrame
    /\ UNCHANGED <<vars, cycle, answers, events, sawTohost, ok>>

NextCycle ==
    /\ at = "serve"
    /\ dmemReq = <<>>
    /\ at' = "feed"
    /\ cycle' = cycle + 1
    /\ BenchFrame
    /\ UNCHANGED <<vars, answers, events, sawTohost, ok>>

\* The committed registers are those the test expects, the reference's.
RegistersExpected == ArchRegs = refRegs

ObservedVerdict == (ioTrap => ioSuccess) /\ Commits > 0 /\ RegistersExpected

TraceVerdict == (kind = "complete" => sawTohost) /\ Commits = commitTarget

Close ==
    /\ at = "feed"
    /\ ~GoesOn
    /\ at' = "closed"
    /\ ok' = IF kind = "observed" THEN ObservedVerdict ELSE TraceVerdict
    /\ BenchFrame
    /\ UNCHANGED <<vars, cycle, answers, events, sawTohost>>

BenchNext ==
    ReferenceRetires \/ ReferenceRecorded \/ Feed \/ Step \/ Serve \/ NextCycle \/ Close

\* A bench is one process that runs until it closes its file.
BenchSpec == BenchInit /\ [][BenchNext]_allVars /\ WF_allVars(BenchNext)

-----------------------------------------------------------------------------
(* The matcher.                                                            *)

\* load_events
Loaded(trace, commitsOnly) ==
    IF commitsOnly THEN OfType(trace, "commit") ELSE trace

\* signature: all of a commit, but not where a branch leads.
Signature(e) ==
    IF IsCommit(e) THEN e
    ELSE [type |-> e.type, pc |-> e.pc, instruction |-> e.instruction, taken |-> e.taken]

\* compare_files; run_partial_order is this with the commits only.
CompareFiles(ref, dut, commitsOnly) ==
    LET a == Loaded(ref, commitsOnly)
        b == Loaded(dut, commitsOnly)
    IN  /\ Len(a) = Len(b)
        /\ \A i \in DOMAIN a : Signature(a[i]) = Signature(b[i])

-----------------------------------------------------------------------------
(* Properties.                                                             *)

\* What a run of the reference alone would make the bench say.
RefVerdict ==
    CASE kind = "prefix"   -> Len(refTrace) = commitTarget /\ refTohost \in {0, commitTarget}
      [] kind = "complete" -> refTohost = commitTarget
      [] kind = "observed" -> ~refTrapped /\ refTrace # <<>> /\ refRegs[A0] = 0

\* The observing bench is asked about programs that reach an ECALL or a trap.
Judged == kind = "observed" => refTrapped \/ Ref!Here.op = "ecall"

\* PASS and FAIL are about the program: the bench passes exactly those programs
\* whose reference run passes, whether it stops after a prefix, on the tohost
\* store, on ECALL, or gives up.
VerdictIsRight == at = "closed" /\ Judged => (ok <=> RefVerdict)

\* A trace that the bench passes is one that the matcher accepts: same commits in
\* the same order with the same register values.
PassedTraceMatches ==
    at = "closed" /\ kind # "observed" /\ ok => CompareFiles(refTrace, events, TRUE)

\* The commits of transfers, and the branch event that belongs to the k-th commit.
TransfersOf(commits) == {k \in DOMAIN commits : IsTransfer(commits[k].instruction)}
EventOf(resolved, commits, k) ==
    resolved[Cardinality({t \in TransfersOf(commits) : t <= k})]

\* Where a branch event says that the transfer leads.  ECALL commits without an event.
Leads(b) == IF b.taken THEN b.target ELSE Plus(b.pc, 1)
FollowedBy(next, address) == address = next \/ program[next].op = "ecall"

\* The branch events tell the transfers of the program, each once and no later than
\* its commit: what commits next is where the event says that the transfer leads.  At
\* most the last one has not committed.  docs/ooo_event_equivalence_method.md calls
\* this per-uop order.
BranchesLead ==
    LET resolved == OfType(events, "branch")
        commits == OfType(events, "commit")
    IN  /\ Len(resolved) - Cardinality(TransfersOf(commits)) \in {0, 1}
        /\ \A k \in TransfersOf(commits) :
              LET b == EventOf(resolved, commits, k)
              IN  /\ b.pc = commits[k].pc
                  /\ k < Len(commits) => FollowedBy(Leads(b), commits[k + 1].pc)

\* The bench always comes to a verdict.
BenchEnds == <>(at = "closed")

=============================================================================
