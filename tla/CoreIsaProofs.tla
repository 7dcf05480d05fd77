--------------------------- MODULE CoreIsaProofs ---------------------------
(***************************************************************************)
(* The core executes its program: as long as nothing disturbs it, every    *)
(* step of the pipeline is a step of the machine of Isa, or none, and      *)
(* ECALL reports the a0 of that machine.                                   *)
(*                                                                         *)
(* The invariant says of each uop in the ROB what the machine will find    *)
(* when it gets there: that the uop is the instruction at its address,     *)
(* that its sources are the registers the machine will read, that what was *)
(* computed from them is what the machine computes, and that the next one  *)
(* is at the address the machine goes to.                                  *)
(*                                                                         *)
(* The next part finds programs that nothing ever disturbs, and proves the *)
(* same of them without a condition on what happens.  The last is about    *)
(* the benches: what the core writes while it executes is what the         *)
(* reference writes.                                                       *)
(***************************************************************************)
EXTENDS CoreDataProofs, Differential

\* The uop in slot i was allocated in this cycle and has not been executed.
Awaits(i) == stage \in {"issue", "execute"} /\ renamedUop # NoUop /\ i = renamedUop.rob

\* The uop is what decode and rename make of the instruction at its address.
Genuine(u) ==
    /\ u.inst = program[u.pc]
    /\ u.exception = Faults(u.inst)
    /\ u.pdst # 0 <=> HasIntDst(u.inst) /\ u.inst.rd # 0
    /\ u.pdst # 0 => u.ldst = u.inst.rd

\* The values of the sources of the uop in slot i, and what it does with them.
Op1(i) == Source(entries[i].uop.prs1)
Op2(i) == Source(entries[i].uop.prs2)
Jumps(i) == Redirects(entries[i].uop.inst, Op1(i), Op2(i))
NextPc(i) ==
    LET u == entries[i].uop
    IN  IF ~Awaits(i) /\ Jumps(i) THEN Target(u.inst, Op1(i), u.pc) ELSE Plus(u.pc, 1)

\* Where the uop behind the youngest one in the ROB is, or will be fetched.
NextFetch ==
    IF stage \in {"decode", "rename", "rob_allocate"} /\ fetchUop # NoUop
    THEN fetchUop.pc
    ELSE IF stage # "branch" /\ redirect THEN target
    ELSE IF aluResult.valid /\ aluResult.redirect THEN aluResult.target
    ELSE pc

\* A result that redirects, or the redirect made of it, is there.
RedirectComing ==
    IF stage = "branch" THEN aluResult.valid /\ aluResult.redirect
    ELSE redirect \/ (stage = "rob_commit" /\ aluResult.valid /\ aluResult.redirect)

-----------------------------------------------------------------------------
(* The inductive invariant.                                                *)

\* The redirect of this cycle is the last cycle's result; it moves pc, and then no
\* uop is executed.
RedirectInv ==
    /\ stage \in {"lsu", "frontend", "decode", "rename", "rob_allocate", "issue", "execute"} =>
          /\ redirect <=> aluResult.valid /\ aluResult.redirect
          /\ redirect => target = aluResult.target
    /\ stage \in {"decode", "rename", "rob_allocate", "issue", "execute", "rob_commit"}
          /\ redirect => pc = target
    /\ stage = "rob_commit" /\ redirect => ~aluResult.valid

\* The uop on its way from fetch to execute.
FlowInv ==
    /\ stage \in {"decode", "rename", "rob_allocate"} /\ fetchUop # NoUop =>
          /\ fetchUop.inst = program[fetchUop.pc]
          /\ pc = Plus(fetchUop.pc, 1)
          /\ ~redirect
    /\ stage = "rename" =>
          decUop = IF fetchUop = NoUop THEN NoUop ELSE Decoded(fetchUop)
    /\ stage = "rob_allocate" =>
          IF fetchUop = NoUop THEN renamedUop = NoUop
          ELSE /\ renamedUop # NoUop
               /\ Genuine(renamedUop)
               /\ renamedUop.pc = fetchUop.pc
               /\ renamedUop.prs1 = MapBefore(renamedUop.inst.rs1)
               /\ renamedUop.prs2 = MapBefore(renamedUop.inst.rs2)
    /\ stage \in {"issue", "execute"} /\ renamedUop # NoUop =>
          /\ NextSlot(renamedUop.rob) = robTail
          /\ ~redirect
    /\ stage = "execute" => issuedUop = renamedUop

\* The last result is that of its uop, as long as that is there to take it.
ResultIs ==
    stage \in {"rob_commit", "branch", "lsu"} /\ aluResult.valid
          /\ entries[aluResult.uop.rob].valid =>
        aluResult = Executed(aluResult.uop)

\* The uops in the ROB read the registers that the instructions in front of them write.
HeldInv ==
    \A i \in Slots : entries[i].valid =>
        LET u == entries[i].uop
        IN  /\ Genuine(u)
            /\ MapsTo(Pos(i), u.inst.rs1, u.prs1)
            /\ MapsTo(Pos(i), u.inst.rs2, u.prs2)

\* What has been executed had its sources, and its destination holds its result.
RanInv ==
    \A i \in Slots : entries[i].valid /\ ~Awaits(i) =>
        LET u == entries[i].uop
        IN  /\ {u.prs1, u.prs2} \cap LoadsDue \subseteq {0}
            /\ u.pdst # 0 /\ u.inst.op # "load" =>
                  intRf[u.pdst] = Result(u.inst, Op1(i), Op2(i), u.pc)

\* What the LSU keeps in an entry: the address and the data the sources give, and
\* of a load that has returned, in its destination the data or else the fault.
MemRight(e, a, b) ==
    /\ e.mem.valid \/ e.mem.completed => e.mem.isLoad \/ e.mem.isStore
    /\ e.mem.isLoad \/ e.mem.isStore => e.mem.addr = Address(e.uop.inst, a)
    /\ e.mem.isStore => e.mem.data = b
    /\ e.exception => \/ Faults(e.uop.inst)
                      \/ e.mem.isLoad /\ e.mem.addr \in FaultAddrs
    /\ Faults(e.uop.inst) => e.exception

DataIn(e, rf) ==
    e.mem.isLoad /\ e.mem.completed /\ ~e.exception =>
        /\ e.mem.addr \notin FaultAddrs
        /\ e.uop.pdst # 0 => rf[e.uop.pdst] = e.mem.data

MemInv ==
    \A i \in Slots : entries[i].valid =>
        /\ MemRight(entries[i], Op1(i), Op2(i))
        /\ DataIn(entries[i], intRf)

\* The answer on its way tells whether the address faults.
FaultInv ==
    \A i \in Slots : Waits(entries[i]) /\ dmemResp # <<>> =>
        (dmemResp[1].fault <=> entries[i].mem.addr \in FaultAddrs)

\* Behind every uop is the instruction that the machine goes to: in the next slot,
\* or, behind the youngest, where the core fetches.  If that is not the next
\* address, the uop's redirect is on its way.
ChainInv ==
    \A i \in Slots : entries[i].valid =>
        /\ \A j \in Slots : entries[j].valid /\ Pos(j) = Pos(i) + 1 =>
              ~Jumps(i) /\ entries[j].uop.pc = Plus(entries[i].uop.pc, 1)
        /\ NextSlot(i) = robTail =>
              /\ NextFetch = NextPc(i)
              /\ ~Awaits(i) /\ Jumps(i) => RedirectComing

\* The trap that stopped the front end is still at the head.
TrapInv ==
    robState = "EXCEPTION" =>
        LET e == entries[robHead]
        IN  e.valid /\ ~e.busy /\ e.exception /\ e.uop.inst.op # "ecall"

IsaInv ==
    /\ RedirectInv
    /\ FlowInv
    /\ ResultIs
    /\ HeldInv
    /\ RanInv
    /\ MemInv
    /\ FaultInv
    /\ ChainInv
    /\ TrapInv

-----------------------------------------------------------------------------
(* Lemmas.                                                                 *)

LEMMA ArchPcIs ==
    /\ ArchPc = IF RobEmpty THEN NextFetch ELSE entries[robHead].uop.pc
    /\ ArchPc' = IF RobEmpty' THEN NextFetch' ELSE entries'[robHead'].uop.pc
  BY DEF ArchPc, NextFetch

LEMMA NextSlotIs ==
    ASSUME NEW i \in Slots
    PROVE  NextSlot(i) \in Slots /\ NextSlot(i) = IF i = RobSlots - 1 THEN 0 ELSE i + 1
  BY Ring!NextSlotIs, RingAssumptions DEF Slots, Ring!Slots, NextSlot, Ring!NextSlot

\* The ring holds something exactly when its head slot does.
LEMMA HeadHolds ==
    ASSUME RingInv
    PROVE  RobEmpty <=> ~entries[robHead].valid
<1>1. /\ RobSlots \in Nat /\ robHead \in 0 .. RobSlots - 1 /\ robTail \in 0 .. RobSlots - 1
      /\ entries[robHead].valid <=> InWindow(robHead)
      /\ maybeFull => robHead = robTail
  BY RobSlotsAssumption DEF RingInv, RobTypeOK, RobWindow, Slots
<1> QED
  BY <1>1 DEF InWindow, RobEmpty

\* Two neighbours, by their slots and by their distances from the head.
LEMMA NextByPos ==
    ASSUME robHead \in Slots, NEW i \in Slots, NEW j \in Slots
    PROVE  /\ Pos(j) = Pos(i) + 1 => j = NextSlot(i)
           /\ j = NextSlot(i) /\ j # robHead => Pos(j) = Pos(i) + 1
<1>1. /\ RobSlots \in Nat \ {0} /\ robHead \in 0 .. RobSlots - 1
      /\ i \in 0 .. RobSlots - 1 /\ j \in 0 .. RobSlots - 1
  BY RobSlotsAssumption DEF Slots
<1>2. NextSlot(i) = IF i = RobSlots - 1 THEN 0 ELSE i + 1
  BY NextSlotIs
<1> QED
  BY <1>1, <1>2 DEF Pos

LEMMA NextSlotOne ==
    ASSUME NEW i \in Slots, NEW j \in Slots, NextSlot(i) = NextSlot(j)
    PROVE  i = j
<1>1. RobSlots \in Nat \ {0} /\ i \in 0 .. RobSlots - 1 /\ j \in 0 .. RobSlots - 1
  BY RobSlotsAssumption DEF Slots
<1> QED
  BY <1>1, NextSlotIs

\* What a uop reads is a committed register or the destination of a uop in front of it.
LEMMA MapsToHolder ==
    ASSUME NEW n, NEW l \in Reg, NEW p, MapsTo(n, l, p)
    PROVE  \/ p = committedMap[l]
           \/ \E j \in Slots : Claims(j) /\ Pos(j) < n /\ entries[j].uop.pdst = p
  BY DEF MapsTo, Writes

LEMMA HeldTypes ==
    ASSUME RingInv, NEW i \in Slots, entries[i].valid
    PROVE  LET u == entries[i].uop
           IN  /\ u \in MicroOp /\ u.inst \in Instr
               /\ u.inst.rs1 \in Reg /\ u.inst.rs2 \in Reg /\ u.inst.rd \in Reg
               /\ u.prs1 \in Preg /\ u.prs2 \in Preg /\ u.pdst \in Preg
               /\ u.pc \in Word /\ u.rob \in Slots
<1>1. entries[i].uop \in MicroOp
  BY DEF RingInv
<1>2. entries[i].uop.inst \in Instr
  BY <1>1 DEF MicroOp
<1> QED
  BY <1>1, <1>2 DEF MicroOp, Instr, Slots

\* No uop reads the destination of a uop that is not in front of it.
LEMMA ReadsOlder ==
    ASSUME RingInv, Apart, HeldInv, NEW i \in Slots, NEW j \in Slots,
           entries[i].valid, Claims(j), Pos(i) <= Pos(j)
    PROVE  entries[j].uop.pdst \notin {entries[i].uop.prs1, entries[i].uop.prs2}
<1>1. /\ robHead \in Slots /\ \A k \in Slots : Pos(k) \in 0 .. RobSlots - 1
      /\ RobSlots \in Nat
  BY PosIs, RobSlotsAssumption DEF RingInv, RobTypeOK, Slots
<1>2. ASSUME NEW l \in Reg, NEW p, MapsTo(Pos(i), l, p)
      PROVE  p # entries[j].uop.pdst
  <2>1. CASE p = committedMap[l]
    BY <2>1 DEF Apart
  <2>2. CASE \E k \in Slots : Claims(k) /\ Pos(k) < Pos(i) /\ entries[k].uop.pdst = p
    <3> PICK k \in Slots : Claims(k) /\ Pos(k) < Pos(i) /\ entries[k].uop.pdst = p
      BY <2>2
    <3>1. Pos(k) < Pos(j)
      BY <1>1
    <3>2. k # j
      BY <1>1, <3>1
    <3> QED
      BY <3>2 DEF Apart
  <2> QED
    BY <1>2, <2>1, <2>2, MapsToHolder
<1>3. /\ MapsTo(Pos(i), entries[i].uop.inst.rs1, entries[i].uop.prs1)
      /\ MapsTo(Pos(i), entries[i].uop.inst.rs2, entries[i].uop.prs2)
  BY DEF HeldInv
<1> QED
  BY <1>2, <1>3, HeldTypes

-----------------------------------------------------------------------------
(* The calls that leave the ROB and the registers alone.                   *)

ArchSame == UNCHANGED <<program, Arch!archVars>>

LEMMA ArchSameIs ==
    ASSUME program' = program, ArchPc' = ArchPc, ArchRegs' = ArchRegs, ArchMem' = ArchMem,
           (robState' = "EXCEPTION") <=> (robState = "EXCEPTION")
    PROVE  ArchSame
<1>1. (robState = "EXCEPTION")' = (robState = "EXCEPTION")
  OBVIOUS
<1> QED
  BY <1>1 DEF ArchSame, Arch!archVars

LEMMA CalmKeeps ==
    ASSUME IsaInv, NextFetch' = NextFetch, RedirectComing => RedirectComing',
           UNCHANGED <<program, entries, robHead, robTail, maybeFull, committedMap, intRf>>,
           UNCHANGED <<dmemReq, dmemResp, memory>>,
           robState' = "EXCEPTION" <=> robState = "EXCEPTION",
           \A i \in Slots : Awaits(i)' <=> Awaits(i)
    PROVE  /\ HeldInv' /\ RanInv' /\ MemInv' /\ FaultInv' /\ ChainInv' /\ TrapInv'
           /\ ArchSame
<1>1. /\ UNCHANGED <<entries, robHead, robTail, maybeFull>>
      /\ robState' = "EXCEPTION" <=> robState = "EXCEPTION"
  OBVIOUS
<1>2. /\ \A i \in Slots : (Claims(i)' <=> Claims(i)) /\ Pos(i)' = Pos(i)
      /\ \A n, l, p : MapsTo(n, l, p)' <=> MapsTo(n, l, p)
  BY <1>1, MapsToSame
<1>3. \A i \in Slots : Op1(i)' = Op1(i) /\ Op2(i)' = Op2(i) /\ (Jumps(i)' <=> Jumps(i))
  BY <1>1 DEF Op1, Op2, Jumps, Source
<1>4. HeldInv'
  BY <1>1, <1>2 DEF IsaInv, HeldInv, Genuine
<1>5. LoadsDue' = LoadsDue
  BY <1>1 DEF LoadsDue
<1>6. RanInv'
  BY <1>1, <1>3, <1>5 DEF IsaInv, RanInv
<1>7. MemInv'
  BY <1>1, <1>3 DEF IsaInv, MemInv, MemRight, DataIn
<1>8. FaultInv' /\ TrapInv'
  BY <1>1 DEF IsaInv, FaultInv, Waits, TrapInv
<1>9. \A i \in Slots : NextPc(i)' = NextPc(i)
  BY <1>1, <1>3 DEF NextPc
<1>10. ChainInv'
  BY <1>1, <1>2, <1>3, <1>9 DEF IsaInv, ChainInv
<1>11. ArchPc' = ArchPc /\ ArchRegs' = ArchRegs /\ ArchMem' = ArchMem
  <2>1. ArchPc' = ArchPc
    BY <1>1, ArchPcIs DEF RobEmpty
  <2>2. ArchRegs' = ArchRegs
    BY <1>1 DEF ArchRegs, Source
  <2>3. ArchMem' = ArchMem
    BY <1>1 DEF ArchMem, StoresTo
  <2> QED
    BY <2>1, <2>2, <2>3
<1> QED
  BY <1>1, <1>4, <1>6, <1>7, <1>8, <1>10, <1>11, ArchSameIs

LEMMA QuietKeeps ==
    ASSUME IsaInv, NextFetch' = NextFetch, RedirectComing => RedirectComing',
           UNCHANGED <<program, robRing, committedMap, intRf, dmemReq, dmemResp, memory>>,
           \A i \in Slots : Awaits(i)' <=> Awaits(i)
    PROVE  /\ HeldInv' /\ RanInv' /\ MemInv' /\ FaultInv' /\ ChainInv' /\ TrapInv'
           /\ ArchSame
  BY CalmKeeps DEF robRing

\* branch_module turns the last result into this cycle's redirect.
LEMMA BranchKeepsIsa ==
    ASSUME IsaInv, Branch
    PROVE  IsaInv' /\ ArchSame
<1>1. /\ stage = "branch" /\ stage' = "lsu"
      /\ redirect' <=> aluResult.valid /\ aluResult.redirect
      /\ redirect' => target' = aluResult.target
      /\ UNCHANGED <<program, pc, fetchUop, aluResult, renamedUop, committedMap,
                     entries, intRf>>
      /\ UNCHANGED <<robRing, dmemReq, dmemResp, memory>>
  BY DEF Branch, At, frontendVars, pipeVars, renameVars, memoryVars, robRing
<1>2. NextFetch' = NextFetch /\ (RedirectComing => RedirectComing')
  BY <1>1 DEF NextFetch, RedirectComing
<1>3. \A i \in Slots : Awaits(i)' <=> Awaits(i)
  BY <1>1 DEF Awaits
<1>4. RedirectInv' /\ FlowInv'
  BY <1>1 DEF RedirectInv, FlowInv
<1>5. ResultIs'
  BY <1>1 DEF IsaInv, ResultIs, Executed, Source
<1> QED
  BY <1>1, <1>2, <1>3, <1>4, <1>5, QuietKeeps DEF IsaInv

\* What the front end hands on, and where it goes from there.
LEMMA FetchedIs ==
    ASSUME FrontendInv, NEW r \in BOOLEAN, NEW t \in Word, NEW p \in Programs,
           \/ FrontendStopped(r, t) \/ FrontendWaits(r, t) \/ FrontendReads(r, t, p)
    PROVE  \/ fetchUop' = NoUop /\ pc' = PcAfter(r, t)
           \/ /\ ~r /\ fetchUop' # NoUop
              /\ fetchUop'.pc = pc /\ fetchUop'.inst = p[pc]
              /\ pc' = Plus(pc, 1)
<1>1. CASE FrontendStopped(r, t) \/ FrontendWaits(r, t)
  BY <1>1 DEF FrontendStopped, FrontendWaits
<1>2. CASE FrontendReads(r, t, p)
  <2>1. CASE (SentAfter(r) \/ Sends(r)) /\ Matches(Head(fetches))
    <3> PICK a \in {Head(fetches).address} : TRUE
      OBVIOUS
    <3>1. a = pc
      BY <1>2, <2>1, AcceptedFromPc
    <3>2. fetchUop' = [pc |-> a, inst |-> p[a]] /\ pc' = Plus(a, 1)
      BY <1>2, <2>1 DEF FrontendReads
    <3>3. fetchUop' # NoUop
      BY <3>2 DEF NoUop
    <3>4. ~r
      <4>1. CASE r
        <5>1. FrontendReads(TRUE, t, p)
          BY <1>2, <4>1
        <5> QED
          BY <5>1, <3>3, RedirectReadsNothing
      <4> QED
        BY <4>1
    <3> QED
      BY <3>1, <3>2, <3>3, <3>4
  <2>2. CASE ~((SentAfter(r) \/ Sends(r)) /\ Matches(Head(fetches)))
    BY <1>2, <2>2 DEF FrontendReads
  <2> QED
    BY <2>1, <2>2
<1> QED
  BY <1>1, <1>2

\* frontend_module hands on the instruction the machine goes to next.
LEMMA FetchKeepsIsa ==
    ASSUME CoreInv, IsaInv, FetchStopped \/ FetchWaits \/ FetchReads
    PROVE  IsaInv' /\ ArchSame
<1>1. /\ stage = "frontend" /\ stage' = "decode"
      /\ UNCHANGED <<program, redirect, target, aluResult, renamedUop, committedMap,
                     entries, intRf>>
      /\ UNCHANGED <<robRing, dmemReq, dmemResp, memory>>
  BY DEF FetchStopped, FetchWaits, FetchReads, FetchFrame, At, branchVars, pipeVars,
         renameVars, memoryVars, robRing
<1>2. \/ fetchUop' = NoUop /\ pc' = PcAfter(redirect, target)
      \/ /\ ~redirect /\ fetchUop' # NoUop
         /\ fetchUop'.pc = pc /\ fetchUop'.inst = program[pc]
         /\ pc' = Plus(pc, 1)
  <2>1. redirect \in BOOLEAN /\ target \in Word /\ program \in Programs /\ FrontendInv
    BY DEF CoreInv, BaseInv, PipeTypeOK
  <2>2. \/ FrontendStopped(redirect, target) \/ FrontendWaits(redirect, target)
        \/ FrontendReads(redirect, target, program)
    BY DEF FetchStopped, FetchWaits, FetchReads
  <2> QED
    BY <2>1, <2>2, FetchedIs
<1>3. /\ redirect <=> aluResult.valid /\ aluResult.redirect
      /\ redirect => target = aluResult.target
  BY <1>1 DEF IsaInv, RedirectInv
<1>4. NextFetch' = NextFetch
  BY <1>1, <1>2, <1>3 DEF NextFetch, PcAfter
<1>5. RedirectComing => RedirectComing'
  BY <1>1 DEF RedirectComing
<1>6. \A i \in Slots : Awaits(i)' <=> Awaits(i)
  BY <1>1 DEF Awaits
<1>7. RedirectInv' /\ FlowInv'
  BY <1>1, <1>2, <1>3 DEF RedirectInv, FlowInv, PcAfter
<1>8. ResultIs'
  BY <1>1 DEF ResultIs
<1> QED
  BY <1>1, <1>4, <1>5, <1>6, <1>7, <1>8, QuietKeeps DEF IsaInv

LEMMA DecodeKeepsIsa ==
    ASSUME IsaInv, Decode
    PROVE  IsaInv' /\ ArchSame
<1>1. /\ stage = "decode" /\ stage' = "rename"
      /\ decUop' = IF fetchUop = NoUop THEN NoUop ELSE Decoded(fetchUop)
      /\ UNCHANGED <<program, redirect, target, pc, fetchUop, aluResult, renamedUop,
                     committedMap, entries, intRf>>
      /\ UNCHANGED <<robRing, dmemReq, dmemResp, memory>>
  BY DEF Decode, At, branchVars, frontendVars, renameVars, memoryVars, robRing
<1>2. NextFetch' = NextFetch /\ (RedirectComing => RedirectComing')
  BY <1>1 DEF NextFetch, RedirectComing
<1>3. \A i \in Slots : Awaits(i)' <=> Awaits(i)
  BY <1>1 DEF Awaits
<1>4. RedirectInv'
  BY <1>1 DEF IsaInv, RedirectInv
<1>5. FlowInv'
  BY <1>1 DEF IsaInv, FlowInv, Decoded
<1>6. ResultIs'
  BY <1>1 DEF ResultIs
<1> QED
  BY <1>1, <1>2, <1>3, <1>4, <1>5, <1>6, QuietKeeps DEF IsaInv

\* What rename makes of a uop when the list has a register: its sources are the
\* mappings from before it.
LEMMA RenamedIs ==
    ASSUME CoreInv, RegsInv, RegisterLeft, RenameStage, decUop # NoUop
    PROVE  /\ renamedUop' # NoUop
           /\ renamedUop'.pc = decUop.pc /\ renamedUop'.inst = decUop.inst
           /\ renamedUop'.exception = decUop.exception
           /\ renamedUop'.pdst # 0 <=> WantsReg(decUop)
           /\ renamedUop'.pdst # 0 => renamedUop'.ldst = decUop.ldst
           /\ renamedUop'.prs1 = MapBefore(decUop.inst.rs1)'
           /\ renamedUop'.prs2 = MapBefore(decUop.inst.rs2)'
<1> DEFINE u == decUop
           d == u.ldst
<1>1. /\ u \in MicroOp /\ ~redirect /\ RenameUop(u, redirect)
      /\ u.inst \in Instr /\ d \in Reg /\ NoUop \notin MicroOp
      /\ u.inst.rs1 \in Reg /\ u.inst.rs2 \in Reg
      /\ stage = "rename" /\ stage' = "rob_allocate" /\ decUop' = decUop
  <2>1. stage = "rename" /\ stage' = "rob_allocate" /\ RenameUop(u, redirect)
        /\ decUop' = decUop
    BY DEF RenameStage, At, pipeVars
  <2>2. u \in MicroOp /\ ~redirect
    BY <2>1 DEF CoreInv, BaseInv, PipeTypeOK, RedirectEmpties
  <2>3. u.inst \in Instr /\ d \in Reg
    BY <2>2 DEF MicroOp
  <2>4. u.inst.rs1 \in Reg /\ u.inst.rs2 \in Reg
    BY <2>3 DEF Instr
  <2> QED
    BY <2>1, <2>2, <2>3, <2>4, NoUopIsNone
<1>2. CurrentMap(redirect) = mapTable /\ mapTable \in [Reg -> Preg]
  BY <1>1 DEF CurrentMap, CoreInv, BaseInv, RenameTypeOK
<1>3. renamedUop' \in MicroOp \cup {NoUop}
  BY RenameKeepsBase DEF CoreInv, BaseInv, RenameTypeOK
<1>4. ASSUME NEW q, NEW l, renamedUop' = Renamed(u, mapTable, q, l)
      PROVE  /\ renamedUop' # NoUop /\ renamedUop'.pdst = q /\ renamedUop'.ldst = l
             /\ renamedUop'.pc = u.pc /\ renamedUop'.inst = u.inst
             /\ renamedUop'.exception = u.exception
             /\ renamedUop'.prs1 = mapTable[u.inst.rs1]
             /\ renamedUop'.prs2 = mapTable[u.inst.rs2]
             /\ renamedUop'.stale = mapTable[d]
  BY <1>1, <1>4 DEF Renamed, MicroOp, NoUop
<1> HIDE DEF u
<1>5. CASE RenameWithoutDst(u, redirect)
  <2>1. ~WantsReg(u) /\ mapTable' = mapTable /\ renamedUop' = Renamed(u, mapTable, 0, 0)
    BY <1>2, <1>5 DEF RenameWithoutDst
  <2>2. /\ renamedUop' # NoUop /\ renamedUop'.pdst = 0
        /\ renamedUop'.pc = u.pc /\ renamedUop'.inst = u.inst
        /\ renamedUop'.exception = u.exception
        /\ renamedUop'.prs1 = mapTable[u.inst.rs1]
        /\ renamedUop'.prs2 = mapTable[u.inst.rs2]
    BY <1>4, <2>1
  <2>3. \A l : MapBefore(l)' = mapTable[l]
    BY <2>1, <2>2 DEF MapBefore, Pending
  <2> QED
    BY <1>1, <2>1, <2>2, <2>3 DEF u
<1>6. CASE RenameStarves(u, redirect)
  BY <1>6, IntPhysRegsAssumption DEF RenameStarves, RegsInv, FreeListInv
<1>7. CASE RenameTakes(u, redirect)
  <2> DEFINE q == freeList[freeHead]
  <2>1. /\ freeHead' = (freeHead + 1) % IntPhysRegs /\ freeCount' = freeCount - 1
        /\ mapTable' = [mapTable EXCEPT ![d] = q]
        /\ renamedUop' = Renamed(u, mapTable, q, d)
        /\ UNCHANGED <<freeList, freeTail>> /\ WantsReg(u)
    BY <1>2, <1>7 DEF RenameTakes
  <2>2. freeCount > 1
    BY <1>1, <2>1 DEF RegisterLeft, u
  <2>3. q \in FreeRegs
    BY <2>1, <2>2, TakeFromList DEF RegsInv, CoreInv, BaseInv
  <2>4. q # 0
    BY <2>3, IntPhysRegsAssumption DEF RegsInv, FreeListInv, Handed
  <2> HIDE DEF q
  <2>5. /\ renamedUop' # NoUop /\ renamedUop'.pdst = q /\ renamedUop'.ldst = d
        /\ renamedUop'.pc = u.pc /\ renamedUop'.inst = u.inst
        /\ renamedUop'.exception = u.exception
        /\ renamedUop'.prs1 = mapTable[u.inst.rs1]
        /\ renamedUop'.prs2 = mapTable[u.inst.rs2]
        /\ renamedUop'.stale = mapTable[d]
    BY <1>4, <2>1
  <2>6. Pending'
    BY <1>1, <2>4, <2>5 DEF Pending
  <2>7. \A l \in Reg : MapBefore(l)' = mapTable[l]
    <3> SUFFICES ASSUME NEW l \in Reg
                 PROVE  MapBefore(l)' = mapTable[l]
      OBVIOUS
    <3>1. MapBefore(l)' = IF l = d THEN renamedUop'.stale ELSE mapTable'[l]
      BY <2>5, <2>6 DEF MapBefore
    <3>2. l # d => mapTable'[l] = mapTable[l]
      BY <1>2, <2>1
    <3> QED
      BY <2>5, <3>1, <3>2
  <2> QED
    BY <1>1, <2>1, <2>4, <2>5, <2>7 DEF u
<1> QED
  BY <1>1, <1>5, <1>6, <1>7 DEF RenameUop

LEMMA RenameKeepsIsa ==
    ASSUME CoreInv, RegsInv, IsaInv, RegisterLeft, RenameStage
    PROVE  IsaInv' /\ ArchSame
<1>1. /\ stage = "rename" /\ stage' = "rob_allocate"
      /\ UNCHANGED <<program, redirect, target, pc, fetchUop, aluResult, committedMap,
                     entries, intRf>>
      /\ UNCHANGED <<robRing, dmemReq, dmemResp, memory>>
  BY DEF RenameStage, At, branchVars, frontendVars, pipeVars, memoryVars, robRing,
         RenameNothing, RenameUop, RenameTakes, RenameStarves, RenameWithoutDst
<1>2. NextFetch' = NextFetch /\ (RedirectComing => RedirectComing')
  BY <1>1 DEF NextFetch, RedirectComing
<1>3. \A i \in Slots : Awaits(i)' <=> Awaits(i)
  BY <1>1 DEF Awaits
<1>4. RedirectInv'
  BY <1>1 DEF IsaInv, RedirectInv
<1>5. FlowInv'
  <2>1. /\ decUop = IF fetchUop = NoUop THEN NoUop ELSE Decoded(fetchUop)
        /\ fetchUop # NoUop => /\ fetchUop.inst = program[fetchUop.pc]
                               /\ pc = Plus(fetchUop.pc, 1) /\ ~redirect
    BY <1>1 DEF IsaInv, FlowInv
  <2>2. CASE fetchUop = NoUop
    <3>1. renamedUop' = NoUop
      BY <2>1, <2>2 DEF RenameStage, RenameNothing
    <3> QED
      BY <1>1, <2>2, <3>1 DEF FlowInv
  <2>3. CASE fetchUop # NoUop
    <3>1. fetchUop \in [pc : Word, inst : Instr]
      BY <2>3 DEF CoreInv, BaseInv, FrontendInv, FrontendTypeOK
    <3>2. decUop # NoUop
      BY <2>1, <2>3, <3>1, DecodedType, NoUopIsNone
    <3>3. /\ decUop.pc = fetchUop.pc /\ decUop.inst = fetchUop.inst
          /\ decUop.ldst = fetchUop.inst.rd /\ decUop.exception = Faults(fetchUop.inst)
      BY <2>1, <2>3 DEF Decoded
    <3>4. /\ renamedUop' # NoUop
          /\ renamedUop'.pc = decUop.pc /\ renamedUop'.inst = decUop.inst
          /\ renamedUop'.exception = decUop.exception
          /\ renamedUop'.pdst # 0 <=> WantsReg(decUop)
          /\ renamedUop'.pdst # 0 => renamedUop'.ldst = decUop.ldst
          /\ renamedUop'.prs1 = MapBefore(decUop.inst.rs1)'
          /\ renamedUop'.prs2 = MapBefore(decUop.inst.rs2)'
      BY <3>2, RenamedIs
    <3>5. /\ renamedUop'.prs1 = MapBefore(renamedUop.inst.rs1)'
          /\ renamedUop'.prs2 = MapBefore(renamedUop.inst.rs2)'
      <4>1. decUop' = decUop
        BY DEF RenameStage, pipeVars
      <4> QED
        BY <3>4, <4>1 DEF MapBefore
    <3>6. Genuine(renamedUop)'
      BY <1>1, <2>1, <2>3, <3>3, <3>4 DEF Genuine, WantsReg
    <3> QED
      BY <1>1, <2>1, <2>3, <3>3, <3>4, <3>5, <3>6 DEF FlowInv
  <2> QED
    BY <2>2, <2>3
<1>6. ResultIs'
  BY <1>1 DEF ResultIs
<1> QED
  BY <1>1, <1>2, <1>3, <1>4, <1>5, <1>6, QuietKeeps DEF IsaInv

-----------------------------------------------------------------------------
(* The calls that change the ROB or the registers.                         *)

\* The new entry is the instruction that the machine gets to behind the others.
LEMMA AllocateKeepsIsa ==
    ASSUME CoreInv, RegsInv, IsaInv, RoomForUop, RobAllocate, renamedUop # NoUop
    PROVE  IsaInv' /\ ArchSame
<1>1. /\ stage = "rob_allocate" /\ stage' = "issue"
      /\ UNCHANGED <<program, redirect, target, pc, fetchUop, aluResult, committedMap,
                     intRf, dmemReq, dmemResp, memory>>
      /\ ~RobFull /\ RingInv /\ robHead \in Slots
  BY DEF RobAllocate, At, branchVars, frontendVars, pipeVars, memoryVars, RoomForUop,
         CoreInv, BaseInv, RingInv, RobTypeOK
<1>2. /\ fetchUop # NoUop /\ ~redirect /\ ~(aluResult.valid /\ aluResult.redirect)
      /\ pc = Plus(fetchUop.pc, 1) /\ renamedUop.pc = fetchUop.pc
      /\ Genuine(renamedUop)
      /\ renamedUop.prs1 = MapBefore(renamedUop.inst.rs1)
      /\ renamedUop.prs2 = MapBefore(renamedUop.inst.rs2)
  BY <1>1 DEF IsaInv, FlowInv, RedirectInv
<1> DEFINE new == [renamedUop EXCEPT !.rob = robTail]
<1>3. /\ renamedUop \in MicroOp /\ robTail \in Slots
      /\ Allocate(new) /\ renamedUop' = new
  BY <1>1 DEF RobAllocate, CoreInv, BaseInv, RenameTypeOK, RingInv, RobTypeOK
<1>4. new \in MicroOp
  BY <1>3 DEF MicroOp, Slots
<1>5. \E u \in MicroOp, t \in Slots : u = new /\ t = robTail
  BY <1>3, <1>4
<1> PICK u \in MicroOp, t \in Slots : u = new /\ t = robTail
  BY <1>5
<1>6. /\ u.pc = fetchUop.pc /\ u.inst = renamedUop.inst /\ u.pdst = renamedUop.pdst
      /\ u.ldst = renamedUop.ldst /\ u.exception = renamedUop.exception
      /\ u.prs1 = renamedUop.prs1 /\ u.prs2 = renamedUop.prs2 /\ u.rob = t
      /\ u.inst \in Instr
  BY <1>2, <1>3 DEF MicroOp
<1>7. /\ Allocate(u) /\ renamedUop' = u /\ u # NoUop
  BY <1>3, NoUopIsNone
<1> HIDE DEF new
<1>8. /\ \A i \in Slots : /\ i # t => entries'[i] = entries[i]
                          /\ Pos(i)' = Pos(i)
      /\ entries'[t].valid /\ entries'[t].uop = u
      /\ \A l \in Reg : \A p :
            MapsTo(RobSlots, l, p) => MapsTo(Pos(t), l, p)'
      /\ \A i \in Slots : \A l \in Reg : \A p :
            entries[i].valid /\ MapsTo(Pos(i), l, p) => MapsTo(Pos(i), l, p)'
  BY <1>1, <1>7, AllocatedMaps
<1>9. /\ entries'[t] = FreshEntry(u) /\ robHead' = robHead /\ robTail' = NextSlot(t)
      /\ maybeFull' = (maybeFull \/ robTail' = robHead)
      /\ robState' = "EXCEPTION" => robState = "EXCEPTION"
      /\ robState = "EXCEPTION" => robState' = "EXCEPTION"
  BY <1>1, <1>7 DEF Allocate, WakeRob, RingInv, RobTypeOK
<1>10. /\ ~entries[t].valid
       /\ \A i \in Slots : entries[i].valid => i # t /\ Pos(i) < Pos(t)
       /\ \A i \in Slots : Pos(i) \in 0 .. RobSlots - 1
  BY <1>1, TailIsLast, PosIs DEF Slots
<1>11. /\ \A i \in Slots : ~Awaits(i)
       /\ \A i \in Slots : Awaits(i)' <=> i = t
  BY <1>1, <1>6, <1>7 DEF Awaits
<1>12. \A i \in Slots : i # t => /\ Op1(i)' = Op1(i) /\ Op2(i)' = Op2(i)
                                 /\ Jumps(i)' <=> Jumps(i)
  BY <1>1, <1>8 DEF Op1, Op2, Jumps, Source
<1>13. HeldInv'
  <2> SUFFICES ASSUME NEW i \in Slots, entries'[i].valid
               PROVE  /\ Genuine(entries[i].uop)'
                      /\ MapsTo(Pos(i), entries[i].uop.inst.rs1, entries[i].uop.prs1)'
                      /\ MapsTo(Pos(i), entries[i].uop.inst.rs2, entries[i].uop.prs2)'
    BY DEF HeldInv
  <2>1. CASE i # t
    <3>1. /\ entries'[i] = entries[i] /\ entries[i].valid
          /\ entries[i].uop.inst.rs1 \in Reg /\ entries[i].uop.inst.rs2 \in Reg
      BY <1>1, <1>8, <2>1, HeldTypes
    <3>2. /\ Genuine(entries[i].uop)
          /\ MapsTo(Pos(i), entries[i].uop.inst.rs1, entries[i].uop.prs1)
          /\ MapsTo(Pos(i), entries[i].uop.inst.rs2, entries[i].uop.prs2)
      BY <3>1 DEF IsaInv, HeldInv
    <3> PICK l1 \in Reg, l2 \in Reg, p1 \in {entries[i].uop.prs1},
             p2 \in {entries[i].uop.prs2} :
               l1 = entries[i].uop.inst.rs1 /\ l2 = entries[i].uop.inst.rs2
      BY <3>1
    <3>3. MapsTo(Pos(i), l1, p1)' /\ MapsTo(Pos(i), l2, p2)'
      BY <1>8, <3>1, <3>2
    <3>4. Genuine(entries[i].uop)'
      BY <1>1, <3>1, <3>2 DEF Genuine
    <3>5. /\ entries'[i].uop.inst.rs1 = l1 /\ entries'[i].uop.prs1 = p1
          /\ entries'[i].uop.inst.rs2 = l2 /\ entries'[i].uop.prs2 = p2
      BY <3>1
    <3> QED
      BY <3>3, <3>4, <3>5
  <2>2. CASE i = t
    <3>1. MapsInv /\ ~MapReset
      BY <1>2 DEF RegsInv, MapReset
    <3>2. \A l \in Reg : MapsTo(RobSlots, l, MapBefore(l))
      BY <3>1 DEF MapsInv
    <3>3. u.inst.rs1 \in Reg /\ u.inst.rs2 \in Reg
      BY <1>6 DEF Instr
    <3>4. MapsTo(RobSlots, u.inst.rs1, u.prs1) /\ MapsTo(RobSlots, u.inst.rs2, u.prs2)
      BY <1>2, <1>6, <3>2, <3>3
    <3>5. MapsTo(Pos(t), u.inst.rs1, u.prs1)' /\ MapsTo(Pos(t), u.inst.rs2, u.prs2)'
      <4> PICK l1 \in Reg, l2 \in Reg, p1 \in {u.prs1}, p2 \in {u.prs2} :
                 l1 = u.inst.rs1 /\ l2 = u.inst.rs2
        BY <3>3
      <4>1. MapsTo(Pos(t), l1, p1)' /\ MapsTo(Pos(t), l2, p2)'
        BY <1>8, <3>4
      <4> QED
        BY <4>1
    <3>6. Genuine(u)'
      BY <1>1, <1>2, <1>6 DEF Genuine
    <3>7. Genuine(entries[t].uop)'
      BY <1>8, <3>6
    <3> QED
      BY <1>8, <2>2, <3>5, <3>7
  <2> QED
    BY <2>1, <2>2
<1>14. RanInv'
  <2> SUFFICES ASSUME NEW i \in Slots, entries'[i].valid, i # t
               PROVE  /\ {entries[i].uop.prs1, entries[i].uop.prs2} \cap LoadsDue' \subseteq {0}
                      /\ entries[i].uop.pdst # 0 /\ entries[i].uop.inst.op # "load" =>
                            intRf'[entries[i].uop.pdst] =
                               Result(entries[i].uop.inst, Op1(i)', Op2(i)', entries[i].uop.pc)
    BY <1>8, <1>11 DEF RanInv
  <2>1. /\ entries[i].valid
        /\ entries[i].uop.inst.rs1 \in Reg /\ entries[i].uop.inst.rs2 \in Reg
    BY <1>1, <1>8, HeldTypes
  <2>2. /\ {entries[i].uop.prs1, entries[i].uop.prs2} \cap LoadsDue \subseteq {0}
        /\ entries[i].uop.pdst # 0 /\ entries[i].uop.inst.op # "load" =>
              intRf[entries[i].uop.pdst] =
                 Result(entries[i].uop.inst, Op1(i), Op2(i), entries[i].uop.pc)
    BY <1>11, <2>1 DEF IsaInv, RanInv
  <2>3. LoadsDue' \subseteq LoadsDue \cup {u.pdst}
    BY <1>8 DEF LoadsDue
  <2>4. ASSUME u.pdst # 0
        PROVE  u.pdst \notin {entries[i].uop.prs1, entries[i].uop.prs2}
    <3>1. Pending
      BY <1>1, <1>6, <2>4 DEF Pending
    <3>2. /\ \A l \in Reg : committedMap[l] # u.pdst
          /\ \A j \in Slots : Claims(j) => entries[j].uop.pdst # u.pdst
      BY <1>6, <3>1 DEF RegsInv, Apart
    <3>3. /\ MapsTo(Pos(i), entries[i].uop.inst.rs1, entries[i].uop.prs1)
          /\ MapsTo(Pos(i), entries[i].uop.inst.rs2, entries[i].uop.prs2)
      BY <2>1 DEF IsaInv, HeldInv
    <3>4. \A l \in Reg : \A p : MapsTo(Pos(i), l, p) => p # u.pdst
      BY <3>2, MapsToHolder
    <3> QED
      BY <2>1, <3>3, <3>4
  <2> QED
    BY <1>1, <1>12, <2>2, <2>3, <2>4
<1>15. MemInv'
  <2> SUFFICES ASSUME NEW i \in Slots, entries'[i].valid
               PROVE  MemRight(entries'[i], Op1(i)', Op2(i)') /\ DataIn(entries'[i], intRf)
    BY <1>1 DEF MemInv, MemRight, DataIn
  <2>1. CASE i # t
    BY <1>8, <1>12, <2>1 DEF IsaInv, MemInv
  <2>2. CASE i = t
    <3>1. u.exception = Faults(u.inst)
      BY <1>2, <1>6 DEF Genuine
    <3>2. /\ entries'[i].mem = NoMem /\ entries'[i].exception = u.exception
          /\ entries'[i].uop = u
      BY <1>9, <2>2 DEF FreshEntry
    <3> QED
      BY <3>1, <3>2 DEF MemRight, DataIn, NoMem
  <2> QED
    BY <2>1, <2>2
<1>16. FaultInv'
  <2>1. ~Waits(entries'[t])
    BY <1>9 DEF Waits, FreshEntry, NoMem
  <2>2. \A i \in Slots : i # t => entries'[i] = entries[i]
    BY <1>8
  <2> QED
    BY <1>1, <2>1, <2>2 DEF IsaInv, FaultInv, Waits
<1>17. ChainInv'
  <2>1. NextFetch = u.pc /\ NextFetch' = Plus(u.pc, 1) /\ ~RedirectComing
    BY <1>1, <1>2, <1>6 DEF NextFetch, RedirectComing
  <2>2. ASSUME NEW i \in Slots, entries[i].valid, NextSlot(i) = t
        PROVE  ~Jumps(i) /\ u.pc = Plus(entries[i].uop.pc, 1)
    BY <1>11, <2>1, <2>2 DEF IsaInv, ChainInv, NextPc
  <2>3. ASSUME NEW i \in Slots, entries'[i].valid, NEW j \in Slots, entries'[j].valid,
               Pos(j)' = Pos(i)' + 1
        PROVE  ~Jumps(i)' /\ entries'[j].uop.pc = Plus(entries'[i].uop.pc, 1)
    <3>1. Pos(j) = Pos(i) + 1 /\ Pos(i) \in Int /\ Pos(j) \in Int /\ Pos(t) \in Int
      BY <1>8, <1>10, <2>3
    <3>2. i # t
      <4>1. CASE j = t
        BY <3>1, <4>1
      <4>2. CASE j # t
        BY <1>8, <1>10, <2>3, <3>1, <4>2
      <4> QED
        BY <4>1, <4>2
    <3>3. entries[i].valid /\ entries'[i] = entries[i] /\ (Jumps(i)' <=> Jumps(i))
      BY <1>8, <1>12, <2>3, <3>2
    <3>4. CASE j = t
      <4>1. NextSlot(i) = t
        BY <1>1, <3>1, <3>4, NextByPos
      <4> QED
        BY <1>8, <2>2, <3>3, <3>4, <4>1
    <3>5. CASE j # t
      <4>1. entries'[j] = entries[j]
        BY <1>8, <3>5
      <4> QED
        BY <2>3, <3>1, <3>3, <4>1 DEF IsaInv, ChainInv
    <3> QED
      BY <3>4, <3>5
  <2>4. ASSUME NEW i \in Slots, entries'[i].valid, NextSlot(i) = robTail'
        PROVE  NextFetch' = NextPc(i)' /\ Awaits(i)'
    <3>1. i = t
      BY <1>9, <2>4, NextSlotOne
    <3>2. Awaits(i)'
      BY <1>11, <3>1
    <3> QED
      BY <1>8, <2>1, <3>1, <3>2 DEF NextPc
  <2>5. \A i \in Slots : NextSlot(i)' = NextSlot(i)
    BY DEF NextSlot
  <2> QED
    BY <2>3, <2>4, <2>5 DEF ChainInv
<1>18. TrapInv'
  <2> SUFFICES ASSUME robState = "EXCEPTION"
               PROVE  entries'[robHead] = entries[robHead]
    BY <1>9 DEF IsaInv, TrapInv
  <2>1. entries[robHead].valid
    BY DEF IsaInv, TrapInv
  <2> QED
    BY <1>1, <1>8, <1>10, <2>1
<1>19. RedirectInv' /\ ResultIs'
  BY <1>1 DEF IsaInv, RedirectInv, ResultIs
<1>20. FlowInv'
  BY <1>1, <1>2, <1>6, <1>7, <1>9 DEF FlowInv, NextSlot
<1>21. ArchSame
  <2>1. ~RobEmpty'
    BY <1>9 DEF RobEmpty
  <2>2. ArchPc' = entries'[robHead].uop.pc
    BY <1>9, <2>1, ArchPcIs
  <2>3. ArchPc' = ArchPc
    <3>1. CASE RobEmpty
      <4>1. robHead = t /\ ArchPc = NextFetch
        BY <3>1, ArchPcIs DEF RobEmpty
      <4> QED
        BY <1>1, <1>2, <1>6, <1>8, <2>2, <4>1 DEF NextFetch
    <3>2. CASE ~RobEmpty
      <4>1. entries[robHead].valid
        BY <1>1, <3>2, HeadHolds
      <4> QED
        BY <1>1, <1>8, <1>10, <2>2, <3>2, <4>1, ArchPcIs
    <3> QED
      BY <3>1, <3>2
  <2>4. ArchRegs' = ArchRegs
    BY <1>1 DEF ArchRegs, Source
  <2>5. ArchMem' = ArchMem
    BY <1>1 DEF ArchMem, StoresTo
  <2> QED
    BY <1>1, <1>9, <2>3, <2>4, <2>5, ArchSameIs
<1> QED
  BY <1>13, <1>14, <1>15, <1>16, <1>17, <1>18, <1>19, <1>20, <1>21 DEF IsaInv

LEMMA RobAllocateKeepsIsa ==
    ASSUME CoreInv, RegsInv, IsaInv, RoomForUop, RobAllocate
    PROVE  IsaInv' /\ ArchSame
<1>1. CASE renamedUop = NoUop
  <2>1. /\ stage = "rob_allocate" /\ stage' = "issue"
        /\ UNCHANGED <<program, redirect, target, pc, fetchUop, aluResult, renamedUop,
                       committedMap, intRf, dmemReq, dmemResp, memory>>
        /\ UNCHANGED <<entries, robHead, robTail, maybeFull>>
        /\ robState' = "EXCEPTION" <=> robState = "EXCEPTION"
    BY <1>1 DEF RobAllocate, At, branchVars, frontendVars, pipeVars, memoryVars, WakeRob
  <2>2. fetchUop = NoUop
    BY <1>1, <2>1 DEF IsaInv, FlowInv
  <2>3. NextFetch' = NextFetch /\ (RedirectComing => RedirectComing')
    BY <2>1, <2>2 DEF NextFetch, RedirectComing
  <2>4. \A i \in Slots : Awaits(i)' <=> Awaits(i)
    BY <1>1, <2>1 DEF Awaits
  <2>5. RedirectInv' /\ FlowInv' /\ ResultIs'
    BY <1>1, <2>1 DEF IsaInv, RedirectInv, FlowInv, ResultIs
  <2> QED
    BY <2>1, <2>3, <2>4, <2>5, CalmKeeps DEF IsaInv
<1> QED
  BY <1>1, AllocateKeepsIsa

\* issue_module grants the uop of this cycle at once.
LEMMA IssueKeepsIsa ==
    ASSUME CoreInv, IsaInv, Issue
    PROVE  IsaInv' /\ ArchSame
<1>1. /\ stage = "issue" /\ stage' = "execute"
      /\ UNCHANGED <<program, redirect, target, pc, fetchUop, aluResult, renamedUop,
                     committedMap, entries, robTail, intRf>>
      /\ UNCHANGED <<robRing, dmemReq, dmemResp, memory>>
  BY DEF Issue, At, branchVars, frontendVars, renameVars, memoryVars, robRing
<1>2. issuedUop' = renamedUop
  <2>1. aluIq = <<>> /\ Len(aluIq) < IqDepth
    BY IqDepthAssumption DEF CoreInv, BaseInv, OneUop
  <2>2. CASE renamedUop = NoUop
    BY <2>1, <2>2 DEF Issue
  <2>3. CASE renamedUop # NoUop
    <3>1. Append(aluIq, renamedUop) = <<renamedUop>>
      BY <2>1
    <3>2. <<renamedUop>> # <<>> /\ Head(<<renamedUop>>) = renamedUop
      OBVIOUS
    <3> QED
      BY <2>1, <2>3, <3>1, <3>2 DEF Issue
  <2> QED
    BY <2>2, <2>3
<1>3. NextFetch' = NextFetch /\ (RedirectComing => RedirectComing')
  BY <1>1 DEF NextFetch, RedirectComing
<1>4. \A i \in Slots : Awaits(i)' <=> Awaits(i)
  BY <1>1 DEF Awaits
<1>5. RedirectInv' /\ FlowInv' /\ ResultIs'
  BY <1>1, <1>2 DEF IsaInv, RedirectInv, FlowInv, ResultIs, NextSlot
<1> QED
  BY <1>1, <1>3, <1>4, <1>5, QuietKeeps DEF IsaInv

\* The uop in front of the tail is the youngest.
LEMMA LastIsYoungest ==
    ASSUME RingInv, NEW i \in Slots, entries[i].valid, NextSlot(i) = robTail
    PROVE  \A j \in Slots : entries[j].valid => Pos(j) <= Pos(i)
<1> SUFFICES ASSUME NEW j \in Slots, entries[j].valid
             PROVE  Pos(j) <= Pos(i)
  OBVIOUS
<1>1. /\ RobSlots \in Nat \ {0} /\ robHead \in 0 .. RobSlots - 1
      /\ robTail \in 0 .. RobSlots - 1
      /\ i \in 0 .. RobSlots - 1 /\ j \in 0 .. RobSlots - 1
      /\ InWindow(j)
      /\ maybeFull => robHead = robTail
  BY RobSlotsAssumption DEF RingInv, RobTypeOK, RobWindow, Slots
<1>2. robTail = IF i = RobSlots - 1 THEN 0 ELSE i + 1
  BY NextSlotIs
<1> QED
  BY <1>1, <1>2 DEF Pos, InWindow

\* Every destination but a load's gets its result, and nobody behind the uop, and no
\* mapping, reads it any more.
LEMMA ExecuteUopKeepsIsa ==
    ASSUME CoreInv, RegsInv, IsaInv, SourcesArrived, Execute, issuedUop # NoUop
    PROVE  IsaInv' /\ ArchSame
<1>1. /\ stage = "execute" /\ stage' = "rob_commit"
      /\ UNCHANGED <<program, redirect, target, pc, committedMap, entries, robHead,
                     robTail, maybeFull, robState, dmemReq, dmemResp, memory>>
      /\ RingInv /\ intRf \in [Preg -> Word] /\ issuedUop \in MicroOp
      /\ robHead \in Slots
  BY DEF Execute, At, branchVars, frontendVars, renameVars, memoryVars, robRing,
         CoreInv, BaseInv, PipeTypeOK, RingInv, RobTypeOK
<1>2. /\ issuedUop = renamedUop /\ ~redirect
      /\ NextSlot(issuedUop.rob) = robTail
      /\ ~(aluResult.valid /\ aluResult.redirect)
  BY <1>1 DEF IsaInv, FlowInv, RedirectInv
<1>3. \E u \in MicroOp, r \in Slots : u = issuedUop /\ r = issuedUop.rob
  BY <1>1 DEF MicroOp, Slots
<1> PICK u \in MicroOp, r \in Slots : u = issuedUop /\ r = issuedUop.rob
  BY <1>3
<1> DEFINE p == u.pdst
           res == Executed(u).result
<1>4. /\ u.rob = r /\ NextSlot(r) = robTail
      /\ entries[r].valid /\ entries[r].uop = u /\ entries[r].mem = NoMem
      /\ p \in Preg /\ u.prs1 \in Preg /\ u.prs2 \in Preg /\ u.inst \in Instr
  BY <1>1, <1>2 DEF CoreInv, BaseInv, OneUop, Fresh, MicroOp
<1>5. Genuine(u)
  BY <1>4 DEF IsaInv, HeldInv
<1>6. /\ Executed(u) \in AluResult /\ Executed(u).uop = u
      /\ Executed(u).isLoad <=> u.inst.op = "load"
      /\ res \in Word
  BY <1>1, ExecutedType DEF AluResult
<1>7. /\ aluResult' = Executed(u)
      /\ intRf' = IF u.inst.op # "load" /\ p # 0 THEN [intRf EXCEPT ![p] = res] ELSE intRf
  BY <1>5, <1>6 DEF Execute, Genuine
<1>8. /\ res = Result(u.inst, Op1(r), Op2(r), u.pc)
      /\ Executed(u).valid
      /\ Executed(u).redirect <=> Jumps(r)
      /\ Executed(u).target = Target(u.inst, Op1(r), u.pc)
  BY <1>4 DEF Executed, Op1, Op2, Jumps
<1> HIDE DEF res
<1>9. \A q \in Preg : q # p \/ p = 0 => Source(q)' = Source(q)
  BY <1>1, <1>4, <1>7 DEF Source
<1>10. /\ \A i \in Slots : Awaits(i) <=> i = r
       /\ \A i \in Slots : ~Awaits(i)'
  BY <1>1, <1>2, <1>4 DEF Awaits
<1>11. p # 0 => /\ \A l \in Reg : committedMap[l] # p
                /\ \A i \in Slots : entries[i].valid /\ i # r => entries[i].uop.pdst # p
                /\ \A i \in Slots : entries[i].valid =>
                      p \notin {entries[i].uop.prs1, entries[i].uop.prs2}
  <2> SUFFICES ASSUME p # 0
               PROVE  /\ \A l \in Reg : committedMap[l] # p
                      /\ \A i \in Slots : entries[i].valid /\ i # r => entries[i].uop.pdst # p
                      /\ \A i \in Slots : entries[i].valid =>
                            p \notin {entries[i].uop.prs1, entries[i].uop.prs2}
    OBVIOUS
  <2>1. Claims(r)
    BY <1>4 DEF Claims
  <2>2. \A i \in Slots : entries[i].valid => Pos(i) <= Pos(r)
    BY <1>1, <1>4, LastIsYoungest
  <2>3. \A i \in Slots : entries[i].valid =>
           p \notin {entries[i].uop.prs1, entries[i].uop.prs2}
    BY <1>1, <1>4, <2>1, <2>2, ReadsOlder DEF RegsInv, IsaInv
  <2> QED
    BY <1>4, <2>1, <2>3 DEF RegsInv, Apart, Claims
<1>12. \A i \in Slots : entries[i].valid => /\ Op1(i)' = Op1(i) /\ Op2(i)' = Op2(i)
                                            /\ Jumps(i)' <=> Jumps(i)
  <2> SUFFICES ASSUME NEW i \in Slots, entries[i].valid
               PROVE  /\ Op1(i)' = Op1(i) /\ Op2(i)' = Op2(i) /\ (Jumps(i)' <=> Jumps(i))
    OBVIOUS
  <2>1. entries[i].uop.prs1 \in Preg /\ entries[i].uop.prs2 \in Preg
    BY <1>1, HeldTypes
  <2>2. /\ Source(entries[i].uop.prs1)' = Source(entries[i].uop.prs1)
        /\ Source(entries[i].uop.prs2)' = Source(entries[i].uop.prs2)
    BY <1>1, <1>9, <1>11, <2>1 DEF Source
  <2> QED
    BY <1>1, <2>2 DEF Op1, Op2, Jumps
<1>13. HeldInv'
  <2>1. \A n, l, q : MapsTo(n, l, q)' <=> MapsTo(n, l, q)
    BY <1>1, MapsToSame
  <2>2. \A i \in Slots : Pos(i)' = Pos(i)
    BY <1>1 DEF Pos
  <2> QED
    BY <1>1, <2>1, <2>2 DEF IsaInv, HeldInv, Genuine
<1>14. RanInv'
  <2> SUFFICES ASSUME NEW i \in Slots, entries[i].valid
               PROVE  /\ {entries[i].uop.prs1, entries[i].uop.prs2} \cap LoadsDue \subseteq {0}
                      /\ entries[i].uop.pdst # 0 /\ entries[i].uop.inst.op # "load" =>
                            intRf'[entries[i].uop.pdst] =
                               Result(entries[i].uop.inst, Op1(i)', Op2(i)', entries[i].uop.pc)
    <3>1. LoadsDue' = LoadsDue
      BY <1>1 DEF LoadsDue
    <3> QED
      BY <1>1, <3>1 DEF RanInv
  <2>1. CASE i = r
    <3>1. {u.prs1, u.prs2} \cap LoadsDue \subseteq {0}
      BY <1>1 DEF SourcesArrived
    <3>2. p # 0 /\ u.inst.op # "load" => intRf'[p] = res
      BY <1>1, <1>4, <1>7
    <3> QED
      BY <1>4, <1>8, <1>12, <2>1, <3>1, <3>2
  <2>2. CASE i # r
    <3>1. /\ {entries[i].uop.prs1, entries[i].uop.prs2} \cap LoadsDue \subseteq {0}
          /\ entries[i].uop.pdst # 0 /\ entries[i].uop.inst.op # "load" =>
                intRf[entries[i].uop.pdst] =
                   Result(entries[i].uop.inst, Op1(i), Op2(i), entries[i].uop.pc)
      BY <1>10, <2>2 DEF IsaInv, RanInv
    <3>2. entries[i].uop.pdst # 0 => intRf'[entries[i].uop.pdst] = intRf[entries[i].uop.pdst]
      <4>1. entries[i].uop.pdst \in Preg
        BY <1>1, HeldTypes
      <4> QED
        BY <1>1, <1>4, <1>7, <1>11, <2>2, <4>1
    <3> QED
      BY <1>12, <3>1, <3>2
  <2> QED
    BY <2>1, <2>2
<1>15. MemInv'
  <2> SUFFICES ASSUME NEW i \in Slots, entries[i].valid
               PROVE  MemRight(entries[i], Op1(i)', Op2(i)') /\ DataIn(entries[i], intRf')
    BY <1>1 DEF MemInv, MemRight, DataIn
  <2>1. MemRight(entries[i], Op1(i), Op2(i)) /\ DataIn(entries[i], intRf)
    BY DEF IsaInv, MemInv
  <2>2. CASE i = r
    BY <1>4, <1>12, <2>1, <2>2 DEF DataIn, NoMem
  <2>3. CASE i # r
    <3>1. entries[i].uop.pdst # 0 => intRf'[entries[i].uop.pdst] = intRf[entries[i].uop.pdst]
      <4>1. entries[i].uop.pdst \in Preg
        BY <1>1, HeldTypes
      <4> QED
        BY <1>1, <1>4, <1>7, <1>11, <2>3, <4>1
    <3> QED
      BY <1>12, <2>1, <3>1 DEF DataIn
  <2> QED
    BY <2>2, <2>3
<1>16. FaultInv' /\ TrapInv'
  BY <1>1 DEF IsaInv, FaultInv, Waits, TrapInv
<1>17. ChainInv'
  <2>1. ASSUME NEW i \in Slots, entries[i].valid, NEW j \in Slots, entries[j].valid,
               Pos(j)' = Pos(i)' + 1
        PROVE  ~Jumps(i)' /\ entries[j].uop.pc = Plus(entries[i].uop.pc, 1)
    <3>1. Pos(j) = Pos(i) + 1
      BY <1>1, <2>1 DEF Pos
    <3> QED
      BY <1>12, <2>1, <3>1 DEF IsaInv, ChainInv
  <2>2. ASSUME NEW i \in Slots, entries[i].valid, NextSlot(i) = robTail
        PROVE  NextFetch' = NextPc(i)' /\ (Jumps(i)' => RedirectComing')
    <3>1. i = r
      BY <1>4, <2>2, NextSlotOne
    <3>2. NextFetch = pc /\ NextFetch = Plus(u.pc, 1)
      <4>1. NextFetch = pc
        BY <1>1, <1>2 DEF NextFetch
      <4> QED
        BY <1>4, <1>10, <4>1 DEF IsaInv, ChainInv, NextPc
    <3>3. NextFetch' = IF Jumps(r) THEN Target(u.inst, Op1(r), u.pc) ELSE Plus(u.pc, 1)
      BY <1>1, <1>2, <1>7, <1>8, <3>2 DEF NextFetch
    <3>4. NextPc(r)' = IF Jumps(r)' THEN Target(u.inst, Op1(r)', u.pc) ELSE Plus(u.pc, 1)
      BY <1>1, <1>4, <1>10 DEF NextPc
    <3>5. RedirectComing' <=> Jumps(r)
      BY <1>1, <1>2, <1>7, <1>8 DEF RedirectComing
    <3> QED
      BY <1>4, <1>12, <3>1, <3>3, <3>4, <3>5
  <2>3. \A i \in Slots : NextSlot(i)' = NextSlot(i)
    BY DEF NextSlot
  <2> QED
    BY <1>1, <2>1, <2>2, <2>3 DEF ChainInv
<1>18. RedirectInv' /\ FlowInv'
  BY <1>1, <1>2 DEF RedirectInv, FlowInv
<1>19. ResultIs'
  <2>1. Source(u.prs1)' = Source(u.prs1) /\ Source(u.prs2)' = Source(u.prs2)
    BY <1>4, <1>9, <1>11
  <2>2. Executed(u)' = Executed(u)
    BY <2>1 DEF Executed
  <2>3. aluResult'.uop = u
    BY <1>6, <1>7
  <2>4. Executed(aluResult.uop)' = Executed(u)'
    BY <2>3 DEF Executed
  <2> QED
    BY <1>7, <2>2, <2>4 DEF ResultIs
<1>20. ArchSame
  <2>1. ArchPc' = ArchPc
    <3>1. ~RobEmpty
      BY <1>1, <1>4 DEF RobEmpty, RingInv, RobWindow, InWindow, RobTypeOK, Slots
    <3> QED
      BY <1>1, <3>1, ArchPcIs DEF RobEmpty
  <2>2. ArchRegs' = ArchRegs
    <3>1. \A l \in Reg : committedMap[l] \in Preg
      BY DEF CoreInv, BaseInv, RenameTypeOK
    <3>2. \A l \in Reg : Source(committedMap[l])' = Source(committedMap[l])
      <4> TAKE l \in Reg
      <4>1. \E q \in Preg : q = committedMap[l]
        BY <3>1
      <4> PICK q \in Preg : q = committedMap[l]
        BY <4>1
      <4>2. Source(q)' = Source(q)
        BY <1>9, <1>11
      <4> QED
        BY <1>1, <4>2 DEF Source
    <3> QED
      BY <3>2 DEF ArchRegs
  <2>3. ArchMem' = ArchMem
    BY <1>1 DEF ArchMem, StoresTo
  <2> QED
    BY <1>1, <2>1, <2>2, <2>3, ArchSameIs
<1> QED
  BY <1>13, <1>14, <1>15, <1>16, <1>17, <1>18, <1>19, <1>20 DEF IsaInv

LEMMA ExecuteKeepsIsa ==
    ASSUME CoreInv, RegsInv, IsaInv, SourcesArrived, Execute
    PROVE  IsaInv' /\ ArchSame
<1>1. CASE issuedUop = NoUop
  <2>1. /\ stage = "execute" /\ stage' = "rob_commit"
        /\ UNCHANGED <<program, redirect, target, pc, fetchUop, renamedUop,
                       committedMap, entries, intRf>>
        /\ UNCHANGED <<robRing, dmemReq, dmemResp, memory>>
        /\ ~aluResult'.valid
    BY <1>1 DEF Execute, At, branchVars, frontendVars, renameVars, memoryVars, robRing,
                NoResult
  <2>2. renamedUop = NoUop
    BY <1>1, <2>1 DEF IsaInv, FlowInv
  <2>3. NextFetch' = NextFetch /\ (RedirectComing => RedirectComing')
    BY <2>1 DEF NextFetch, RedirectComing, IsaInv, RedirectInv
  <2>4. \A i \in Slots : Awaits(i)' <=> Awaits(i)
    BY <2>1, <2>2 DEF Awaits
  <2>5. RedirectInv' /\ FlowInv' /\ ResultIs'
    BY <2>1 DEF IsaInv, RedirectInv, FlowInv, ResultIs
  <2> QED
    BY <2>1, <2>3, <2>4, <2>5, QuietKeeps DEF IsaInv
<1> QED
  BY <1>1, ExecuteUopKeepsIsa

-----------------------------------------------------------------------------
(* lsu_module.                                                             *)

\* The entries es agree with the invariant of the memory fields, rf the registers.
MemHolds(es, rf) ==
    \A i \in Slots : es[i].valid =>
        MemRight(es[i], Op1(i), Op2(i)) /\ DataIn(es[i], rf)

\* The entries fs are those of es, some of them further on.
Advanced(es, fs) ==
    \A i \in Slots :
        /\ fs[i].valid = es[i].valid /\ fs[i].uop = es[i].uop
        /\ es[i].mem.completed => fs[i].mem.completed
        /\ es[i].exception => fs[i].exception
        /\ ~es[i].busy => ~fs[i].busy

\* The register that the answer writes is the destination of a load that is due.
LEMMA AnsweredRegister ==
    ASSUME CoreInv, LoadsInv, Completes
    PROVE  LET e == entries[pendingRob]
           IN  /\ pendingRob \in Slots /\ e.valid /\ e.uop.inst.op = "load"
               /\ e.mem.isLoad /\ ~e.mem.isStore /\ ~e.mem.completed
               /\ Waits(e) /\ dmemResp # <<>> /\ Head(dmemResp) = dmemResp[1]
               /\ e.uop.pdst \in Preg /\ e.uop.pdst \in LoadsDue
<1>1. /\ pendingRob \in Slots /\ dmemResp \in Seq(DmemResponse)
  BY DEF CoreInv, LsuTypeOK
<1>2. /\ dmemResp # <<>> /\ loadPending /\ entries[pendingRob].valid
      /\ entries[pendingRob].mem.isLoad /\ entries[pendingRob].mem.sent
  BY DEF Completes, Answered
<1>3. Head(dmemResp) = dmemResp[1]
  BY <1>1, <1>2
<1>4. /\ entries[pendingRob].uop.inst.op = "load"
      /\ ~entries[pendingRob].mem.isStore /\ ~entries[pendingRob].mem.completed
  BY <1>1, <1>2 DEF LoadsInv, MemFields
<1>5. entries[pendingRob].uop.pdst \in Preg
  BY <1>1, <1>2, HeldTypes DEF CoreInv, BaseInv
<1>6. entries[pendingRob].uop.pdst \in LoadsDue
  BY <1>1, <1>2, <1>4 DEF LoadsDue, CtrlIsLoad
<1> QED
  BY <1>1, <1>2, <1>3, <1>4, <1>5, <1>6 DEF Waits

\* Nobody but that load is concerned with the register.
LEMMA AnswerChangesLittle ==
    ASSUME CoreInv, RegsInv, LoadsInv, IsaInv, stage = "lsu"
    PROVE  /\ \A q \in Preg :
                 ~(Completes /\ q = entries[pendingRob].uop.pdst) \/ q = 0 =>
                    (IF q # 0 THEN RfWithResponse[q] ELSE 0) = Source(q)
           /\ \A i \in Slots : entries[i].valid /\ entries[i].uop.pdst # 0 =>
                 \/ RfWithResponse[entries[i].uop.pdst] = intRf[entries[i].uop.pdst]
                 \/ Completes /\ i = pendingRob
           /\ \A i \in Slots : entries[i].valid =>
                 \A q \in {entries[i].uop.prs1, entries[i].uop.prs2} :
                    ~(Completes /\ q = entries[pendingRob].uop.pdst) \/ q = 0
           /\ \A l \in Reg :
                 ~(Completes /\ committedMap[l] = entries[pendingRob].uop.pdst)
                 \/ committedMap[l] = 0
<1>1. intRf \in [Preg -> Word] /\ RingInv
  BY DEF CoreInv, BaseInv, PipeTypeOK
<1>2. CASE ~Completes
  BY <1>2 DEF RfWithResponse, Source
<1>3. CASE Completes
  <2>1. /\ pendingRob \in Slots /\ entries[pendingRob].valid
        /\ entries[pendingRob].uop.pdst \in Preg
        /\ entries[pendingRob].uop.pdst \in LoadsDue
    BY <1>3, AnsweredRegister
  <2> PICK s \in Slots, p \in Preg : s = pendingRob /\ p = entries[pendingRob].uop.pdst
    BY <2>1
  <2>2. \A q \in Preg : q # p \/ p = 0 => RfWithResponse[q] = intRf[q]
    BY <1>1 DEF RfWithResponse
  <2>3. p # 0 => Claims(s) /\ entries[s].uop.pdst = p
    BY <2>1 DEF Claims
  <2>4. /\ p # 0 => \A l \in Reg : committedMap[l] # p
        /\ p # 0 => \A i \in Slots : Claims(i) /\ entries[i].uop.pdst = p => i = s
    BY <2>3 DEF RegsInv, Apart
  <2>5. \A i \in Slots : entries[i].valid =>
           {entries[i].uop.prs1, entries[i].uop.prs2} \cap LoadsDue \subseteq {0}
    BY DEF IsaInv, RanInv, Awaits
  <2>6. \A i \in Slots : entries[i].valid => entries[i].uop.pdst \in Preg
    BY <1>1, HeldTypes
  <2>7. \A q \in Preg : q # p \/ q = 0 =>
           (IF q # 0 THEN RfWithResponse[q] ELSE 0) = Source(q)
    BY <2>2 DEF Source
  <2>8. \A i \in Slots : entries[i].valid /\ entries[i].uop.pdst # 0 =>
           RfWithResponse[entries[i].uop.pdst] = intRf[entries[i].uop.pdst] \/ i = s
    BY <2>2, <2>4, <2>6 DEF Claims
  <2> QED
    BY <1>3, <2>1, <2>4, <2>5, <2>7, <2>8
<1> QED
  BY <1>2, <1>3

LEMMA ResponseHolds ==
    ASSUME CoreInv, RegsInv, LoadsInv, IsaInv, stage = "lsu"
    PROVE  MemHolds(WithResponse, RfWithResponse) /\ Advanced(entries, WithResponse)
<1>1. /\ entries \in [Slots -> Entry] /\ AnswerIsWord /\ intRf \in [Preg -> Word]
      /\ LsuTypeOK
  BY TypedAnswer DEF CoreInv, BaseInv, RingInv, RobTypeOK, PipeTypeOK
<1>2. \A i \in Slots : entries[i].valid =>
         MemRight(entries[i], Op1(i), Op2(i)) /\ DataIn(entries[i], intRf)
  BY DEF IsaInv, MemInv
<1>3. ASSUME NEW i \in Slots, entries[i].valid, ~(Completes /\ i = pendingRob)
      PROVE  DataIn(entries[i], RfWithResponse)
  <2>1. /\ entries[i].uop.pdst # 0 =>
              RfWithResponse[entries[i].uop.pdst] = intRf[entries[i].uop.pdst]
    BY <1>3, AnswerChangesLittle
  <2> QED
    BY <1>2, <1>3, <2>1 DEF DataIn
<1>4. CASE ~Completes
  <2>1. WithResponse = entries
    BY <1>4 DEF WithResponse
  <2> QED
    BY <1>2, <1>3, <1>4, <2>1 DEF MemHolds, Advanced
<1>5. CASE Completes
  <2>1. /\ pendingRob \in Slots /\ entries[pendingRob].valid
        /\ entries[pendingRob].mem.isLoad /\ ~entries[pendingRob].mem.isStore
        /\ Waits(entries[pendingRob])
        /\ dmemResp # <<>> /\ Head(dmemResp) = dmemResp[1]
        /\ entries[pendingRob].uop.pdst \in Preg
    BY <1>5, AnsweredRegister
  <2>2. /\ Head(dmemResp).data \in Word /\ Head(dmemResp).fault \in BOOLEAN
        /\ entries[pendingRob] \in Entry
    BY <1>1, <1>5, <2>1 DEF AnswerIsWord, Completes
  <2>3. \E s \in Slots, e \in Entry, resp \in {Head(dmemResp)} :
           s = pendingRob /\ e = entries[pendingRob]
    BY <2>1, <2>2
  <2> PICK s \in Slots, e \in Entry, resp \in {Head(dmemResp)} :
           s = pendingRob /\ e = entries[pendingRob]
    BY <2>3
  <2> DEFINE f == Returned(e, resp)
  <2>4. WithResponse = [entries EXCEPT ![s] = f]
    BY <1>5 DEF WithResponse
  <2>5. e.valid /\ e.mem.isLoad /\ ~e.mem.isStore /\ resp.fault \in BOOLEAN
        /\ resp.data \in Word
    BY <2>1, <2>2
  <2>15. f = Returned(e, resp)
    OBVIOUS
  <2> HIDE DEF f
  <2>6. /\ f.valid = e.valid /\ f.uop = e.uop /\ ~f.busy
        /\ f.exception = (e.exception \/ resp.fault)
    <3>1. \A x \in Entry : Returned(x, resp).valid = x.valid
      BY DEF Returned, Entry
    <3>2. \A x \in Entry : Returned(x, resp).uop = x.uop
      BY DEF Returned, Entry
    <3>3. f.exception = (e.exception \/ resp.fault) /\ ~f.busy
      BY <2>15 DEF Returned, Entry
    <3> QED
      BY <2>15, <3>1, <3>2, <3>3
  <2>7. /\ f.mem.isLoad /\ ~f.mem.isStore /\ f.mem.completed /\ f.mem.addr = e.mem.addr
        /\ ~resp.fault => f.mem.data = resp.data
    BY <2>5, <2>15, ReturnedMem
  <2>8. resp.fault <=> e.mem.addr \in FaultAddrs
    BY <2>1, <2>5 DEF IsaInv, FaultInv
  <2>9. MemRight(e, Op1(s), Op2(s))
    BY <1>2, <2>1
  <2>10. MemRight(f, Op1(s), Op2(s))
    BY <2>5, <2>6, <2>7, <2>8, <2>9 DEF MemRight
  <2>11. DataIn(f, RfWithResponse)
    <3>1. e.uop.pdst # 0 /\ ~resp.fault => RfWithResponse[e.uop.pdst] = resp.data
      BY <1>1, <1>5, <2>1, <2>5 DEF RfWithResponse
    <3> QED
      BY <2>6, <2>7, <2>8, <3>1 DEF DataIn
  <2>12. WithResponse[s] = f /\ \A i \in Slots : i # s => WithResponse[i] = entries[i]
    BY <1>1, <2>4
  <2>13. MemHolds(WithResponse, RfWithResponse)
    <3> SUFFICES ASSUME NEW i \in Slots, WithResponse[i].valid
                 PROVE  /\ MemRight(WithResponse[i], Op1(i), Op2(i))
                        /\ DataIn(WithResponse[i], RfWithResponse)
      BY DEF MemHolds
    <3>1. CASE i = s
      BY <2>10, <2>11, <2>12, <3>1
    <3>2. CASE i # s
      BY <1>2, <1>3, <2>12, <3>2
    <3> QED
      BY <3>1, <3>2
  <2>14. Advanced(entries, WithResponse)
    BY <2>6, <2>7, <2>12 DEF Advanced
  <2> QED
    BY <2>13, <2>14
<1> QED
  BY <1>4, <1>5

\* The address and the data that an entry takes over.
LEMMA AddressedWith ==
    ASSUME NEW e \in Entry, NEW r \in AluResult
    PROVE  LET m == Addressed(e, r).mem
           IN  m.addr = r.addr /\ (r.isStore => m.data = r.data)
<1>1. e.mem \in MemInfo
  BY DEF Entry
<1> QED
  BY <1>1 DEF Addressed, Entry, MemInfo

LEMMA AddressHolds ==
    ASSUME NEW es \in [Slots -> Entry], aluResult \in AluResult \cup {NoResult}, NEW rf,
           MemHolds(es, rf), ResultInv,
           TakesAddress(es) => /\ aluResult = Executed(aluResult.uop)
                               /\ entries[aluResult.uop.rob].uop = aluResult.uop
                               /\ es[aluResult.uop.rob].uop = aluResult.uop
                               /\ es[aluResult.uop.rob].mem = NoMem
    PROVE  /\ MemHolds(WithAddress(es, aluResult), rf)
           /\ Advanced(es, WithAddress(es, aluResult))
<1>1. CASE ~TakesAddress(es)
  <2>1. WithAddress(es, aluResult) = es
    BY <1>1, AddressIs
  <2> QED
    BY <2>1 DEF Advanced
<1>2. CASE TakesAddress(es)
  <2>1. /\ aluResult \in AluResult /\ aluResult.uop.rob \in Slots
        /\ WithAddress(es, aluResult) =
              [es EXCEPT ![aluResult.uop.rob] = Addressed(es[aluResult.uop.rob], aluResult)]
    BY <1>2, AddressIs
  <2>2. \E s \in Slots, e \in Entry, r \in AluResult :
           s = aluResult.uop.rob /\ e = es[s] /\ r = aluResult
    BY <2>1
  <2> PICK s \in Slots, e \in Entry, r \in AluResult :
           s = aluResult.uop.rob /\ e = es[s] /\ r = aluResult
    BY <2>2
  <2> DEFINE f == Addressed(e, r)
             e2 == WithAddress(es, aluResult)
  <2>3. /\ e2 = [es EXCEPT ![s] = f]
        /\ e.uop = r.uop /\ e.mem = NoMem /\ e.valid
        /\ entries[s].uop = r.uop /\ r = Executed(r.uop)
        /\ r.isLoad <=> r.uop.inst.op = "load"
        /\ r.isStore <=> r.uop.inst.op = "store"
        /\ (r.isLoad \/ r.isStore) /\ r.isLoad \in BOOLEAN /\ r.isStore \in BOOLEAN
    BY <1>2, <2>1 DEF TakesAddress, ResultInv, AluResult
  <2>14. f = Addressed(e, r)
    OBVIOUS
  <2> HIDE DEF f, e2
  <2>4. /\ f.valid = e.valid /\ f.uop = e.uop /\ (~e.busy => ~f.busy)
        /\ f.exception = e.exception
    <3>1. \A x \in Entry : Addressed(x, r).valid = x.valid
      BY AddressedType
    <3>2. \A x \in Entry : Addressed(x, r).uop = x.uop
      BY AddressedType
    <3>3. (~e.busy => ~f.busy) /\ f.exception = e.exception
      BY <2>14 DEF Addressed, Entry
    <3> QED
      BY <2>14, <3>1, <3>2, <3>3
  <2>5. /\ f.mem.isLoad = r.isLoad /\ f.mem.isStore = r.isStore
        /\ f.mem.completed = (e.mem.completed \/ r.isStore)
        /\ f.mem.addr = r.addr /\ (r.isStore => f.mem.data = r.data)
    BY <2>14, AddressedMem, AddressedWith
  <2>6. MemRight(e, Op1(s), Op2(s))
    BY <2>3 DEF MemHolds
  <2>7. ~e.mem.completed /\ ~e.mem.isLoad
    BY <2>3 DEF NoMem
  <2>8. r.addr = Address(r.uop.inst, Op1(s)) /\ r.data = Op2(s)
    <3> PICK u \in {r.uop} : TRUE
      OBVIOUS
    <3>1. r = Executed(u) /\ entries[s].uop = u
      BY <2>3
    <3> QED
      BY <3>1 DEF Executed, Op1, Op2
  <2>9. MemRight(f, Op1(s), Op2(s))
    BY <2>3, <2>4, <2>5, <2>6, <2>7, <2>8 DEF MemRight
  <2>10. DataIn(f, rf)
    BY <2>3, <2>5, <2>7 DEF DataIn
  <2>11. e2[s] = f /\ \A i \in Slots : i # s => e2[i] = es[i]
    BY <2>3
  <2>12. MemHolds(e2, rf)
    <3> SUFFICES ASSUME NEW i \in Slots, e2[i].valid
                 PROVE  MemRight(e2[i], Op1(i), Op2(i)) /\ DataIn(e2[i], rf)
      BY DEF MemHolds
    <3>1. CASE i = s
      BY <2>9, <2>10, <2>11, <3>1
    <3>2. CASE i # s
      BY <2>11, <3>2 DEF MemHolds
    <3> QED
      BY <3>1, <3>2
  <2>13. Advanced(es, e2)
    <3>1. e = es[s]
      OBVIOUS
    <3> QED
      BY <2>4, <2>5, <2>7, <2>11, <3>1 DEF Advanced
  <2> QED
    BY <2>12, <2>13 DEF e2
<1> QED
  BY <1>1, <1>2

LEMMA SendHolds ==
    ASSUME NEW es \in [Slots -> Entry], NEW s \in Slots, NEW rf, MemHolds(es, rf)
    PROVE  LET fs == [es EXCEPT ![s].mem.sent = TRUE]
           IN  MemHolds(fs, rf) /\ Advanced(es, fs)
<1> DEFINE fs == [es EXCEPT ![s].mem.sent = TRUE]
<1>1. es[s] \in Entry /\ es[s].mem \in MemInfo
  BY DEF Entry
<1>2. fs[s] = [es[s] EXCEPT !.mem = [es[s].mem EXCEPT !.sent = TRUE]]
  BY <1>1
<1>3. /\ fs[s].valid = es[s].valid /\ fs[s].uop = es[s].uop /\ fs[s].busy = es[s].busy
      /\ fs[s].exception = es[s].exception
      /\ fs[s].mem.valid = es[s].mem.valid /\ fs[s].mem.isLoad = es[s].mem.isLoad
      /\ fs[s].mem.isStore = es[s].mem.isStore
      /\ fs[s].mem.completed = es[s].mem.completed
      /\ fs[s].mem.addr = es[s].mem.addr /\ fs[s].mem.data = es[s].mem.data
  BY <1>1, <1>2 DEF Entry, MemInfo
<1>4. \A i \in Slots : i # s => fs[i] = es[i]
  OBVIOUS
<1> HIDE DEF fs
<1>5. MemHolds(fs, rf)
  <2> SUFFICES ASSUME NEW i \in Slots, fs[i].valid
               PROVE  MemRight(fs[i], Op1(i), Op2(i)) /\ DataIn(fs[i], rf)
    BY DEF MemHolds
  <2>1. CASE i = s
    <3>1. MemRight(es[s], Op1(s), Op2(s)) /\ DataIn(es[s], rf)
      BY <1>3, <2>1 DEF MemHolds
    <3> QED
      BY <1>3, <2>1, <3>1 DEF MemRight, DataIn
  <2>2. CASE i # s
    BY <1>4, <2>2 DEF MemHolds
  <2> QED
    BY <2>1, <2>2
<1>6. Advanced(es, fs)
  BY <1>3, <1>4 DEF Advanced
<1> QED
  BY <1>5, <1>6 DEF fs

\* What the three steps of the call make of the entries.
LEMMA LsuHolds ==
    ASSUME CoreInv, RegsInv, LoadsInv, IsaInv, LsuStage
    PROVE  MemHolds(entries', intRf') /\ Advanced(entries, entries')
<1> DEFINE e1 == WithResponse
           e2 == WithAddress(e1, aluResult)
<1>1. /\ stage = "lsu" /\ LsuModule(aluResult) /\ intRf' = RfWithResponse
      /\ entries \in [Slots -> Entry] /\ AnswerIsWord /\ LsuTypeOK /\ robHead \in Slots
      /\ aluResult \in AluResult \cup {NoResult} /\ ResultInv
  BY TypedAnswer DEF LsuStage, At, LsuModule, CoreInv, BaseInv, RingInv, RobTypeOK,
                     PipeTypeOK
<1>2. MemHolds(e1, RfWithResponse) /\ Advanced(entries, e1)
  BY <1>1, ResponseHolds
<1>3. /\ e1 \in [Slots -> Entry]
      /\ \A i \in Slots : e1[i].valid = entries[i].valid
  BY <1>1, ResponseKeepsEntries
<1>4. \A i \in Slots : entries[i].valid /\ entries[i].mem = NoMem => e1[i] = entries[i]
  BY <1>1, ResponseStep
<1> HIDE DEF e1
<1>5. TakesAddress(e1) => /\ aluResult = Executed(aluResult.uop)
                          /\ entries[aluResult.uop.rob].uop = aluResult.uop
                          /\ e1[aluResult.uop.rob].uop = aluResult.uop
                          /\ e1[aluResult.uop.rob].mem = NoMem
  <2> SUFFICES ASSUME TakesAddress(e1)
               PROVE  /\ aluResult = Executed(aluResult.uop)
                      /\ entries[aluResult.uop.rob].uop = aluResult.uop
                      /\ e1[aluResult.uop.rob].uop = aluResult.uop
                      /\ e1[aluResult.uop.rob].mem = NoMem
    OBVIOUS
  <2> DEFINE s == aluResult.uop.rob
  <2>1. s \in Slots
    BY <1>1, <1>3, AddressIs
  <2>2. aluResult.valid /\ entries[s].valid
    BY <1>3, <2>1 DEF TakesAddress
  <2>3. Fresh(aluResult.uop)
    BY <1>1, <2>2 DEF ResultInv
  <2>4. aluResult = Executed(aluResult.uop)
    BY <1>1, <2>2 DEF IsaInv, ResultIs
  <2>5. e1[s] = entries[s]
    BY <1>4, <2>1, <2>3 DEF Fresh
  <2> QED
    BY <2>3, <2>4, <2>5 DEF Fresh
<1>6. e2 \in [Slots -> Entry]
  BY <1>1, <1>3, AddressKeepsEntries
<1>7. MemHolds(e2, RfWithResponse) /\ Advanced(e1, e2)
  BY <1>1, <1>2, <1>3, <1>5, AddressHolds
<1> HIDE DEF e2
<1>8. \/ entries' = e2
      \/ \E k \in Slots : entries' = [e2 EXCEPT ![SlotFromHead(k)].mem.sent = TRUE]
  <2>1. SendLoad(e2, loadPending /\ ~Answered)
    BY <1>1 DEF LsuModule, e1, e2
  <2> QED
    BY <2>1 DEF SendLoad
<1>9. MemHolds(entries', RfWithResponse) /\ Advanced(e2, entries')
  <2>1. CASE entries' = e2
    BY <1>7, <2>1 DEF MemHolds, Advanced
  <2>2. CASE \E k \in Slots : entries' = [e2 EXCEPT ![SlotFromHead(k)].mem.sent = TRUE]
    <3> PICK k \in Slots : entries' = [e2 EXCEPT ![SlotFromHead(k)].mem.sent = TRUE]
      BY <2>2
    <3>1. SlotFromHead(k) \in Slots
      BY <1>1, SentSlot
    <3> PICK s \in Slots : s = SlotFromHead(k)
      BY <3>1
    <3>2. entries' = [e2 EXCEPT ![s].mem.sent = TRUE]
      OBVIOUS
    <3>3. LET fs == [e2 EXCEPT ![s].mem.sent = TRUE]
          IN  MemHolds(fs, RfWithResponse) /\ Advanced(e2, fs)
      BY <1>6, <1>7, SendHolds
    <3> QED
      BY <3>2, <3>3
  <2> QED
    BY <1>8, <2>1, <2>2
<1> QED
  BY <1>1, <1>2, <1>7, <1>9 DEF Advanced

\* Neither reading an answer nor sending a load changes what memory will hold.
LEMMA LsuKeepsArchMem ==
    ASSUME CoreInv, CoreInv', LsuStage
    PROVE  ArchMem' = ArchMem
<1> DEFINE e2 == WithAddress(WithResponse, aluResult)
<1>1. /\ LsuTypeOK /\ LsuTypeOK' /\ memory' = memory
      /\ SendLoad(e2, loadPending /\ ~Answered)
      /\ robHead \in Slots /\ e2 \in [Slots -> Entry]
  <2>1. /\ entries \in [Slots -> Entry] /\ AnswerIsWord /\ robHead \in Slots
        /\ aluResult \in AluResult \cup {NoResult}
    BY TypedAnswer DEF CoreInv, BaseInv, RingInv, RobTypeOK, PipeTypeOK
  <2>2. e2 \in [Slots -> Entry]
    BY <2>1, ResponseKeepsEntries, AddressKeepsEntries
  <2> QED
    BY <2>1, <2>2 DEF CoreInv, LsuStage, LsuModule
<1> HIDE DEF e2
<1>2. CASE dmemReq' = dmemReq
  BY <1>1, <1>2 DEF ArchMem, StoresTo
<1>3. CASE \E k \in Slots :
             /\ MaySend(e2, k)
             /\ dmemReq' = Append(dmemReq, [isStore |-> FALSE,
                                            addr |-> e2[SlotFromHead(k)].mem.addr,
                                            data |-> 0, tx |-> nextTx])
  <2> PICK k \in Slots :
             /\ MaySend(e2, k)
             /\ dmemReq' = Append(dmemReq, [isStore |-> FALSE,
                                            addr |-> e2[SlotFromHead(k)].mem.addr,
                                            data |-> 0, tx |-> nextTx])
    BY <1>3
  <2> DEFINE r == [isStore |-> FALSE, addr |-> e2[SlotFromHead(k)].mem.addr,
                   data |-> 0, tx |-> nextTx]
  <2>1. e2[SlotFromHead(k)].mem.addr \in Word
    <3>1. e2[SlotFromHead(k)] \in Entry
      BY <1>1, SentSlot
    <3> QED
      BY <3>1 DEF Entry, MemInfo
  <2>2. r \in DmemRequest /\ ~r.isStore
    BY <1>1, <2>1, Zeros DEF DmemRequest, LsuTypeOK
  <2>3. ~DmemFull /\ dmemReq' = Append(dmemReq, r)
    BY DEF MaySend
  <2> HIDE DEF r
  <2>4. \A a \in Word : ArchMem'[a] = ArchMem[a]
    BY <1>1, <2>2, <2>3, LoadSentKeepsArchMem
  <2> QED
    BY <2>4 DEF ArchMem
<1> QED
  BY <1>1, <1>2, <1>3 DEF SendLoad

\* Reading an answer, taking an address and sending a load.
LEMMA LsuKeepsIsa ==
    ASSUME CoreInv, CoreInv', RegsInv, LoadsInv, IsaInv, LsuStage
    PROVE  IsaInv' /\ ArchSame
<1>1. /\ stage = "lsu" /\ stage' = "frontend"
      /\ UNCHANGED <<program, redirect, target, pc, fetchUop, renamedUop, aluResult,
                     committedMap, robHead, robTail, maybeFull, robState>>
      /\ intRf' = RfWithResponse /\ LsuModule(aluResult)
      /\ RingInv /\ robHead \in Slots
  BY DEF LsuStage, At, LsuModule, branchVars, frontendVars, pipeVars, renameVars,
         CoreInv, BaseInv, RingInv, RobTypeOK
<1>2. MemHolds(entries', intRf') /\ Advanced(entries, entries')
  BY LsuHolds
<1>3. \A i \in Slots : entries'[i].valid = entries[i].valid /\ entries'[i].uop = entries[i].uop
  BY <1>2 DEF Advanced
<1>4. \A q \in Preg :
         ~(Completes /\ q = entries[pendingRob].uop.pdst) \/ q = 0 => Source(q)' = Source(q)
  <2>1. \A q \in Preg : Source(q)' = IF q # 0 THEN RfWithResponse[q] ELSE 0
    BY <1>1 DEF Source
  <2> QED
    BY <1>1, <2>1, AnswerChangesLittle
<1>5. \A i \in Slots : entries[i].valid => /\ Op1(i)' = Op1(i) /\ Op2(i)' = Op2(i)
                                           /\ Jumps(i)' <=> Jumps(i)
  <2> SUFFICES ASSUME NEW i \in Slots, entries[i].valid
               PROVE  /\ Op1(i)' = Op1(i) /\ Op2(i)' = Op2(i) /\ (Jumps(i)' <=> Jumps(i))
    OBVIOUS
  <2>1. entries[i].uop.prs1 \in Preg /\ entries[i].uop.prs2 \in Preg
    BY <1>1, HeldTypes
  <2>2. \A q \in {entries[i].uop.prs1, entries[i].uop.prs2} :
           ~(Completes /\ q = entries[pendingRob].uop.pdst) \/ q = 0
    BY <1>1, AnswerChangesLittle
  <2>3. \E q1 \in Preg, q2 \in Preg :
           q1 = entries[i].uop.prs1 /\ q2 = entries[i].uop.prs2
    BY <2>1
  <2> PICK q1 \in Preg, q2 \in Preg :
           q1 = entries[i].uop.prs1 /\ q2 = entries[i].uop.prs2
    BY <2>3
  <2>4. Source(q1)' = Source(q1) /\ Source(q2)' = Source(q2)
    BY <1>4, <2>2
  <2>5. Op1(i)' = Source(q1)' /\ Op2(i)' = Source(q2)'
    BY <1>3 DEF Op1, Op2, Source
  <2>6. Op1(i)' = Op1(i) /\ Op2(i)' = Op2(i)
    BY <2>4, <2>5 DEF Op1, Op2
  <2> QED
    BY <1>3, <2>6 DEF Jumps
<1>6. \A i \in Slots : ~Awaits(i) /\ ~Awaits(i)'
  BY <1>1 DEF Awaits
<1>7. /\ \A i \in Slots : (Claims(i)' <=> Claims(i)) /\ Pos(i)' = Pos(i)
      /\ \A n, l, p : MapsTo(n, l, p)' <=> MapsTo(n, l, p)
  BY <1>1, <1>3, MapsToSame
<1>8. HeldInv'
  BY <1>1, <1>3, <1>7 DEF IsaInv, HeldInv, Genuine
<1>9. LoadsDue' \subseteq LoadsDue
  BY <1>2, <1>3 DEF LoadsDue, Advanced
<1>10. RanInv'
  <2> SUFFICES ASSUME NEW i \in Slots, entries[i].valid
               PROVE  /\ {entries[i].uop.prs1, entries[i].uop.prs2} \cap LoadsDue' \subseteq {0}
                      /\ entries[i].uop.pdst # 0 /\ entries[i].uop.inst.op # "load" =>
                            intRf'[entries[i].uop.pdst] =
                               Result(entries[i].uop.inst, Op1(i)', Op2(i)', entries[i].uop.pc)
    BY <1>3 DEF RanInv
  <2>1. /\ {entries[i].uop.prs1, entries[i].uop.prs2} \cap LoadsDue \subseteq {0}
        /\ entries[i].uop.pdst # 0 /\ entries[i].uop.inst.op # "load" =>
              intRf[entries[i].uop.pdst] =
                 Result(entries[i].uop.inst, Op1(i), Op2(i), entries[i].uop.pc)
    BY <1>6 DEF IsaInv, RanInv
  <2>2. entries[i].uop.pdst # 0 /\ entries[i].uop.inst.op # "load" =>
           intRf'[entries[i].uop.pdst] = intRf[entries[i].uop.pdst]
    BY <1>1, AnswerChangesLittle, AnsweredRegister
  <2> QED
    BY <1>5, <1>9, <2>1, <2>2
<1>11. MemInv'
  BY <1>2, <1>3, <1>5 DEF MemInv, MemHolds, MemRight, DataIn
<1>12. FaultInv'
  <2>1. dmemResp' = <<>>
    BY <1>1, AnswerRead DEF LsuModule, LoadsInv, CoreInv
  <2> QED
    BY <2>1 DEF FaultInv
<1>13. NextFetch' = NextFetch /\ (RedirectComing <=> RedirectComing')
  BY <1>1 DEF NextFetch, RedirectComing
<1>14. ChainInv'
  <2>1. ASSUME NEW i \in Slots, entries[i].valid, NEW j \in Slots, entries[j].valid,
               Pos(j)' = Pos(i)' + 1
        PROVE  ~Jumps(i)' /\ entries'[j].uop.pc = Plus(entries'[i].uop.pc, 1)
    BY <1>3, <1>5, <1>7, <2>1 DEF IsaInv, ChainInv
  <2>2. ASSUME NEW i \in Slots, entries[i].valid, NextSlot(i) = robTail
        PROVE  NextFetch' = NextPc(i)' /\ (Jumps(i)' => RedirectComing')
    <3>1. NextFetch = NextPc(i) /\ (Jumps(i) => RedirectComing)
      BY <1>6, <2>2 DEF IsaInv, ChainInv
    <3>2. NextPc(i)' = NextPc(i)
      BY <1>3, <1>5, <1>6, <2>2 DEF NextPc
    <3> QED
      BY <1>5, <1>13, <2>2, <3>1, <3>2
  <2>3. \A i \in Slots : NextSlot(i)' = NextSlot(i)
    BY DEF NextSlot
  <2> QED
    BY <1>1, <1>3, <2>1, <2>2, <2>3 DEF ChainInv
<1>15. TrapInv'
  BY <1>1, <1>2 DEF IsaInv, TrapInv, Advanced
<1>16. RedirectInv' /\ FlowInv' /\ ResultIs'
  BY <1>1 DEF IsaInv, RedirectInv, FlowInv, ResultIs
<1>17. ArchSame
  <2>1. ArchPc' = ArchPc
    BY <1>1, <1>3, <1>13, ArchPcIs DEF RobEmpty
  <2>2. ArchRegs' = ArchRegs
    <3>1. \A l \in Reg : committedMap[l] \in Preg
      BY DEF CoreInv, BaseInv, RenameTypeOK
    <3>2. \A l \in Reg : Source(committedMap[l])' = Source(committedMap[l])
      <4> TAKE l \in Reg
      <4>1. \E q \in Preg : q = committedMap[l]
        BY <3>1
      <4> PICK q \in Preg : q = committedMap[l]
        BY <4>1
      <4>2. ~(Completes /\ q = entries[pendingRob].uop.pdst) \/ q = 0
        BY <1>1, AnswerChangesLittle
      <4>3. Source(q)' = Source(q)
        BY <1>4, <4>2
      <4> QED
        BY <1>1, <4>3 DEF Source
    <3> QED
      BY <3>2 DEF ArchRegs
  <2>3. ArchMem' = ArchMem
    BY LsuKeepsArchMem
  <2> QED
    BY <1>1, <2>1, <2>2, <2>3, ArchSameIs
<1> QED
  BY <1>8, <1>10, <1>11, <1>12, <1>14, <1>15, <1>16, <1>17 DEF IsaInv

-----------------------------------------------------------------------------
(* The memory behind the streams.                                          *)

LEMMA MemoryKeepsIsa ==
    ASSUME CoreInv, CoreInv', LoadsInv, IsaInv, Memory
    PROVE  IsaInv' /\ ArchSame
<1>1. /\ UNCHANGED <<stage, program, redirect, target, pc, fetchUop, decUop, issuedUop,
                     renamedUop, mapTable, aluResult, committedMap>>
      /\ UNCHANGED <<entries, robHead, robTail, maybeFull, robState, intRf>>
      /\ MemoryServes /\ stage = "branch"
  BY DEF Memory, branchVars, frontendVars, pipeVars, renameVars, robRing
<1>2. \A i \in Slots : Op1(i)' = Op1(i) /\ Op2(i)' = Op2(i) /\ (Jumps(i)' <=> Jumps(i))
  BY <1>1 DEF Op1, Op2, Jumps, Source
<1>3. \A i \in Slots : Awaits(i)' <=> Awaits(i)
  BY <1>1 DEF Awaits
<1>4. /\ \A i \in Slots : (Claims(i)' <=> Claims(i)) /\ Pos(i)' = Pos(i)
      /\ \A n, l, p : MapsTo(n, l, p)' <=> MapsTo(n, l, p)
  BY <1>1, MapsToSame
<1>5. HeldInv'
  BY <1>1, <1>4 DEF IsaInv, HeldInv, Genuine
<1>6. RanInv'
  <2>1. LoadsDue' = LoadsDue
    BY <1>1 DEF LoadsDue
  <2> QED
    BY <1>1, <1>2, <1>3, <2>1 DEF IsaInv, RanInv
<1>7. MemInv'
  BY <1>1, <1>2 DEF IsaInv, MemInv, MemRight, DataIn
<1>8. FaultInv'
  <2> SUFFICES ASSUME NEW i \in Slots, Waits(entries[i]), dmemResp' # <<>>
               PROVE  dmemResp'[1].fault <=> entries[i].mem.addr \in FaultAddrs
    BY <1>1 DEF FaultInv, Waits
  <2>1. /\ LsuTypeOK /\ dmemReq # <<>> /\ Head(dmemReq) = dmemReq[1]
        /\ 1 \in 1 .. Len(dmemReq) /\ dmemResp \in Seq(DmemResponse)
    <3>1. LsuTypeOK /\ dmemReq # <<>> /\ dmemReq \in Seq(DmemRequest)
      BY <1>1 DEF CoreInv, MemoryServes, LsuTypeOK
    <3>2. Head(dmemReq) = dmemReq[1] /\ Len(dmemReq) \in Nat \ {0}
      BY <3>1, OldestRequest
    <3> QED
      BY <3>1, <3>2 DEF LsuTypeOK
  <2>2. CASE dmemReq[1].isStore
    <3>1. dmemResp' = dmemResp
      BY <1>1, <2>1, <2>2 DEF MemoryServes
    <3> QED
      BY <3>1 DEF IsaInv, FaultInv
  <2>3. CASE ~dmemReq[1].isStore
    <3>1. dmemResp = <<>> /\ dmemReq[1].addr = entries[i].mem.addr
      BY <2>1, <2>3 DEF LoadsInv, OneLoad, LastRequest
    <3>2. dmemResp' = <<[tx |-> dmemReq[1].tx, data |-> memory[dmemReq[1].addr],
                         fault |-> dmemReq[1].addr \in FaultAddrs]>>
      BY <1>1, <2>1, <2>3, <3>1 DEF MemoryServes
    <3>3. dmemResp'[1].fault = (dmemReq[1].addr \in FaultAddrs)
      BY <3>2
    <3> QED
      BY <3>1, <3>3
  <2> QED
    BY <2>2, <2>3
<1>9. NextFetch' = NextFetch /\ (RedirectComing <=> RedirectComing')
  BY <1>1 DEF NextFetch, RedirectComing
<1>10. ChainInv'
  <2>1. \A i \in Slots : NextPc(i)' = NextPc(i) /\ NextSlot(i)' = NextSlot(i)
    BY <1>1, <1>2, <1>3 DEF NextPc, NextSlot
  <2> QED
    BY <1>1, <1>2, <1>3, <1>4, <1>9, <2>1 DEF IsaInv, ChainInv
<1>11. TrapInv' /\ RedirectInv'
  BY <1>1 DEF IsaInv, TrapInv, RedirectInv
<1>12. FlowInv' /\ ResultIs'
  BY <1>1 DEF IsaInv, FlowInv, ResultIs, Executed, Source
<1>13. ArchSame
  <2>1. ArchPc' = ArchPc
    BY <1>1, <1>9, ArchPcIs DEF RobEmpty
  <2>2. ArchRegs' = ArchRegs
    BY <1>1 DEF ArchRegs, Source
  <2>3. ArchMem' = ArchMem
    <3>1. \A a \in Word : ArchMem'[a] = ArchMem[a]
      BY <1>1, ServedKeepsArchMem DEF CoreInv
    <3> QED
      BY <3>1 DEF ArchMem
  <2> QED
    BY <1>1, <2>1, <2>2, <2>3, ArchSameIs
<1> QED
  BY <1>5, <1>6, <1>7, <1>8, <1>10, <1>11, <1>12, <1>13 DEF IsaInv

-----------------------------------------------------------------------------
(* rob_commit_module.                                                      *)

\* The last result marks its entry as its instruction says.
LEMMA MarkedHolds ==
    ASSUME CoreInv, IsaInv, stage = "rob_commit"
    PROVE  /\ OnlyMarked(WithResult) /\ MemHolds(WithResult, intRf)
           /\ \A i \in Slots : /\ entries[i].exception => WithResult[i].exception
                               /\ ~entries[i].busy => ~WithResult[i].busy
<1>1. OnlyMarked(WithResult) /\ PipeTypeOK /\ RingInv /\ ResultInv
      /\ entries \in [Slots -> Entry]
  BY WithResultMarks DEF CoreInv, BaseInv, RingInv, RobTypeOK
<1>2. \A i \in Slots : /\ entries[i].exception => WithResult[i].exception
                       /\ ~entries[i].busy => ~WithResult[i].busy
                       /\ WithResult[i].exception =>
                             entries[i].exception \/ Faults(entries[i].uop.inst)
  <2>1. CASE WithResult = entries
    BY <2>1
  <2>2. CASE WithResult # entries
    <3>1. /\ aluResult.valid
          /\ WithResult = MarkDone(entries, aluResult.uop.rob, aluResult.exception)
      BY <2>2 DEF WithResult
    <3>2. /\ aluResult \in AluResult /\ aluResult.uop.rob \in Slots
          /\ aluResult.exception \in BOOLEAN
      <4>1. aluResult \in AluResult
        BY <1>1, <3>1 DEF PipeTypeOK, NoResult
      <4> QED
        BY <4>1 DEF AluResult, MicroOp, Slots
    <3>3. entries[aluResult.uop.rob].valid
      BY <2>2, <3>1 DEF MarkDone
    <3>4. aluResult = Executed(aluResult.uop) /\ Fresh(aluResult.uop)
      BY <1>1, <3>1, <3>3 DEF IsaInv, ResultIs, ResultInv
    <3> PICK s \in Slots, exc \in BOOLEAN, u \in {aluResult.uop} :
               s = aluResult.uop.rob /\ exc = aluResult.exception
      BY <3>2
    <3>5. entries[s].uop = u /\ aluResult = Executed(u)
      BY <3>4 DEF Fresh
    <3>6. exc = u.exception
      BY <3>5 DEF Executed
    <3>7. exc = Faults(entries[s].uop.inst)
      BY <3>3, <3>5, <3>6 DEF IsaInv, HeldInv, Genuine
    <3>8. /\ \A i \in Slots : i # s => WithResult[i] = entries[i]
          /\ WithResult[s] = [entries[s] EXCEPT !.busy = FALSE,
                                                !.exception = @ \/ exc]
      BY <1>1, <3>1, <3>3 DEF MarkDone
    <3>9. ~WithResult[s].busy /\ WithResult[s].exception = (entries[s].exception \/ exc)
      <4>1. entries[s] \in Entry
        BY <1>1
      <4> QED
        BY <3>8, <4>1 DEF Entry
    <3> QED
      BY <3>7, <3>8, <3>9
  <2> QED
    BY <2>1, <2>2
<1>3. MemHolds(WithResult, intRf)
  <2> SUFFICES ASSUME NEW i \in Slots, WithResult[i].valid
               PROVE  /\ MemRight(WithResult[i], Op1(i), Op2(i))
                      /\ DataIn(WithResult[i], intRf)
    BY DEF MemHolds
  <2>1. /\ entries[i].valid /\ WithResult[i].uop = entries[i].uop
        /\ WithResult[i].mem = entries[i].mem
    BY <1>1 DEF OnlyMarked
  <2>2. MemRight(entries[i], Op1(i), Op2(i)) /\ DataIn(entries[i], intRf)
    BY <2>1 DEF IsaInv, MemInv
  <2> QED
    BY <1>2, <2>1, <2>2 DEF MemRight, DataIn
<1> QED
  BY <1>1, <1>2, <1>3

\* Nothing leaves.
LEMMA StayKeepsIsa ==
    ASSUME CoreInv, IsaInv, stage = "rob_commit", stage' = "branch", ~redirect,
           entries' = WithResult,
           UNCHANGED <<program, redirect, target, pc, fetchUop, renamedUop, aluResult,
                       committedMap, robHead, robTail, maybeFull, intRf>>,
           UNCHANGED <<dmemReq, dmemResp, memory>>
    PROVE  /\ RedirectInv' /\ FlowInv' /\ ResultIs' /\ HeldInv' /\ RanInv' /\ MemInv'
           /\ FaultInv' /\ ChainInv'
           /\ ArchPc' = ArchPc /\ ArchRegs' = ArchRegs /\ ArchMem' = ArchMem
<1>1. /\ stage = "rob_commit" /\ stage' = "branch" /\ ~redirect
      /\ UNCHANGED <<program, redirect, target, pc, fetchUop, renamedUop, aluResult,
                     committedMap, robHead, robTail, maybeFull, intRf>>
      /\ UNCHANGED <<dmemReq, dmemResp, memory>>
      /\ RingInv /\ robHead \in Slots /\ aluResult \in AluResult \cup {NoResult}
  BY DEF CoreInv, BaseInv, RingInv, RobTypeOK, PipeTypeOK
<1>2. /\ \A i \in Slots : /\ entries'[i].valid = entries[i].valid
                          /\ entries'[i].uop = entries[i].uop
                          /\ entries'[i].mem = entries[i].mem
      /\ MemHolds(entries', intRf)
  BY <1>1, MarkedHolds DEF OnlyMarked
<1>3. \A i \in Slots : Op1(i)' = Op1(i) /\ Op2(i)' = Op2(i) /\ (Jumps(i)' <=> Jumps(i))
  BY <1>1, <1>2 DEF Op1, Op2, Jumps, Source
<1>4. \A i \in Slots : ~Awaits(i)' /\ ~Awaits(i)
  BY <1>1 DEF Awaits
<1>5. /\ \A i \in Slots : (Claims(i)' <=> Claims(i)) /\ Pos(i)' = Pos(i)
      /\ \A n, l, p : MapsTo(n, l, p)' <=> MapsTo(n, l, p)
  BY <1>1, <1>2, MapsToSame
<1>6. HeldInv'
  BY <1>1, <1>2, <1>5 DEF IsaInv, HeldInv, Genuine
<1>7. RanInv'
  <2>1. LoadsDue' = LoadsDue
    BY <1>2 DEF LoadsDue
  <2> QED
    BY <1>1, <1>2, <1>3, <1>4, <2>1 DEF IsaInv, RanInv
<1>8. MemInv'
  BY <1>1, <1>2, <1>3 DEF MemInv, MemHolds, MemRight, DataIn
<1>9. FaultInv'
  BY <1>1, <1>2 DEF IsaInv, FaultInv, Waits
<1>10. NextFetch' = NextFetch /\ (RedirectComing <=> RedirectComing')
  BY <1>1 DEF NextFetch, RedirectComing
<1>11. ChainInv'
  <2>1. \A i \in Slots : NextPc(i)' = NextPc(i) /\ NextSlot(i)' = NextSlot(i)
    BY <1>1, <1>2, <1>3, <1>4 DEF NextPc, NextSlot
  <2> QED
    BY <1>1, <1>2, <1>3, <1>4, <1>5, <1>10, <2>1 DEF IsaInv, ChainInv
<1>12. RedirectInv' /\ FlowInv'
  BY <1>1 DEF RedirectInv, FlowInv
<1>13. ResultIs'
  <2>1. aluResult.valid => aluResult.uop.rob \in Slots
    <3>1. aluResult.valid => aluResult \in AluResult
      BY <1>1 DEF NoResult
    <3> QED
      BY <3>1 DEF AluResult, MicroOp, Slots
  <2> QED
    BY <1>1, <1>2, <2>1 DEF IsaInv, ResultIs, Executed, Source
<1>14. ArchPc' = ArchPc
  BY <1>1, <1>2, <1>10, ArchPcIs DEF RobEmpty
<1>15. ArchRegs' = ArchRegs /\ ArchMem' = ArchMem
  BY <1>1 DEF ArchRegs, ArchMem, StoresTo, Source
<1> QED
  BY <1>6, <1>7, <1>8, <1>9, <1>11, <1>12, <1>13, <1>14, <1>15

\* The machine computes with the operators of the core.
LEMMA ArchOps ==
    /\ \A a, b : Arch!Plus(a, b) = Plus(a, b)
    /\ \A i, a : Arch!Address(i, a) = Address(i, a)
    /\ \A i, a, b : Arch!Redirects(i, a, b) <=> Redirects(i, a, b)
    /\ \A i, a, c : Arch!Target(i, a, c) = Target(i, a, c)
    /\ \A i, a, b, c : Arch!Result(i, a, b, c) = Result(i, a, b, c)
    /\ \A i : Arch!HasIntDst(i) <=> HasIntDst(i)
    /\ Arch!Reg = Reg /\ Arch!Word = Word
  BY DEF Plus, Arch!Plus, Address, Arch!Address, Redirects, Arch!Redirects, Target,
         Arch!Target, Result, Arch!Result, HasIntDst, Arch!HasIntDst, Reg, Arch!Reg,
         Word, Arch!Word

\* What the machine finds when the uop at the head is its next instruction.
LEMMA HeadIsHere ==
    ASSUME CoreInv, IsaInv, ~RobEmpty, NEW h \in Slots, h = robHead
    PROVE  /\ entries[h].valid /\ Pos(h) = 0
           /\ ArchPc = entries[h].uop.pc
           /\ Arch!Here = entries[h].uop.inst
           /\ Arch!Rs1 = Op1(h) /\ Arch!Rs2 = Op2(h)
<1>1. RingInv /\ robHead \in Slots
  BY DEF CoreInv, BaseInv, RingInv, RobTypeOK
<1>2. entries[h].valid
  BY <1>1, HeadHolds
<1>3. /\ entries[h].uop.inst = program[entries[h].uop.pc]
      /\ MapsTo(Pos(h), entries[h].uop.inst.rs1, entries[h].uop.prs1)
      /\ MapsTo(Pos(h), entries[h].uop.inst.rs2, entries[h].uop.prs2)
  BY <1>2 DEF IsaInv, HeldInv, Genuine
<1>4. /\ Pos(h) = 0 /\ \A j \in Slots : ~(Pos(j) < 0)
      /\ entries[h].uop.inst.rs1 \in Reg /\ entries[h].uop.inst.rs2 \in Reg
  <2>1. \A j \in Slots : Pos(j) \in 0 .. RobSlots - 1
    BY <1>1, PosIs DEF Slots
  <2>2. Pos(h) = 0
    BY <1>1, RobSlotsAssumption DEF Pos, Slots
  <2> QED
    BY <1>1, <1>2, <2>1, <2>2, HeldTypes, RobSlotsAssumption
<1>5. /\ entries[h].uop.prs1 = committedMap[entries[h].uop.inst.rs1]
      /\ entries[h].uop.prs2 = committedMap[entries[h].uop.inst.rs2]
  BY <1>3, <1>4, MapsToHolder
<1>6. ArchPc = entries[h].uop.pc
  BY ArchPcIs
<1>7. Arch!Here = entries[h].uop.inst
  BY <1>3, <1>6 DEF Arch!Here
<1>8. Arch!Rs1 = Op1(h) /\ Arch!Rs2 = Op2(h)
  BY <1>4, <1>5, <1>7 DEF Arch!Rs1, Arch!Rs2, ArchRegs, Op1, Op2
<1> QED
  BY <1>2, <1>4, <1>6, <1>7, <1>8

LEMMA CommitNothingKeepsIsa ==
    ASSUME CoreInv, IsaInv, CommitNothing
    PROVE  IsaInv' /\ ArchSame
<1>1. /\ stage = "rob_commit" /\ stage' = "branch" /\ ~redirect
      /\ entries' = WithResult
      /\ UNCHANGED <<program, redirect, target, pc, fetchUop, renamedUop, aluResult,
                     committedMap, robHead, robTail, maybeFull, intRf>>
      /\ UNCHANGED <<dmemReq, dmemResp, memory, robState>>
  BY DEF CommitNothing, CommitFrame, At, branchVars, frontendVars, pipeVars
<1>2. /\ RedirectInv' /\ FlowInv' /\ ResultIs' /\ HeldInv' /\ RanInv' /\ MemInv'
      /\ FaultInv' /\ ChainInv'
      /\ ArchPc' = ArchPc /\ ArchRegs' = ArchRegs /\ ArchMem' = ArchMem
  BY <1>1, StayKeepsIsa
<1>3. TrapInv'
  <2>1. robHead \in Slots
    BY DEF CoreInv, BaseInv, RingInv, RobTypeOK
  <2>2. /\ entries'[robHead].valid = entries[robHead].valid
        /\ entries'[robHead].uop = entries[robHead].uop
        /\ entries[robHead].exception => entries'[robHead].exception
        /\ ~entries[robHead].busy => ~entries'[robHead].busy
    BY <1>1, <2>1, MarkedHolds DEF OnlyMarked
  <2> QED
    BY <1>1, <2>2 DEF IsaInv, TrapInv
<1>4. ArchSame
  BY <1>1, <1>2, ArchSameIs
<1> QED
  BY <1>2, <1>3, <1>4 DEF IsaInv

\* The machine traps where the core does.
LEMMA CommitTrapKeepsIsa ==
    ASSUME CoreInv, LoadsInv, IsaInv, CommitTrap
    PROVE  IsaInv' /\ (ArchSame \/ Arch!Next)
<1>1. /\ stage = "rob_commit" /\ stage' = "branch" /\ ~redirect
      /\ entries' = WithResult /\ robState' = "EXCEPTION"
      /\ UNCHANGED <<program, redirect, target, pc, fetchUop, renamedUop, aluResult,
                     committedMap, robHead, robTail, maybeFull, intRf>>
      /\ UNCHANGED <<dmemReq, dmemResp, memory>>
      /\ HeadReady(WithResult) /\ WithResult[robHead].exception
      /\ WithResult[robHead].uop.inst.op # "ecall"
  BY DEF CommitTrap, CommitFrame, At, branchVars, frontendVars, pipeVars
<1>2. /\ RedirectInv' /\ FlowInv' /\ ResultIs' /\ HeldInv' /\ RanInv' /\ MemInv'
      /\ FaultInv' /\ ChainInv'
      /\ ArchPc' = ArchPc /\ ArchRegs' = ArchRegs /\ ArchMem' = ArchMem
  BY <1>1, StayKeepsIsa
<1>3. TrapInv'
  BY <1>1 DEF TrapInv, HeadReady
<1>4. CASE robState = "EXCEPTION"
  BY <1>1, <1>2, <1>3, <1>4, ArchSameIs DEF IsaInv
<1>5. CASE robState # "EXCEPTION"
  <2> PICK h \in Slots : h = robHead
    BY DEF CoreInv, BaseInv, RingInv, RobTypeOK
  <2>1. /\ entries[h].valid
        /\ Arch!Here = entries[h].uop.inst /\ Arch!Rs1 = Op1(h)
    BY <1>1, HeadIsHere DEF HeadReady
  <2>2. /\ MemRight(WithResult[h], Op1(h), Op2(h)) /\ WithResult[h].exception
        /\ WithResult[h].uop = entries[h].uop /\ WithResult[h].mem = entries[h].mem
    BY <1>1, <2>1, MarkedHolds DEF MemHolds, OnlyMarked
  <2>3. entries[h].mem.isLoad => entries[h].uop.inst.op = "load"
    BY <2>1 DEF LoadsInv, MemFields
  <2>4. \/ Arch!Here.op \in {"illegal", "illload", "illstore"}
        \/ Arch!Here.op = "load" /\ Address(Arch!Here, Arch!Rs1) \in FaultAddrs
    BY <1>1, <2>1, <2>2, <2>3 DEF MemRight, Faults
  <2>5. Arch!Trap
    <3>1. (robState = "EXCEPTION")' = TRUE
      BY <1>1
    <3> QED
      BY <1>2, <2>4, <3>1, ArchOps DEF Arch!Trap
  <2> QED
    BY <1>1, <1>2, <1>3, <1>5, <2>5 DEF IsaInv, Arch!Next
<1> QED
  BY <1>4, <1>5

\* Behind the head is the tail or another uop.
LEMMA NextIsHeld ==
    ASSUME RingInv, ~RobEmpty, NEW h \in Slots, h = robHead, NextSlot(h) # robTail
    PROVE  NextSlot(h) \in Slots /\ NextSlot(h) # h /\ entries[NextSlot(h)].valid
<1>1. /\ RobSlots \in Nat \ {0} /\ robHead \in 0 .. RobSlots - 1
      /\ robTail \in 0 .. RobSlots - 1 /\ h \in 0 .. RobSlots - 1
      /\ \A i \in Slots : entries[i].valid <=> InWindow(i)
      /\ maybeFull => robHead = robTail
  BY RobSlotsAssumption DEF RingInv, RobTypeOK, RobWindow, Slots
<1> PICK j \in Slots : j = NextSlot(h)
  BY NextSlotIs
<1>2. j = IF h = RobSlots - 1 THEN 0 ELSE h + 1
  BY NextSlotIs
<1>3. j # h /\ InWindow(j)
  BY <1>1, <1>2 DEF InWindow, RobEmpty
<1> QED
  BY <1>1, <1>3

\* The head leaves, and the machine goes to what is behind it.
LEMMA PopKeepsIsa ==
    ASSUME CoreInv, CoreInv', RegsInv, IsaInv, stage = "rob_commit", stage' = "branch",
           ~redirect, HeadReady(WithResult), PopHead(WithResult),
           robState # "EXCEPTION", robState' = robState,
           IF Claims(robHead) THEN CommitMapping(entries[robHead].uop)
           ELSE UNCHANGED committedMap,
           UNCHANGED <<program, redirect, target, pc, fetchUop, renamedUop, aluResult,
                       intRf, dmemResp, memory>>,
           NEW h \in Slots, h = robHead
    PROVE  /\ IsaInv'
           /\ ArchPc' = IF Jumps(h) THEN Target(entries[h].uop.inst, Op1(h), entries[h].uop.pc)
                        ELSE Plus(entries[h].uop.pc, 1)
<1>1. /\ stage = "rob_commit" /\ stage' = "branch" /\ ~redirect
      /\ UNCHANGED <<program, redirect, target, pc, aluResult, intRf, dmemResp>>
      /\ RingInv /\ RingInv' /\ robHead \in Slots /\ committedMap \in [Reg -> Preg]
      /\ aluResult \in AluResult \cup {NoResult}
      /\ OnlyMarked(WithResult) /\ MemHolds(WithResult, intRf)
  BY MarkedHolds DEF CoreInv, BaseInv, RingInv, RobTypeOK, PipeTypeOK, RenameTypeOK
<1>2. /\ ~RobEmpty /\ robHead' = NextSlot(h) /\ robTail' = robTail /\ ~maybeFull'
      /\ entries' = [WithResult EXCEPT ![h] = EmptyEntry]
  BY DEF HeadReady, PopHead
<1>3. /\ Claims(h) => entries[h].uop.ldst \in Reg
      /\ committedMap' = IF Claims(h)
                         THEN [committedMap EXCEPT ![entries[h].uop.ldst] = entries[h].uop.pdst]
                         ELSE committedMap
  BY <1>1 DEF RingInv, Claims, MicroOp, CommitMapping
<1>4. /\ Pos(h) = 0 /\ ~entries'[h].valid
      /\ \A i \in Slots : i # h => /\ entries'[i].valid = entries[i].valid
                                   /\ entries'[i].uop = entries[i].uop
                                   /\ Pos(i) \in 1 .. RobSlots - 1
                                   /\ Pos(i)' = Pos(i) - 1
      /\ \A i \in Slots : \A l \in Reg : \A p :
            i # h /\ MapsTo(Pos(i), l, p) => MapsTo(Pos(i), l, p)'
  BY <1>1, <1>3, PoppedMaps
<1>5. \A i \in Slots : i # h => /\ entries'[i] = WithResult[i]
                                /\ entries'[i].mem = entries[i].mem
  BY <1>1, <1>2 DEF OnlyMarked
<1>6. \A i \in Slots : entries'[i].valid =>
         /\ i # h /\ entries[i].valid
         /\ Op1(i)' = Op1(i) /\ Op2(i)' = Op2(i) /\ (Jumps(i)' <=> Jumps(i))
  BY <1>1, <1>4 DEF Op1, Op2, Jumps, Source
<1>7. \A i \in Slots : ~Awaits(i)' /\ ~Awaits(i)
  BY <1>1 DEF Awaits
<1>8. HeldInv'
  <2> SUFFICES ASSUME NEW i \in Slots, entries'[i].valid
               PROVE  /\ Genuine(entries[i].uop)'
                      /\ MapsTo(Pos(i), entries[i].uop.inst.rs1, entries[i].uop.prs1)'
                      /\ MapsTo(Pos(i), entries[i].uop.inst.rs2, entries[i].uop.prs2)'
    BY DEF HeldInv
  <2>1. /\ i # h /\ entries[i].valid /\ entries'[i].uop = entries[i].uop
        /\ entries[i].uop.inst.rs1 \in Reg /\ entries[i].uop.inst.rs2 \in Reg
    BY <1>1, <1>4, <1>6, HeldTypes
  <2>2. /\ Genuine(entries[i].uop)
        /\ MapsTo(Pos(i), entries[i].uop.inst.rs1, entries[i].uop.prs1)
        /\ MapsTo(Pos(i), entries[i].uop.inst.rs2, entries[i].uop.prs2)
    BY <2>1 DEF IsaInv, HeldInv
  <2> PICK l1 \in Reg, l2 \in Reg, p1 \in {entries[i].uop.prs1},
           p2 \in {entries[i].uop.prs2} :
             l1 = entries[i].uop.inst.rs1 /\ l2 = entries[i].uop.inst.rs2
    BY <2>1
  <2>3. MapsTo(Pos(i), l1, p1)' /\ MapsTo(Pos(i), l2, p2)'
    BY <1>4, <2>1, <2>2
  <2>4. Genuine(entries[i].uop)'
    BY <1>1, <2>1, <2>2 DEF Genuine
  <2>5. /\ entries'[i].uop.inst.rs1 = l1 /\ entries'[i].uop.prs1 = p1
        /\ entries'[i].uop.inst.rs2 = l2 /\ entries'[i].uop.prs2 = p2
    BY <2>1
  <2> QED
    BY <2>3, <2>4, <2>5
<1>9. RanInv'
  <2>1. LoadsDue' \subseteq LoadsDue
    BY <1>4, <1>5, <1>6 DEF LoadsDue
  <2> SUFFICES ASSUME NEW i \in Slots, entries'[i].valid
               PROVE  /\ {entries'[i].uop.prs1, entries'[i].uop.prs2} \cap LoadsDue'
                            \subseteq {0}
                      /\ entries'[i].uop.pdst # 0 /\ entries'[i].uop.inst.op # "load" =>
                            intRf'[entries'[i].uop.pdst] =
                               Result(entries'[i].uop.inst, Op1(i)', Op2(i)',
                                      entries'[i].uop.pc)
    BY DEF RanInv
  <2>2. /\ {entries[i].uop.prs1, entries[i].uop.prs2} \cap LoadsDue \subseteq {0}
        /\ entries[i].uop.pdst # 0 /\ entries[i].uop.inst.op # "load" =>
              intRf[entries[i].uop.pdst] =
                 Result(entries[i].uop.inst, Op1(i), Op2(i), entries[i].uop.pc)
    BY <1>6, <1>7 DEF IsaInv, RanInv
  <2> QED
    BY <1>1, <1>4, <1>6, <2>1, <2>2
<1>10. MemInv'
  BY <1>1, <1>5, <1>6 DEF MemInv, MemHolds, MemRight, DataIn
<1>11. FaultInv'
  BY <1>1, <1>4, <1>5, <1>6 DEF IsaInv, FaultInv, Waits
<1>12. NextFetch' = NextFetch /\ (RedirectComing <=> RedirectComing')
  BY <1>1 DEF NextFetch, RedirectComing
<1>13. ChainInv'
  <2>1. ASSUME NEW i \in Slots, entries'[i].valid, NEW j \in Slots, entries'[j].valid,
               Pos(j)' = Pos(i)' + 1
        PROVE  ~Jumps(i)' /\ entries'[j].uop.pc = Plus(entries'[i].uop.pc, 1)
    <3>1. /\ i # h /\ j # h /\ entries[i].valid /\ entries[j].valid
          /\ entries'[i].uop = entries[i].uop /\ entries'[j].uop = entries[j].uop
          /\ (Jumps(i)' <=> Jumps(i))
      BY <1>4, <1>6, <2>1
    <3>2. Pos(j) = Pos(i) + 1
      BY <1>4, <2>1, <3>1, RobSlotsAssumption
    <3> QED
      BY <3>1, <3>2 DEF IsaInv, ChainInv
  <2>2. ASSUME NEW i \in Slots, entries'[i].valid, NextSlot(i) = robTail
        PROVE  NextFetch' = NextPc(i)' /\ (Jumps(i)' => RedirectComing')
    <3>1. NextFetch = NextPc(i) /\ (Jumps(i) => RedirectComing)
      BY <1>6, <1>7, <2>2 DEF IsaInv, ChainInv
    <3>2. NextPc(i)' = NextPc(i)
      BY <1>4, <1>6, <1>7, <2>2 DEF NextPc
    <3> QED
      BY <1>6, <1>12, <2>2, <3>1, <3>2
  <2>3. \A i \in Slots : NextSlot(i)' = NextSlot(i)
    BY DEF NextSlot
  <2> QED
    BY <1>2, <2>1, <2>2, <2>3 DEF ChainInv
<1>14. TrapInv' /\ RedirectInv' /\ FlowInv'
  BY <1>1 DEF TrapInv, RedirectInv, FlowInv
<1>15. ResultIs'
  <2>1. aluResult.valid => aluResult.uop.rob \in Slots
    <3>1. aluResult.valid => aluResult \in AluResult
      BY <1>1 DEF NoResult
    <3> QED
      BY <3>1 DEF AluResult, MicroOp, Slots
  <2> QED
    BY <1>1, <1>6, <2>1 DEF IsaInv, ResultIs, Executed, Source
<1>16. ArchPc' = NextPc(h)
  <2>1. RobEmpty' <=> NextSlot(h) = robTail
    BY <1>2 DEF RobEmpty
  <2>2. CASE NextSlot(h) = robTail
    <3>1. NextFetch = NextPc(h)
      BY <1>1, <1>2, <2>2, HeadHolds DEF IsaInv, ChainInv
    <3> QED
      BY <1>12, <2>1, <2>2, <3>1, ArchPcIs
  <2>3. CASE NextSlot(h) # robTail
    <3>1. NextSlot(h) \in Slots /\ NextSlot(h) # h /\ entries[NextSlot(h)].valid
      BY <1>1, <1>2, <2>3, NextIsHeld
    <3> PICK j \in Slots : j = NextSlot(h)
      BY <3>1
    <3>2. Pos(j) = Pos(h) + 1
      BY <1>1, <3>1, NextByPos
    <3>3. ~Jumps(h) /\ entries[j].uop.pc = Plus(entries[h].uop.pc, 1)
      BY <1>1, <1>2, <3>1, <3>2, HeadHolds DEF IsaInv, ChainInv
    <3>4. ArchPc' = entries'[j].uop.pc
      BY <1>2, <2>1, <2>3, ArchPcIs
    <3> QED
      BY <1>4, <3>1, <3>3, <3>4 DEF NextPc
  <2> QED
    BY <2>2, <2>3
<1> QED
  BY <1>7, <1>8, <1>9, <1>10, <1>11, <1>13, <1>14, <1>15, <1>16 DEF IsaInv, NextPc

\* A store that goes out is the youngest.
LEMMA StoreSentArchMem ==
    ASSUME LsuTypeOK, LsuTypeOK', NEW r \in DmemRequest, r.isStore, ~DmemFull,
           dmemReq' = Append(dmemReq, r), memory' = memory
    PROVE  ArchMem' = [ArchMem EXCEPT ![r.addr] = r.data]
<1>1. /\ dmemReq \in Seq(DmemRequest) /\ Len(dmemReq) \in Nat
      /\ DOMAIN dmemReq = 1 .. Len(dmemReq) /\ DOMAIN dmemReq' = 1 .. Len(dmemReq')
      /\ Len(dmemReq') = Len(dmemReq) + 1
      /\ \A n \in 1 .. Len(dmemReq) : dmemReq'[n] = dmemReq[n]
      /\ dmemReq'[Len(dmemReq) + 1] = r
      /\ r.addr \in Word
  BY RequestType, LenProperties DEF LsuTypeOK, DmemRequest
<1>2. ASSUME NEW a \in Word, a = r.addr
      PROVE  ArchMem'[a] = r.data
  <2>1. /\ Len(dmemReq') \in StoresTo(a)'
        /\ \A n \in StoresTo(a)' : n <= Len(dmemReq')
    BY <1>1, <1>2 DEF StoresTo
  <2> QED
    BY <1>1, <2>1, ArchMemIsNext
<1>3. ASSUME NEW a \in Word, a # r.addr
      PROVE  ArchMem'[a] = ArchMem[a]
  <2>1. StoresTo(a)' = StoresTo(a)
    BY <1>1, <1>3 DEF StoresTo
  <2>2. CASE StoresTo(a) = {}
    BY <2>1, <2>2, ArchMemIs, ArchMemIsNext
  <2>3. CASE StoresTo(a) # {}
    <3>1. PICK m \in StoresTo(a) : Youngest(a, m)
      BY <2>3, ArchMemIs
    <3>2. dmemReq'[m] = dmemReq[m]
      BY <1>1 DEF StoresTo
    <3>3. ArchMem[a] = dmemReq[m].data
      BY <3>1, ArchMemIs
    <3>4. m \in StoresTo(a)' /\ \A n \in StoresTo(a)' : n <= m
      BY <2>1, <3>1 DEF Youngest
    <3>5. ArchMem'[a] = dmemReq'[m].data
      BY <3>4, ArchMemIsNext
    <3> QED
      BY <3>2, <3>3, <3>5
  <2> QED
    BY <2>2, <2>3
<1>4. /\ ArchMem = [a \in Word |-> ArchMem[a]]
      /\ ArchMem' = [a \in Word |-> ArchMem'[a]]
  BY DEF ArchMem
<1> QED
  BY <1>1, <1>2, <1>3, <1>4

\* The registers after the head's mapping is committed: its destination, if it has
\* one, has got the value v.
LEMMA CommittedRegs ==
    ASSUME CoreInv, IsaInv, NEW h \in Slots, h = robHead, entries[h].valid,
           IF Claims(robHead) THEN CommitMapping(entries[robHead].uop)
           ELSE UNCHANGED committedMap,
           intRf' = intRf, NEW v,
           entries[h].uop.pdst # 0 => intRf[entries[h].uop.pdst] = v
    PROVE  LET i == entries[h].uop.inst
           IN  ArchRegs' = IF HasIntDst(i)
                           THEN [r \in Reg |-> IF r = i.rd /\ r # 0 THEN v ELSE ArchRegs[r]]
                           ELSE ArchRegs
<1>1. /\ committedMap \in [Reg -> Preg] /\ RingInv
      /\ entries[h].uop.inst.rd \in Reg
  BY HeldTypes DEF CoreInv, BaseInv, RenameTypeOK
<1>2. /\ entries[h].uop.pdst # 0 <=>
            HasIntDst(entries[h].uop.inst) /\ entries[h].uop.inst.rd # 0
      /\ entries[h].uop.pdst # 0 => entries[h].uop.ldst = entries[h].uop.inst.rd
  BY DEF IsaInv, HeldInv, Genuine
<1>3. committedMap' = IF entries[h].uop.pdst # 0
                      THEN [committedMap EXCEPT ![entries[h].uop.inst.rd] = entries[h].uop.pdst]
                      ELSE committedMap
  BY <1>2 DEF Claims, CommitMapping
<1>4. ArchRegs' = [r \in Reg |-> IF committedMap'[r] # 0 THEN intRf[committedMap'[r]] ELSE 0]
  BY DEF ArchRegs, Source
<1>5. ArchRegs = [r \in Reg |-> IF committedMap[r] # 0 THEN intRf[committedMap[r]] ELSE 0]
  BY DEF ArchRegs, Source
<1> PICK d \in Reg, p \in {entries[h].uop.pdst}, i \in {entries[h].uop.inst} : d = i.rd
  BY <1>1
<1>6. CASE p # 0
  <2>1. /\ \A r \in Reg : committedMap'[r] = IF r = d THEN p ELSE committedMap[r]
        /\ intRf[p] = v /\ HasIntDst(i) /\ d # 0
    BY <1>1, <1>2, <1>3, <1>6
  <2>2. ArchRegs' = [r \in Reg |-> IF r = d /\ r # 0 THEN v ELSE ArchRegs[r]]
    BY <1>4, <1>5, <1>6, <2>1
  <2> QED
    BY <2>1, <2>2
<1>7. CASE p = 0
  <2>1. committedMap' = committedMap /\ ~(HasIntDst(i) /\ d # 0)
    BY <1>2, <1>3, <1>7
  <2>2. ArchRegs' = ArchRegs
    BY <1>4, <1>5, <2>1
  <2>3. ArchRegs = [r \in Reg |-> ArchRegs[r]]
    BY <1>5
  <2> QED
    BY <2>1, <2>2, <2>3
<1> QED
  BY <1>6, <1>7

\* What leaves has its value, and of a load memory's, of a store the request.
LEMMA HeadDone ==
    ASSUME CoreInv, LoadsInv, IsaInv, stage = "rob_commit", NEW h \in Slots, h = robHead,
           ~HeadWaits(WithResult), ~WithResult[h].exception
    PROVE  LET e == entries[h]
           IN  /\ HeadReady(WithResult) /\ e.valid
               /\ ~Faults(e.uop.inst)
               /\ WithResult[h].mem = e.mem /\ WithResult[h].uop = e.uop
               /\ e.mem.isStore <=> e.uop.inst.op = "store"
               /\ e.uop.inst.op = "store" =>
                     /\ e.mem.addr = Address(e.uop.inst, Op1(h)) /\ e.mem.data = Op2(h)
                     /\ ~DmemFull
               /\ e.uop.inst.op = "load" =>
                     /\ Address(e.uop.inst, Op1(h)) \notin FaultAddrs
                     /\ e.uop.pdst # 0 =>
                           intRf[e.uop.pdst] = ArchMem[Address(e.uop.inst, Op1(h))]
               /\ e.uop.inst.op # "load" /\ e.uop.pdst # 0 =>
                     intRf[e.uop.pdst] = Result(e.uop.inst, Op1(h), Op2(h), e.uop.pc)
<1>1. /\ HeadReady(WithResult)
      /\ CtrlIsLoad(WithResult[h].uop.inst) => WithResult[h].mem.completed
      /\ CtrlIsSta(WithResult[h].uop.inst) \/ WithResult[h].mem.isStore =>
            WithResult[h].mem.valid /\ ~DmemFull
  BY DEF HeadWaits
<1>2. /\ OnlyMarked(WithResult) /\ MemHolds(WithResult, intRf)
      /\ entries[h].exception => WithResult[h].exception
  BY MarkedHolds
<1>3. /\ entries[h].valid /\ WithResult[h].valid /\ ~entries[h].exception
      /\ WithResult[h].mem = entries[h].mem /\ WithResult[h].uop = entries[h].uop
  BY <1>1, <1>2 DEF OnlyMarked, HeadReady
<1>4. MemRight(WithResult[h], Op1(h), Op2(h)) /\ DataIn(WithResult[h], intRf)
  BY <1>2, <1>3 DEF MemHolds
<1>5. /\ entries[h].mem.isLoad => entries[h].uop.inst.op = "load"
      /\ entries[h].mem.isStore => entries[h].uop.inst.op = "store"
  BY <1>3 DEF LoadsInv, MemFields
<1>6. ~Faults(entries[h].uop.inst)
  BY <1>3, <1>4 DEF MemRight
<1>7. entries[h].mem.isStore <=> entries[h].uop.inst.op = "store"
  BY <1>1, <1>3, <1>4, <1>5 DEF MemRight, CtrlIsSta
<1>8. entries[h].uop.inst.op = "store" =>
         /\ entries[h].mem.addr = Address(entries[h].uop.inst, Op1(h))
         /\ entries[h].mem.data = Op2(h) /\ ~DmemFull
  BY <1>1, <1>3, <1>4, <1>7 DEF MemRight, CtrlIsSta
<1>9. ASSUME entries[h].uop.inst.op = "load"
      PROVE  /\ Address(entries[h].uop.inst, Op1(h)) \notin FaultAddrs
             /\ entries[h].uop.pdst # 0 =>
                   intRf[entries[h].uop.pdst] = ArchMem[Address(entries[h].uop.inst, Op1(h))]
  <2>1. /\ entries[h].mem.completed /\ entries[h].mem.isLoad
        /\ entries[h].mem.addr = Address(entries[h].uop.inst, Op1(h))
    BY <1>1, <1>3, <1>4, <1>5, <1>9 DEF MemRight, CtrlIsLoad
  <2>2. entries[h].mem.data = ArchMem[entries[h].mem.addr]
    BY <1>3, <2>1 DEF LoadsInv, ValuesRight
  <2> QED
    BY <1>3, <1>4, <2>1, <2>2 DEF DataIn
<1>10. entries[h].uop.inst.op # "load" /\ entries[h].uop.pdst # 0 =>
          intRf[entries[h].uop.pdst] =
             Result(entries[h].uop.inst, Op1(h), Op2(h), entries[h].uop.pc)
  <2>1. ~Awaits(h)
    BY DEF Awaits
  <2> QED
    BY <1>3, <2>1 DEF IsaInv, RanInv
<1> QED
  BY <1>1, <1>3, <1>6, <1>7, <1>8, <1>9, <1>10

\* Each instruction that leaves is one that the machine executes.
LEMMA CommitHeadKeepsIsa ==
    ASSUME CoreInv, CoreInv', RegsInv, LoadsInv, IsaInv, CommitHead
    PROVE  IsaInv' /\ Arch!Next
<1> PICK h \in Slots : h = robHead
  BY DEF CoreInv, BaseInv, RingInv, RobTypeOK
<1>1. /\ stage = "rob_commit" /\ stage' = "branch" /\ ~redirect
      /\ UNCHANGED <<program, redirect, target, pc, fetchUop, renamedUop, aluResult,
                     intRf, dmemResp, memory, robState>>
      /\ ~HeadWaits(WithResult) /\ ~WithResult[h].exception /\ PopHead(WithResult)
      /\ CommitMapping(WithResult[h].uop)
      /\ IF WithResult[h].mem.isStore
         THEN dmemReq' = Append(dmemReq, [isStore |-> TRUE, addr |-> WithResult[h].mem.addr,
                                          data |-> WithResult[h].mem.data, tx |-> nextTx])
         ELSE dmemReq' = dmemReq
  BY DEF CommitHead, CommitFrame, At, branchVars, frontendVars, pipeVars
<1>2. LET e == entries[h]
      IN  /\ HeadReady(WithResult) /\ e.valid
          /\ ~Faults(e.uop.inst)
          /\ WithResult[h].mem = e.mem /\ WithResult[h].uop = e.uop
          /\ e.mem.isStore <=> e.uop.inst.op = "store"
          /\ e.uop.inst.op = "store" =>
                /\ e.mem.addr = Address(e.uop.inst, Op1(h)) /\ e.mem.data = Op2(h)
                /\ ~DmemFull
          /\ e.uop.inst.op = "load" =>
                /\ Address(e.uop.inst, Op1(h)) \notin FaultAddrs
                /\ e.uop.pdst # 0 =>
                      intRf[e.uop.pdst] = ArchMem[Address(e.uop.inst, Op1(h))]
          /\ e.uop.inst.op # "load" /\ e.uop.pdst # 0 =>
                intRf[e.uop.pdst] = Result(e.uop.inst, Op1(h), Op2(h), e.uop.pc)
  BY <1>1, HeadDone
<1>3. IF Claims(robHead) THEN CommitMapping(entries[robHead].uop)
      ELSE UNCHANGED committedMap
  BY <1>1, <1>2 DEF Claims, CommitMapping
<1>4. robState # "EXCEPTION"
  <2>1. ASSUME robState = "EXCEPTION" PROVE FALSE
    <3>1. entries[h].exception
      BY <2>1 DEF IsaInv, TrapInv
    <3> QED
      BY <1>1, <3>1, MarkedHolds
  <2> QED
    BY <2>1
<1>5. /\ IsaInv'
      /\ ArchPc' = IF Jumps(h) THEN Target(entries[h].uop.inst, Op1(h), entries[h].uop.pc)
                   ELSE Plus(entries[h].uop.pc, 1)
  BY <1>1, <1>2, <1>3, <1>4, PopKeepsIsa
<1>6. /\ ArchPc = entries[h].uop.pc /\ Arch!Here = entries[h].uop.inst
      /\ Arch!Rs1 = Op1(h) /\ Arch!Rs2 = Op2(h)
  BY <1>2, HeadIsHere DEF HeadReady
<1> PICK i \in Instr : i = entries[h].uop.inst
  BY <1>2, HeldTypes DEF CoreInv, BaseInv
<1>7. i.op \in {"alu", "fence", "jal", "jalr", "branch", "load", "store"}
  BY <1>2 DEF Instr, Ops, Faults
<1>8. ArchPc' = IF Redirects(i, Op1(h), Op2(h)) THEN Target(i, Op1(h), ArchPc)
                ELSE Plus(ArchPc, 1)
  BY <1>5, <1>6 DEF Jumps
<1>9. ASSUME NEW v, entries[h].uop.pdst # 0 => intRf[entries[h].uop.pdst] = v
      PROVE  ArchRegs' = IF HasIntDst(i)
                         THEN [r \in Reg |-> IF r = i.rd /\ r # 0 THEN v ELSE ArchRegs[r]]
                         ELSE ArchRegs
  <2>1. entries[h].valid /\ intRf' = intRf
    BY <1>1, <1>2
  <2>2. ArchRegs' = IF HasIntDst(entries[h].uop.inst)
                    THEN [r \in Reg |-> IF r = entries[h].uop.inst.rd /\ r # 0
                                        THEN v ELSE ArchRegs[r]]
                    ELSE ArchRegs
    BY <1>3, <1>9, <2>1, CommittedRegs
  <2> QED
    BY <2>2
<1>10. i.op # "store" => ArchMem' = ArchMem
  <2>1. i.op # "store" => dmemReq' = dmemReq
    BY <1>1, <1>2
  <2> QED
    BY <1>1, <2>1 DEF ArchMem, StoresTo
<1>11. (robState = "EXCEPTION")' = (robState = "EXCEPTION")
  BY <1>1
<1>12. CASE i.op \in {"alu", "jal", "jalr", "branch"}
  <2>1. ArchRegs' = IF HasIntDst(i)
                    THEN [r \in Reg |-> IF r = i.rd /\ r # 0
                                        THEN Result(i, Op1(h), Op2(h), ArchPc)
                                        ELSE ArchRegs[r]]
                    ELSE ArchRegs
    BY <1>2, <1>6, <1>9, <1>12
  <2>2. ArchMem' = ArchMem
    BY <1>10, <1>12
  <2>3. Arch!Here = i /\ Arch!Rs1 = Op1(h) /\ Arch!Rs2 = Op2(h)
    BY <1>6
  <2>4. Arch!Compute
    BY <1>8, <1>11, <1>12, <2>1, <2>2, <2>3, ArchOps DEF Arch!Compute, Arch!WriteReg
  <2> QED
    BY <1>1, <1>4, <1>5, <2>4 DEF Arch!Next
<1>13. CASE i.op = "load"
  <2>1. ArchRegs' = [r \in Reg |-> IF r = i.rd /\ r # 0 THEN ArchMem[Address(i, Op1(h))]
                                   ELSE ArchRegs[r]]
    BY <1>2, <1>9, <1>13 DEF HasIntDst
  <2>2. ArchMem' = ArchMem /\ Address(i, Op1(h)) \notin FaultAddrs
    BY <1>2, <1>10, <1>13
  <2>3. ArchPc' = Plus(ArchPc, 1)
    BY <1>8, <1>13 DEF Redirects
  <2>4. Arch!Here = i /\ Arch!Rs1 = Op1(h)
    BY <1>6
  <2>5. Arch!Load
    BY <1>11, <1>13, <2>1, <2>2, <2>3, <2>4, ArchOps DEF Arch!Load, Arch!WriteReg
  <2> QED
    BY <1>1, <1>4, <1>5, <2>5 DEF Arch!Next
<1>14. CASE i.op = "store"
  <2> DEFINE r == [isStore |-> TRUE, addr |-> WithResult[h].mem.addr,
                   data |-> WithResult[h].mem.data, tx |-> nextTx]
  <2>1. /\ r.isStore /\ r.addr = Address(i, Op1(h)) /\ r.data = Op2(h)
        /\ ~DmemFull /\ dmemReq' = Append(dmemReq, r)
    BY <1>1, <1>2, <1>14
  <2>2. r \in DmemRequest
    <3>1. WithResult[h].mem \in MemInfo
      BY <1>1, MarkedHolds DEF OnlyMarked, Entry
    <3> QED
      BY <3>1 DEF DmemRequest, MemInfo, CoreInv, LsuTypeOK
  <2> HIDE DEF r
  <2>3. ArchMem' = [ArchMem EXCEPT ![Address(i, Op1(h))] = Op2(h)]
    BY <1>1, <2>1, <2>2, StoreSentArchMem DEF CoreInv
  <2>4. ArchRegs' = ArchRegs
    BY <1>2, <1>9, <1>14 DEF HasIntDst
  <2>5. ArchPc' = Plus(ArchPc, 1)
    BY <1>8, <1>14 DEF Redirects
  <2>6. Arch!Here = i /\ Arch!Rs1 = Op1(h) /\ Arch!Rs2 = Op2(h)
    BY <1>6
  <2>7. Arch!Store
    BY <1>11, <1>14, <2>3, <2>4, <2>5, <2>6, ArchOps DEF Arch!Store
  <2> QED
    BY <1>1, <1>4, <1>5, <2>7 DEF Arch!Next
<1>15. CASE i.op = "fence"
  <2>1. ArchRegs' = ArchRegs /\ ArchMem' = ArchMem
    BY <1>2, <1>9, <1>10, <1>15 DEF HasIntDst
  <2>2. ArchPc' = Plus(ArchPc, 1)
    BY <1>8, <1>15 DEF Redirects
  <2>3. Arch!Here = i
    BY <1>6
  <2>4. Arch!Pass
    BY <1>11, <1>15, <2>1, <2>2, <2>3, ArchOps DEF Arch!Pass
  <2> QED
    BY <1>1, <1>4, <1>5, <2>4 DEF Arch!Next
<1> QED
  BY <1>7, <1>12, <1>13, <1>14, <1>15

\* ECALL leaves and changes nothing; the a0 it reports is the machine's.
LEMMA CommitEcallKeepsIsa ==
    ASSUME CoreInv, CoreInv', RegsInv, IsaInv, EcallAlone, CommitEcall
    PROVE  /\ IsaInv' /\ Arch!Next
           /\ ioSuccess' <=> ArchRegs[A0] = 0
<1> PICK h \in Slots : h = robHead
  BY DEF CoreInv, BaseInv, RingInv, RobTypeOK
<1>1. /\ stage = "rob_commit" /\ stage' = "branch" /\ ~redirect
      /\ UNCHANGED <<program, redirect, target, pc, fetchUop, renamedUop, aluResult,
                     intRf, dmemReq, dmemResp, memory, robState, committedMap>>
      /\ HeadReady(WithResult) /\ PopHead(WithResult)
      /\ WithResult[h].uop.inst.op = "ecall"
      /\ ioSuccess' = (Source(mapTable[A0]) = 0)
  BY DEF CommitEcall, CommitFrame, At, branchVars, frontendVars, pipeVars
<1>2. /\ entries[h].valid /\ entries[h].uop.inst.op = "ecall" /\ ~RobEmpty
  BY <1>1, MarkedHolds DEF OnlyMarked, HeadReady
<1>3. ~Claims(h)
  BY <1>2 DEF RegsInv, DstInv
<1>4. robState # "EXCEPTION"
  BY <1>2 DEF IsaInv, TrapInv
<1>5. /\ IsaInv'
      /\ ArchPc' = IF Jumps(h) THEN Target(entries[h].uop.inst, Op1(h), entries[h].uop.pc)
                   ELSE Plus(entries[h].uop.pc, 1)
  BY <1>1, <1>3, <1>4, PopKeepsIsa
<1>6. ArchPc = entries[h].uop.pc /\ Arch!Here = entries[h].uop.inst
  BY <1>2, HeadIsHere
<1>7. ArchPc' = Plus(ArchPc, 1)
  BY <1>2, <1>5, <1>6 DEF Jumps, Redirects
<1>8. ArchRegs' = ArchRegs /\ ArchMem' = ArchMem
  BY <1>1 DEF ArchRegs, ArchMem, StoresTo, Source
<1>9. (robState = "EXCEPTION")' = (robState = "EXCEPTION")
  BY <1>1
<1>10. Arch!Pass
  BY <1>2, <1>6, <1>7, <1>8, <1>9, ArchOps DEF Arch!Pass
<1>11. mapTable[A0] = committedMap[A0]
  <2>1. \A j \in Slots : entries[j].valid => j = h
    <3>1. NextSlot(h) = robTail /\ RingInv /\ robHead \in Slots
      BY <1>1, <1>2 DEF EcallAlone, CoreInv, BaseInv, RingInv, RobTypeOK
    <3>2. \A j \in Slots : entries[j].valid => Pos(j) <= Pos(h)
      BY <1>2, <3>1, LastIsYoungest
    <3>3. Pos(h) = 0 /\ \A j \in Slots : Pos(j) \in 0 .. RobSlots - 1 /\ SlotFromHead(Pos(j)) = j
      <4>1. Pos(h) = 0
        BY <3>1, RobSlotsAssumption DEF Pos, Slots
      <4> QED
        BY <3>1, <4>1, PosIs DEF Slots
    <3> SUFFICES ASSUME NEW j \in Slots, entries[j].valid PROVE j = h
      OBVIOUS
    <3>4. Pos(j) = 0
      BY <3>2, <3>3, RobSlotsAssumption
    <3> QED
      BY <3>3, <3>4
  <2>2. A0 \in Reg
    BY A0Assumption DEF Reg
  <2>3. MapBefore(A0) = mapTable[A0]
    BY <1>1 DEF MapBefore, Pending
  <2>4. MapsTo(RobSlots, A0, mapTable[A0])
    BY <1>1, <2>2, <2>3 DEF RegsInv, MapsInv, MapReset
  <2> QED
    <3>1. \A j \in Slots : ~Claims(j)
      BY <1>3, <2>1 DEF Claims
    <3> QED
      BY <2>2, <2>4, <3>1, MapsToHolder
<1>12. ioSuccess' <=> ArchRegs[A0] = 0
  <2>1. ArchRegs[A0] = Source(committedMap[A0])
    BY A0Assumption DEF ArchRegs, Reg
  <2>2. ioSuccess' = (Source(committedMap[A0]) = 0)
    BY <1>1, <1>11
  <2> QED
    BY <2>1, <2>2
<1> QED
  BY <1>1, <1>4, <1>5, <1>10, <1>12 DEF Arch!Next

\* The flush finds the ROB empty, and the front end at the target.
LEMMA CommitFlushKeepsIsa ==
    ASSUME CoreInv, IsaInv, FlushFindsNothing, CommitFlush
    PROVE  IsaInv' /\ ArchSame
<1>1. /\ stage = "rob_commit" /\ stage' = "branch" /\ redirect
      /\ UNCHANGED <<program, redirect, target, pc, fetchUop, renamedUop, aluResult,
                     committedMap, intRf, dmemReq, dmemResp, memory>>
      /\ SquashAll
  BY DEF CommitFlush, CommitFrame, At, branchVars, frontendVars, pipeVars
<1>2. RobEmpty /\ ~entries[robHead].valid
  BY <1>1, HeadHolds DEF FlushFindsNothing, CoreInv, BaseInv
<1>3. /\ \A i \in Slots : ~entries'[i].valid
      /\ RobEmpty'
      /\ robState' # "EXCEPTION" /\ robState # "EXCEPTION"
  BY <1>1, <1>2 DEF SquashAll, EmptyEntry, RobEmpty, IsaInv, TrapInv
<1>4. /\ HeldInv' /\ RanInv' /\ MemInv' /\ ChainInv'
      /\ FaultInv' /\ TrapInv' /\ RedirectInv' /\ FlowInv'
  BY <1>1, <1>3 DEF HeldInv, RanInv, MemInv, ChainInv, FaultInv, Waits, TrapInv,
                    RedirectInv, FlowInv
<1>5. pc = target /\ ~aluResult.valid
  BY <1>1 DEF IsaInv, RedirectInv
<1>6. ResultIs'
  BY <1>1, <1>5 DEF ResultIs
<1>7. ArchPc' = ArchPc
  BY <1>1, <1>2, <1>3, <1>5, ArchPcIs DEF NextFetch
<1>8. ArchRegs' = ArchRegs /\ ArchMem' = ArchMem
  BY <1>1 DEF ArchRegs, ArchMem, StoresTo, Source
<1> QED
  BY <1>1, <1>3, <1>4, <1>6, <1>7, <1>8, ArchSameIs DEF IsaInv

-----------------------------------------------------------------------------
(* The theorems.                                                           *)

LEMMA StutterKeepsIsa ==
    ASSUME IsaInv, UNCHANGED vars
    PROVE  IsaInv' /\ ArchSame
<1>1. /\ UNCHANGED <<stage, program, redirect, target, pc, fetchUop, aluResult, decUop,
                     issuedUop, renamedUop, mapTable, committedMap, entries, robTail, intRf>>
      /\ UNCHANGED <<robRing, dmemReq, dmemResp, memory>>
  BY DEF vars, branchVars, frontendVars, pipeVars, renameVars, memoryVars, robRing
<1>2. NextFetch' = NextFetch /\ (RedirectComing => RedirectComing')
  BY <1>1 DEF NextFetch, RedirectComing
<1>3. \A i \in Slots : Awaits(i)' <=> Awaits(i)
  BY <1>1 DEF Awaits
<1>4. RedirectInv' /\ FlowInv' /\ ResultIs'
  <2>1. RedirectInv' /\ ResultIs'
    BY <1>1 DEF IsaInv, RedirectInv, ResultIs, Executed, Source
  <2>2. FlowInv'
    BY <1>1 DEF IsaInv, FlowInv, Genuine, MapBefore, Pending, NextSlot
  <2> QED
    BY <2>1, <2>2
<1> QED
  BY <1>1, <1>2, <1>3, <1>4, QuietKeeps DEF IsaInv

LEMMA IsaInvInit == Init => IsaInv /\ Arch!Init
<1> SUFFICES ASSUME Init PROVE IsaInv /\ Arch!Init
  OBVIOUS
<1>1. /\ stage = "branch" /\ redirect = FALSE /\ aluResult = NoResult
      /\ \A i \in Slots : ~entries[i].valid
      /\ RobEmpty /\ robState # "EXCEPTION" /\ dmemReq = <<>>
      /\ memory = [a \in Word |-> 0] /\ intRf = [p \in Preg |-> 0]
      /\ pc = ResetVector /\ committedMap \in [Reg -> Preg]
  BY BaseInvInit DEF Init, RobInit, RobEmpty, EmptyEntry, LsuInit, FrontendInit, BaseInv,
                     RenameTypeOK
<1>2. IsaInv
  BY <1>1 DEF IsaInv, RedirectInv, FlowInv, ResultIs, HeldInv, RanInv, MemInv, FaultInv,
              Waits, ChainInv, TrapInv, NoResult
<1>3. ArchPc = ResetVector
  BY <1>1 DEF ArchPc, NoResult
<1>4. ArchRegs = [r \in Reg |-> 0]
  BY <1>1 DEF ArchRegs, Source
<1>5. ArchMem = [a \in Word |-> 0]
  <2>1. \A a \in Word : StoresTo(a) = {}
    BY <1>1 DEF StoresTo
  <2> QED
    BY <1>1, <2>1 DEF ArchMem
<1>6. (robState = "EXCEPTION") = FALSE
  BY <1>1
<1> QED
  BY <1>2, <1>3, <1>4, <1>5, <1>6, ArchOps DEF Arch!Init

\* Every step of the core is one of the machine, or none.
LEMMA IsaInvStep ==
    ASSUME CoreInv, CoreInv', RegsInv, LoadsInv, IsaInv, Undisturbed, [Next]_vars
    PROVE  /\ IsaInv' /\ (ArchSame \/ Arch!Next)
           /\ CommitEcall => (ioSuccess' <=> ArchRegs[A0] = 0)
<1>1. /\ RoomForUop /\ RegisterLeft
      /\ FlushFindsNothing /\ SourcesArrived /\ EcallAlone
  BY DEF Undisturbed, NothingLost
<1>2. CommitEcall => (ioSuccess' <=> ArchRegs[A0] = 0)
  BY <1>1, CommitEcallKeepsIsa
<1>3. CASE Branch
  BY <1>2, <1>3, BranchKeepsIsa
<1>4. CASE LsuStage
  BY <1>2, <1>4, LsuKeepsIsa
<1>5. CASE FetchStopped \/ FetchWaits \/ FetchReads
  BY <1>2, <1>5, FetchKeepsIsa
<1>6. CASE Decode
  BY <1>2, <1>6, DecodeKeepsIsa
<1>7. CASE RenameStage
  BY <1>1, <1>2, <1>7, RenameKeepsIsa
<1>8. CASE RobAllocate
  BY <1>1, <1>2, <1>8, RobAllocateKeepsIsa
<1>9. CASE Issue
  BY <1>2, <1>9, IssueKeepsIsa
<1>10. CASE Execute
  BY <1>1, <1>2, <1>10, ExecuteKeepsIsa
<1>11. CASE CommitFlush
  BY <1>1, <1>2, <1>11, CommitFlushKeepsIsa
<1>12. CASE CommitNothing
  BY <1>2, <1>12, CommitNothingKeepsIsa
<1>13. CASE CommitTrap
  BY <1>2, <1>13, CommitTrapKeepsIsa
<1>14. CASE CommitHead
  BY <1>2, <1>14, CommitHeadKeepsIsa
<1>15. CASE CommitEcall
  BY <1>1, <1>2, <1>15, CommitEcallKeepsIsa
<1>16. CASE Memory
  BY <1>2, <1>16, MemoryKeepsIsa
<1>17. CASE UNCHANGED vars
  BY <1>2, <1>17, StutterKeepsIsa
<1> QED
  BY <1>3, <1>4, <1>5, <1>6, <1>7, <1>8, <1>9, <1>10, <1>11, <1>12, <1>13, <1>14, <1>15,
     <1>16, <1>17 DEF Next, Cycle

\* Under it, the invariant holds in every state.
LEMMA IsaInvAlways ==
    Spec /\ []Undisturbed => [](CoreInv /\ RegsInv /\ LoadsInv /\ IsaInv)
<1>1. Undisturbed => RoomForUop /\ RegisterLeft
  BY DEF Undisturbed, NothingLost
<1>2. CoreInv /\ CoreInv' /\ RegsInv /\ LoadsInv /\ IsaInv /\ Undisturbed /\ [Next]_vars
          => IsaInv'
  BY IsaInvStep
<1>3. Init => IsaInv
  BY IsaInvInit
<1> QED
  BY <1>1, <1>2, <1>3, CoreInvAlways, RegsInvAlways, LoadsInvAlways, PTL DEF Spec

\* The core executes its program: as long as no stage loses or skips anything, the
\* instructions that rob_commit retires are those that a machine without a pipeline
\* executes, in its order and with its registers, memory and traps, for every program,
\* every depth of the queues and however long the memories take.
THEOREM CoreExecutesProgram == Spec /\ []Undisturbed => ExecutesProgram
<1>1. Init => Arch!Init
  BY IsaInvInit
<1>2. CoreInv /\ CoreInv' /\ RegsInv /\ LoadsInv /\ IsaInv /\ Undisturbed /\ [Next]_vars
          => [Arch!Next]_<<program, Arch!archVars>>
  <2>1. ArchSame => UNCHANGED <<program, Arch!archVars>>
    BY DEF ArchSame, Arch!archVars
  <2> QED
    BY <2>1, IsaInvStep
<1> QED
  BY <1>1, <1>2, IsaInvAlways, PTL DEF Spec, ExecutesProgram, Arch!Spec

\* ECALL reports the a0 of that machine: io.success, which rob_commit reads through the
\* speculative map, tells whether the program itself left 0 in a0.
THEOREM CoreEcallReportsA0 == Spec /\ []Undisturbed => EcallReportsA0
<1>1. CoreInv /\ CoreInv' /\ RegsInv /\ LoadsInv /\ IsaInv /\ Undisturbed /\ [Next]_vars
          => [CommitEcall => (ioSuccess' <=> ArchRegs[A0] = 0)]_vars
  BY IsaInvStep
<1> QED
  BY <1>1, IsaInvAlways, PTL DEF Spec, EcallReportsA0

-----------------------------------------------------------------------------
(* Programs that nothing disturbs.  With a data memory that does its work  *)
(* between two cycles, and no transfer right behind a load, a cycle starts *)
(* with at most one uop in the ROB, and the uop that follows it comes when *)
(* its load has returned, or after it has left.                            *)

Settled ==
    /\ IdealMemory
    /\ RobSlots > 1
    /\ IntPhysRegs > LogicalRegs + 2
    /\ \A p \in Programs, a \in Word :
          /\ p[a].op \notin {"illload", "illstore"}
          /\ p[a].op = "load" => ~IsTransfer(p[Plus(a, 1)])

\* The ROB holds no uop but the n oldest.
AtMost(n) == \A i \in Slots : entries[i].valid => Pos(i) < n

\* A load whose answer is on its way, a load that has it, and any other uop that
\* has nothing left to wait for.
Waiting(e) == e.uop.inst.op = "load" /\ Waits(e)
Arrived(e) == e.uop.inst.op = "load" /\ ~e.busy /\ e.mem.completed
Done(e) ==
    /\ e.uop.inst.op # "load"
    /\ ~e.busy
    /\ e.uop.inst.op = "store" => e.mem.valid /\ dmemReq = <<>>

\* The uop at the head was executed in the last cycle.
JustRun ==
    /\ aluResult.valid
    /\ aluResult.uop.rob = robHead
    /\ ~requestSent
    /\ entries[robHead].uop.inst.op \notin {"load", "store"} => ~entries[robHead].busy

BeforeLsu ==
    /\ AtMost(1)
    /\ entries[robHead].valid => JustRun \/ Waiting(entries[robHead])

BeforeFetch ==
    /\ AtMost(1)
    /\ entries[robHead].valid =>
          \/ Arrived(entries[robHead])
          \/ ~requestSent /\ (Waiting(entries[robHead]) \/ Done(entries[robHead]))

BeforeAllocate ==
    /\ AtMost(1)
    /\ fetchUop # NoUop => ~requestSent
    /\ entries[robHead].valid =>
          \/ /\ Arrived(entries[robHead])
             /\ fetchUop # NoUop => ~IsTransfer(fetchUop.inst)
          \/ /\ fetchUop = NoUop
             /\ Waiting(entries[robHead]) \/ Done(entries[robHead])

\* The uop of this cycle is the only one, or there is one load in front of it.
Alone == AtMost(1) /\ renamedUop.rob = robHead
Behind ==
    /\ AtMost(2)
    /\ renamedUop.rob = NextSlot(robHead)
    /\ entries[robHead].valid /\ Arrived(entries[robHead])
    /\ ~IsTransfer(renamedUop.inst)

BeforeCommit ==
    IF renamedUop = NoUop
    THEN /\ AtMost(1)
         /\ entries[robHead].valid => \/ Arrived(entries[robHead])
                                      \/ Waiting(entries[robHead])
                                      \/ Done(entries[robHead])
    ELSE ~requestSent /\ entries[renamedUop.rob].valid /\ (Alone \/ Behind)

\* Nothing is left behind a redirect.
Running ==
    /\ IF stage = "branch" THEN aluResult.valid /\ aluResult.redirect => AtMost(0)
       ELSE redirect => AtMost(0)
    /\ stage = "lsu" => dmemReq = <<>>
    /\ stage \in {"branch", "lsu"} => BeforeLsu
    /\ stage = "frontend" => BeforeFetch
    /\ stage \in {"decode", "rename", "rob_allocate"} => BeforeAllocate
    /\ stage \in {"issue", "execute", "rob_commit"} => BeforeCommit

\* After a trap the pipeline runs dry.
Stopped ==
    /\ AtMost(2)
    /\ ~redirect
    /\ aluResult.valid => ~aluResult.redirect
    /\ stage \in {"decode", "rename", "rob_allocate"} => fetchUop = NoUop
    /\ stage \in {"issue", "execute", "rob_commit"} => renamedUop = NoUop

\* The uop of this cycle is executed in this cycle.
ResultComes ==
    stage = "rob_commit" =>
        IF renamedUop = NoUop THEN aluResult = NoResult
        ELSE aluResult.valid /\ aluResult.uop = renamedUop

PaceInv ==
    /\ committedMap[0] = 0
    /\ ResultComes
    /\ IF robState = "EXCEPTION" THEN Stopped ELSE Running

-----------------------------------------------------------------------------
(* Lemmas about the one or two uops in the ROB.                            *)

LEMMA HeadPos ==
    ASSUME RingInv
    PROVE  /\ robHead \in Slots /\ Pos(robHead) = 0
           /\ \A i \in Slots : /\ Pos(i) \in Nat
                               /\ Pos(i) = 0 => i = robHead
                               /\ Pos(i) = 1 => i = NextSlot(robHead)
<1>1. robHead \in Slots
  BY DEF RingInv, RobTypeOK
<1>2. Pos(robHead) = 0
  BY <1>1, RobSlotsAssumption DEF Pos, Slots
<1>3. ASSUME NEW i \in Slots
      PROVE  Pos(i) \in Nat /\ (Pos(i) = 0 => i = robHead)
  BY <1>1, RobSlotsAssumption DEF Pos, Slots
<1> QED
  BY <1>1, <1>2, <1>3, NextByPos

LEMMA AtMostIs ==
    ASSUME RingInv
    PROVE  /\ AtMost(0) <=> RobEmpty
           /\ AtMost(0) => \A i \in Slots : ~entries[i].valid
           /\ AtMost(1) => \A i \in Slots : entries[i].valid => i = robHead
           /\ AtMost(1) => AtMost(2)
           /\ AtMost(2) =>
                 \A i \in Slots : entries[i].valid => i \in {robHead, NextSlot(robHead)}
<1>1. /\ robHead \in Slots /\ Pos(robHead) = 0
      /\ \A i \in Slots : /\ Pos(i) \in Nat
                          /\ Pos(i) = 0 => i = robHead
                          /\ Pos(i) = 1 => i = NextSlot(robHead)
  BY HeadPos
<1>2. AtMost(0) => \A i \in Slots : ~entries[i].valid
  BY <1>1 DEF AtMost
<1>3. AtMost(0) => RobEmpty
  BY <1>1, <1>2, HeadHolds
<1>4. RobEmpty => AtMost(0)
  BY DEF RobEmpty, RingInv, RobTypeOK, RobWindow, InWindow, AtMost, Slots
<1> QED
  BY <1>1, <1>2, <1>3, <1>4 DEF AtMost

LEMMA AtMostKept ==
    ASSUME NEW n, robHead' = robHead,
           \A i \in Slots : entries'[i].valid = entries[i].valid
    PROVE  AtMost(n)' <=> AtMost(n)
  BY DEF AtMost, Pos

\* With one uop there is room for another, right behind it.
LEMMA RoomBehind ==
    ASSUME RingInv, AtMost(1), RobSlots > 1
    PROVE  /\ NextSlot(robHead) \in Slots /\ NextSlot(robHead) # robHead
           /\ ~RobFull
           /\ robTail = IF RobEmpty THEN robHead ELSE NextSlot(robHead)
<1> DEFINE n == NextSlot(robHead)
<1>1. /\ RobSlots \in Nat /\ robHead \in 0 .. RobSlots - 1 /\ robTail \in 0 .. RobSlots - 1
      /\ robHead \in Slots
      /\ maybeFull => robHead = robTail
  BY RobSlotsAssumption DEF RingInv, RobTypeOK, RobWindow, Slots
<1>2. n \in Slots /\ n = IF robHead = RobSlots - 1 THEN 0 ELSE robHead + 1
  BY <1>1, NextSlotIs
<1>3. n # robHead
  BY <1>1, <1>2
<1>4. ~InWindow(n)
  BY <1>2, <1>3, AtMostIs DEF RingInv, RobWindow
<1> QED
  BY <1>1, <1>2, <1>3, <1>4 DEF InWindow, RobFull, RobEmpty

\* A uop of such a program is none of those that decode marks as memory operations
\* with an illegal funct3.
LEMMA HeldLegal ==
    ASSUME Settled, CoreInv, IsaInv, NEW i \in Slots, entries[i].valid
    PROVE  LET u == entries[i].uop
           IN  /\ u.inst = program[u.pc] /\ u.pc \in Word
               /\ CtrlIsLoad(u.inst) <=> u.inst.op = "load"
               /\ CtrlIsSta(u.inst) <=> u.inst.op = "store"
               /\ u.inst.op = "load" => ~IsTransfer(program[Plus(u.pc, 1)])
<1> DEFINE u == entries[i].uop
<1>1. u.pc \in Word
  BY HeldTypes DEF CoreInv, BaseInv
<1>2. u.inst = program[u.pc]
  BY DEF IsaInv, HeldInv, Genuine
<1>3. program \in Programs
  BY DEF CoreInv, BaseInv, PipeTypeOK
<1> HIDE DEF u
<1>4. /\ program[u.pc].op \notin {"illload", "illstore"}
      /\ program[u.pc].op = "load" => ~IsTransfer(program[Plus(u.pc, 1)])
  BY <1>1, <1>3 DEF Settled
<1> QED
  BY <1>1, <1>2, <1>4 DEF CtrlIsLoad, CtrlIsSta, u

-----------------------------------------------------------------------------
(* The actions, one by one.                                                *)

LEMMA BranchKeepsPace ==
    ASSUME Settled, PaceInv, Branch
    PROVE  PaceInv'
<1>1. /\ stage = "branch" /\ stage' = "lsu"
      /\ dmemReq' = <<>>
      /\ redirect' <=> aluResult.valid /\ aluResult.redirect
      /\ UNCHANGED <<aluResult, entries, robHead, robState, requestSent, committedMap>>
  BY DEF Branch, At, Settled, frontendVars, pipeVars, renameVars, robRing, memoryVars
<1>2. AtMost(0)' <=> AtMost(0)
  BY <1>1, AtMostKept
<1>3. AtMost(1)' <=> AtMost(1)
  BY <1>1, AtMostKept
<1>4. AtMost(2)' <=> AtMost(2)
  BY <1>1, AtMostKept
<1>5. BeforeLsu => BeforeLsu'
  BY <1>1, <1>3 DEF BeforeLsu, JustRun, Waiting, Waits
<1>6. Stopped => Stopped'
  BY <1>1, <1>4 DEF Stopped
<1>7. Running => Running'
  BY <1>1, <1>2, <1>5 DEF Running
<1> QED
  BY <1>1, <1>6, <1>7 DEF PaceInv, ResultComes

LEMMA MemoryKeepsPace ==
    ASSUME PaceInv, Memory
    PROVE  PaceInv'
<1>1. /\ stage = "branch" /\ stage' = "branch"
      /\ UNCHANGED <<redirect, aluResult, entries, robHead, robState, requestSent,
                     committedMap>>
  BY DEF Memory, branchVars, frontendVars, pipeVars, renameVars, robRing
<1>2. AtMost(0)' <=> AtMost(0)
  BY <1>1, AtMostKept
<1>3. AtMost(1)' <=> AtMost(1)
  BY <1>1, AtMostKept
<1>4. AtMost(2)' <=> AtMost(2)
  BY <1>1, AtMostKept
<1>5. BeforeLsu => BeforeLsu'
  BY <1>1, <1>3 DEF BeforeLsu, JustRun, Waiting, Waits
<1>6. Stopped => Stopped'
  BY <1>1, <1>4 DEF Stopped
<1>7. Running => Running'
  BY <1>1, <1>2, <1>5 DEF Running
<1> QED
  BY <1>1, <1>6, <1>7 DEF PaceInv, ResultComes

\* The entry of a load that is sent.
LEMMA SentMem ==
    ASSUME NEW es \in [Slots -> Entry], NEW s \in Slots
    PROVE  LET f == [es EXCEPT ![s].mem.sent = TRUE][s]
           IN  /\ f.valid = es[s].valid /\ f.uop = es[s].uop /\ f.busy = es[s].busy
               /\ f.mem.sent = TRUE /\ f.mem.completed = es[s].mem.completed
<1>1. es[s] \in Entry /\ es[s].mem \in MemInfo
  BY DEF Entry
<1> DEFINE f == [es EXCEPT ![s].mem.sent = TRUE][s]
<1>2. f = [es[s] EXCEPT !.mem = [es[s].mem EXCEPT !.sent = TRUE]]
  BY <1>1
<1> HIDE DEF f
<1>3. /\ f.valid = es[s].valid /\ f.uop = es[s].uop /\ f.busy = es[s].busy
      /\ f.mem = [es[s].mem EXCEPT !.sent = TRUE]
  BY <1>1, <1>2 DEF Entry
<1>4. f.mem.sent = TRUE /\ f.mem.completed = es[s].mem.completed
  BY <1>1, <1>3 DEF MemInfo
<1> QED
  BY <1>3, <1>4 DEF f

\* What the LSU makes of a single uop, when every request has reached the memory:
\* it reads the answer of a load that waits; it sends a load that was executed in
\* the last cycle, and takes the data of a store.
LEMMA LsuAtHead ==
    ASSUME CoreInv, LoadsInv, LsuStage, BeforeLsu, dmemReq = <<>>, entries[robHead].valid
    PROVE  \/ Arrived(entries[robHead])'
           \/ ~requestSent' /\ (Waiting(entries[robHead])' \/ Done(entries[robHead])')
<1> DEFINE e1 == WithResponse
           e2 == WithAddress(e1, aluResult)
           s == aluResult.uop.rob
<1>1. /\ stage = "lsu" /\ SendLoad(e2, loadPending /\ ~Answered)
      /\ robHead' = robHead /\ requestSent' = requestSent
      /\ entries \in [Slots -> Entry] /\ AnswerIsWord /\ LsuTypeOK /\ robHead \in Slots
      /\ aluResult \in AluResult \cup {NoResult} /\ ResultInv /\ RingInv
      /\ OneLoad /\ MemFields(entries, loadPending, pendingRob)
  BY TypedAnswer DEF LsuStage, At, LsuModule, frontendVars, CoreInv, BaseInv, RingInv,
                     RobTypeOK, PipeTypeOK, LoadsInv
<1>2. loadPending => Answered
  <2> SUFFICES ASSUME loadPending PROVE Answered
    OBVIOUS
  <2>1. dmemResp # <<>>
    BY <1>1 DEF OneLoad
  <2>2. dmemResp[1].tx = pendingTx
    BY <1>1, <2>1 DEF OneLoad
  <2> QED
    BY <2>1, <2>2 DEF Answered
<1>3. \A i \in Slots : entries[i].valid => i = robHead
  BY <1>1, AtMostIs DEF BeforeLsu
<1>4. /\ e1 \in [Slots -> Entry]
      /\ \A i \in Slots : e1[i].valid = entries[i].valid /\ e1[i].uop = entries[i].uop
  BY <1>1, ResponseKeepsEntries
<1>5. \A i \in Slots : entries[i].valid /\ entries[i].mem = NoMem => e1[i] = entries[i]
  BY <1>1, ResponseStep
<1>6. Completes => e1 = [entries EXCEPT ![pendingRob] =
                                    Returned(entries[pendingRob], Head(dmemResp))]
  BY DEF WithResponse
<1> HIDE DEF e1
<1>7. /\ e2 \in [Slots -> Entry]
      /\ \A i \in Slots : e2[i].valid = entries[i].valid /\ e2[i].uop = entries[i].uop
  BY <1>1, <1>4, AddressKeepsEntries
<1>8. /\ ~TakesAddress(e1) => e2 = e1
      /\ TakesAddress(e1) => /\ aluResult \in AluResult /\ s \in Slots
                             /\ e2 = [e1 EXCEPT ![s] = Addressed(e1[s], aluResult)]
  BY <1>1, <1>4, AddressIs
<1>9. TakesAddress(e1) => s = robHead /\ Fresh(aluResult.uop)
  BY <1>1, <1>3, <1>4, <1>8 DEF TakesAddress, ResultInv
<1> HIDE DEF e2
<1>10. \A k \in Slots : MaySend(e2, k) =>
          SlotFromHead(k) = robHead /\ e2[robHead].mem.isLoad /\ ~e2[robHead].mem.sent
  BY <1>1, <1>3, <1>7, SentSlot DEF MaySend
<1>11. ~e2[robHead].mem.isLoad \/ e2[robHead].mem.sent =>
          entries' = e2 /\ dmemReq' = dmemReq
  BY <1>1, <1>10 DEF SendLoad
<1>12. CASE Waiting(entries[robHead])
  <2>1. /\ Completes /\ pendingRob = robHead
        /\ entries[robHead].mem.isLoad /\ entries[robHead].mem.sent
        /\ entries[robHead].uop.inst.op = "load"
    BY <1>1, <1>2, <1>12 DEF Waiting, Waits, MemFields, Completes
  <2>2. e1[robHead] = Returned(entries[robHead], Head(dmemResp))
    BY <1>1, <1>6, <2>1
  <2>3. entries[robHead] \in Entry /\ Head(dmemResp).data \in Word
    BY <1>1, <2>1 DEF AnswerIsWord, Completes
  <2>4. /\ e1[robHead].mem.sent /\ e1[robHead].mem.completed /\ ~e1[robHead].busy
        /\ e1[robHead].uop.inst.op = "load"
    <3>1. LET m == Returned(entries[robHead], Head(dmemResp)).mem
          IN  m.sent = entries[robHead].mem.sent /\ m.completed = TRUE
      BY <2>3, ReturnedMem
    <3>2. ~Returned(entries[robHead], Head(dmemResp)).busy
      BY <2>3 DEF Returned, Entry
    <3> QED
      BY <1>1, <1>4, <2>1, <2>2, <3>1, <3>2
  <2>5. ~TakesAddress(e1)
    BY <1>9, <2>1 DEF Fresh, NoMem
  <2>6. entries'[robHead] = e1[robHead]
    BY <1>8, <1>11, <2>4, <2>5
  <2> QED
    BY <1>1, <2>4, <2>6 DEF Arrived
<1>13. CASE JustRun
  <2>1. /\ aluResult.valid /\ s = robHead /\ ~requestSent /\ Fresh(aluResult.uop)
        /\ aluResult \in AluResult /\ e1[robHead] = entries[robHead]
        /\ entries[robHead].uop = aluResult.uop /\ entries[robHead].mem = NoMem
        /\ aluResult.isLoad <=> entries[robHead].uop.inst.op = "load"
        /\ aluResult.isStore <=> entries[robHead].uop.inst.op = "store"
        /\ entries[robHead] \in Entry
    BY <1>1, <1>5, <1>13 DEF JustRun, ResultInv, Fresh, NoResult
  <2>2. CASE entries[robHead].uop.inst.op \in {"load", "store"}
    <3> DEFINE f == Addressed(entries[robHead], aluResult)
    <3>1. e2[robHead] = f
      BY <1>1, <1>4, <1>8, <2>1, <2>2 DEF TakesAddress
    <3>0. entries[robHead] \in Entry /\ aluResult \in AluResult
      BY <2>1
    <3>2. /\ f.busy = (entries[robHead].busy /\ ~aluResult.isStore)
          /\ f.mem.valid = TRUE /\ f.mem.isLoad = aluResult.isLoad
      BY <3>0, AddressedType
    <3>3. /\ f.mem.sent = entries[robHead].mem.sent
          /\ f.mem.completed = (entries[robHead].mem.completed \/ aluResult.isStore)
      BY <3>0, AddressedMem
    <3> HIDE DEF f
    <3>4. CASE entries[robHead].uop.inst.op = "store"
      <4>1. entries' = e2 /\ dmemReq' = <<>>
        BY <1>11, <2>1, <3>1, <3>2, <3>4
      <4> QED
        BY <1>1, <1>7, <2>1, <3>1, <3>2, <3>4, <4>1 DEF Done
    <3>5. CASE entries[robHead].uop.inst.op = "load"
      <4>1. 0 \in Slots /\ SlotFromHead(0) = robHead
        BY <1>1, HeadPos, PosIs
      <4>2. ~e2[robHead].mem.sent /\ ~e2[robHead].mem.completed
        <5>1. /\ entries[robHead].mem.sent = FALSE /\ entries[robHead].mem.completed = FALSE
              /\ aluResult.isStore = FALSE
          BY <2>1, <3>0, <3>5 DEF NoMem, AluResult
        <5> QED
          BY <3>1, <3>3, <5>1, Zenon
      <4>3. MaySend(e2, 0)
        <5>1. ~DmemFull
          BY DmemDepthAssumption DEF DmemFull
        <5>2. ~OlderStore(e2, 0)
          BY DEF OlderStore
        <5> QED
          BY <1>1, <1>7, <2>1, <3>1, <3>2, <3>5, <4>1, <4>2, <5>1, <5>2 DEF MaySend
      <4>4. entries' = [e2 EXCEPT ![robHead].mem.sent = TRUE]
        <5>1. PICK k \in Slots : /\ MaySend(e2, k)
                                 /\ entries' = [e2 EXCEPT ![SlotFromHead(k)].mem.sent = TRUE]
          BY <1>1, <1>2, <4>1, <4>3 DEF SendLoad
        <5> QED
          BY <1>10, <5>1
      <4>5. LET h == entries'[robHead]
            IN  /\ h.valid = e2[robHead].valid /\ h.uop = e2[robHead].uop
                /\ h.mem.sent = TRUE /\ h.mem.completed = e2[robHead].mem.completed
        BY <1>1, <1>7, <4>4, SentMem
      <4> QED
        BY <1>1, <1>7, <2>1, <3>5, <4>2, <4>5 DEF Waiting, Waits
    <3> QED
      BY <2>2, <3>4, <3>5
  <2>3. CASE entries[robHead].uop.inst.op \notin {"load", "store"}
    <3>1. e2 = e1
      BY <1>8, <2>1, <2>3 DEF TakesAddress
    <3>2. entries' = e1
      BY <1>11, <2>1, <3>1 DEF NoMem
    <3> QED
      BY <1>1, <1>13, <2>1, <2>3, <3>2 DEF JustRun, Done
  <2> QED
    BY <2>2, <2>3
<1> QED
  BY <1>12, <1>13 DEF BeforeLsu

LEMMA LsuKeepsPace ==
    ASSUME CoreInv, LoadsInv, PaceInv, LsuStage
    PROVE  PaceInv'
<1>1. /\ stage = "lsu" /\ stage' = "frontend"
      /\ UNCHANGED <<redirect, aluResult, robHead, robState, committedMap>>
      /\ LsuModule(aluResult)
  BY DEF LsuStage, At, LsuModule, branchVars, pipeVars, renameVars
<1>2. \A i \in Slots : entries'[i].valid = entries[i].valid
  BY <1>1, LsuKeepsEntries, TypedAnswer DEF CoreInv, BaseInv
<1>3. AtMost(0)' <=> AtMost(0)
  BY <1>1, <1>2, AtMostKept
<1>4. AtMost(1)' <=> AtMost(1)
  BY <1>1, <1>2, AtMostKept
<1>5. AtMost(2)' <=> AtMost(2)
  BY <1>1, <1>2, AtMostKept
<1>6. Stopped => Stopped'
  BY <1>1, <1>5 DEF Stopped
<1>7. Running => Running'
  <2> SUFFICES ASSUME Running PROVE Running'
    OBVIOUS
  <2>1. BeforeLsu /\ dmemReq = <<>> /\ (redirect => AtMost(0))
    BY <1>1 DEF Running
  <2>2. entries[robHead].valid =>
          \/ Arrived(entries[robHead])'
          \/ ~requestSent' /\ (Waiting(entries[robHead])' \/ Done(entries[robHead])')
    BY <2>1, LsuAtHead
  <2>3. entries'[robHead'].valid = entries[robHead].valid
    BY <1>1, <1>2, HeadPos DEF CoreInv, BaseInv
  <2>4. BeforeFetch'
    BY <1>4, <2>1, <2>2, <2>3 DEF BeforeLsu, BeforeFetch
  <2> QED
    BY <1>1, <1>3, <2>1, <2>4 DEF Running
<1> QED
  BY <1>1, <1>6, <1>7 DEF PaceInv, ResultComes

\* An answer is taken only by a call that finds its request sent, and then no other
\* request is.
LEMMA AcceptedWasSent ==
    ASSUME FrontendInv, NEW r \in BOOLEAN, NEW t \in Word, NEW p \in Programs,
           FrontendReads(r, t, p), fetchUop' # NoUop
    PROVE  requestSent /\ ~r /\ ~requestSent'
<1>1. /\ Head(fetches) = fetches[1] /\ Len(fetches) \in Nat \ {0}
      /\ Len(fetches) <= MaxFetches /\ fetchId \in Ids
      /\ Recent(fetches, fetchId) /\ SendFetch(r)
  BY ReadsQueue DEF FrontendInv, FrontendTypeOK, Ids
<1>2. fetches[1].id = Ago(fetchId, Len(fetches))
  <2>1. 1 \in 1 .. Len(fetches) /\ Len(fetches) - 1 + 1 = Len(fetches)
    BY <1>1
  <2> QED
    BY <1>1, <2>1 DEF Recent
<1>3. fetches[1].id # fetchId
  BY <1>1, <1>2, AgoDistinct, FetchIdsAssumption
<1>4. /\ (SentAfter(r) \/ Sends(r)) /\ Matches(Head(fetches))
      /\ requestSent' = FALSE
  BY DEF FrontendReads
<1>5. ~Sends(r)
  BY <1>1, <1>3, <1>4 DEF SendFetch, Matches
<1> QED
  BY <1>4, <1>5 DEF SentAfter

LEMMA FetchKeepsPace ==
    ASSUME Settled, CoreInv, IsaInv, PaceInv, FetchStopped \/ FetchWaits \/ FetchReads
    PROVE  PaceInv'
<1>1. /\ stage = "frontend" /\ stage' = "decode"
      /\ UNCHANGED <<program, redirect, aluResult, entries, robHead, robState, dmemReq,
                     committedMap>>
  BY DEF FetchStopped, FetchWaits, FetchReads, FetchFrame, At, branchVars, pipeVars,
         renameVars, memoryVars, robRing
<1>2. redirect \in BOOLEAN /\ target \in Word /\ program \in Programs /\ FrontendInv
      /\ RingInv /\ robHead \in Slots
  BY DEF CoreInv, BaseInv, PipeTypeOK, RingInv, RobTypeOK
<1>3. AtMost(0)' <=> AtMost(0)
  BY <1>1, AtMostKept
<1>4. AtMost(1)' <=> AtMost(1)
  BY <1>1, AtMostKept
<1>5. AtMost(2)' <=> AtMost(2)
  BY <1>1, AtMostKept
<1>6. robState = "EXCEPTION" => fetchUop' = NoUop
  BY DEF FetchStopped, FetchWaits, FetchReads, FrontendStopped
<1>7. Stopped /\ robState = "EXCEPTION" => Stopped'
  BY <1>1, <1>5, <1>6 DEF Stopped
<1>8. fetchUop' # NoUop => requestSent /\ ~requestSent' /\ fetchUop'.inst = program[pc]
                              /\ ~redirect
  <2> SUFFICES ASSUME fetchUop' # NoUop
               PROVE  requestSent /\ ~requestSent' /\ fetchUop'.inst = program[pc]
                              /\ ~redirect
    OBVIOUS
  <2>1. FrontendReads(redirect, target, program)
    BY DEF FetchStopped, FetchWaits, FetchReads, FrontendStopped, FrontendWaits
  <2> QED
    BY <1>2, <2>1, AcceptedWasSent, FetchedIs
<1>9. Running => Running'
  <2> SUFFICES ASSUME Running PROVE Running'
    OBVIOUS
  <2>1. BeforeFetch /\ (redirect => AtMost(0))
    BY <1>1 DEF Running
  <2>2. ASSUME entries[robHead].valid, fetchUop' # NoUop, Arrived(entries[robHead])
        PROVE  ~IsTransfer(fetchUop'.inst)
    <3> DEFINE u == entries[robHead].uop
    <3>1. u.inst.op = "load"
      BY <2>2 DEF Arrived
    <3>2. ~IsTransfer(program[Plus(u.pc, 1)])
      BY <1>2, <2>2, <3>1, HeldLegal
    <3>3. NextSlot(robHead) = robTail
      BY <1>2, <2>1, <2>2, RoomBehind, HeadHolds DEF Settled, BeforeFetch
    <3>4. NextFetch = NextPc(robHead)
      BY <1>2, <2>2, <3>3 DEF IsaInv, ChainInv
    <3>5. ~Jumps(robHead)
      BY <3>1 DEF Jumps, Redirects
    <3>6. NextPc(robHead) = Plus(u.pc, 1)
      BY <3>5 DEF NextPc
    <3>7. NextFetch = pc
      BY <1>1, <1>8, <2>2 DEF NextFetch, IsaInv, RedirectInv
    <3> QED
      BY <1>8, <2>2, <3>2, <3>4, <3>6, <3>7
  <2>3. BeforeAllocate'
    <3>1. Waiting(entries[robHead])' <=> Waiting(entries[robHead])
      BY <1>1 DEF Waiting, Waits
    <3>2. Arrived(entries[robHead])' <=> Arrived(entries[robHead])
      BY <1>1 DEF Arrived
    <3>3. Done(entries[robHead])' <=> Done(entries[robHead])
      BY <1>1 DEF Done
    <3>4. entries'[robHead'].valid = entries[robHead].valid
      BY <1>1
    <3> QED
      BY <1>4, <1>8, <2>1, <2>2, <3>1, <3>2, <3>3, <3>4 DEF BeforeFetch, BeforeAllocate
  <2> QED
    BY <1>1, <1>3, <2>1, <2>3 DEF Running
<1> QED
  BY <1>1, <1>7, <1>9 DEF PaceInv, ResultComes

\* Decode and rename only hand the uop on.
LEMMA HandOnKeepsPace ==
    ASSUME PaceInv, Decode \/ RenameStage
    PROVE  PaceInv'
<1>1. /\ stage \in {"decode", "rename"} /\ stage' \in {"rename", "rob_allocate"}
      /\ UNCHANGED <<redirect, aluResult, entries, robHead, robState, dmemReq,
                     committedMap, fetchUop, requestSent>>
  BY DEF Decode, RenameStage, RenameNothing, RenameUop, RenameTakes, RenameStarves,
         RenameWithoutDst, At, branchVars, frontendVars, pipeVars, renameVars, memoryVars,
         robRing
<1>2. AtMost(0)' <=> AtMost(0)
  BY <1>1, AtMostKept
<1>3. AtMost(1)' <=> AtMost(1)
  BY <1>1, AtMostKept
<1>4. AtMost(2)' <=> AtMost(2)
  BY <1>1, AtMostKept
<1>5. BeforeAllocate => BeforeAllocate'
  BY <1>1, <1>3 DEF BeforeAllocate, Waiting, Waits, Arrived, Done
<1>6. Stopped => Stopped'
  BY <1>1, <1>4 DEF Stopped
<1>7. Running => Running'
  BY <1>1, <1>2, <1>5 DEF Running
<1> QED
  BY <1>1, <1>6, <1>7 DEF PaceInv, ResultComes

LEMMA RobAllocateKeepsPace ==
    ASSUME Settled, CoreInv, IsaInv, PaceInv, RobAllocate
    PROVE  PaceInv'
<1>1. /\ stage = "rob_allocate" /\ stage' = "issue"
      /\ UNCHANGED <<redirect, aluResult, dmemReq, committedMap, requestSent>>
      /\ robState' = "EXCEPTION" <=> robState = "EXCEPTION"
  BY DEF RobAllocate, Allocate, WakeRob, At, branchVars, frontendVars, pipeVars, memoryVars
<1>2. RingInv /\ robHead \in Slots
  BY DEF CoreInv, BaseInv, RingInv, RobTypeOK
<1>3. fetchUop = NoUop <=> renamedUop = NoUop
  BY <1>1 DEF IsaInv, FlowInv
<1>4. CASE renamedUop = NoUop
  <2>1. renamedUop' = NoUop /\ UNCHANGED <<entries, robHead>>
    BY <1>4 DEF RobAllocate
  <2>2. AtMost(0)' <=> AtMost(0)
    BY <2>1, AtMostKept
  <2>3. AtMost(1)' <=> AtMost(1)
    BY <2>1, AtMostKept
  <2>4. AtMost(2)' <=> AtMost(2)
    BY <2>1, AtMostKept
  <2>5. BeforeAllocate => BeforeCommit'
    BY <1>1, <2>1, <2>3 DEF BeforeAllocate, BeforeCommit, Waiting, Waits, Arrived, Done
  <2>6. Stopped => Stopped'
    BY <1>1, <2>1, <2>4 DEF Stopped
  <2>7. Running => Running'
    BY <1>1, <2>2, <2>5 DEF Running
  <2> QED
    BY <1>1, <2>6, <2>7 DEF PaceInv, ResultComes
<1>5. CASE renamedUop # NoUop
  <2> DEFINE u == [renamedUop EXCEPT !.rob = robTail]
  <2>1. robState # "EXCEPTION" /\ Running
    BY <1>1, <1>3, <1>5 DEF PaceInv, Stopped
  <2>2. /\ BeforeAllocate /\ AtMost(1) /\ ~requestSent /\ ~redirect
        /\ renamedUop.inst = fetchUop.inst
    <3>1. BeforeAllocate
      BY <1>1, <2>1 DEF Running
    <3>2. ~redirect /\ renamedUop.inst = fetchUop.inst
      BY <1>1, <1>3, <1>5 DEF IsaInv, FlowInv, Genuine
    <3> QED
      BY <1>3, <1>5, <3>1, <3>2 DEF BeforeAllocate
  <2>3. /\ NextSlot(robHead) \in Slots /\ NextSlot(robHead) # robHead /\ ~RobFull
        /\ robTail = IF RobEmpty THEN robHead ELSE NextSlot(robHead)
        /\ \A i \in Slots : entries[i].valid => i = robHead
    BY <1>2, <2>2, RoomBehind, AtMostIs DEF Settled
  <2>4. /\ entries' = [entries EXCEPT ![robTail] = FreshEntry(u)]
        /\ renamedUop' = u /\ robHead' = robHead
    BY <1>5, <2>3 DEF RobAllocate, Allocate
  <2>5. /\ renamedUop \in MicroOp /\ NoUop \notin MicroOp
        /\ entries \in [Slots -> Entry] /\ robTail \in Slots
    BY <1>2, <1>5, NoUopIsNone DEF CoreInv, BaseInv, RenameTypeOK, RingInv, RobTypeOK
  <2>6. u \in MicroOp /\ u.rob = robTail /\ u.inst = renamedUop.inst
    BY <2>5 DEF MicroOp, Slots
  <2>7. /\ entries'[robTail].valid
        /\ \A i \in Slots : i # robTail => entries'[i] = entries[i]
    BY <2>4, <2>5 DEF FreshEntry
  <2> HIDE DEF u
  <2>8. /\ Pos(robHead) = 0 /\ Pos(NextSlot(robHead)) = 1
        /\ \A i \in Slots : Pos(i)' = Pos(i)
    BY <1>2, <2>3, <2>4, HeadPos, NextByPos DEF Pos
  <2>9. CASE RobEmpty
    <3>1. AtMost(1)'
      BY <1>2, <2>3, <2>7, <2>8, <2>9, HeadHolds DEF AtMost
    <3> QED
      BY <1>1, <2>1, <2>2, <2>3, <2>4, <2>5, <2>6, <2>7, <2>9, <3>1
         DEF PaceInv, ResultComes, Running, BeforeCommit, Alone
  <2>10. CASE ~RobEmpty
    <3>1. AtMost(2)'
      BY <1>2, <2>3, <2>7, <2>8, <2>10 DEF AtMost
    <3>2. entries[robHead].valid /\ entries'[robHead] = entries[robHead]
      BY <1>2, <2>3, <2>7, <2>10, HeadHolds
    <3>3. Arrived(entries[robHead]) /\ ~IsTransfer(u.inst)
      BY <1>3, <1>5, <2>2, <2>6, <3>2 DEF BeforeAllocate
    <3>4. Arrived(entries'[robHead])
      BY <3>2, <3>3
    <3>5. Behind'
      BY <2>3, <2>4, <2>6, <2>10, <3>1, <3>2, <3>3, <3>4 DEF Behind, Arrived, NextSlot
    <3> QED
      BY <1>1, <2>1, <2>2, <2>4, <2>5, <2>6, <2>7, <3>5
         DEF PaceInv, ResultComes, Running, BeforeCommit
  <2> QED
    BY <2>9, <2>10
<1> QED
  BY <1>4, <1>5

LEMMA IssueKeepsPace ==
    ASSUME PaceInv, Issue
    PROVE  PaceInv'
<1>1. /\ stage = "issue" /\ stage' = "execute"
      /\ UNCHANGED <<redirect, aluResult, entries, robHead, robState, dmemReq,
                     committedMap, renamedUop, requestSent>>
  BY DEF Issue, At, branchVars, frontendVars, renameVars, memoryVars, robRing
<1>2. AtMost(0)' <=> AtMost(0)
  BY <1>1, AtMostKept
<1>3. AtMost(1)' <=> AtMost(1)
  BY <1>1, AtMostKept
<1>4. AtMost(2)' <=> AtMost(2)
  BY <1>1, AtMostKept
<1>5. BeforeCommit => BeforeCommit'
  BY <1>1, <1>3, <1>4 DEF BeforeCommit, Alone, Behind, Waiting, Waits, Arrived, Done,
                          NextSlot
<1>6. Stopped => Stopped'
  BY <1>1, <1>4 DEF Stopped
<1>7. Running => Running'
  BY <1>1, <1>2, <1>5 DEF Running
<1> QED
  BY <1>1, <1>6, <1>7 DEF PaceInv, ResultComes

LEMMA ExecuteKeepsPace ==
    ASSUME CoreInv, IsaInv, PaceInv, Execute
    PROVE  PaceInv'
<1>1. /\ stage = "execute" /\ stage' = "rob_commit"
      /\ UNCHANGED <<redirect, entries, robHead, robState, dmemReq, committedMap,
                     renamedUop, requestSent>>
  BY DEF Execute, At, branchVars, frontendVars, renameVars, memoryVars, robRing
<1>2. AtMost(0)' <=> AtMost(0)
  BY <1>1, AtMostKept
<1>3. AtMost(1)' <=> AtMost(1)
  BY <1>1, AtMostKept
<1>4. AtMost(2)' <=> AtMost(2)
  BY <1>1, AtMostKept
<1>5. issuedUop = renamedUop
  BY <1>1 DEF IsaInv, FlowInv
<1>6. IF renamedUop = NoUop THEN aluResult' = NoResult
      ELSE aluResult'.valid /\ aluResult'.uop = renamedUop
  BY <1>5 DEF Execute, Executed
<1>7. BeforeCommit => BeforeCommit'
  BY <1>1, <1>3, <1>4 DEF BeforeCommit, Alone, Behind, Waiting, Waits, Arrived, Done,
                          NextSlot
<1>8. Stopped => Stopped'
  BY <1>1, <1>4, <1>6 DEF Stopped, NoResult
<1>9. Running => Running'
  BY <1>1, <1>2, <1>7 DEF Running
<1> QED
  BY <1>1, <1>6, <1>8, <1>9 DEF PaceInv, ResultComes

\* What the result of this cycle does to the entries.
LEMMA WithResultIs ==
    ASSUME Settled, CoreInv, IsaInv, PaceInv, stage = "rob_commit"
    PROVE  /\ OnlyMarked(WithResult)
           /\ renamedUop = NoUop => WithResult = entries /\ ~aluResult.valid
           /\ renamedUop # NoUop /\ entries[renamedUop.rob].valid =>
                 /\ aluResult = Executed(renamedUop) /\ Fresh(renamedUop)
                 /\ renamedUop.rob \in Slots
                 /\ \A i \in Slots : i # renamedUop.rob => WithResult[i] = entries[i]
                 /\ renamedUop.inst.op \notin {"load", "store"} =>
                       ~WithResult[renamedUop.rob].busy
                 /\ WithResult[renamedUop.rob].exception =>
                       entries[renamedUop.rob].exception \/ Faults(renamedUop.inst)
<1>1. PipeTypeOK /\ RingInv /\ ResultInv /\ entries \in [Slots -> Entry]
  BY DEF CoreInv, BaseInv, RingInv, RobTypeOK
<1>2. OnlyMarked(WithResult)
  BY <1>1, WithResultMarks
<1>3. CASE renamedUop = NoUop
  <2>1. ~aluResult.valid
    BY <1>3 DEF PaceInv, ResultComes, NoResult
  <2> QED
    BY <1>2, <1>3, <2>1 DEF WithResult
<1>4. CASE renamedUop # NoUop /\ entries[renamedUop.rob].valid
  <2> DEFINE s == renamedUop.rob
             i == renamedUop.inst
  <2>1. aluResult.valid /\ aluResult.uop = renamedUop
    BY <1>4 DEF PaceInv, ResultComes
  <2>2. aluResult = Executed(renamedUop) /\ Fresh(renamedUop)
    BY <1>1, <1>4, <2>1 DEF IsaInv, ResultIs, ResultInv
  <2>3. aluResult \in AluResult /\ renamedUop \in MicroOp /\ s \in Slots
    <3>1. aluResult \in AluResult
      BY <1>1, <2>1 DEF PipeTypeOK, NoResult
    <3>2. renamedUop \in MicroOp
      BY <2>1, <3>1 DEF AluResult
    <3>3. s \in Slots
      BY <3>2 DEF MicroOp, Slots
    <3> QED
      BY <3>1, <3>2, <3>3
  <2>4. entries[s].valid /\ entries[s].uop = renamedUop
    BY <2>2 DEF Fresh
  <2>5. CtrlIsLoad(i) \/ CtrlIsSta(i) <=> i.op \in {"load", "store"}
    BY <2>3, <2>4, HeldLegal
  <2>6. aluResult.exception = Faults(i) /\ aluResult.exception \in BOOLEAN
    <3>1. renamedUop.exception = Faults(i)
      BY <2>3, <2>4 DEF IsaInv, HeldInv, Genuine
    <3>2. aluResult.exception = renamedUop.exception
      BY <2>2 DEF Executed
    <3> QED
      BY <2>3, <3>1, <3>2 DEF AluResult
  <2>7. WithResult = IF i.op \in {"load", "store"} THEN entries
                     ELSE MarkDone(entries, s, aluResult.exception)
    BY <2>1, <2>5 DEF WithResult
  <2>8. \A j \in Slots : j # s => WithResult[j] = entries[j]
    BY <1>1, <2>3, <2>6, <2>7, MarkDoneIs
  <2>9. i.op \notin {"load", "store"} => ~WithResult[s].busy
    BY <1>1, <2>3, <2>4, <2>7 DEF MarkDone, Entry
  <2>10. WithResult[s].exception => entries[s].exception \/ Faults(i)
    <3>1. MarkDone(entries, s, aluResult.exception)[s].exception
             = (entries[s].exception \/ aluResult.exception)
      BY <1>1, <2>3, <2>4 DEF MarkDone, Entry
    <3> QED
      BY <2>6, <2>7, <3>1
  <2> QED
    BY <1>2, <1>4, <2>2, <2>3, <2>8, <2>9, <2>10
<1> QED
  BY <1>2, <1>3, <1>4

\* A head that has what it waits for leaves.
LEMMA ReadyLeaves ==
    ASSUME Settled, CoreInv, LoadsInv, IsaInv, NEW es, OnlyMarked(es),
           entries[robHead].valid, Arrived(es[robHead]) \/ Done(es[robHead])
    PROVE  ~HeadWaits(es)
<1> DEFINE h == es[robHead]
<1>1. RingInv /\ robHead \in Slots /\ MemFields(entries, loadPending, pendingRob)
  BY DEF CoreInv, BaseInv, RingInv, RobTypeOK, LoadsInv
<1>2. h.valid /\ h.uop = entries[robHead].uop /\ h.mem = entries[robHead].mem
  BY <1>1 DEF OnlyMarked
<1>3. /\ h.mem.isLoad => h.uop.inst.op = "load"
      /\ h.mem.isStore => h.uop.inst.op = "store"
      /\ CtrlIsLoad(h.uop.inst) <=> h.uop.inst.op = "load"
      /\ CtrlIsSta(h.uop.inst) <=> h.uop.inst.op = "store"
  BY <1>1, <1>2, HeldLegal DEF MemFields
<1>4. HeadReady(es)
  BY <1>1, <1>2, HeadHolds DEF HeadReady, Arrived, Done
<1>5. dmemReq = <<>> => ~DmemFull
  BY DmemDepthAssumption DEF DmemFull
<1> HIDE DEF h
<1>6. CASE Arrived(h)
  BY <1>3, <1>4, <1>6 DEF HeadWaits, Arrived, h
<1>7. CASE Done(h)
  BY <1>3, <1>4, <1>5, <1>7 DEF HeadWaits, Done, h
<1> QED
  BY <1>6, <1>7 DEF h

\* When the head has to wait, it is a load on its way to the memory, or it was
\* executed in this cycle.
LEMMA CommitNothingKeepsPace ==
    ASSUME Settled, CoreInv, LoadsInv, IsaInv, PaceInv, CommitNothing
    PROVE  PaceInv'
<1>1. /\ stage = "rob_commit" /\ stage' = "branch" /\ ~redirect
      /\ HeadWaits(WithResult) /\ entries' = WithResult
      /\ UNCHANGED <<redirect, aluResult, robHead, robState, committedMap, requestSent,
                     renamedUop>>
  BY DEF CommitNothing, CommitFrame, At, branchVars, pipeVars, frontendVars
<1>2. RingInv /\ robHead \in Slots
  BY DEF CoreInv, BaseInv, RingInv, RobTypeOK
<1>3. OnlyMarked(WithResult)
  BY <1>1, WithResultIs
<1>4. \A i \in Slots : entries'[i].valid = entries[i].valid
  BY <1>1, <1>3 DEF OnlyMarked
<1>5. AtMost(1)' <=> AtMost(1)
  BY <1>1, <1>4, AtMostKept
<1>6. robState # "EXCEPTION"
  <2> SUFFICES ASSUME robState = "EXCEPTION" PROVE FALSE
    OBVIOUS
  <2>1. renamedUop = NoUop
    BY <1>1 DEF PaceInv, Stopped
  <2>2. WithResult = entries
    BY <1>1, <2>1, WithResultIs
  <2>3. entries[robHead].valid /\ ~entries[robHead].busy /\ entries[robHead].exception
    BY DEF IsaInv, TrapInv
  <2>4. HeadReady(entries)
    BY <1>2, <2>3, HeadHolds DEF HeadReady
  <2> QED
    BY <1>1, <2>2, <2>3, <2>4 DEF HeadWaits
<1>7. Running /\ BeforeCommit
  BY <1>1, <1>6 DEF PaceInv, Running
<1>8. AtMost(1) /\ (entries[robHead].valid =>
                        \/ renamedUop = NoUop /\ Waiting(entries[robHead])
                        \/ renamedUop # NoUop /\ Alone /\ ~requestSent)
  <2>1. CASE renamedUop = NoUop
    <3>1. WithResult = entries
      BY <1>1, <2>1, WithResultIs
    <3> QED
      BY <1>1, <1>3, <1>7, <2>1, <3>1, ReadyLeaves DEF BeforeCommit
  <2>2. CASE renamedUop # NoUop
    <3>1. ~requestSent /\ entries[renamedUop.rob].valid /\ (Alone \/ Behind)
      BY <1>7, <2>2 DEF BeforeCommit
    <3>2. ~Behind
      <4> SUFFICES ASSUME Behind PROVE FALSE
        OBVIOUS
      <4>1. AtMost(2) /\ renamedUop.rob = NextSlot(robHead) /\ renamedUop.rob \in Slots
            /\ entries[robHead].valid /\ Arrived(entries[robHead])
        BY <1>1, <2>2, <3>1, WithResultIs DEF Behind
      <4>2. NextSlot(robHead) # robHead
        BY <1>2, NextSlotIs, RobSlotsAssumption DEF Settled, Slots
      <4>3. WithResult[robHead] = entries[robHead]
        BY <1>1, <1>2, <2>2, <3>1, <4>1, <4>2, WithResultIs
      <4> QED
        BY <1>1, <1>3, <4>1, <4>3, ReadyLeaves
    <3> QED
      BY <2>2, <3>1, <3>2 DEF Alone
  <2> QED
    BY <2>1, <2>2
<1>9. CASE ~entries[robHead].valid
  <2>1. AtMost(0)'
    BY <1>1, <1>2, <1>4, <1>8, <1>9, AtMostIs DEF AtMost
  <2>2. BeforeLsu'
    BY <1>1, <1>2, <1>4, <1>5, <1>8, <1>9 DEF BeforeLsu
  <2> QED
    BY <1>1, <1>6, <2>1, <2>2 DEF PaceInv, ResultComes, Running
<1>10. CASE entries[robHead].valid /\ renamedUop = NoUop
  <2>1. WithResult = entries /\ ~aluResult.valid
    BY <1>1, <1>10, WithResultIs
  <2>2. BeforeLsu'
    BY <1>1, <1>5, <1>8, <1>10, <2>1 DEF BeforeLsu, Waiting, Waits
  <2> QED
    BY <1>1, <1>6, <2>1, <2>2 DEF PaceInv, ResultComes, Running
<1>11. CASE entries[robHead].valid /\ renamedUop # NoUop
  <2>1. renamedUop.rob = robHead /\ ~requestSent /\ entries[renamedUop.rob].valid
    BY <1>8, <1>11 DEF Alone
  <2>2. /\ aluResult = Executed(renamedUop) /\ Fresh(renamedUop)
        /\ renamedUop.inst.op \notin {"load", "store"} => ~WithResult[robHead].busy
    BY <1>1, <1>11, <2>1, WithResultIs
  <2>3. entries[robHead].uop = renamedUop /\ WithResult[robHead].uop = renamedUop
    BY <1>2, <1>3, <2>1, <2>2 DEF Fresh, OnlyMarked
  <2>4. aluResult.valid /\ aluResult.uop = renamedUop
    BY <2>2 DEF Executed
  <2>5. ~aluResult.redirect
    <3> SUFFICES ASSUME IsTransfer(renamedUop.inst) PROVE FALSE
      BY <2>2 DEF Executed, Redirects, IsTransfer
    <3>1. Done(WithResult[robHead])
      BY <2>2, <2>3 DEF Done, IsTransfer
    <3> QED
      BY <1>1, <1>3, <1>11, <3>1, ReadyLeaves
  <2>6. JustRun'
    BY <1>1, <2>1, <2>2, <2>3, <2>4 DEF JustRun
  <2> QED
    BY <1>1, <1>5, <1>6, <1>8, <2>5, <2>6 DEF PaceInv, ResultComes, Running, BeforeLsu
<1> QED
  BY <1>9, <1>10, <1>11

LEMMA CommitTrapKeepsPace ==
    ASSUME Settled, CoreInv, IsaInv, PaceInv, CommitTrap
    PROVE  PaceInv'
<1>1. /\ stage = "rob_commit" /\ stage' = "branch" /\ ~redirect
      /\ HeadReady(WithResult) /\ WithResult[robHead].exception
      /\ WithResult[robHead].uop.inst.op # "ecall"
      /\ entries' = WithResult /\ robState' = "EXCEPTION"
      /\ UNCHANGED <<redirect, aluResult, robHead, committedMap>>
  BY DEF CommitTrap, CommitFrame, At, branchVars, pipeVars
<1>2. RingInv /\ robHead \in Slots
  BY DEF CoreInv, BaseInv, RingInv, RobTypeOK
<1>3. OnlyMarked(WithResult)
  BY <1>1, WithResultIs
<1>4. AtMost(2)' <=> AtMost(2)
  <2>1. \A i \in Slots : entries'[i].valid = entries[i].valid
    BY <1>1, <1>3 DEF OnlyMarked
  <2> QED
    BY <1>1, <2>1, AtMostKept
<1>5. AtMost(2)
  BY <1>1, <1>2, AtMostIs DEF PaceInv, Stopped, Running, BeforeCommit, Alone, Behind
<1>6. aluResult.valid => ~aluResult.redirect
  <2>1. CASE renamedUop = NoUop
    BY <1>1, <2>1, WithResultIs
  <2>2. CASE renamedUop # NoUop
    <3>1. entries[renamedUop.rob].valid /\ (Alone \/ Behind)
      BY <1>1, <2>2 DEF PaceInv, Stopped, Running, BeforeCommit
    <3>2. /\ aluResult = Executed(renamedUop) /\ Fresh(renamedUop)
          /\ WithResult[renamedUop.rob].exception =>
                entries[renamedUop.rob].exception \/ Faults(renamedUop.inst)
      BY <1>1, <2>2, <3>1, WithResultIs
    <3>3. CASE Behind
      BY <3>2, <3>3 DEF Behind, Executed, Redirects, IsTransfer
    <3>4. CASE Alone
      <4>1. renamedUop.rob = robHead
        BY <3>4 DEF Alone
      <4>2. entries[robHead].uop = renamedUop /\ entries[robHead].mem = NoMem
        BY <3>2, <4>1 DEF Fresh
      <4>3. entries[robHead].exception => Faults(renamedUop.inst)
        BY <1>2, <3>1, <4>1, <4>2 DEF IsaInv, MemInv, MemRight, NoMem
      <4>4. Faults(renamedUop.inst)
        BY <1>1, <3>2, <4>1, <4>3
      <4> QED
        BY <3>2, <4>4 DEF Faults, Executed, Redirects
    <3> QED
      BY <3>1, <3>3, <3>4
  <2> QED
    BY <2>1, <2>2
<1> QED
  BY <1>1, <1>4, <1>5, <1>6 DEF PaceInv, ResultComes, Stopped

\* The head leaves: what is left is a uop that was executed in this cycle.
LEMMA PopKeepsPace ==
    ASSUME Settled, CoreInv, IsaInv, PaceInv, stage = "rob_commit", stage' = "branch",
           ~redirect, PopHead(WithResult), robState # "EXCEPTION",
           UNCHANGED <<aluResult, robState, requestSent>>,
           committedMap'[0] = 0
    PROVE  PaceInv'
<1>1. /\ entries' = [WithResult EXCEPT ![robHead] = EmptyEntry]
      /\ robHead' = NextSlot(robHead)
  BY DEF PopHead
<1>2. RingInv /\ robHead \in Slots /\ NextSlot(robHead) \in Slots
      /\ NextSlot(robHead) # robHead
  BY NextSlotIs, RobSlotsAssumption DEF CoreInv, BaseInv, RingInv, RobTypeOK, Settled, Slots
<1>3. OnlyMarked(WithResult)
  BY WithResultIs
<1>4. /\ ~entries'[robHead].valid
      /\ \A i \in Slots : i # robHead => entries'[i] = WithResult[i]
      /\ \A i \in Slots : entries'[i].valid => entries[i].valid /\ i # robHead
  BY <1>1, <1>2, <1>3 DEF EmptyEntry, OnlyMarked
<1>5. BeforeCommit
  BY DEF PaceInv, Running
<1>6. CASE AtMost(1)
  <2>1. \A i \in Slots : ~entries'[i].valid
    BY <1>2, <1>4, <1>6, AtMostIs
  <2>2. AtMost(0)' /\ AtMost(1)' /\ ~entries'[robHead'].valid
    BY <1>1, <1>2, <2>1 DEF AtMost
  <2> QED
    BY <2>2 DEF PaceInv, ResultComes, Running, BeforeLsu
<1>7. CASE renamedUop # NoUop /\ Behind
  <2>1. /\ ~requestSent /\ entries[renamedUop.rob].valid
        /\ renamedUop.rob = robHead' /\ AtMost(2) /\ ~IsTransfer(renamedUop.inst)
    BY <1>1, <1>5, <1>7 DEF BeforeCommit, Behind
  <2>2. /\ aluResult = Executed(renamedUop) /\ Fresh(renamedUop)
        /\ renamedUop.inst.op \notin {"load", "store"} => ~WithResult[robHead'].busy
    BY <1>7, <2>1, WithResultIs
  <2>3. entries'[robHead'] = WithResult[robHead'] /\ WithResult[robHead'].uop = renamedUop
    BY <1>1, <1>2, <1>3, <1>4, <2>1, <2>2 DEF OnlyMarked, Fresh
  <2>4. \A i \in Slots : entries'[i].valid => i = robHead'
    BY <1>1, <1>2, <1>4, <2>1, AtMostIs
  <2>5. AtMost(1)'
    <3>1. Pos(robHead)' = 0
      BY <1>1, <1>2, RobSlotsAssumption DEF Pos, Slots
    <3> QED
      BY <2>4, <3>1 DEF AtMost
  <2>6. aluResult.valid /\ aluResult.uop = renamedUop /\ ~aluResult.redirect
    BY <2>1, <2>2 DEF Executed, Redirects, IsTransfer
  <2>7. JustRun'
    BY <2>1, <2>2, <2>3, <2>6 DEF JustRun
  <2> QED
    BY <2>5, <2>6, <2>7 DEF PaceInv, ResultComes, Running, BeforeLsu
<1> QED
  BY <1>5, <1>6, <1>7 DEF BeforeCommit, Alone

LEMMA CommitHeadKeepsPace ==
    ASSUME Settled, CoreInv, IsaInv, PaceInv, CommitHead
    PROVE  PaceInv'
<1>1. /\ stage = "rob_commit" /\ stage' = "branch" /\ ~redirect
      /\ ~HeadWaits(WithResult) /\ ~WithResult[robHead].exception
      /\ PopHead(WithResult) /\ CommitMapping(WithResult[robHead].uop)
      /\ UNCHANGED <<aluResult, robState, requestSent>>
  BY DEF CommitHead, CommitFrame, At, pipeVars, frontendVars
<1>2. RingInv /\ robHead \in Slots /\ HeadReady(WithResult)
  BY <1>1 DEF CoreInv, BaseInv, RingInv, RobTypeOK, HeadWaits
<1>3. OnlyMarked(WithResult)
  BY <1>1, WithResultIs
<1>4. entries[robHead].valid /\ WithResult[robHead].uop = entries[robHead].uop
  BY <1>2, <1>3 DEF HeadReady, OnlyMarked
<1>5. robState # "EXCEPTION"
  <2> SUFFICES ASSUME robState = "EXCEPTION" PROVE FALSE
    OBVIOUS
  <2>1. renamedUop = NoUop
    BY <1>1 DEF PaceInv, Stopped
  <2> QED
    BY <1>1, <2>1, WithResultIs DEF IsaInv, TrapInv
<1>6. committedMap'[0] = 0
  <2> DEFINE u == entries[robHead].uop
  <2>1. u.pdst # 0 => u.ldst # 0
    BY <1>2, <1>4 DEF IsaInv, HeldInv, Genuine
  <2>2. committedMap' = IF u.pdst # 0 THEN [committedMap EXCEPT ![u.ldst] = u.pdst]
                        ELSE committedMap
    BY <1>1, <1>4 DEF CommitMapping
  <2>3. committedMap[0] = 0 /\ committedMap \in [Reg -> Preg] /\ 0 \in Reg
    BY Zeros DEF PaceInv, CoreInv, BaseInv, RenameTypeOK
  <2> QED
    BY <2>1, <2>2, <2>3
<1> QED
  BY <1>1, <1>5, <1>6, PopKeepsPace

LEMMA CommitEcallKeepsPace ==
    ASSUME Settled, CoreInv, IsaInv, PaceInv, CommitEcall
    PROVE  PaceInv'
<1>1. /\ stage = "rob_commit" /\ stage' = "branch" /\ ~redirect
      /\ PopHead(WithResult) /\ WithResult[robHead].uop.inst.op = "ecall"
      /\ UNCHANGED <<aluResult, robState, requestSent, committedMap>>
  BY DEF CommitEcall, CommitFrame, At, pipeVars, frontendVars
<1>2. robState # "EXCEPTION"
  <2> SUFFICES ASSUME robState = "EXCEPTION" PROVE FALSE
    OBVIOUS
  <2>1. renamedUop = NoUop
    BY <1>1 DEF PaceInv, Stopped
  <2> QED
    BY <1>1, <2>1, WithResultIs DEF IsaInv, TrapInv
<1> QED
  BY <1>1, <1>2, PopKeepsPace DEF PaceInv

LEMMA CommitFlushKeepsPace ==
    ASSUME PaceInv, CommitFlush
    PROVE  PaceInv'
<1>1. /\ stage' = "branch" /\ robState' = "NORMAL" /\ committedMap' = committedMap
      /\ \A i \in Slots : ~entries'[i].valid
      /\ robHead' = 0
  BY SquashKeepsRing DEF CommitFlush, CommitFrame, At, SquashAll
<1>2. AtMost(0)' /\ AtMost(1)'
  BY <1>1 DEF AtMost
<1>3. ~entries'[robHead'].valid
  BY <1>1, RobSlotsAssumption DEF Slots
<1> QED
  BY <1>1, <1>2, <1>3 DEF PaceInv, ResultComes, Running, BeforeLsu

LEMMA StutterKeepsPace ==
    ASSUME PaceInv, UNCHANGED vars
    PROVE  PaceInv'
<1>1. /\ UNCHANGED <<stage, redirect, aluResult, fetchUop, renamedUop, requestSent,
                     committedMap, entries, robHead, robState, dmemReq>>
  BY DEF vars, branchVars, frontendVars, pipeVars, renameVars, memoryVars, robRing
<1>2. /\ AtMost(0)' <=> AtMost(0)
      /\ AtMost(1)' <=> AtMost(1)
      /\ AtMost(2)' <=> AtMost(2)
  BY <1>1, AtMostKept
<1>3. Stopped => Stopped'
  BY <1>1, <1>2 DEF Stopped
<1>4. Running => Running'
  BY <1>1, <1>2 DEF Running, BeforeLsu, JustRun, Waiting, Waits, BeforeFetch, Arrived, Done,
                    BeforeAllocate, BeforeCommit, Alone, Behind, NextSlot
<1> QED
  BY <1>1, <1>3, <1>4 DEF PaceInv, ResultComes

LEMMA PaceInvInit == Init => PaceInv
<1> SUFFICES ASSUME Init PROVE PaceInv
  OBVIOUS
<1>1. /\ stage = "branch" /\ redirect = FALSE /\ aluResult = NoResult
      /\ committedMap = [r \in Reg |-> 0] /\ robState = "INIT" /\ robHead = 0
      /\ entries = [i \in Slots |-> EmptyEntry]
  BY DEF Init, RobInit, RenameInit
<1>2. \A i \in Slots : ~entries[i].valid
  BY <1>1 DEF EmptyEntry
<1>3. AtMost(0) /\ AtMost(1) /\ ~entries[robHead].valid
  BY <1>1, <1>2, Zeros DEF AtMost
<1> QED
  BY <1>1, <1>3, Zeros DEF PaceInv, ResultComes, Running, BeforeLsu, NoResult

-----------------------------------------------------------------------------
(* Nothing disturbs such a program.                                        *)

\* There is a register for every uop: one for each architectural register but x0,
\* one for the uop at the head, and one for this one.
LEMMA RegistersSuffice ==
    ASSUME Settled, CoreInv, RegsInv, NoneLost, IsaInv, PaceInv
    PROVE  RegisterLeft
<1> SUFFICES ASSUME stage = "rename", decUop # NoUop, freeCount = 1
             PROVE  FALSE
  BY DEF RegisterLeft, RegsInv, FreeListInv
<1>1. /\ LogicalRegs \in Nat /\ IntPhysRegs \in Nat /\ LogicalRegs >= 1
      /\ IntPhysRegs > LogicalRegs + 2
  BY LogicalRegsAssumption, IntPhysRegsAssumption DEF Settled
<1>2. fetchUop # NoUop
  BY DEF IsaInv, FlowInv
<1>3. AtMost(1)
  BY <1>2 DEF PaceInv, Stopped, Running, BeforeAllocate
<1>4. FreeRegs = {}
  BY DEF FreeRegs
<1>5. \A i \in Slots : entries[i].valid => i = robHead
  BY <1>3, AtMostIs DEF CoreInv, BaseInv
<1> DEFINE S == 1 .. LogicalRegs - 1
           T == {committedMap[l] : l \in S}
           f == [l \in S |-> committedMap[l]]
           last == entries[robHead].uop.pdst
<1>6. Handed \subseteq T \cup {last}
  <2> SUFFICES ASSUME NEW p \in Handed PROVE p \in T \cup {last}
    OBVIOUS
  <2>1. InUse(p) /\ p # 0
    BY <1>1, <1>4 DEF NoneLost, Handed
  <2>2. CASE \E i \in Slots : Claims(i) /\ entries[i].uop.pdst = p
    BY <1>5, <2>2 DEF Claims
  <2>3. CASE \E l \in Reg : committedMap[l] = p
    <3> PICK l \in Reg : committedMap[l] = p
      BY <2>3
    <3>1. l # 0
      BY <2>1 DEF PaceInv
    <3>2. l \in S
      BY <1>1, <3>1 DEF Reg
    <3> QED
      BY <3>2
  <2> QED
    BY <2>1, <2>2, <2>3 DEF InUse, Pending
<1>7. IsFiniteSet(S) /\ Cardinality(S) = LogicalRegs - 1
  BY <1>1, FS_Interval
<1>8. IsFiniteSet(T) /\ Cardinality(T) <= LogicalRegs - 1
  <2>1. f \in Surjection(S, T)
    BY DEF Surjection
  <2> QED
    BY <1>7, <2>1, FS_Surjection
<1>9. Cardinality(T) \in Nat
  BY <1>8, FS_CardinalityType
<1>10. IsFiniteSet(T \cup {last}) /\ Cardinality(T \cup {last}) <= LogicalRegs
  <2>1. /\ IsFiniteSet(T \cup {last})
        /\ Cardinality(T \cup {last}) = IF last \in T THEN Cardinality(T)
                                        ELSE Cardinality(T) + 1
    BY <1>8, FS_AddElement
  <2> HIDE DEF T, last
  <2> QED
    BY <1>1, <1>8, <1>9, <2>1
<1>11. Cardinality(T \cup {last}) \in Nat
  BY <1>10, FS_CardinalityType
<1>12. Cardinality(Handed) <= Cardinality(T \cup {last})
  BY <1>6, <1>10, FS_Subset
<1>13. Cardinality(Handed) = IntPhysRegs - 2
  BY <1>1, FS_Interval DEF Handed
<1> HIDE DEF T, last, f
<1> QED
  BY <1>1, <1>10, <1>11, <1>12, <1>13

\* The uop that is executed waits for no load: the one in front of it has its data.
LEMMA SourcesAreThere ==
    ASSUME Settled, CoreInv, RegsInv, IsaInv, PaceInv
    PROVE  SourcesArrived
<1> SUFFICES ASSUME stage = "execute", issuedUop # NoUop,
                    NEW p \in LoadsDue, p \in {issuedUop.prs1, issuedUop.prs2}
             PROVE  p = 0
  BY DEF SourcesArrived
<1> DEFINE s == renamedUop.rob
<1>1. renamedUop # NoUop /\ issuedUop = renamedUop
  BY DEF IsaInv, FlowInv
<1>2. entries[s].valid /\ entries[s].uop = renamedUop
  BY <1>1 DEF CoreInv, BaseInv, OneUop, Fresh
<1>3. entries[s].valid /\ (Alone \/ Behind)
  BY <1>1 DEF PaceInv, Stopped, Running, BeforeCommit
<1>4. /\ RingInv /\ robHead \in Slots
      /\ AtMost(1) => \A i \in Slots : entries[i].valid => i = robHead
      /\ AtMost(2) => \A i \in Slots : entries[i].valid => i \in {robHead, NextSlot(robHead)}
      /\ NextSlot(robHead) \in Slots
  BY AtMostIs, HeadPos, NextSlotIs DEF CoreInv, BaseInv
<1>5. PICK j \in Slots : /\ entries[j].valid /\ entries[j].uop.pdst = p
                         /\ CtrlIsLoad(entries[j].uop.inst) /\ ~entries[j].mem.completed
  BY DEF LoadsDue
<1>6. j = s
  BY <1>3, <1>4, <1>5 DEF Alone, Behind, Arrived
<1>7. s \in Slots /\ Pos(s) \in Nat
  BY <1>4, <1>5, <1>6, HeadPos
<1>8. Claims(s) => p \notin {renamedUop.prs1, renamedUop.prs2}
  BY <1>2, <1>4, <1>5, <1>6, <1>7, ReadsOlder DEF RegsInv, IsaInv
<1> QED
  BY <1>1, <1>2, <1>5, <1>6, <1>8 DEF Claims

\* An ECALL that leaves is the only uop there is.
LEMMA EcallIsAlone ==
    ASSUME Settled, CoreInv, IsaInv, PaceInv
    PROVE  EcallAlone
<1> SUFFICES ASSUME stage = "rob_commit", ~redirect, HeadReady(WithResult),
                    entries[robHead].uop.inst.op = "ecall"
             PROVE  NextSlot(robHead) = robTail
  BY DEF EcallAlone
<1>1. RingInv /\ robHead \in Slots /\ RobSlots > 1
  BY DEF CoreInv, BaseInv, RingInv, RobTypeOK, Settled
<1>2. entries[robHead].valid
  BY <1>1, WithResultIs DEF HeadReady, OnlyMarked
<1>3. robState # "EXCEPTION"
  BY DEF IsaInv, TrapInv
<1>4. AtMost(1)
  BY <1>3 DEF PaceInv, Running, BeforeCommit, Alone, Behind, Arrived
<1> QED
  BY <1>1, <1>2, <1>4, HeadHolds, RoomBehind

LEMMA PaceUndisturbed ==
    ASSUME Settled, CoreInv, RegsInv, NoneLost, IsaInv, PaceInv
    PROVE  Undisturbed
<1>1. RingInv /\ RobSlots > 1
  BY DEF CoreInv, BaseInv, Settled
<1>2. RoomForUop
  <2> SUFFICES ASSUME stage = "rob_allocate", renamedUop # NoUop PROVE ~RobFull
    BY DEF RoomForUop
  <2>1. fetchUop # NoUop
    BY DEF IsaInv, FlowInv
  <2>2. AtMost(1)
    BY <2>1 DEF PaceInv, Stopped, Running, BeforeAllocate
  <2> QED
    BY <1>1, <2>2, RoomBehind
<1>3. stage = "rob_commit" /\ redirect => AtMost(0)
  BY DEF PaceInv, Stopped, Running
<1>4. FlushFindsNothing /\ FlushDropsNoRegister
  BY <1>1, <1>3, AtMostIs DEF FlushFindsNothing, FlushDropsNoRegister
<1> QED
  BY <1>2, <1>4, RegistersSuffice, SourcesAreThere, EcallIsAlone DEF Undisturbed, NothingLost

LEMMA PaceInvStep ==
    ASSUME Settled, CoreInv, LoadsInv, IsaInv, PaceInv, [Next]_vars
    PROVE  PaceInv'
<1>1. CASE Branch
  BY <1>1, BranchKeepsPace
<1>2. CASE LsuStage
  BY <1>2, LsuKeepsPace
<1>3. CASE FetchStopped \/ FetchWaits \/ FetchReads
  BY <1>3, FetchKeepsPace
<1>4. CASE Decode \/ RenameStage
  BY <1>4, HandOnKeepsPace
<1>5. CASE RobAllocate
  BY <1>5, RobAllocateKeepsPace
<1>6. CASE Issue
  BY <1>6, IssueKeepsPace
<1>7. CASE Execute
  BY <1>7, ExecuteKeepsPace
<1>8. CASE CommitFlush
  BY <1>8, CommitFlushKeepsPace
<1>9. CASE CommitNothing
  BY <1>9, CommitNothingKeepsPace
<1>10. CASE CommitTrap
  BY <1>10, CommitTrapKeepsPace
<1>11. CASE CommitHead
  BY <1>11, CommitHeadKeepsPace
<1>12. CASE CommitEcall
  BY <1>12, CommitEcallKeepsPace
<1>13. CASE Memory
  BY <1>13, MemoryKeepsPace
<1>14. CASE UNCHANGED vars
  BY <1>14, StutterKeepsPace
<1> QED
  BY <1>1, <1>2, <1>3, <1>4, <1>5, <1>6, <1>7, <1>8, <1>9, <1>10, <1>11, <1>12, <1>13,
     <1>14 DEF Next, Cycle

\* What keeps the pace, what keeps the registers and what keeps the program hold
\* each other up, so they are proved together.
SettledInv == RegsInv /\ NoneLost /\ IsaInv /\ PaceInv

LEMMA SettledInvStep ==
    ASSUME Settled, CoreInv, CoreInv', LoadsInv, SettledInv, [Next]_vars
    PROVE  SettledInv'
<1>1. Undisturbed
  BY PaceUndisturbed DEF SettledInv
<1>2. RoomForUop /\ RegisterLeft /\ FlushDropsNoRegister
  BY <1>1 DEF Undisturbed, NothingLost
<1>3. RegsInv' /\ NoneLost'
  BY <1>2, RegsInvStep DEF SettledInv
<1>4. IsaInv'
  BY <1>1, IsaInvStep DEF SettledInv
<1>5. PaceInv'
  BY PaceInvStep DEF SettledInv
<1> QED
  BY <1>3, <1>4, <1>5 DEF SettledInv

LEMMA SettledInvAlways ==
    ASSUME Settled
    PROVE  Spec => [](CoreInv /\ SettledInv)
<1>1. Init => SettledInv
  BY RegsInvInit, IsaInvInit, PaceInvInit DEF SettledInv
<1>2. CoreInv /\ CoreInv' /\ LoadsInv /\ SettledInv /\ [Next]_vars => SettledInv'
  BY SettledInvStep
<1> QED
  BY <1>1, <1>2, CoreInvAlways, LoadsInvAlways, PTL DEF Spec

\* Nothing disturbs a settled program: with a data memory that answers between two
\* cycles and no transfer right behind a load, no uop arrives at a full ROB, none
\* goes without a register or reads one that a load has still to write, and no
\* redirect finds anything to drop -- for every such program, and every ROB, issue
\* queue and register file of more than the least size.
THEOREM SettledIsUndisturbed ==
    ASSUME Settled
    PROVE  Spec => []Undisturbed
<1>1. CoreInv /\ SettledInv => Undisturbed
  BY PaceUndisturbed DEF SettledInv
<1> QED
  BY <1>1, SettledInvAlways, PTL

\* So the core executes every settled program as the instruction set has it: what
\* rob_commit retires, and the registers, the memory and the traps, are those of the
\* machine without a pipeline.
THEOREM SettledExecutesProgram ==
    ASSUME Settled
    PROVE  Spec => ExecutesProgram
  BY SettledIsUndisturbed, CoreExecutesProgram, PTL

\* And ECALL reports the a0 of every settled program.
THEOREM SettledReportsA0 ==
    ASSUME Settled
    PROVE  Spec => EcallReportsA0
  BY SettledIsUndisturbed, CoreEcallReportsA0, PTL

\* Nothing is lost in a settled program in the ways that no stage guards against: no
\* uop is dropped at a full ROB or goes on without a register, and no flush drops one
\* that holds a register.
THEOREM SettledLosesNothing ==
    ASSUME Settled
    PROVE  Spec => []NothingLost
<1>1. Undisturbed => NothingLost
  BY DEF Undisturbed
<1> QED
  BY <1>1, SettledIsUndisturbed, PTL

\* And at the start of every cycle of a settled program, each physical register is
\* either free or held, and none is lost.
THEOREM SettledConservesRegisters ==
    ASSUME Settled
    PROVE  Spec => []RegistersConserved
  BY SettledLosesNothing, CoreRegistersConserved, PTL

-----------------------------------------------------------------------------
(* The benches.  The reference and the core go through the same states of  *)
(* one machine, which writes its trace as it goes; what a bench has        *)
(* recorded when it passes is as long as the reference's trace, and so the *)
(* same.                                                                   *)

\* The trace with one event more.
LEMMA OfTypeAppend ==
    ASSUME NEW T, NEW s \in Seq(T), NEW e, NEW type
    PROVE  /\ OfType(s, type) \in Seq(T)
           /\ OfType(Append(s, e), type)
                 = IF e.type = type THEN Append(OfType(s, type), e) ELSE OfType(s, type)
<1> DEFINE U == T \cup {e}
           Kept(x) == IF x.type = type THEN <<x>> ELSE <<>>
           seqs == [n \in DOMAIN s |-> Kept(s[n])]
           more == [n \in DOMAIN Append(s, e) |-> Kept(Append(s, e)[n])]
<1>1. ASSUME NEW V, NEW x \in V
      PROVE  Kept(x) \in Seq(V)
  OBVIOUS
<1>2. /\ DOMAIN s = 1 .. Len(s) /\ Len(s) \in Nat
      /\ \A n \in 1 .. Len(s) : s[n] \in T
  OBVIOUS
<1>3. /\ DOMAIN Append(s, e) = 1 .. Len(s) + 1
      /\ \A n \in 1 .. Len(s) : Append(s, e)[n] = s[n]
      /\ Append(s, e)[Len(s) + 1] = e
  OBVIOUS
<1>4. OfType(s, type) = FlattenSeq(seqs) /\ OfType(Append(s, e), type) = FlattenSeq(more)
  BY DEF OfType
<1> HIDE DEF Kept
<1>5. ASSUME NEW V, T \subseteq V
      PROVE  seqs \in Seq(Seq(V))
  <2>1. \A n \in 1 .. Len(s) : Kept(s[n]) \in Seq(V)
    BY <1>1, <1>2, <1>5
  <2> QED
    BY <1>2, <2>1
<1>6. seqs \in Seq(Seq(T)) /\ seqs \in Seq(Seq(U)) /\ Kept(e) \in Seq(U)
  BY <1>1, <1>5
<1>7. more = Append(seqs, Kept(e))
  BY <1>2, <1>3
<1> HIDE DEF seqs, more, U
<1>8. FlattenSeq(more) = FlattenSeq(seqs) \o Kept(e)
  BY <1>6, <1>7, FlattenAppend
<1>9. FlattenSeq(seqs) \in Seq(T)
  BY <1>6, FlattenType
<1>10. Kept(e) = IF e.type = type THEN <<e>> ELSE <<>>
  BY DEF Kept
<1>11. FlattenSeq(seqs) \o <<>> = FlattenSeq(seqs)
       /\ FlattenSeq(seqs) \o <<e>> = Append(FlattenSeq(seqs), e)
  <2>1. FlattenSeq(seqs) \in Seq(U)
    BY <1>6, FlattenType
  <2>2. e \in U
    BY DEF U
  <2> QED
    BY <1>9, <2>1, <2>2, ConcatEmptySeq, AppendIsConcat
<1> QED
  BY <1>4, <1>8, <1>9, <1>10, <1>11

\* The first trace is a beginning of the second.
StartsWith(t, s) ==
    /\ Len(s) <= Len(t)
    /\ \A n \in 1 .. Len(s) : t[n] = s[n]

-----------------------------------------------------------------------------
(* The machine, as a function of its state and of what it has written.     *)

CommitRecord ==
    [type : {"commit"}, pc : Word, instruction : Instr, rdValid : BOOLEAN, value : Word]

Machine ==
    [pc : Word, regs : [Reg -> Word], mem : [Word -> Word], trapped : BOOLEAN,
     trace : Seq(CommitRecord)]

Start ==
    [pc |-> ResetVector, regs |-> [r \in Reg |-> 0], mem |-> [a \in Word |-> 0],
     trapped |-> FALSE, trace |-> <<>>]

Traps(i, a) ==
    \/ i.op \in {"illegal", "illload", "illstore"}
    \/ i.op = "load" /\ Address(i, a) \in FaultAddrs

RegsAfter(s, i, a, b) ==
    LET v == IF i.op = "load" THEN s.mem[Address(i, a)] ELSE Result(i, a, b, s.pc)
    IN  IF i.op # "ecall" /\ HasIntDst(i)
        THEN [r \in Reg |-> IF r = i.rd /\ r # 0 THEN v ELSE s.regs[r]]
        ELSE s.regs

\* One instruction of program p, with its event.
Runs(s, i, a, b) ==
    LET regs == RegsAfter(s, i, a, b)
    IN  [pc |-> IF Redirects(i, a, b) THEN Target(i, a, s.pc) ELSE Plus(s.pc, 1),
         regs |-> regs,
         mem |-> IF i.op = "store" THEN [s.mem EXCEPT ![Address(i, a)] = b] ELSE s.mem,
         trapped |-> FALSE,
         trace |-> IF i.op = "ecall" THEN s.trace
                   ELSE Append(s.trace, CommitEvent(s.pc, i, HasIntDst(i) /\ i.rd # 0,
                                                    regs[i.rd]))]

After(p, s) ==
    LET i == p[s.pc]
        a == s.regs[i.rs1]
        b == s.regs[i.rs2]
    IN  IF s.trapped THEN s
        ELSE IF Traps(i, a)
             THEN [pc |-> s.pc, regs |-> s.regs, mem |-> s.mem, trapped |-> TRUE,
                   trace |-> s.trace]
             ELSE Runs(s, i, a, b)

\* The states of the machine, one instruction after another.
IsRun(R, p) ==
    /\ R \in [Nat -> Machine]
    /\ R[0] = Start
    /\ \A n \in Nat : R[n + 1] = After(p, R[n])

LEMMA AfterType ==
    ASSUME NEW p \in [Word -> Instr], NEW s \in Machine
    PROVE  After(p, s) \in Machine
<1> PICK i \in Instr, c \in Word : c = s.pc /\ i = p[c]
  BY DEF Machine
<1>1. /\ i.op \in Ops /\ i.rd \in Reg /\ i.rs1 \in Reg /\ i.rs2 \in Reg /\ i.imm \in Word
      /\ s.regs \in [Reg -> Word] /\ s.mem \in [Word -> Word]
      /\ s.trapped \in BOOLEAN /\ s.trace \in Seq(CommitRecord)
  BY DEF Instr, Machine
<1> PICK a \in Word, b \in Word : a = s.regs[i.rs1] /\ b = s.regs[i.rs2]
  BY <1>1
<1>2. /\ Address(i, a) \in Word /\ Plus(c, 1) \in Word /\ Target(i, a, c) \in Word
      /\ Result(i, a, b, c) \in Word
  BY <1>1, PlusType, Zeros DEF Address, Target, Result, Ops
<1>3. RegsAfter(s, i, a, b) \in [Reg -> Word]
  <2>1. s.mem[Address(i, a)] \in Word
    BY <1>1, <1>2
  <2> QED
    BY <1>1, <1>2, <2>1 DEF RegsAfter
<1>4. CommitEvent(c, i, HasIntDst(i) /\ i.rd # 0, RegsAfter(s, i, a, b)[i.rd])
         \in CommitRecord
  <2>1. RegsAfter(s, i, a, b)[i.rd] \in Word
    BY <1>1, <1>3
  <2>2. (HasIntDst(i) /\ i.rd # 0) \in BOOLEAN
    OBVIOUS
  <2> QED
    BY <2>1, <2>2, Zeros DEF CommitRecord, CommitEvent
<1>5. Runs(s, i, a, b) \in Machine
  <2> DEFINE e == CommitEvent(c, i, HasIntDst(i) /\ i.rd # 0, RegsAfter(s, i, a, b)[i.rd])
             regs == RegsAfter(s, i, a, b)
             to == IF Redirects(i, a, b) THEN Target(i, a, c) ELSE Plus(c, 1)
             m == IF i.op = "store" THEN [s.mem EXCEPT ![Address(i, a)] = b] ELSE s.mem
             t == IF i.op = "ecall" THEN s.trace ELSE Append(s.trace, e)
  <2>1. e \in CommitRecord
    BY <1>4
  <2>2. Runs(s, i, a, b)
           = [pc |-> to, regs |-> regs, mem |-> m, trapped |-> FALSE, trace |-> t]
    BY DEF Runs
  <2>3. to \in Word /\ m \in [Word -> Word]
    BY <1>1, <1>2
  <2>4. t \in Seq(CommitRecord)
    <3> HIDE DEF e
    <3> QED
      BY <1>1, <2>1
  <2> HIDE DEF e, regs, to, m, t
  <2> QED
    BY <1>3, <2>2, <2>3, <2>4 DEF Machine, regs
<1>6. [pc |-> s.pc, regs |-> s.regs, mem |-> s.mem, trapped |-> TRUE, trace |-> s.trace]
         \in Machine
  BY <1>1 DEF Machine
<1> QED
  BY <1>5, <1>6 DEF After

LEMMA RunExists ==
    ASSUME NEW p \in [Word -> Instr]
    PROVE  \E R : IsRun(R, p)
<1> DEFINE step == [s \in Machine |-> After(p, s)]
           F == [n \in Nat |-> step]
<1>1. Start \in Machine
  BY Zeros, ResetVectorAssumption DEF Start, Machine
<1>2. step \in [Machine -> Machine]
  BY AfterType
<1>3. F \in [Nat -> [Machine -> Machine]]
  BY <1>2
<1> HIDE DEF F
<1>4. PICK R : Recurs(R, Machine, Start, F)
  BY <1>1, <1>3, RecursionOnNat
<1>5. R \in [Nat -> Machine] /\ R[0] = Start
      /\ \A n \in Nat \ {0} : R[n] = F[n][R[n - 1]]
  BY <1>4 DEF Recurs
<1>6. ASSUME NEW n \in Nat
      PROVE  R[n + 1] = After(p, R[n])
  <2>1. n + 1 \in Nat \ {0} /\ (n + 1) - 1 = n
    OBVIOUS
  <2>2. R[n + 1] = F[n + 1][R[n]]
    BY <1>5, <2>1
  <2>3. F[n + 1] = step /\ R[n] \in Machine
    BY <1>5, <2>1 DEF F
  <2> QED
    BY <2>2, <2>3
<1> QED
  BY <1>5, <1>6 DEF IsRun

LEMMA AfterWrites ==
    ASSUME NEW p, NEW s
    PROVE  /\ s.trapped => After(p, s) = s
           /\ \/ After(p, s).trace = s.trace
              \/ \E e : After(p, s).trace = Append(s.trace, e)
<1> DEFINE i == p[s.pc]
           a == s.regs[i.rs1]
           b == s.regs[i.rs2]
           e == CommitEvent(s.pc, i, HasIntDst(i) /\ i.rd # 0, RegsAfter(s, i, a, b)[i.rd])
<1>1. After(p, s) = IF s.trapped THEN s
                    ELSE IF Traps(i, a)
                    THEN [pc |-> s.pc, regs |-> s.regs, mem |-> s.mem, trapped |-> TRUE,
                          trace |-> s.trace]
                    ELSE Runs(s, i, a, b)
  BY DEF After
<1>2. Runs(s, i, a, b).trace = IF i.op = "ecall" THEN s.trace ELSE Append(s.trace, e)
  BY DEF Runs
<1> HIDE DEF i, a, b, e
<1>3. s.trapped => After(p, s) = s
  BY <1>1
<1>4. CASE s.trapped
  BY <1>3, <1>4
<1>5. CASE ~s.trapped /\ Traps(i, a)
  <2>1. After(p, s).trace = s.trace
    BY <1>1, <1>5
  <2> QED
    BY <1>5, <2>1
<1>6. CASE ~s.trapped /\ ~Traps(i, a)
  <2>1. After(p, s) = Runs(s, i, a, b)
    BY <1>1, <1>6
  <2> QED
    BY <1>2, <1>6, <2>1
<1> QED
  BY <1>4, <1>5, <1>6

\* What a run has written stays written, and after a trap nothing changes.
LEMMA RunGoesOn ==
    ASSUME NEW p, NEW R, IsRun(R, p), NEW m \in Nat, NEW n \in Nat, m <= n
    PROVE  /\ StartsWith(R[n].trace, R[m].trace)
           /\ R[m].trapped => R[n] = R[m]
<1> DEFINE T == {k \in Nat : m <= k => /\ StartsWith(R[k].trace, R[m].trace)
                                       /\ R[m].trapped => R[k] = R[m]}
<1>1. ASSUME NEW k \in Nat
      PROVE  R[k] \in Machine /\ R[k].trace \in Seq(CommitRecord) /\ Len(R[k].trace) \in Nat
  <2>1. R[k] \in Machine
    BY DEF IsRun
  <2> QED
    BY <2>1 DEF Machine
<1>2. ASSUME NEW k \in Nat
      PROVE  /\ R[k].trapped => R[k + 1] = R[k]
             /\ \/ R[k + 1].trace = R[k].trace
                \/ \E e : R[k + 1].trace = Append(R[k].trace, e)
  <2>1. R[k + 1] = After(p, R[k])
    BY DEF IsRun
  <2>2. /\ R[k].trapped => After(p, R[k]) = R[k]
        /\ \/ After(p, R[k]).trace = R[k].trace
           \/ \E e : After(p, R[k]).trace = Append(R[k].trace, e)
    BY AfterWrites, Zenon
  <2> QED
    BY <2>1, <2>2
<1>3. StartsWith(R[m].trace, R[m].trace)
  BY <1>1 DEF StartsWith
<1>4. 0 \in T
  BY <1>3
<1>5. ASSUME NEW k \in Nat, k \in T
      PROVE  k + 1 \in T
  <2> SUFFICES ASSUME m <= k + 1
               PROVE  /\ StartsWith(R[k + 1].trace, R[m].trace)
                      /\ R[m].trapped => R[k + 1] = R[m]
    OBVIOUS
  <2>1. CASE m = k + 1
    BY <1>3, <2>1
  <2>2. CASE m <= k
    <3>1. /\ StartsWith(R[k].trace, R[m].trace)
          /\ R[m].trapped => R[k] = R[m]
      BY <1>5, <2>2
    <3>2. CASE R[k + 1].trace = R[k].trace
      BY <1>2, <3>1, <3>2
    <3>3. ASSUME NEW e, R[k + 1].trace = Append(R[k].trace, e)
          PROVE  StartsWith(R[k + 1].trace, R[m].trace)
      <4> PICK s \in Seq(CommitRecord), t \in Seq(CommitRecord) :
               s = R[m].trace /\ t = R[k].trace
        BY <1>1
      <4>1. /\ Len(Append(t, e)) = Len(t) + 1
            /\ \A j \in 1 .. Len(t) : Append(t, e)[j] = t[j]
        OBVIOUS
      <4> QED
        BY <3>1, <3>3, <4>1 DEF StartsWith
    <3> QED
      BY <1>2, <3>1, <3>2, <3>3
  <2> QED
    BY <2>1, <2>2
<1> HIDE DEF T
<1>6. n \in T
  BY <1>4, <1>5, InductionOnNat
<1> QED
  BY <1>6 DEF T

-----------------------------------------------------------------------------
(* Both go through its states.                                             *)

\* One step of Isa, from s to t, when instruction i finds a and b in its sources.
Executes(s, i, a, b, t) ==
    LET Written(v) == [r \in Reg |-> IF r = i.rd /\ r # 0 THEN v ELSE s.regs[r]]
    IN  \/ /\ i.op \in {"alu", "jal", "jalr", "branch"}
           /\ t.regs = IF HasIntDst(i) THEN Written(Result(i, a, b, s.pc)) ELSE s.regs
           /\ t.pc = IF Redirects(i, a, b) THEN Target(i, a, s.pc) ELSE Plus(s.pc, 1)
           /\ t.mem = s.mem /\ t.trapped = FALSE
        \/ /\ i.op = "load" /\ Address(i, a) \notin FaultAddrs
           /\ t.regs = Written(s.mem[Address(i, a)])
           /\ t.pc = Plus(s.pc, 1)
           /\ t.mem = s.mem /\ t.trapped = FALSE
        \/ /\ i.op = "store"
           /\ t.mem = [s.mem EXCEPT ![Address(i, a)] = b]
           /\ t.pc = Plus(s.pc, 1)
           /\ t.regs = s.regs /\ t.trapped = FALSE
        \/ /\ i.op \in {"fence", "ecall"}
           /\ t.pc = Plus(s.pc, 1)
           /\ t.regs = s.regs /\ t.mem = s.mem /\ t.trapped = FALSE
        \/ /\ Traps(i, a) /\ t.trapped = TRUE
           /\ t.pc = s.pc /\ t.regs = s.regs /\ t.mem = s.mem

\* What it writes.
Records(s, i, t) ==
    t.trace = IF i.op = "ecall" \/ t.trapped THEN s.trace
              ELSE Append(s.trace, CommitEvent(s.pc, i, HasIntDst(i) /\ i.rd # 0,
                                               t.regs[i.rd]))

LEMMA ExecutesIsAfter ==
    ASSUME NEW p, NEW s \in Machine, ~s.trapped, NEW i, NEW a, NEW b,
           i = p[s.pc], a = s.regs[i.rs1], b = s.regs[i.rs2],
           NEW t, Executes(s, i, a, b, t), Records(s, i, t),
           t = [pc |-> t.pc, regs |-> t.regs, mem |-> t.mem, trapped |-> t.trapped,
                trace |-> t.trace]
    PROVE  After(p, s) = t
<1>1. After(p, s) = IF Traps(i, a)
                    THEN [pc |-> s.pc, regs |-> s.regs, mem |-> s.mem, trapped |-> TRUE,
                          trace |-> s.trace]
                    ELSE Runs(s, i, a, b)
  BY DEF After
<1>2. CASE Traps(i, a)
  <2>1. t.pc = s.pc /\ t.regs = s.regs /\ t.mem = s.mem /\ t.trapped = TRUE
    BY <1>2 DEF Traps, Executes
  <2>2. t.trace = s.trace
    BY <2>1 DEF Records
  <2> QED
    BY <1>1, <1>2, <2>1, <2>2
<1>3. CASE ~Traps(i, a)
  <2>1. t.trapped = FALSE
    BY <1>3 DEF Executes
  <2>2. t.regs = RegsAfter(s, i, a, b)
    BY <1>3 DEF Executes, RegsAfter, HasIntDst
  <2>3. /\ t.pc = IF Redirects(i, a, b) THEN Target(i, a, s.pc) ELSE Plus(s.pc, 1)
        /\ t.mem = IF i.op = "store" THEN [s.mem EXCEPT ![Address(i, a)] = b] ELSE s.mem
    BY <1>3 DEF Executes, Redirects
  <2>4. t.trace = IF i.op = "ecall" THEN s.trace
                  ELSE Append(s.trace, CommitEvent(s.pc, i, HasIntDst(i) /\ i.rd # 0,
                                                   t.regs[i.rd]))
    BY <2>1 DEF Records
  <2> QED
    BY <1>1, <1>3, <2>1, <2>2, <2>3, <2>4 DEF Runs
<1> QED
  BY <1>2, <1>3

RefMachine ==
    [pc |-> refPc, regs |-> refRegs, mem |-> refMem, trapped |-> refTrapped,
     trace |-> refTrace]

CoreMachine ==
    [pc |-> ArchPc, regs |-> ArchRegs, mem |-> ArchMem,
     trapped |-> (robState = "EXCEPTION"), trace |-> OfType(events, "commit")]

LEMMA RefOps ==
    /\ \A a, b : Ref!Plus(a, b) = Plus(a, b)
    /\ \A i, a : Ref!Address(i, a) = Address(i, a)
    /\ \A i, a, b : Ref!Redirects(i, a, b) <=> Redirects(i, a, b)
    /\ \A i, a, c : Ref!Target(i, a, c) = Target(i, a, c)
    /\ \A i, a, b, c : Ref!Result(i, a, b, c) = Result(i, a, b, c)
    /\ \A i : Ref!HasIntDst(i) <=> HasIntDst(i)
    /\ Ref!Reg = Reg /\ Ref!Word = Word
  BY DEF Plus, Ref!Plus, Address, Ref!Address, Redirects, Ref!Redirects, Target,
         Ref!Target, Result, Ref!Result, HasIntDst, Ref!HasIntDst, Reg, Ref!Reg,
         Word, Ref!Word

\* The reference takes one step.
LEMMA ReferenceSteps ==
    ASSUME ReferenceRetires, RefMachine \in Machine
    PROVE  RefMachine' = After(program, RefMachine)
<1> PICK i \in {Ref!Here}, a \in {Ref!Rs1}, b \in {Ref!Rs2} : TRUE
  OBVIOUS
<1> DEFINE s == RefMachine
           t == RefMachine'
<1>1. /\ i = Ref!Here /\ a = Ref!Rs1 /\ b = Ref!Rs2
      /\ i = program[refPc] /\ a = refRegs[i.rs1] /\ b = refRegs[i.rs2]
  BY DEF Ref!Here, Ref!Rs1, Ref!Rs2
<1>2. Ref!Next
  BY DEF ReferenceRetires
<1>3. /\ s.pc = refPc /\ s.regs = refRegs /\ s.mem = refMem /\ s.trapped = refTrapped
      /\ s.trace = refTrace
      /\ t.pc = refPc' /\ t.regs = refRegs' /\ t.mem = refMem' /\ t.trapped = refTrapped'
      /\ t.trace = refTrace'
      /\ t = [pc |-> t.pc, regs |-> t.regs, mem |-> t.mem, trapped |-> t.trapped,
              trace |-> t.trace]
  BY DEF RefMachine
<1> HIDE DEF s, t
<1>4. s \in Machine
  BY DEF s
<1>5. ~s.trapped /\ refTrapped = FALSE
  BY <1>2, <1>3, <1>4 DEF Ref!Next, Machine
<1>6. Executes(s, i, a, b, t)
  <2>1. ASSUME Ref!Compute PROVE Executes(s, i, a, b, t)
    <3>1. /\ i.op \in {"alu", "jal", "jalr", "branch"}
          /\ t.regs = IF HasIntDst(i)
                      THEN [r \in Reg |-> IF r = i.rd /\ r # 0
                                          THEN Result(i, a, b, s.pc) ELSE s.regs[r]]
                      ELSE s.regs
      <4>1. /\ Ref!Result(i, a, b, refPc) = Result(i, a, b, refPc)
            /\ Ref!HasIntDst(i) <=> HasIntDst(i)
            /\ Ref!Reg = Reg
        BY RefOps
      <4> QED
        BY <1>1, <1>3, <2>1, <4>1 DEF Ref!Compute, Ref!WriteReg
    <3>2. /\ t.pc = IF Redirects(i, a, b) THEN Target(i, a, s.pc) ELSE Plus(s.pc, 1)
          /\ t.mem = s.mem /\ t.trapped = FALSE
      BY <1>1, <1>3, <1>5, <2>1, RefOps DEF Ref!Compute
    <3> QED
      BY <3>1, <3>2 DEF Executes
  <2>2. ASSUME Ref!Load PROVE Executes(s, i, a, b, t)
    <3>1. /\ i.op = "load" /\ Address(i, a) \notin FaultAddrs
          /\ t.regs = [r \in Reg |-> IF r = i.rd /\ r # 0
                                     THEN s.mem[Address(i, a)] ELSE s.regs[r]]
      <4>1. Ref!Address(Ref!Here, Ref!Rs1) = Address(Ref!Here, Ref!Rs1) /\ Ref!Reg = Reg
        BY RefOps
      <4>2. /\ Ref!Here.op = "load" /\ Address(Ref!Here, Ref!Rs1) \notin FaultAddrs
            /\ refRegs' = [r \in Reg |-> IF r = Ref!Here.rd /\ r # 0
                                        THEN refMem[Address(Ref!Here, Ref!Rs1)]
                                        ELSE refRegs[r]]
        BY <2>2, <4>1 DEF Ref!Load, Ref!WriteReg
      <4> QED
        BY <1>1, <1>3, <4>2
    <3>2. t.pc = Plus(s.pc, 1) /\ t.mem = s.mem /\ t.trapped = FALSE
      BY <1>1, <1>3, <1>5, <2>2, RefOps DEF Ref!Load
    <3> QED
      BY <3>1, <3>2 DEF Executes
  <2>3. ASSUME Ref!Store PROVE Executes(s, i, a, b, t)
    BY <1>1, <1>3, <1>5, <2>3, RefOps DEF Ref!Store, Executes
  <2>4. ASSUME Ref!Pass PROVE Executes(s, i, a, b, t)
    BY <1>1, <1>3, <1>5, <2>4, RefOps DEF Ref!Pass, Executes
  <2>5. ASSUME Ref!Trap PROVE Executes(s, i, a, b, t)
    BY <1>1, <1>3, <1>5, <2>5, RefOps DEF Ref!Trap, Traps, Executes
  <2> QED
    BY <1>2, <2>1, <2>2, <2>3, <2>4, <2>5 DEF Ref!Next
<1>7. Records(s, i, t)
  BY <1>1, <1>3 DEF ReferenceRetires, Records
<1>8. i = program[s.pc] /\ a = s.regs[i.rs1] /\ b = s.regs[i.rs2]
  BY <1>1, <1>3
<1>9. After(program, s) = t
  BY <1>3, <1>4, <1>5, <1>6, <1>7, <1>8, ExecutesIsAfter
<1> QED
  BY <1>9 DEF s, t

\* The core takes one step, or none.
LEMMA CoreExecutes ==
    ASSUME Arch!Next
    PROVE  Executes(CoreMachine, Arch!Here, Arch!Rs1, Arch!Rs2, CoreMachine')
<1> PICK i \in {Arch!Here}, a \in {Arch!Rs1}, b \in {Arch!Rs2} : TRUE
  OBVIOUS
<1> DEFINE s == CoreMachine
           t == CoreMachine'
<1>1. i = Arch!Here /\ a = Arch!Rs1 /\ b = Arch!Rs2
  OBVIOUS
<1>2. ~(robState = "EXCEPTION") /\ (robState = "EXCEPTION") = FALSE
  BY DEF Arch!Next
<1>3. /\ s.pc = ArchPc /\ s.regs = ArchRegs /\ s.mem = ArchMem
      /\ t.pc = ArchPc' /\ t.regs = ArchRegs' /\ t.mem = ArchMem'
      /\ t.trapped = (robState = "EXCEPTION")'
  BY DEF CoreMachine
<1> HIDE DEF s, t
<1>4. ASSUME Arch!Compute PROVE Executes(s, i, a, b, t)
  <2>1. /\ i.op \in {"alu", "jal", "jalr", "branch"}
        /\ t.regs = IF HasIntDst(i)
                    THEN [r \in Reg |-> IF r = i.rd /\ r # 0
                                        THEN Result(i, a, b, s.pc) ELSE s.regs[r]]
                    ELSE s.regs
    <3>1. /\ Arch!Result(i, a, b, ArchPc) = Result(i, a, b, ArchPc)
          /\ Arch!HasIntDst(i) <=> HasIntDst(i)
          /\ Arch!Reg = Reg
      BY ArchOps
    <3> QED
      BY <1>1, <1>3, <1>4, <3>1 DEF Arch!Compute, Arch!WriteReg
  <2>2. /\ t.pc = IF Redirects(i, a, b) THEN Target(i, a, s.pc) ELSE Plus(s.pc, 1)
        /\ t.mem = s.mem /\ t.trapped = FALSE
    BY <1>1, <1>2, <1>3, <1>4, ArchOps DEF Arch!Compute
  <2> QED
    BY <2>1, <2>2 DEF Executes
<1>5. ASSUME Arch!Load PROVE Executes(s, i, a, b, t)
  <2>1. /\ i.op = "load" /\ Address(i, a) \notin FaultAddrs
        /\ t.regs = [r \in Reg |-> IF r = i.rd /\ r # 0
                                   THEN s.mem[Address(i, a)] ELSE s.regs[r]]
    <3>1. Arch!Address(i, a) = Address(i, a) /\ Arch!Reg = Reg
      BY ArchOps
    <3> QED
      BY <1>1, <1>3, <1>5, <3>1 DEF Arch!Load, Arch!WriteReg
  <2>2. t.pc = Plus(s.pc, 1) /\ t.mem = s.mem /\ t.trapped = FALSE
    BY <1>1, <1>2, <1>3, <1>5, ArchOps DEF Arch!Load
  <2> QED
    BY <2>1, <2>2 DEF Executes
<1>6. ASSUME Arch!Store PROVE Executes(s, i, a, b, t)
  BY <1>1, <1>2, <1>3, <1>6, ArchOps DEF Arch!Store, Executes
<1>7. ASSUME Arch!Pass PROVE Executes(s, i, a, b, t)
  BY <1>1, <1>2, <1>3, <1>7, ArchOps DEF Arch!Pass, Executes
<1>8. ASSUME Arch!Trap PROVE Executes(s, i, a, b, t)
  BY <1>1, <1>2, <1>3, <1>8, ArchOps DEF Arch!Trap, Traps, Executes
<1>9. Executes(s, i, a, b, t)
  BY <1>4, <1>5, <1>6, <1>7, <1>8 DEF Arch!Next
<1> QED
  BY <1>1, <1>9 DEF s, t

LEMMA CoreIsAfter ==
    ASSUME Arch!Next, CoreMachine \in Machine, Records(CoreMachine, Arch!Here, CoreMachine')
    PROVE  CoreMachine' = After(program, CoreMachine)
<1> PICK i \in {Arch!Here}, a \in {Arch!Rs1}, b \in {Arch!Rs2} : TRUE
  OBVIOUS
<1> DEFINE s == CoreMachine
           t == CoreMachine'
<1>1. i = program[s.pc] /\ a = s.regs[i.rs1] /\ b = s.regs[i.rs2]
  BY DEF Arch!Here, Arch!Rs1, Arch!Rs2, CoreMachine
<1>2. ~s.trapped
  BY DEF CoreMachine, Arch!Next
<1>3. t = [pc |-> t.pc, regs |-> t.regs, mem |-> t.mem, trapped |-> t.trapped,
           trace |-> t.trace]
  BY DEF CoreMachine
<1>4. Executes(s, i, a, b, t) /\ Records(s, i, t) /\ s \in Machine
  BY CoreExecutes
<1> HIDE DEF s, t
<1>5. After(program, s) = t
  BY <1>1, <1>2, <1>3, <1>4, ExecutesIsAfter
<1> QED
  BY <1>5 DEF s, t

\* What leaves writes what the machine writes.
LEMMA HeadWrites ==
    ASSUME CoreInv, CoreInv', RegsInv, LoadsInv, IsaInv, CommitHead,
           CoreMachine \in Machine,
           OfType(events', "commit")
              = Append(OfType(events, "commit"), Retired(entries[robHead].uop))
    PROVE  CoreMachine' = After(program, CoreMachine)
<1> PICK h \in Slots : h = robHead
  BY DEF CoreInv, BaseInv, RingInv, RobTypeOK
<1> PICK u \in {entries[h].uop}, i \in {entries[h].uop.inst},
         a \in {Op1(h)}, b \in {Op2(h)} : TRUE
  OBVIOUS
<1> DEFINE s == CoreMachine
           t == CoreMachine'
<1>1. Arch!Next
  BY CommitHeadKeepsIsa
<1>2. /\ HeadReady(WithResult) /\ entries[h].valid /\ ~Faults(i)
      /\ i.op = "load" /\ u.pdst # 0 =>
            intRf[u.pdst] = ArchMem[Address(i, a)]
      /\ i.op # "load" /\ u.pdst # 0 => intRf[u.pdst] = Result(i, a, b, u.pc)
  <2>1. stage = "rob_commit" /\ ~HeadWaits(WithResult) /\ ~WithResult[h].exception
    BY DEF CommitHead, CommitFrame, At
  <2> QED
    BY <2>1, HeadDone
<1>3. ArchPc = u.pc /\ Arch!Here = i /\ Arch!Rs1 = a /\ Arch!Rs2 = b
  BY <1>2, HeadIsHere DEF HeadReady
<1>4. u.inst = i /\ (u.pdst # 0 <=> HasIntDst(i) /\ i.rd # 0)
  BY <1>2 DEF IsaInv, HeldInv, Genuine
<1>5. Executes(s, i, a, b, t)
  BY <1>1, <1>3, CoreExecutes
<1>6. i \in Instr
  BY <1>2, HeldTypes DEF CoreInv, BaseInv
<1>7. ~t.trapped /\ i.op # "ecall"
  <2>1. ~(robState = "EXCEPTION") /\ robState' = robState
    BY <1>1 DEF Arch!Next, CommitHead
  <2>2. ~t.trapped
    BY <2>1 DEF CoreMachine
  <2> QED
    BY <1>2, <2>2 DEF Faults
<1>8. s.pc = u.pc /\ s.mem = ArchMem
      /\ s.trace = OfType(events, "commit") /\ t.trace = OfType(events', "commit")
  BY <1>3 DEF CoreMachine
<1>9. t.trace = Append(s.trace, Retired(u))
  BY <1>8
<1> HIDE DEF s, t
<1>10. HasIntDst(i) /\ i.rd # 0 => t.regs[i.rd] = intRf[u.pdst]
  <2> SUFFICES ASSUME HasIntDst(i), i.rd # 0
               PROVE  t.regs[i.rd] = intRf[u.pdst]
    OBVIOUS
  <2>1. i.rd \in Reg /\ i.op \in {"alu", "jal", "jalr", "load"} /\ u.pdst # 0
    BY <1>2, <1>4, <1>6 DEF HasIntDst, Faults, Instr
  <2>2. CASE i.op = "load"
    <3>1. t.regs = [r \in Reg |-> IF r = i.rd /\ r # 0
                                  THEN s.mem[Address(i, a)] ELSE s.regs[r]]
      BY <1>5, <1>7, <2>2 DEF Executes
    <3> QED
      BY <1>2, <1>8, <2>1, <2>2, <3>1
  <2>3. CASE i.op # "load"
    <3>1. t.regs = [r \in Reg |-> IF r = i.rd /\ r # 0
                                  THEN Result(i, a, b, s.pc) ELSE s.regs[r]]
      BY <1>5, <1>7, <2>1, <2>3 DEF Executes
    <3> QED
      BY <1>2, <1>8, <2>1, <2>3, <3>1
  <2> QED
    BY <2>2, <2>3
<1>11. Retired(u) = CommitEvent(s.pc, i, HasIntDst(i) /\ i.rd # 0, t.regs[i.rd])
  <2>1. (HasIntDst(u.inst) /\ u.pdst # 0) = (HasIntDst(i) /\ i.rd # 0)
    BY <1>4, Zenon
  <2> QED
    BY <1>4, <1>8, <1>10, <2>1 DEF Retired, CommitEvent
<1>12. Records(s, i, t)
  BY <1>7, <1>9, <1>11 DEF Records
<1> QED
  BY <1>1, <1>3, <1>12, CoreIsAfter DEF s, t

\* ECALL writes nothing.
LEMMA EcallWrites ==
    ASSUME CoreInv, CoreInv', RegsInv, IsaInv, EcallAlone, CommitEcall,
           CoreMachine \in Machine, OfType(events', "commit") = OfType(events, "commit")
    PROVE  CoreMachine' = After(program, CoreMachine)
<1> PICK h \in Slots : h = robHead
  BY DEF CoreInv, BaseInv, RingInv, RobTypeOK
<1>1. HeadReady(WithResult) /\ WithResult[h].uop.inst.op = "ecall"
      /\ stage = "rob_commit"
  BY DEF CommitEcall, CommitFrame, At
<1>2. /\ entries[h].valid /\ entries[h].uop.inst.op = "ecall" /\ ~RobEmpty
  BY <1>1, MarkedHolds DEF OnlyMarked, HeadReady
<1>3. Arch!Next /\ Arch!Here.op = "ecall"
  BY <1>2, HeadIsHere, CommitEcallKeepsIsa
<1>4. CoreMachine'.trace = CoreMachine.trace
  BY DEF CoreMachine
<1>5. Records(CoreMachine, Arch!Here, CoreMachine')
  BY <1>3, <1>4 DEF Records
<1> QED
  BY <1>3, <1>5, CoreIsAfter

\* Neither does a trap.
LEMMA TrapWrites ==
    ASSUME CoreInv, LoadsInv, IsaInv, CommitTrap, Arch!Next,
           CoreMachine \in Machine, OfType(events', "commit") = OfType(events, "commit")
    PROVE  CoreMachine' = After(program, CoreMachine)
<1>1. CoreMachine'.trace = CoreMachine.trace
  BY DEF CoreMachine
<1>2. CoreMachine'.trapped
  <2>1. (robState = "EXCEPTION")'
    BY DEF CommitTrap
  <2> QED
    BY <2>1 DEF CoreMachine
<1>3. Records(CoreMachine, Arch!Here, CoreMachine')
  BY <1>1, <1>2 DEF Records
<1> QED
  BY <1>3, CoreIsAfter

LEMMA CoreStays ==
    ASSUME ArchSame, OfType(events', "commit") = OfType(events, "commit")
    PROVE  CoreMachine' = CoreMachine
<1>1. /\ ArchPc' = ArchPc /\ ArchRegs' = ArchRegs /\ ArchMem' = ArchMem
      /\ (robState = "EXCEPTION")' = (robState = "EXCEPTION")
  BY DEF ArchSame, Arch!archVars
<1> QED
  BY <1>1 DEF CoreMachine

-----------------------------------------------------------------------------
(* What the bench writes.                                                  *)

IsSequence(s) == \E T : s \in Seq(T)

LEMMA OneMore ==
    ASSUME NEW s, IsSequence(s), NEW e
    PROVE  /\ IsSequence(Append(s, e)) /\ Len(Append(s, e)) = Len(s) + 1
           /\ IsSequence(OfType(s, "commit")) /\ IsSequence(OfType(s, "branch"))
           /\ OfType(Append(s, e), "commit")
                 = IF e.type = "commit" THEN Append(OfType(s, "commit"), e)
                   ELSE OfType(s, "commit")
           /\ OfType(Append(s, e), "branch")
                 = IF e.type = "branch" THEN Append(OfType(s, "branch"), e)
                   ELSE OfType(s, "branch")
<1> PICK T : s \in Seq(T)
  BY DEF IsSequence
<1> DEFINE U == T \cup {e}
<1>1. s \in Seq(U) /\ e \in U
  OBVIOUS
<1> HIDE DEF U
<1>2. Append(s, e) \in Seq(U) /\ Len(Append(s, e)) = Len(s) + 1
  BY <1>1
<1> QED
  BY <1>2, OfTypeAppend DEF IsSequence

LEMMA NoneYet ==
    /\ IsSequence(<<>>) /\ Len(<<>>) = 0
    /\ OfType(<<>>, "commit") = <<>> /\ OfType(<<>>, "branch") = <<>>
<1>1. <<>> \in Seq({}) /\ Len(<<>>) = 0
  OBVIOUS
<1>2. \A type : [n \in DOMAIN <<>> |-> IF <<>>[n].type = type THEN <<<<>>[n]>> ELSE <<>>] = <<>>
  OBVIOUS
<1>3. FlattenSeq(<<>>) = <<>>
  BY FlattenEmpty
<1> QED
  BY <1>1, <1>2, <1>3 DEF OfType, IsSequence

\* Branch events are no commits.
LEMMA BranchesApart ==
    ASSUME IsSequence(events), NEW r
    PROVE  /\ IsSequence(events \o BranchEvents(r))
           /\ OfType(events \o BranchEvents(r), "commit") = OfType(events, "commit")
           /\ OfType(events \o BranchEvents(r), "branch")
                 = IF r.valid /\ IsTransfer(r.uop.inst)
                   THEN Append(OfType(events, "branch"), Head(BranchEvents(r)))
                   ELSE OfType(events, "branch")
<1> PICK T : events \in Seq(T)
  BY DEF IsSequence
<1>1. CASE ~(r.valid /\ IsTransfer(r.uop.inst))
  <2>1. BranchEvents(r) = <<>>
    BY <1>1 DEF BranchEvents
  <2>2. events \o <<>> = events
    BY ConcatEmptySeq
  <2> QED
    BY <1>1, <2>1, <2>2
<1>2. CASE r.valid /\ IsTransfer(r.uop.inst)
  <2>1. PICK e : BranchEvents(r) = <<e>> /\ e.type = "branch" /\ Head(<<e>>) = e
    BY <1>2 DEF BranchEvents
  <2> DEFINE U == T \cup {e}
  <2>2. events \in Seq(U) /\ e \in U
    OBVIOUS
  <2> HIDE DEF U
  <2>3. events \o <<e>> = Append(events, e)
    BY <2>2, AppendIsConcat
  <2>4. /\ IsSequence(Append(events, e))
        /\ OfType(Append(events, e), "commit") = OfType(events, "commit")
        /\ OfType(Append(events, e), "branch") = Append(OfType(events, "branch"), e)
    BY <2>1, OneMore
  <2> QED
    BY <1>2, <2>1, <2>3, <2>4
<1> QED
  BY <1>1, <1>2

\* Nothing leaves and nothing is reported.
Silent ==
    \/ Branch \/ LsuStage \/ FetchStopped \/ FetchWaits \/ FetchReads \/ Decode
    \/ RenameStage \/ RobAllocate \/ Issue \/ Execute
    \/ CommitFlush \/ CommitNothing

\* Everything that the core does but the commit of its head.
Other == Silent \/ CommitEcall \/ CommitTrap \/ Memory

\* What a step of the core adds to the events.
LEMMA StepWrites ==
    ASSUME Step, IsSequence(events)
    PROVE  /\ IsSequence(events')
           /\ \/ Other /\ OfType(events', "commit") = OfType(events, "commit")
              \/ /\ CommitHead
                 /\ OfType(events', "commit")
                       = Append(OfType(events, "commit"), Retired(entries[robHead].uop))
<1> DEFINE more == events \o BranchEvents(aluResult)
           e == Retired(entries[robHead].uop)
<1>1. IsSequence(more) /\ OfType(more, "commit") = OfType(events, "commit")
  BY BranchesApart
<1>2. e.type = "commit"
  BY DEF Retired, CommitEvent
<1>3. \/ Other /\ events' = events
      \/ Other /\ events' = more
      \/ CommitHead /\ events' = Append(more, e)
  BY DEF Step, Silent, Other
<1> HIDE DEF more, e
<1>4. CASE Other /\ events' = events
  BY <1>4
<1>5. CASE Other /\ events' = more
  BY <1>1, <1>5
<1>6. CASE CommitHead /\ events' = Append(more, e)
  BY <1>1, <1>2, <1>6, OneMore DEF e
<1> QED
  BY <1>3, <1>4, <1>5, <1>6

-----------------------------------------------------------------------------
(* The invariant of the bench.                                             *)

\* The reference has come to one state of the machine, the core to another.
RunsInv ==
    \A R : IsRun(R, program) => /\ \E k \in Nat : R[k] = RefMachine
                                /\ \E n \in Nat : R[n] = CoreMachine

BooksInv ==
    /\ IsSequence(refTrace) /\ OfType(refTrace, "commit") = refTrace
    /\ IsSequence(events)
    /\ commitTarget \in Nat
    /\ Len(refTrace) <= commitTarget
    /\ at # "reference" =>
          refTrapped \/ Len(refTrace) = commitTarget \/ kind = "observed"
    /\ at = "closed" /\ ok /\ kind # "observed" => Commits = commitTarget

\* To the core the bench is a clock and a memory.
LEMMA BenchNextIsNext ==
    ASSUME [BenchNext]_allVars
    PROVE  [Next]_vars /\ program' = program
<1>1. [Next]_vars
  <2>1. CASE Step
    BY <2>1 DEF Step, Next, Cycle
  <2>2. CASE Serve
    BY <2>2 DEF Serve, Next
  <2>3. CASE \/ ReferenceRetires \/ ReferenceRecorded \/ Feed \/ NextCycle \/ Close
             \/ UNCHANGED allVars
    BY <2>3 DEF ReferenceRetires, ReferenceRecorded, Feed, NextCycle, Close, allVars
  <2> QED
    BY <2>1, <2>2, <2>3 DEF BenchNext
<1>2. (Branch \/ LsuStage) => program' = program
  BY DEF Branch, LsuStage
<1>3. (FetchStopped \/ FetchWaits \/ FetchReads) => program' = program
  BY DEF FetchStopped, FetchWaits, FetchReads, FetchFrame
<1>4. (Decode \/ RenameStage) => program' = program
  BY DEF Decode, RenameStage
<1>5. (RobAllocate \/ Issue) => program' = program
  BY DEF RobAllocate, Issue
<1>6. Execute => program' = program
  BY DEF Execute
<1>7. CommitFrame => program' = program
  BY DEF CommitFrame
<1>8. (CommitFlush \/ CommitNothing \/ CommitHead \/ CommitEcall \/ CommitTrap)
         => program' = program
  BY <1>7 DEF CommitFlush, CommitNothing, CommitHead, CommitEcall, CommitTrap
<1>9. (Memory \/ UNCHANGED vars) => program' = program
  BY DEF Memory, vars
<1> QED
  BY <1>1, <1>2, <1>3, <1>4, <1>5, <1>6, <1>8, <1>9 DEF Next, Cycle

\* A silent step moves the machine nowhere.
LEMMA SilentStays ==
    ASSUME CoreInv, CoreInv', RegsInv, LoadsInv, IsaInv, Undisturbed, Silent,
           OfType(events', "commit") = OfType(events, "commit")
    PROVE  CoreMachine' = CoreMachine
<1>1. /\ RoomForUop /\ RegisterLeft
      /\ FlushFindsNothing /\ SourcesArrived /\ EcallAlone
  BY DEF Undisturbed, NothingLost
<1>2. ArchSame => CoreMachine' = CoreMachine
  BY CoreStays
<1>3. CASE Branch
  BY <1>2, <1>3, BranchKeepsIsa
<1>4. CASE LsuStage
  BY <1>2, <1>4, LsuKeepsIsa
<1>5. CASE FetchStopped \/ FetchWaits \/ FetchReads
  BY <1>2, <1>5, FetchKeepsIsa
<1>6. CASE Decode
  BY <1>2, <1>6, DecodeKeepsIsa
<1>7. CASE RenameStage
  BY <1>1, <1>2, <1>7, RenameKeepsIsa
<1>8. CASE RobAllocate
  BY <1>1, <1>2, <1>8, RobAllocateKeepsIsa
<1>9. CASE Issue
  BY <1>2, <1>9, IssueKeepsIsa
<1>10. CASE Execute
  BY <1>1, <1>2, <1>10, ExecuteKeepsIsa
<1>11. CASE CommitFlush
  BY <1>1, <1>2, <1>11, CommitFlushKeepsIsa
<1>12. CASE CommitNothing
  BY <1>2, <1>12, CommitNothingKeepsIsa
<1> QED
  BY <1>3, <1>4, <1>5, <1>6, <1>7, <1>8, <1>9, <1>10, <1>11, <1>12 DEF Silent

LEMMA OtherGoesOn ==
    ASSUME CoreInv, CoreInv', RegsInv, LoadsInv, IsaInv, Undisturbed, Other,
           CoreMachine \in Machine, OfType(events', "commit") = OfType(events, "commit")
    PROVE  CoreMachine' \in {CoreMachine, After(program, CoreMachine)}
<1>1. CASE Silent
  BY <1>1, SilentStays
<1>2. CASE Memory
  BY <1>2, MemoryKeepsIsa, CoreStays
<1>3. CASE CommitEcall
  BY <1>3, EcallWrites DEF Undisturbed
<1>4. CASE CommitTrap
  BY <1>4, CommitTrapKeepsIsa, CoreStays, TrapWrites
<1> QED
  BY <1>1, <1>2, <1>3, <1>4 DEF Other

LEMMA SameGoesOn ==
    ASSUME IsaInv, UNCHANGED <<vars, events>>
    PROVE  CoreMachine' = CoreMachine
<1>1. UNCHANGED vars /\ OfType(events', "commit") = OfType(events, "commit")
  OBVIOUS
<1> QED
  BY <1>1, StutterKeepsIsa, CoreStays

\* What happens to the two machines in a step of the bench.
LEMMA MachinesGoOn ==
    ASSUME CoreInv, CoreInv', RegsInv, LoadsInv, IsaInv, Undisturbed, BooksInv,
           [BenchNext]_allVars, RefMachine \in Machine, CoreMachine \in Machine
    PROVE  /\ RefMachine' \in {RefMachine, After(program, RefMachine)}
           /\ CoreMachine' \in {CoreMachine, After(program, CoreMachine)}
<1>1. UNCHANGED refVars => RefMachine' = RefMachine
  BY DEF refVars, RefMachine
<1>2. UNCHANGED <<vars, events>> => CoreMachine' = CoreMachine
  BY SameGoesOn
<1>3. CASE ReferenceRetires
  <2>1. UNCHANGED <<vars, events>>
    BY <1>3 DEF ReferenceRetires, benchVars
  <2> QED
    BY <1>2, <1>3, <2>1, ReferenceSteps
<1>4. CASE ReferenceRecorded \/ Feed \/ NextCycle \/ Close \/ UNCHANGED allVars
  <2>1. UNCHANGED <<vars, events>> /\ UNCHANGED refVars
    BY <1>4 DEF ReferenceRecorded, Feed, NextCycle, Close, BenchFrame, allVars, benchVars
  <2> QED
    BY <1>1, <1>2, <2>1
<1>5. CASE Step
  <2>1. UNCHANGED refVars
    BY <1>5 DEF Step, BenchFrame
  <2>2. CASE Other /\ OfType(events', "commit") = OfType(events, "commit")
    BY <1>1, <2>1, <2>2, OtherGoesOn
  <2>3. CASE /\ CommitHead
             /\ OfType(events', "commit")
                   = Append(OfType(events, "commit"), Retired(entries[robHead].uop))
    BY <1>1, <2>1, <2>3, HeadWrites
  <2> QED
    BY <1>5, <2>2, <2>3, StepWrites DEF BooksInv
<1>6. CASE Serve
  <2>1. UNCHANGED refVars /\ Other /\ OfType(events', "commit") = OfType(events, "commit")
    BY <1>6 DEF Serve, BenchFrame, Other
  <2> QED
    BY <1>1, <2>1, OtherGoesOn
<1> QED
  BY <1>3, <1>4, <1>5, <1>6 DEF BenchNext

LEMMA RunsInvStep ==
    ASSUME CoreInv, CoreInv', RegsInv, LoadsInv, IsaInv, Undisturbed, BooksInv, RunsInv,
           [BenchNext]_allVars
    PROVE  RunsInv'
<1> DEFINE P == program'
<1> SUFFICES ASSUME NEW R, IsRun(R, P)
             PROVE  /\ \E k \in Nat : R[k] = RefMachine'
                    /\ \E n \in Nat : R[n] = CoreMachine'
  BY DEF RunsInv
<1>1. P = program
  BY BenchNextIsNext
<1>2. PICK k \in Nat, n \in Nat : R[k] = RefMachine /\ R[n] = CoreMachine
  BY <1>1 DEF RunsInv
<1>3. /\ R \in [Nat -> Machine]
      /\ R[k + 1] = After(program, R[k]) /\ R[n + 1] = After(program, R[n])
  BY <1>1 DEF IsRun
<1>4. RefMachine \in Machine /\ CoreMachine \in Machine
  BY <1>2, <1>3
<1>5. /\ RefMachine' \in {R[k], R[k + 1]}
      /\ CoreMachine' \in {R[n], R[n + 1]}
  BY <1>2, <1>3, <1>4, MachinesGoOn
<1> QED
  BY <1>5

LEMMA BooksInvStep ==
    ASSUME BooksInv, [BenchNext]_allVars
    PROVE  BooksInv'
<1> USE DEF BooksInv, Commits
<1>1. CASE ReferenceRetires
  <2>1. /\ at = "reference" /\ UNCHANGED <<vars, benchVars>>
        /\ Len(refTrace) # commitTarget
        /\ \/ refTrace' = refTrace
           \/ \E e : e.type = "commit" /\ refTrace' = Append(refTrace, e)
    BY <1>1 DEF ReferenceRetires, ReferenceEnds, CommitEvent
  <2>2. /\ IsSequence(refTrace') /\ OfType(refTrace', "commit") = refTrace'
        /\ Len(refTrace') \in {Len(refTrace), Len(refTrace) + 1}
    <3>1. CASE refTrace' = refTrace
      BY <3>1
    <3>2. ASSUME NEW e, e.type = "commit", refTrace' = Append(refTrace, e)
          PROVE  /\ IsSequence(refTrace') /\ OfType(refTrace', "commit") = refTrace'
                 /\ Len(refTrace') = Len(refTrace) + 1
      BY <3>2, OneMore
    <3> QED
      BY <2>1, <3>1, <3>2
  <2>3. Len(refTrace) \in Nat
    BY DEF IsSequence
  <2>4. Len(refTrace') <= commitTarget
    BY <2>1, <2>2, <2>3
  <2> QED
    BY <2>1, <2>2, <2>4 DEF benchVars
<1>2. CASE ReferenceRecorded
  <2>1. refTrapped \/ Len(refTrace) = commitTarget \/ kind = "observed"
    BY <1>2 DEF ReferenceRecorded, ReferenceEnds
  <2> QED
    BY <1>2, <2>1 DEF ReferenceRecorded, refVars
<1>3. CASE Feed \/ NextCycle
  BY <1>3 DEF Feed, NextCycle, BenchFrame, refVars
<1>4. CASE Step
  <2>1. at # "reference" /\ at' # "closed" /\ UNCHANGED <<kind, commitTarget, refVars>>
        /\ IsSequence(events')
    BY <1>4, StepWrites DEF Step, BenchFrame
  <2> QED
    BY <2>1 DEF refVars
<1>5. CASE Serve
  BY <1>5 DEF Serve, BenchFrame, refVars
<1>6. CASE Close
  <2>1. /\ at = "feed" /\ UNCHANGED <<kind, commitTarget, refVars, events>>
        /\ kind # "observed" /\ ok' => Commits = commitTarget
    BY <1>6 DEF Close, BenchFrame, TraceVerdict
  <2> QED
    BY <2>1 DEF refVars
<1>7. CASE UNCHANGED allVars
  BY <1>7 DEF allVars, benchVars, refVars
<1> QED
  BY <1>1, <1>2, <1>3, <1>4, <1>5, <1>6, <1>7 DEF BenchNext

LEMMA BenchInvInit ==
    ASSUME BenchInit
    PROVE  RunsInv /\ BooksInv
<1>1. /\ Init /\ Ref!Init /\ refTrace = <<>> /\ events = <<>> /\ at = "reference"
      /\ commitTarget \in Targets
  BY DEF BenchInit
<1>2. BooksInv
  BY <1>1, NoneYet, TargetsAssumption DEF BooksInv
<1>3. RefMachine = Start
  BY <1>1, RefOps DEF Ref!Init, RefMachine, Start
<1>4. CoreMachine = Start
  BY <1>1, IsaInvInit, ArchOps, NoneYet DEF Arch!Init, CoreMachine, Start
<1>5. RunsInv
  BY <1>3, <1>4 DEF RunsInv, IsRun
<1> QED
  BY <1>2, <1>5

-----------------------------------------------------------------------------
(* What has passed.                                                        *)

LEMMA EqualTraces ==
    ASSUME NEW t, NEW s, IsSequence(t), IsSequence(s), StartsWith(t, s), Len(t) <= Len(s)
    PROVE  t = s
<1> PICK T, S : t \in Seq(T) /\ s \in Seq(S)
  BY DEF IsSequence
<1> DEFINE U == T \cup S
<1>1. t \in Seq(U) /\ s \in Seq(U)
  OBVIOUS
<1> HIDE DEF U
<1>2. Len(t) = Len(s) /\ \A i \in 1 .. Len(t) : t[i] = s[i]
  BY <1>1 DEF StartsWith
<1> QED
  BY <1>1, <1>2, SeqEqual

\* What a bench that passes has recorded is what the reference has.
LEMMA SameTraces ==
    ASSUME CoreInv, RunsInv, BooksInv, at = "closed", kind # "observed",
           Commits = commitTarget
    PROVE  OfType(events, "commit") = refTrace
<1> PICK R : IsRun(R, program)
  BY ProgramsAssumption, RunExists DEF CoreInv, BaseInv, PipeTypeOK
<1> PICK k \in Nat, n \in Nat : R[k] = RefMachine /\ R[n] = CoreMachine
  BY DEF RunsInv
<1>1. R[k].trace = refTrace /\ R[n].trace = OfType(events, "commit")
      /\ (R[k].trapped <=> refTrapped)
  BY DEF RefMachine, CoreMachine
<1>2. Len(R[n].trace) = commitTarget /\ Len(R[k].trace) <= commitTarget
      /\ (refTrapped \/ Len(R[k].trace) = commitTarget)
  BY <1>1 DEF BooksInv, Commits
<1>3. IsSequence(R[n].trace) /\ IsSequence(R[k].trace)
  <2>1. R[n] \in Machine /\ R[k] \in Machine
    BY DEF IsRun
  <2> QED
    BY <2>1 DEF Machine, IsSequence
<1>4. CASE n <= k
  <2>1. StartsWith(R[k].trace, R[n].trace)
    BY <1>4, RunGoesOn
  <2> QED
    BY <1>1, <1>2, <1>3, <2>1, EqualTraces
<1>5. CASE k <= n
  <2>1. StartsWith(R[n].trace, R[k].trace) /\ (R[k].trapped => R[n] = R[k])
    BY <1>5, RunGoesOn
  <2>2. CASE refTrapped
    BY <1>1, <2>1, <2>2
  <2>3. CASE Len(R[k].trace) = commitTarget
    BY <1>1, <1>2, <1>3, <2>1, <2>3, EqualTraces DEF BooksInv
  <2> QED
    BY <1>2, <2>2, <2>3
<1> QED
  BY <1>4, <1>5

LEMMA PassedMatches ==
    ASSUME CoreInv, RunsInv, BooksInv
    PROVE  PassedTraceMatches
<1> SUFFICES ASSUME at = "closed", ok, kind # "observed"
             PROVE  CompareFiles(refTrace, events, TRUE)
  BY DEF PassedTraceMatches
<1>1. OfType(events, "commit") = refTrace /\ OfType(refTrace, "commit") = refTrace
  BY SameTraces DEF BooksInv
<1> QED
  BY <1>1 DEF CompareFiles, Loaded

\* A trace that a bench passes is one that the matcher accepts, for every program that
\* nothing disturbs while the bench runs it: what rob_commit wrote is, event by event,
\* what the reference wrote, whatever the memories' delays and the depths of the queues.
THEOREM PassedTracesMatch == BenchSpec /\ []Undisturbed => []PassedTraceMatches
<1>1. BenchInit => Init /\ RunsInv /\ BooksInv
  BY BenchInvInit DEF BenchInit
<1>2. [BenchNext]_allVars => [Next]_vars
  BY BenchNextIsNext
<1>3. CoreInv /\ CoreInv' /\ RegsInv /\ LoadsInv /\ IsaInv /\ Undisturbed
          /\ RunsInv /\ BooksInv /\ [BenchNext]_allVars => RunsInv' /\ BooksInv'
  BY RunsInvStep, BooksInvStep
<1>4. CoreInv /\ RunsInv /\ BooksInv => PassedTraceMatches
  BY PassedMatches
<1> QED
  BY <1>1, <1>2, <1>3, <1>4, IsaInvAlways, PTL DEF BenchSpec, Spec

\* And so for every settled program, without a condition on what happens.
THEOREM SettledTracesMatch ==
    ASSUME Settled
    PROVE  BenchSpec => []PassedTraceMatches
<1>1. BenchInit => Init
  BY DEF BenchInit
<1>2. [BenchNext]_allVars => [Next]_vars
  BY BenchNextIsNext
<1> QED
  BY <1>1, <1>2, SettledIsUndisturbed, PassedTracesMatch, PTL DEF BenchSpec, Spec

-----------------------------------------------------------------------------
(* Where the branch events lead.  In a settled program a transfer executes *)
(* and leaves in one cycle, so its two events are written together.        *)

\* A transfer in the ROB is the uop of this cycle.
NoTransferWaits ==
    \A i \in Slots : entries[i].valid /\ IsTransfer(entries[i].uop.inst) =>
        /\ stage \in {"issue", "execute", "rob_commit"}
        /\ renamedUop # NoUop /\ renamedUop.rob = i

\* It is at the head, alone, and nothing keeps it there.
LEMMA TransferLeaves ==
    ASSUME Settled, CoreInv, LoadsInv, IsaInv, PaceInv, stage = "rob_commit",
           renamedUop # NoUop, entries[renamedUop.rob].valid,
           IsTransfer(entries[renamedUop.rob].uop.inst)
    PROVE  /\ renamedUop.rob = robHead /\ AtMost(1)
           /\ entries[robHead].valid /\ entries[robHead].uop = renamedUop
           /\ aluResult = Executed(renamedUop)
           /\ ~HeadWaits(WithResult)
           /\ ~WithResult[robHead].exception
           /\ WithResult[robHead].uop = renamedUop
<1>1. RingInv /\ robHead \in Slots
  BY DEF CoreInv, BaseInv, RingInv, RobTypeOK
<1>2. /\ OnlyMarked(WithResult)
      /\ aluResult = Executed(renamedUop) /\ Fresh(renamedUop)
      /\ renamedUop.rob \in Slots
      /\ renamedUop.inst.op \notin {"load", "store"} => ~WithResult[renamedUop.rob].busy
  BY WithResultIs
<1>3. entries[renamedUop.rob].uop = renamedUop /\ IsTransfer(renamedUop.inst)
  BY <1>2 DEF Fresh
<1>4. renamedUop.rob = robHead /\ AtMost(1)
  BY <1>3 DEF PaceInv, Stopped, Running, BeforeCommit, Alone, Behind
<1>5. WithResult[robHead].uop = renamedUop
  BY <1>1, <1>2, <1>3, <1>4 DEF OnlyMarked
<1>6. ~HeadWaits(WithResult)
  <2>1. Done(WithResult[robHead])
    BY <1>2, <1>3, <1>4, <1>5 DEF Done, IsTransfer
  <2> QED
    BY <1>2, <1>4, <2>1, ReadyLeaves
<1>7. ~WithResult[robHead].exception
  <2> SUFFICES ASSUME WithResult[robHead].exception PROVE FALSE
    OBVIOUS
  <2>1. MemHolds(WithResult, intRf) /\ WithResult[robHead].mem = entries[robHead].mem
        /\ WithResult[robHead].valid
    BY <1>1, <1>2, <1>4, MarkedHolds DEF OnlyMarked
  <2>2. \/ Faults(renamedUop.inst)
        \/ entries[robHead].mem.isLoad
    BY <1>1, <1>5, <2>1 DEF MemHolds, MemRight
  <2>3. entries[robHead].mem.isLoad => renamedUop.inst.op = "load"
    BY <1>1, <1>3, <1>4 DEF LoadsInv, MemFields
  <2> QED
    BY <1>3, <2>2, <2>3 DEF Faults, IsTransfer
<1> QED
  BY <1>2, <1>3, <1>4, <1>5, <1>6, <1>7

\* What is written about a transfer is written when it leaves.
LEMMA TransferWrites ==
    ASSUME Settled, CoreInv, LoadsInv, IsaInv, PaceInv,
           CommitFlush \/ CommitNothing \/ CommitEcall \/ CommitTrap \/ CommitHead,
           BranchEvents(aluResult) # <<>>
    PROVE  /\ ~CommitFlush /\ ~CommitNothing /\ ~CommitEcall /\ ~CommitTrap
           /\ IsTransfer(entries[robHead].uop.inst)
<1>1. stage = "rob_commit"
  BY DEF CommitFlush, CommitNothing, CommitEcall, CommitTrap, CommitHead, CommitFrame, At
<1>2. aluResult.valid /\ IsTransfer(aluResult.uop.inst)
  BY DEF BranchEvents
<1>3. renamedUop # NoUop /\ aluResult.uop = renamedUop
  BY <1>1, <1>2 DEF PaceInv, ResultComes, NoResult
<1>4. entries[renamedUop.rob].valid
  BY <1>1, <1>3 DEF PaceInv, Stopped, Running, BeforeCommit
<1>5. entries[renamedUop.rob].uop = renamedUop
  BY <1>1, <1>3, <1>4, WithResultIs DEF Fresh
<1>6. /\ entries[robHead].valid /\ entries[robHead].uop = renamedUop
      /\ aluResult = Executed(renamedUop)
      /\ ~HeadWaits(WithResult) /\ ~WithResult[robHead].exception
  BY <1>1, <1>2, <1>3, <1>4, <1>5, TransferLeaves
<1>7. ~redirect
  BY <1>1, <1>2 DEF IsaInv, RedirectInv
<1>8. ~CommitFlush /\ ~CommitNothing /\ ~CommitEcall /\ ~CommitTrap
  BY <1>6, <1>7 DEF CommitFlush, CommitNothing, CommitEcall, CommitTrap
<1> QED
  BY <1>2, <1>3, <1>6, <1>8

\* No transfer is left once rob_commit has run.
LEMMA NoneWaits ==
    ASSUME Settled, CoreInv, LoadsInv, IsaInv, PaceInv, NoTransferWaits,
           CommitFlush \/ CommitNothing \/ CommitEcall \/ CommitTrap \/ CommitHead
    PROVE  NoTransferWaits'
<1> SUFFICES ASSUME NEW i \in Slots, entries'[i].valid, IsTransfer(entries'[i].uop.inst)
             PROVE  FALSE
  BY DEF NoTransferWaits
<1>1. stage = "rob_commit" /\ RingInv /\ robHead \in Slots
  BY DEF CommitFlush, CommitNothing, CommitEcall, CommitTrap, CommitHead, CommitFrame, At,
         CoreInv, BaseInv, RingInv, RobTypeOK
<1>2. OnlyMarked(WithResult)
  BY <1>1, WithResultIs
<1>3. ~CommitFlush
  BY SquashKeepsRing DEF CommitFlush
<1>4. /\ entries' = WithResult \/ entries' = [WithResult EXCEPT ![robHead] = EmptyEntry]
      /\ CommitHead => entries' = [WithResult EXCEPT ![robHead] = EmptyEntry]
  BY <1>3 DEF CommitNothing, CommitEcall, CommitTrap, CommitHead, PopHead
<1>5. entries[i].valid /\ entries[i].uop = entries'[i].uop
      /\ (CommitHead => i # robHead)
  BY <1>1, <1>2, <1>4 DEF OnlyMarked, EmptyEntry
<1>6. renamedUop # NoUop /\ renamedUop.rob = i
  BY <1>5 DEF NoTransferWaits
<1>7. /\ i = robHead
      /\ ~HeadWaits(WithResult) /\ ~WithResult[robHead].exception
  BY <1>1, <1>5, <1>6, TransferLeaves
<1>8. CommitHead
  BY <1>3, <1>7 DEF CommitNothing, CommitEcall, CommitTrap
<1> QED
  BY <1>5, <1>7, <1>8

LEMMA NoTransferWaitsStep ==
    ASSUME Settled, CoreInv, RegsInv, LoadsInv, IsaInv, PaceInv, NoTransferWaits,
           [Next]_vars
    PROVE  NoTransferWaits'
<1>1. CASE /\ \A i \in Slots : entries'[i].valid = entries[i].valid
                                 /\ entries'[i].uop = entries[i].uop
           /\ \/ stage \notin {"issue", "execute", "rob_commit"}
              \/ /\ stage' \in {"issue", "execute", "rob_commit"}
                 /\ renamedUop' = renamedUop
  BY <1>1 DEF NoTransferWaits
<1>2. CASE Branch \/ FetchStopped \/ FetchWaits \/ FetchReads \/ Decode \/ RenameStage
           \/ Memory
  <2>1. /\ entries' = entries
        /\ stage \notin {"issue", "execute", "rob_commit"}
    BY <1>2 DEF Branch, FetchStopped, FetchWaits, FetchReads, FetchFrame, Decode,
                RenameStage, Memory, At, robRing
  <2> QED
    BY <1>1, <2>1
<1>3. CASE LsuStage
  <2>1. stage = "lsu" /\ Advanced(entries, entries')
    BY <1>3, LsuHolds DEF LsuStage, At
  <2> QED
    BY <1>1, <2>1 DEF Advanced
<1>4. CASE RobAllocate
  <2>1. stage = "rob_allocate" /\ stage' = "issue"
    BY <1>4 DEF RobAllocate, At
  <2>2. CASE renamedUop = NoUop
    <3>1. entries' = entries
      BY <1>4, <2>2 DEF RobAllocate
    <3> QED
      BY <1>1, <2>1, <3>1
  <2>3. CASE renamedUop # NoUop
    <3> DEFINE u == [renamedUop EXCEPT !.rob = robTail]
    <3>1. /\ Allocate(u)
          /\ renamedUop' = IF RobFull THEN NoUop ELSE u
      BY <1>4, <2>3 DEF RobAllocate
    <3>2. entries \in [Slots -> Entry] /\ renamedUop \in MicroOp /\ robTail \in Slots
      BY <2>3 DEF CoreInv, BaseInv, RingInv, RobTypeOK, RenameTypeOK
    <3>3. u \in MicroOp /\ u.rob = robTail
      BY <3>2 DEF MicroOp, Slots
    <3>4. NoUop \notin MicroOp
      BY NoUopIsNone
    <3>5. CASE RobFull
      <4>1. entries' = entries
        BY <3>1, <3>5 DEF Allocate
      <4> QED
        BY <1>1, <2>1, <4>1
    <3>6. CASE ~RobFull
      <4>1. renamedUop' = u /\ renamedUop' # NoUop /\ renamedUop'.rob = robTail
        BY <3>1, <3>3, <3>4, <3>6
      <4>2. \A i \in Slots : i # robTail => entries'[i] = entries[i]
        BY <3>1, <3>2, <3>6 DEF Allocate
      <4>3. \A i \in Slots : ~(entries[i].valid /\ IsTransfer(entries[i].uop.inst))
        BY <2>1 DEF NoTransferWaits
      <4> QED
        BY <2>1, <4>1, <4>2, <4>3 DEF NoTransferWaits
    <3> QED
      BY <3>5, <3>6
  <2> QED
    BY <2>2, <2>3
<1>5. CASE Issue \/ Execute \/ UNCHANGED vars
  <2>1. /\ entries' = entries /\ renamedUop' = renamedUop
        /\ stage' \in {"issue", "execute", "rob_commit"} \/ stage' = stage
    BY <1>5 DEF Issue, Execute, At, vars, renameVars, robRing
  <2> QED
    BY <1>1, <2>1
<1>6. CASE CommitFlush \/ CommitNothing \/ CommitEcall \/ CommitTrap \/ CommitHead
  BY <1>6, NoneWaits
<1> QED
  BY <1>2, <1>3, <1>4, <1>5, <1>6 DEF Next, Cycle

\* Of each transfer that has committed, the branch event is there, and it leads to
\* what committed next, or will: "here".
Told(resolved, commits, here) ==
    /\ Len(resolved) = Cardinality(TransfersOf(commits))
    /\ \A k \in TransfersOf(commits) :
          LET b == EventOf(resolved, commits, k)
          IN  /\ b.pc = commits[k].pc
              /\ FollowedBy(Leads(b), IF k < Len(commits) THEN commits[k + 1].pc ELSE here)

\* How many transfers there are up to one that has committed, when one event more has.
LEMMA TransfersCounted ==
    ASSUME NEW commits, IsSequence(commits), NEW e
    PROVE  LET T == TransfersOf(commits)
               U == TransfersOf(Append(commits, e))
               last == Len(commits) + 1
           IN  /\ T \subseteq 1 .. Len(commits)
               /\ Cardinality(T) \in Nat
               /\ U = IF IsTransfer(e.instruction) THEN T \cup {last} ELSE T
               /\ \A k \in T : /\ {t \in U : t <= k} = {t \in T : t <= k}
                               /\ Cardinality({t \in T : t <= k}) \in 1 .. Cardinality(T)
               /\ IsTransfer(e.instruction) =>
                     /\ {t \in U : t <= last} = U
                     /\ Cardinality(U) = Cardinality(T) + 1
<1> DEFINE T == TransfersOf(commits)
           U == TransfersOf(Append(commits, e))
           last == Len(commits) + 1
<1> PICK V : commits \in Seq(V)
  BY DEF IsSequence
<1>1. /\ DOMAIN commits = 1 .. Len(commits) /\ Len(commits) \in Nat
      /\ DOMAIN Append(commits, e) = 1 .. last
      /\ \A n \in 1 .. Len(commits) : Append(commits, e)[n] = commits[n]
      /\ Append(commits, e)[last] = e
  OBVIOUS
<1>2. T \subseteq 1 .. Len(commits)
  BY <1>1 DEF TransfersOf
<1>3. U = IF IsTransfer(e.instruction) THEN T \cup {last} ELSE T
  <2> SUFFICES ASSUME NEW n
               PROVE  n \in U <=> n \in T \/ (n = last /\ IsTransfer(e.instruction))
    OBVIOUS
  <2>1. n \in U <=> n \in 1 .. last /\ IsTransfer(Append(commits, e)[n].instruction)
    BY <1>1 DEF TransfersOf
  <2>2. n \in T <=> n \in 1 .. Len(commits) /\ IsTransfer(commits[n].instruction)
    BY <1>1 DEF TransfersOf
  <2>3. n \in 1 .. last <=> n \in 1 .. Len(commits) \/ n = last
    BY <1>1
  <2> QED
    BY <1>1, <2>1, <2>2, <2>3
<1>4. IsFiniteSet(T) /\ Cardinality(T) \in Nat
  <2>1. IsFiniteSet(1 .. Len(commits))
    BY <1>1, FS_Interval
  <2>2. IsFiniteSet(T)
    BY <1>2, <2>1, FS_Subset
  <2> QED
    BY <2>2, FS_CardinalityType
<1> HIDE DEF T, U
<1>5. ASSUME NEW k \in T
      PROVE  /\ {t \in U : t <= k} = {t \in T : t <= k}
             /\ Cardinality({t \in T : t <= k}) \in 1 .. Cardinality(T)
  <2>1. {t \in U : t <= k} = {t \in T : t <= k}
    BY <1>1, <1>2, <1>3
  <2> DEFINE B == {t \in T : t <= k}
  <2>2. B \in SUBSET T /\ k \in B
    BY <1>1, <1>2
  <2> HIDE DEF B
  <2>3. IsFiniteSet(B) /\ Cardinality(B) <= Cardinality(T)
    BY <1>4, <2>2, FS_Subset
  <2>4. Cardinality(B) \in Nat /\ Cardinality(B) # 0
    BY <2>2, <2>3, FS_CardinalityType, FS_EmptySet
  <2>5. Cardinality(B) \in 1 .. Cardinality(T)
    BY <1>4, <2>3, <2>4
  <2> QED
    BY <2>1, <2>5 DEF B
<1>6. ASSUME IsTransfer(e.instruction)
      PROVE  /\ {t \in U : t <= last} = U
             /\ Cardinality(U) = Cardinality(T) + 1
  <2>1. U = T \cup {last}
    BY <1>3, <1>6
  <2>2. last \notin T /\ \A t \in U : t <= last
    BY <1>1, <1>2, <2>1
  <2>3. Cardinality(T \cup {last}) = Cardinality(T) + 1
    BY <1>4, <2>2, FS_AddElement
  <2> QED
    BY <2>1, <2>2, <2>3
<1> QED
  BY <1>2, <1>3, <1>4, <1>5, <1>6 DEF T, U

LEMMA ToldOn ==
    ASSUME NEW resolved, NEW commits, NEW here, NEW there, Told(resolved, commits, here),
           there = here \/ program[here].op = "ecall"
    PROVE  Told(resolved, commits, there)
  BY DEF Told, FollowedBy

\* The uop that leaves writes its events.
LEMMA ToldMore ==
    ASSUME NEW resolved, NEW commits, NEW here, NEW e, NEW there, IsSequence(commits),
           Told(resolved, commits, here), e.pc = here, ~IsTransfer(e.instruction)
    PROVE  Told(resolved, Append(commits, e), there)
<1> DEFINE T == TransfersOf(commits)
           more == Append(commits, e)
           last == Len(commits) + 1
<1>1. /\ Len(commits) \in Nat /\ Len(more) = last
      /\ more[last] = e
      /\ \A n \in 1 .. Len(commits) : more[n] = commits[n]
  BY DEF IsSequence
<1>2. /\ T \subseteq 1 .. Len(commits) /\ TransfersOf(more) = T
      /\ \A k \in T : {t \in TransfersOf(more) : t <= k} = {t \in T : t <= k}
  BY TransfersCounted
<1>3. Len(resolved) = Cardinality(T)
  BY DEF Told
<1> HIDE DEF more
<1>4. ASSUME NEW k \in T
      PROVE  LET b == EventOf(resolved, more, k)
             IN  /\ b.pc = more[k].pc
                 /\ FollowedBy(Leads(b), IF k < Len(more) THEN more[k + 1].pc ELSE there)
  <2> DEFINE b == EventOf(resolved, commits, k)
  <2>1. EventOf(resolved, more, k) = b
    BY <1>2 DEF EventOf
  <2>2. /\ b.pc = commits[k].pc
        /\ FollowedBy(Leads(b), IF k < Len(commits) THEN commits[k + 1].pc ELSE here)
    BY DEF Told
  <2>3. k \in 1 .. Len(commits)
    BY <1>2
  <2> HIDE DEF b
  <2>4. k < Len(more) /\ more[k] = commits[k]
        /\ more[k + 1].pc = IF k < Len(commits) THEN commits[k + 1].pc ELSE here
    BY <1>1, <2>3
  <2> QED
    BY <2>1, <2>2, <2>4
<1>5. Told(resolved, more, there)
  BY <1>2, <1>3, <1>4 DEF Told
<1> QED
  BY <1>5 DEF more

LEMMA ToldTransfer ==
    ASSUME NEW resolved, NEW commits, NEW here, NEW e, NEW b,
           IsSequence(resolved), IsSequence(commits),
           Told(resolved, commits, here), e.pc = here, IsTransfer(e.instruction), b.pc = here
    PROVE  Told(Append(resolved, b), Append(commits, e), Leads(b))
<1> DEFINE T == TransfersOf(commits)
           more == Append(commits, e)
           all == Append(resolved, b)
           last == Len(commits) + 1
<1>1. /\ Len(commits) \in Nat /\ Len(more) = last
      /\ more[last] = e
      /\ \A n \in 1 .. Len(commits) : more[n] = commits[n]
  BY DEF IsSequence
<1>2. /\ Len(all) = Len(resolved) + 1
      /\ all[Len(resolved) + 1] = b
      /\ \A n \in 1 .. Len(resolved) : all[n] = resolved[n]
  BY DEF IsSequence
<1>3. /\ T \subseteq 1 .. Len(commits) /\ TransfersOf(more) = T \cup {last}
      /\ \A k \in T : /\ {t \in TransfersOf(more) : t <= k} = {t \in T : t <= k}
                      /\ Cardinality({t \in T : t <= k}) \in 1 .. Cardinality(T)
      /\ {t \in TransfersOf(more) : t <= last} = TransfersOf(more)
      /\ Cardinality(TransfersOf(more)) = Cardinality(T) + 1
  BY TransfersCounted
<1>4. Len(resolved) = Cardinality(T)
  BY DEF Told
<1> HIDE DEF more, all
<1>5. ASSUME NEW k \in T
      PROVE  LET d == EventOf(all, more, k)
             IN  /\ d.pc = more[k].pc
                 /\ FollowedBy(Leads(d), IF k < Len(more) THEN more[k + 1].pc ELSE Leads(b))
  <2> DEFINE d == EventOf(resolved, commits, k)
  <2>1. EventOf(all, more, k) = d
    BY <1>2, <1>3, <1>4 DEF EventOf
  <2>2. /\ d.pc = commits[k].pc
        /\ FollowedBy(Leads(d), IF k < Len(commits) THEN commits[k + 1].pc ELSE here)
    BY DEF Told
  <2>3. k \in 1 .. Len(commits)
    BY <1>3
  <2> HIDE DEF d
  <2>4. k < Len(more) /\ more[k] = commits[k]
        /\ more[k + 1].pc = IF k < Len(commits) THEN commits[k + 1].pc ELSE here
    BY <1>1, <2>3
  <2> QED
    BY <2>1, <2>2, <2>4
<1>6. LET d == EventOf(all, more, last)
      IN  /\ d.pc = more[last].pc
          /\ FollowedBy(Leads(d), IF last < Len(more) THEN more[last + 1].pc ELSE Leads(b))
  <2>1. EventOf(all, more, last) = b
    BY <1>2, <1>3, <1>4 DEF EventOf
  <2> QED
    BY <1>1, <2>1 DEF FollowedBy
<1>7. Told(all, more, Leads(b))
  BY <1>2, <1>3, <1>4, <1>5, <1>6 DEF Told
<1> QED
  BY <1>7 DEF more, all

\* The two records of a step: a transfer is in both when it leaves.
LEMMA StepTells ==
    ASSUME Settled, CoreInv, LoadsInv, IsaInv, PaceInv, NoTransferWaits, Step,
           IsSequence(events)
    PROVE  LET u == entries[robHead].uop
               commits == OfType(events, "commit")
               resolved == OfType(events, "branch")
           IN  \/ /\ Other
                  /\ OfType(events', "commit") = commits
                  /\ OfType(events', "branch") = resolved
               \/ /\ CommitHead
                  /\ OfType(events', "commit") = Append(commits, Retired(u))
                  /\ ~IsTransfer(u.inst)
                  /\ OfType(events', "branch") = resolved
               \/ /\ CommitHead
                  /\ OfType(events', "commit") = Append(commits, Retired(u))
                  /\ IsTransfer(u.inst) /\ aluResult = Executed(u)
                  /\ OfType(events', "branch")
                        = Append(resolved, Head(BranchEvents(aluResult)))
<1> DEFINE more == events \o BranchEvents(aluResult)
           u == entries[robHead].uop
           e == Retired(u)
           writes == aluResult.valid /\ IsTransfer(aluResult.uop.inst)
           commits == OfType(events, "commit")
           resolved == OfType(events, "branch")
<1>1. /\ IsSequence(more) /\ OfType(more, "commit") = commits
      /\ OfType(more, "branch") = IF writes THEN Append(resolved, Head(BranchEvents(aluResult)))
                                  ELSE resolved
  BY BranchesApart
<1>2. e.type = "commit" /\ e.type # "branch"
  BY DEF Retired, CommitEvent
<1>3. \/ Other /\ events' = events
      \/ /\ CommitFlush \/ CommitNothing \/ CommitEcall \/ CommitTrap
         /\ events' = more
      \/ CommitHead /\ events' = Append(more, e)
  BY DEF Step, Silent, Other
<1>4. ASSUME writes
      PROVE  BranchEvents(aluResult) # <<>>
  BY <1>4 DEF BranchEvents
<1> HIDE DEF more, e
<1>5. CASE Other /\ events' = events
  BY <1>5
<1>6. CASE /\ CommitFlush \/ CommitNothing \/ CommitEcall \/ CommitTrap
           /\ events' = more
  <2>1. ~writes
    BY <1>4, <1>6, TransferWrites
  <2> QED
    BY <1>1, <1>6, <2>1 DEF Silent, Other
<1>7. CASE CommitHead /\ events' = Append(more, e)
  <2>1. /\ OfType(events', "commit") = Append(commits, e)
        /\ OfType(events', "branch") = OfType(more, "branch")
    BY <1>1, <1>2, <1>7, OneMore
  <2>2. CASE IsTransfer(u.inst)
    <3>1. stage = "rob_commit" /\ robHead \in Slots /\ entries[robHead].valid
      <4>1. /\ stage = "rob_commit" /\ ~HeadWaits(WithResult)
            /\ ~WithResult[robHead].exception
        BY <1>7 DEF CommitHead, CommitFrame, At
      <4>2. robHead \in Slots
        BY DEF CoreInv, BaseInv, RingInv, RobTypeOK
      <4> QED
        BY <4>1, <4>2, HeadDone
    <3>2. renamedUop # NoUop /\ renamedUop.rob = robHead
      BY <2>2, <3>1 DEF NoTransferWaits
    <3>3. aluResult = Executed(u) /\ u = renamedUop
      BY <2>2, <3>1, <3>2, TransferLeaves
    <3>4. aluResult.valid /\ aluResult.uop = u
      BY <3>3 DEF Executed
    <3>5. OfType(more, "branch") = Append(resolved, Head(BranchEvents(aluResult)))
      BY <1>1, <2>2, <3>4
    <3> QED
      BY <1>7, <2>1, <2>2, <3>3, <3>5 DEF e
  <2>3. CASE ~IsTransfer(u.inst)
    <3>1. ~writes
      BY <1>4, <1>7, <2>3, TransferWrites
    <3> QED
      BY <1>1, <1>7, <2>1, <2>3, <3>1 DEF e
  <2> QED
    BY <2>2, <2>3
<1> QED
  BY <1>3, <1>5, <1>6, <1>7

\* Where the transfer that leaves goes on is what its event says.
LEMMA TransferLeads ==
    ASSUME CoreInv, CoreInv', RegsInv, LoadsInv, IsaInv, CommitHead,
           IsTransfer(entries[robHead].uop.inst), aluResult = Executed(entries[robHead].uop)
    PROVE  LET b == Head(BranchEvents(aluResult))
           IN  b.pc = ArchPc /\ Leads(b) = ArchPc'
<1> PICK h \in Slots : h = robHead
  BY DEF CoreInv, BaseInv, RingInv, RobTypeOK
<1> PICK u \in {entries[h].uop}, i \in {entries[h].uop.inst},
         x \in {Op1(h)}, y \in {Op2(h)} : TRUE
  OBVIOUS
<1>1. Arch!Next
  BY CommitHeadKeepsIsa
<1>2. ~RobEmpty
  BY DEF CommitHead, HeadWaits, HeadReady
<1>3. ArchPc = u.pc /\ Arch!Here = i /\ Arch!Rs1 = x /\ Arch!Rs2 = y
  BY <1>2, HeadIsHere
<1>4. Executes(CoreMachine, i, x, y, CoreMachine')
  BY <1>1, <1>3, CoreExecutes
<1>5. i.op \in {"jal", "jalr", "branch"}
  BY DEF IsTransfer
<1>6. ArchPc' = IF Redirects(i, x, y) THEN Target(i, x, ArchPc) ELSE Plus(ArchPc, 1)
  <2>1. CoreMachine.pc = ArchPc /\ CoreMachine'.pc = ArchPc'
    BY DEF CoreMachine
  <2> QED
    BY <1>4, <1>5, <2>1 DEF Executes, Traps
<1>7. /\ aluResult.valid /\ aluResult.uop = u /\ u.inst = i
      /\ aluResult.redirect = Redirects(i, x, y)
      /\ aluResult.target = Target(i, x, u.pc)
  BY DEF Executed, Op1, Op2
<1>8. Head(BranchEvents(aluResult))
         = [type |-> "branch", pc |-> u.pc, instruction |-> i,
            taken |-> aluResult.redirect, target |-> aluResult.target]
  BY <1>7 DEF BranchEvents
<1> QED
  BY <1>3, <1>6, <1>7, <1>8 DEF Leads

\* A machine that writes nothing stays where it is, or passes an ECALL.
LEMMA SilentStep ==
    ASSUME NEW p, NEW s, s.trace \in Seq(CommitRecord), After(p, s).trace = s.trace
    PROVE  After(p, s).pc = s.pc \/ p[s.pc].op = "ecall"
<1> DEFINE i == p[s.pc]
           x == s.regs[i.rs1]
           y == s.regs[i.rs2]
<1>1. CASE s.trapped
  BY <1>1 DEF After
<1>2. CASE Traps(i, x)
  BY <1>2 DEF After
<1>3. CASE ~s.trapped /\ ~Traps(i, x) /\ i.op # "ecall"
  <2>1. PICK e : After(p, s).trace = Append(s.trace, e)
    BY <1>3 DEF After, Runs
  <2>2. Len(Append(s.trace, e)) = Len(s.trace) + 1 /\ Len(s.trace) \in Nat
    OBVIOUS
  <2> QED
    BY <2>1, <2>2
<1> QED
  BY <1>1, <1>2, <1>3

LeadsInv ==
    /\ NoTransferWaits
    /\ Told(OfType(events, "branch"), OfType(events, "commit"), ArchPc)

LEMMA LeadsInvStep ==
    ASSUME Settled, CoreInv, CoreInv', RegsInv, LoadsInv, IsaInv, PaceInv, Undisturbed,
           RunsInv, BooksInv, LeadsInv, [BenchNext]_allVars
    PROVE  LeadsInv'
<1> DEFINE commits == OfType(events, "commit")
           resolved == OfType(events, "branch")
<1>1. [Next]_vars /\ program' = program
  BY BenchNextIsNext
<1>2. NoTransferWaits'
  BY <1>1, NoTransferWaitsStep DEF LeadsInv
<1>3. Told(OfType(events', "branch"), OfType(events', "commit"), ArchPc') => LeadsInv'
  BY <1>1, <1>2 DEF LeadsInv, Told, FollowedBy
<1>4. IsSequence(commits) /\ IsSequence(resolved) /\ Told(resolved, commits, ArchPc)
  BY OneMore DEF BooksInv, LeadsInv
<1>5. CoreMachine \in Machine
  <2> PICK R : IsRun(R, program)
    BY ProgramsAssumption, RunExists DEF CoreInv, BaseInv, PipeTypeOK
  <2> PICK n \in Nat : R[n] = CoreMachine
    BY DEF RunsInv
  <2> QED
    BY DEF IsRun
<1>6. ASSUME Other, OfType(events', "commit") = commits, OfType(events', "branch") = resolved
      PROVE  LeadsInv'
  <2>1. CoreMachine' \in {CoreMachine, After(program, CoreMachine)}
    BY <1>5, <1>6, OtherGoesOn
  <2>2. /\ CoreMachine.pc = ArchPc /\ CoreMachine'.pc = ArchPc'
        /\ CoreMachine.trace = commits /\ CoreMachine'.trace = commits
    BY <1>6 DEF CoreMachine
  <2>3. commits \in Seq(CommitRecord)
    BY <1>5, <2>2 DEF Machine
  <2> HIDE DEF commits, resolved
  <2>4. ArchPc' = ArchPc \/ program[ArchPc].op = "ecall"
    BY <2>1, <2>2, <2>3, SilentStep
  <2>5. Told(resolved, commits, ArchPc')
    BY <1>4, <2>4, ToldOn
  <2> QED
    BY <1>3, <1>6, <2>5
<1>7. ASSUME UNCHANGED <<vars, events>>
      PROVE  LeadsInv'
  <2>1. CoreMachine' = CoreMachine
    BY <1>7, SameGoesOn
  <2>2. ArchPc' = ArchPc
    BY <2>1 DEF CoreMachine
  <2> QED
    BY <1>3, <1>4, <1>7, <2>2
<1>8. CASE Step
  <2> PICK u : u = entries[robHead].uop
    OBVIOUS
  <2> DEFINE e == Retired(u)
             b == Head(BranchEvents(aluResult))
  <2>1. e.pc = u.pc /\ e.instruction = u.inst
    BY DEF Retired, CommitEvent
  <2>2. ASSUME CommitHead
        PROVE  ArchPc = u.pc
    <3>1. ~RobEmpty
      BY <2>2 DEF CommitHead, HeadWaits, HeadReady
    <3>2. PICK h \in Slots : h = robHead
      BY DEF CoreInv, BaseInv, RingInv, RobTypeOK
    <3> QED
      BY <3>1, <3>2, HeadIsHere
  <2>3. \/ /\ Other
           /\ OfType(events', "commit") = commits
           /\ OfType(events', "branch") = resolved
        \/ /\ CommitHead
           /\ OfType(events', "commit") = Append(commits, e)
           /\ ~IsTransfer(u.inst)
           /\ OfType(events', "branch") = resolved
        \/ /\ CommitHead
           /\ OfType(events', "commit") = Append(commits, e)
           /\ IsTransfer(u.inst) /\ aluResult = Executed(u)
           /\ OfType(events', "branch") = Append(resolved, b)
    BY <1>8, StepTells DEF BooksInv, LeadsInv
  <2> HIDE DEF e, b, commits, resolved
  <2>4. CASE /\ Other
             /\ OfType(events', "commit") = commits
             /\ OfType(events', "branch") = resolved
    BY <1>6, <2>4
  <2>5. CASE /\ CommitHead
             /\ OfType(events', "commit") = Append(commits, e)
             /\ ~IsTransfer(u.inst)
             /\ OfType(events', "branch") = resolved
    <3>1. Told(resolved, Append(commits, e), ArchPc')
      BY <1>4, <2>1, <2>2, <2>5, ToldMore
    <3> QED
      BY <1>3, <2>5, <3>1
  <2>6. CASE /\ CommitHead
             /\ OfType(events', "commit") = Append(commits, e)
             /\ IsTransfer(u.inst) /\ aluResult = Executed(u)
             /\ OfType(events', "branch") = Append(resolved, b)
    <3>1. b.pc = ArchPc /\ Leads(b) = ArchPc'
      BY <2>6, TransferLeads DEF b
    <3>2. Told(Append(resolved, b), Append(commits, e), Leads(b))
      BY <1>4, <2>1, <2>2, <2>6, <3>1, ToldTransfer
    <3> QED
      BY <1>3, <2>6, <3>1, <3>2
  <2> QED
    BY <2>3, <2>4, <2>5, <2>6
<1>9. CASE Serve
  BY <1>6, <1>9 DEF Serve, Other
<1>10. CASE \/ ReferenceRetires \/ ReferenceRecorded \/ Feed \/ NextCycle \/ Close
            \/ UNCHANGED allVars
  <2>1. UNCHANGED <<vars, events>>
    BY <1>10 DEF ReferenceRetires, ReferenceRecorded, Feed, NextCycle, Close, allVars,
                 benchVars
  <2> QED
    BY <1>7, <2>1
<1> QED
  BY <1>8, <1>9, <1>10 DEF BenchNext

LEMMA LeadsInvInit ==
    ASSUME BenchInit
    PROVE  LeadsInv
<1>1. OfType(events, "commit") = <<>> /\ OfType(events, "branch") = <<>>
  BY NoneYet DEF BenchInit
<1>2. TransfersOf(<<>>) = {} /\ Cardinality({}) = 0 /\ Len(<<>>) = 0
  BY FS_EmptySet DEF TransfersOf
<1>3. NoTransferWaits
  BY DEF BenchInit, Init, RobInit, EmptyEntry, NoTransferWaits
<1> QED
  BY <1>1, <1>2, <1>3 DEF LeadsInv, Told

\* In a settled program the branch events lead: each transfer is in the trace with the
\* event that was written when execute_module resolved it, in the order of the commits,
\* and what rob_commit retired next is at the address that the event says.
THEOREM SettledBranchesLead ==
    ASSUME Settled
    PROVE  BenchSpec => []BranchesLead
<1>1. BenchInit => Init /\ RunsInv /\ BooksInv /\ LeadsInv
  BY BenchInvInit, LeadsInvInit DEF BenchInit
<1>2. [BenchNext]_allVars => [Next]_vars
  BY BenchNextIsNext
<1>3. CoreInv /\ CoreInv' /\ LoadsInv /\ SettledInv /\ Undisturbed
          /\ RunsInv /\ BooksInv /\ LeadsInv /\ [BenchNext]_allVars
        => RunsInv' /\ BooksInv' /\ LeadsInv'
  BY RunsInvStep, BooksInvStep, LeadsInvStep DEF SettledInv
<1>4. LeadsInv => BranchesLead
  <2> SUFFICES ASSUME LeadsInv PROVE BranchesLead
    OBVIOUS
  <2> DEFINE commits == OfType(events, "commit")
             resolved == OfType(events, "branch")
  <2>1. Told(resolved, commits, ArchPc)
    BY DEF LeadsInv
  <2> QED
    BY <2>1 DEF BranchesLead, Told
<1> QED
  BY <1>1, <1>2, <1>3, <1>4, SettledInvAlways, SettledIsUndisturbed, LoadsInvAlways, PTL
     DEF BenchSpec, Spec

-----------------------------------------------------------------------------
(* The verdict.  A bench watches for one state of the machine, the ECALL   *)
(* or the store to tohost, and the reference notes the first such state.   *)

\* The state that bench b watches for in program p.
Watched(p, b, s) ==
    LET i == p[s.pc]
    IN  /\ ~s.trapped
        /\ IF b = "observed" THEN i.op = "ecall"
           ELSE i.op = "store" /\ Address(i, s.regs[i.rs1]) = Tohost /\ s.regs[i.rs2] = 1

\* It is not among the first n states of the run.
Before(p, b, R, n) == \A j \in 0 .. n - 1 : ~Watched(p, b, R[j])

\* The first is the only one that all before it are before.
LEMMA FirstIsOne ==
    ASSUME NEW p, NEW b, NEW R, NEW m \in Nat, NEW n \in Nat,
           Before(p, b, R, n), Watched(p, b, R[m])
    PROVE  /\ n <= m
           /\ Before(p, b, R, m) /\ Watched(p, b, R[n]) => m = n
<1>1. \A x, y \in Nat : Before(p, b, R, x) /\ Watched(p, b, R[y]) => x <= y
  <2> SUFFICES ASSUME NEW x \in Nat, NEW y \in Nat, Before(p, b, R, x),
                      Watched(p, b, R[y]), ~(x <= y)
               PROVE  FALSE
    OBVIOUS
  <2>1. y \in 0 .. x - 1
    OBVIOUS
  <2> QED
    BY <2>1 DEF Before
<1>2. n <= m /\ (Before(p, b, R, m) /\ Watched(p, b, R[n]) => m <= n)
  BY <1>1
<1> QED
  BY <1>2

\* One more that is not.
LEMMA BeforeNext ==
    ASSUME NEW p, NEW b, NEW R, NEW n \in Nat, Before(p, b, R, n), ~Watched(p, b, R[n])
    PROVE  Before(p, b, R, n + 1)
<1>1. \A j \in 0 .. (n + 1) - 1 : j \in 0 .. n - 1 \/ j = n
  OBVIOUS
<1> QED
  BY <1>1 DEF Before

\* The state behind it: nothing has trapped; ECALL has changed nothing, the store has
\* written its event.
LEMMA WatchedRuns ==
    ASSUME NEW p, NEW b, NEW s \in Machine, Watched(p, b, s)
    PROVE  /\ ~After(p, s).trapped
           /\ b = "observed" => /\ After(p, s).trace = s.trace
                                /\ After(p, s).regs = s.regs
           /\ b # "observed" => Len(After(p, s).trace) = Len(s.trace) + 1
<1> DEFINE i == p[s.pc]
           a == s.regs[i.rs1]
           c == s.regs[i.rs2]
           e == CommitEvent(s.pc, i, HasIntDst(i) /\ i.rd # 0, RegsAfter(s, i, a, c)[i.rd])
<1>1. /\ ~s.trapped
      /\ IF b = "observed" THEN i.op = "ecall" ELSE i.op = "store"
  BY DEF Watched
<1>2. After(p, s) = IF s.trapped THEN s
                    ELSE IF Traps(i, a)
                    THEN [pc |-> s.pc, regs |-> s.regs, mem |-> s.mem, trapped |-> TRUE,
                          trace |-> s.trace]
                    ELSE Runs(s, i, a, c)
  BY DEF After
<1>3. /\ Runs(s, i, a, c).trace = IF i.op = "ecall" THEN s.trace ELSE Append(s.trace, e)
      /\ Runs(s, i, a, c).regs = RegsAfter(s, i, a, c)
      /\ ~Runs(s, i, a, c).trapped
  BY DEF Runs
<1>4. i.op = "ecall" => RegsAfter(s, i, a, c) = s.regs
  BY DEF RegsAfter
<1>5. s.trace \in Seq(CommitRecord)
  BY DEF Machine
<1> HIDE DEF i, a, c, e
<1>6. ~Traps(i, a)
  BY <1>1 DEF Traps
<1>7. After(p, s) = Runs(s, i, a, c)
  BY <1>1, <1>2, <1>6
<1>8. Len(Append(s.trace, e)) = Len(s.trace) + 1
  <2> DEFINE U == CommitRecord \cup {e}
  <2>1. s.trace \in Seq(U) /\ e \in U
    BY <1>5
  <2> HIDE DEF U
  <2> QED
    BY <2>1
<1> QED
  BY <1>1, <1>3, <1>4, <1>7, <1>8

-----------------------------------------------------------------------------
(* What the reference has noted.                                           *)

\* refTohost, when the reference is in state k of the run.
Noted(p, b, R, tohost, k) ==
    IF b = "observed" \/ tohost = 0 THEN Before(p, b, R, k)
    ELSE \E j \in 0 .. k - 1 : /\ Before(p, b, R, j) /\ Watched(p, b, R[j])
                               /\ tohost = Len(R[j + 1].trace)

LEMMA RunTypes ==
    ASSUME NEW p, NEW R, IsRun(R, p), NEW n \in Nat
    PROVE  /\ R[n] \in Machine /\ R[n].trace \in Seq(CommitRecord)
           /\ Len(R[n].trace) \in Nat
           /\ n + 1 \in Nat /\ R[n + 1] = After(p, R[n])
<1>1. R[n] \in Machine /\ R[n + 1] = After(p, R[n])
  BY DEF IsRun
<1> QED
  BY <1>1 DEF Machine

\* The reference notes the state it steps from, if that is the first.
LEMMA ReferenceNotes ==
    ASSUME ReferenceRetires, NEW R, IsRun(R, program), NEW k \in Nat,
           R[k] = RefMachine, Noted(program, kind, R, refTohost, k)
    PROVE  /\ R[k + 1] = RefMachine'
           /\ Noted(program, kind, R, refTohost', k + 1)
<1> PICK i \in {Ref!Here}, a \in {Ref!Rs1}, b \in {Ref!Rs2} : TRUE
  OBVIOUS
<1>1. /\ R[k] \in Machine /\ k + 1 \in Nat /\ R[k + 1] = After(program, R[k])
      /\ Len(R[k].trace) \in Nat
  BY RunTypes
<1>2. R[k + 1] = RefMachine'
  BY <1>1, ReferenceSteps
<1>3. /\ i = program[refPc] /\ a = refRegs[i.rs1] /\ b = refRegs[i.rs2]
      /\ Ref!Next /\ ~refTrapped
      /\ ~(i.op = "ecall" /\ kind = "observed")
  BY DEF ReferenceRetires, ReferenceEnds, Ref!Here, Ref!Rs1, Ref!Rs2, Ref!Next
<1>4. /\ R[k].pc = refPc /\ R[k].regs = refRegs /\ R[k].trapped = refTrapped
      /\ R[k].mem = refMem
      /\ R[k + 1].trace = refTrace'
  BY <1>2 DEF RefMachine
<1>5. CASE kind = "observed"
  <2>1. ~Watched(program, kind, R[k])
    BY <1>3, <1>4, <1>5 DEF Watched
  <2> QED
    BY <1>2, <1>5, <2>1, BeforeNext DEF Noted
<1>6. CASE kind # "observed" /\ refTohost # 0
  <2>1. PICK j \in 0 .. k - 1 : /\ Before(program, kind, R, j)
                                /\ Watched(program, kind, R[j])
                                /\ refTohost = Len(R[j + 1].trace)
    BY <1>6 DEF Noted
  <2>2. j \in 0 .. (k + 1) - 1
    OBVIOUS
  <2>3. refTohost' = refTohost
    BY <1>6 DEF ReferenceRetires
  <2> QED
    BY <1>2, <1>6, <2>1, <2>2, <2>3 DEF Noted
<1>7. CASE kind # "observed" /\ refTohost = 0
  <2>1. Before(program, kind, R, k)
    BY <1>7 DEF Noted
  <2>2. CASE Watched(program, kind, R[k])
    <3>1. i.op = "store" /\ Address(i, a) = Tohost /\ b = 1
      BY <1>3, <1>4, <1>7, <2>2 DEF Watched
    <3>2. Ref!Store
      BY <1>3, <3>1 DEF Ref!Next, Ref!Compute, Ref!Load, Ref!Pass, Ref!Trap, Ref!Here
    <3>3. ~refTrapped' /\ refMem' = [refMem EXCEPT ![Address(i, a)] = b]
      BY <1>3, <3>2, RefOps DEF Ref!Store
    <3>4. refMem'[Tohost] = 1
      <4>1. refMem \in [Word -> Word] /\ Tohost \in Word
        BY <1>1, <1>4, TohostAssumption DEF Machine
      <4> QED
        BY <3>1, <3>3, <4>1
    <3>5. refTohost' = Len(refTrace')
      BY <1>3, <1>7, <3>1, <3>3, <3>4 DEF ReferenceRetires, Ref!Here
    <3>6. Len(R[k + 1].trace) = Len(R[k].trace) + 1
      BY <1>1, <1>7, <2>2, WatchedRuns
    <3>7. refTohost' # 0 /\ refTohost' = Len(R[k + 1].trace)
      BY <1>1, <1>4, <3>5, <3>6
    <3>8. k \in 0 .. (k + 1) - 1
      OBVIOUS
    <3> QED
      BY <1>2, <1>7, <2>1, <2>2, <3>7, <3>8 DEF Noted
  <2>3. CASE ~Watched(program, kind, R[k])
    <3>1. ~(i.op = "store" /\ Address(i, a) = Tohost /\ b = 1)
      BY <1>3, <1>4, <1>7, <2>3 DEF Watched
    <3>2. ASSUME i.op = "store", Address(i, a) = Tohost, refMem'[Tohost] = 1
          PROVE  FALSE
      <4>1. Ref!Store
        BY <1>3, <3>2 DEF Ref!Next, Ref!Compute, Ref!Load, Ref!Pass, Ref!Trap, Ref!Here
      <4>2. refMem' = [refMem EXCEPT ![Address(i, a)] = b]
        BY <1>3, <4>1, RefOps DEF Ref!Store
      <4>3. refMem \in [Word -> Word] /\ Tohost \in Word
        BY <1>1, <1>4, TohostAssumption DEF Machine
      <4> QED
        BY <3>1, <3>2, <4>2, <4>3
    <3>3. refTohost' = 0
      BY <1>3, <1>7, <3>2 DEF ReferenceRetires, Ref!Here
    <3> QED
      BY <1>2, <2>1, <2>3, <3>3, BeforeNext DEF Noted
  <2> QED
    BY <2>2, <2>3
<1> QED
  BY <1>5, <1>6, <1>7

-----------------------------------------------------------------------------
(* What the core has shown.                                                *)

\* The stores that memory has not served, and those of 1 to tohost.
StoresOut == {n \in DOMAIN dmemReq : dmemReq[n].isStore}
TohostOut == {n \in StoresOut : dmemReq[n].addr = Tohost /\ dmemReq[n].data = 1}

\* The core is past the state that its bench watches for.
Seen ==
    IF kind = "observed" THEN ioSuccess \/ (ioTrap /\ robState # "EXCEPTION")
    ELSE sawTohost \/ TohostOut # {}

\* Flags and stores are those of the last step, and there is one store at most.
ShownInv ==
    IF kind = "observed"
    THEN /\ at \in {"reference", "step"} => ~FlagsRaised
         /\ Seen => (ioTrap <=> ~ioSuccess) /\ (ioSuccess <=> ArchRegs[A0] = 0)
    ELSE /\ StoresOut # {} => at = "serve" /\ ~sawTohost
         /\ \A m, n \in StoresOut : m = n
         /\ at \in {"reference", "step"} => ~sawTohost

LEMMA NothingSeen ==
    ASSUME ShownInv, at \in {"reference", "step"}
    PROVE  ~Seen
  BY DEF ShownInv, Seen, FlagsRaised, TohostOut

\* As many requests as before, or one more.
LEMMA StoresOutAre ==
    ASSUME LsuTypeOK, StoresOut = {}, NEW r \in DmemRequest, dmemReq' = Append(dmemReq, r)
    PROVE  /\ r.isStore => /\ StoresOut' = {Len(dmemReq) + 1}
                           /\ dmemReq'[Len(dmemReq) + 1] = r
           /\ ~r.isStore => StoresOut' = {}
<1> PICK q \in Seq(DmemRequest) : q = dmemReq
  BY DEF LsuTypeOK
<1>1. /\ DOMAIN q = 1 .. Len(q) /\ Len(q) \in Nat
      /\ DOMAIN Append(q, r) = 1 .. Len(q) + 1
      /\ \A n \in 1 .. Len(q) : Append(q, r)[n] = q[n]
      /\ Append(q, r)[Len(q) + 1] = r
  OBVIOUS
<1>2. \A n \in 1 .. Len(q) : ~q[n].isStore
  BY <1>1 DEF StoresOut
<1>3. dmemReq' = Append(q, r)
  OBVIOUS
<1>4. StoresOut' = {n \in 1 .. Len(q) + 1 : Append(q, r)[n].isStore}
  BY <1>1, <1>3 DEF StoresOut
<1>5. \A n \in 1 .. Len(q) + 1 : Append(q, r)[n].isStore <=> n = Len(q) + 1 /\ r.isStore
  <2>1. \A n \in 1 .. Len(q) + 1 : n \in 1 .. Len(q) \/ n = Len(q) + 1
    BY <1>1
  <2>2. ~(Len(q) + 1 \in 1 .. Len(q))
    BY <1>1
  <2> QED
    BY <1>1, <1>2, <2>1, <2>2
<1>6. Len(q) + 1 \in 1 .. Len(q) + 1
  BY <1>1
<1> QED
  BY <1>1, <1>3, <1>4, <1>5, <1>6

\* Memory takes the oldest.
LEMMA StoresOutServed ==
    ASSUME LsuTypeOK, Memory
    PROVE  /\ \A n \in StoresOut' : n + 1 \in StoresOut /\ n + 1 # 1 /\ dmemReq'[n] = dmemReq[n + 1]
           /\ \A n \in StoresOut : n = 1 \/ (n - 1 \in StoresOut' /\ dmemReq'[n - 1] = dmemReq[n])
           /\ 1 \in StoresOut <=> Head(dmemReq).isStore
           /\ Head(dmemReq) = dmemReq[1]
<1> PICK q \in Seq(DmemRequest) : q = dmemReq
  BY DEF LsuTypeOK
<1>1. q # <<>> /\ dmemReq' = Tail(q)
  BY DEF Memory, MemoryServes
<1>2. /\ Len(q) \in Nat \ {0} /\ DOMAIN q = 1 .. Len(q) /\ Head(q) = q[1]
      /\ DOMAIN Tail(q) = 1 .. Len(q) - 1
      /\ \A n \in 1 .. Len(q) - 1 : Tail(q)[n] = q[n + 1]
  BY <1>1
<1>3. /\ StoresOut = {n \in 1 .. Len(q) : q[n].isStore}
      /\ StoresOut' = {n \in 1 .. Len(q) - 1 : Tail(q)[n].isStore}
  BY <1>1, <1>2 DEF StoresOut
<1>4. \A n \in 1 .. Len(q) - 1 : n + 1 \in 1 .. Len(q) /\ n + 1 # 1
  BY <1>2
<1>5. \A n \in 1 .. Len(q) : n = 1 \/ (n - 1 \in 1 .. Len(q) - 1 /\ (n - 1) + 1 = n)
  BY <1>2
<1>6. \A n \in StoresOut' : n + 1 \in StoresOut /\ n + 1 # 1 /\ Tail(q)[n] = q[n + 1]
  BY <1>2, <1>3, <1>4
<1>7. \A n \in StoresOut : n = 1 \/ (n - 1 \in StoresOut' /\ Tail(q)[n - 1] = q[n])
  BY <1>2, <1>3, <1>5
<1>8. 1 \in 1 .. Len(q)
  BY <1>2
<1> QED
  BY <1>1, <1>2, <1>3, <1>6, <1>7, <1>8

\* Serving a request shows the bench what was on its way.
LEMMA ServeShows ==
    ASSUME LsuTypeOK, ShownInv, Serve
    PROVE  ShownInv' /\ (Seen' <=> Seen)
<1>1. /\ at = "serve" /\ at' = "serve" /\ kind # "observed" /\ kind' = kind /\ Memory
      /\ sawTohost' = IF Head(dmemReq).isStore /\ Head(dmemReq).addr = Tohost
                      THEN Head(dmemReq).data = 1 ELSE sawTohost
  BY DEF Serve, BenchFrame
<1>2. /\ StoresOut # {} => ~sawTohost
      /\ \A m, n \in StoresOut : m = n
  BY <1>1 DEF ShownInv
<1>3. /\ \A n \in StoresOut' : n + 1 \in StoresOut /\ n + 1 # 1 /\ dmemReq'[n] = dmemReq[n + 1]
      /\ \A n \in StoresOut : n = 1 \/ (n - 1 \in StoresOut' /\ dmemReq'[n - 1] = dmemReq[n])
      /\ 1 \in StoresOut <=> Head(dmemReq).isStore
      /\ Head(dmemReq) = dmemReq[1]
  BY <1>1, StoresOutServed
<1>4. TohostOut' = {n \in StoresOut' : dmemReq'[n].addr = Tohost /\ dmemReq'[n].data = 1}
  BY DEF TohostOut
<1>5. CASE 1 \in StoresOut
  <2>1. StoresOut' = {} /\ StoresOut = {1}
    BY <1>2, <1>3, <1>5
  <2>2. TohostOut' = {} /\ (TohostOut # {} <=> dmemReq[1].addr = Tohost /\ dmemReq[1].data = 1)
    BY <1>4, <2>1 DEF TohostOut
  <2>3. Seen' <=> Seen
    BY <1>1, <1>2, <1>3, <1>5, <2>1, <2>2 DEF Seen
  <2> QED
    BY <1>1, <2>1, <2>3 DEF ShownInv
<1>6. CASE 1 \notin StoresOut
  <2>1. sawTohost' = sawTohost
    BY <1>1, <1>3, <1>6
  <2>2. /\ StoresOut' # {} => StoresOut # {}
        /\ \A m, n \in StoresOut' : m = n
    <3>1. \A m, n \in StoresOut' : m + 1 = n + 1
      BY <1>2, <1>3
    <3>2. StoresOut' \subseteq Int
      <4>1. DOMAIN dmemReq' \subseteq Int
        <5> PICK q \in Seq(DmemRequest) : q = dmemReq
          BY DEF LsuTypeOK
        <5>1. q # <<>> /\ dmemReq' = Tail(q)
          BY <1>1 DEF Memory, MemoryServes
        <5>2. DOMAIN Tail(q) = 1 .. Len(q) - 1 /\ Len(q) \in Nat
          BY <5>1
        <5> QED
          BY <5>1, <5>2
      <4> QED
        BY <4>1 DEF StoresOut
    <3> QED
      BY <1>3, <3>1, <3>2
  <2>3. TohostOut' # {} <=> TohostOut # {}
    <3>1. ASSUME NEW n \in TohostOut' PROVE n + 1 \in TohostOut
      BY <1>3, <1>4, <3>1 DEF TohostOut
    <3>2. ASSUME NEW n \in TohostOut PROVE n - 1 \in TohostOut'
      BY <1>3, <1>4, <1>6, <3>2 DEF TohostOut
    <3> QED
      BY <3>1, <3>2
  <2>4. Seen' <=> Seen
    BY <1>1, <2>1, <2>3 DEF Seen
  <2> QED
    BY <1>1, <1>2, <2>1, <2>2, <2>4 DEF ShownInv
<1> QED
  BY <1>5, <1>6

-----------------------------------------------------------------------------
(* The steps of the core.                                                  *)

\* What a step of the core is, and what it records.
LEMMA StepIs ==
    ASSUME Step, IsSequence(events)
    PROVE  /\ at = "step" /\ at' \in {"step", "serve"} /\ (stage = "rob_commit" => at' = "serve")
           /\ UNCHANGED <<kind, commitTarget, sawTohost, refVars>>
           /\ \/ /\ CommitHead
                 /\ OfType(events', "commit")
                       = Append(OfType(events, "commit"), Retired(entries[robHead].uop))
              \/ /\ Silent \/ CommitEcall \/ CommitTrap
                 /\ OfType(events', "commit") = OfType(events, "commit")
<1>1. \/ Other /\ OfType(events', "commit") = OfType(events, "commit")
      \/ /\ CommitHead
         /\ OfType(events', "commit")
               = Append(OfType(events, "commit"), Retired(entries[robHead].uop))
  BY StepWrites
<1>2. Silent \/ CommitEcall \/ CommitTrap \/ CommitHead
  BY DEF Step, Silent
<1>3. /\ at = "step" /\ at' \in {"step", "serve"} /\ (stage = "rob_commit" => at' = "serve")
      /\ UNCHANGED <<kind, commitTarget, sawTohost, refVars>>
  BY DEF Step, BenchFrame
<1>4. CommitHead => ~Other
  <2>1. CommitHead => stage = "rob_commit" /\ stage' = "branch"
    BY DEF CommitHead, CommitFrame, At
  <2>2. CommitHead =>
           /\ ~redirect /\ ~HeadWaits(WithResult) /\ ~WithResult[robHead].exception
    BY DEF CommitHead
  <2>3. Other => \/ stage # "rob_commit" \/ redirect \/ HeadWaits(WithResult)
                 \/ WithResult[robHead].exception
    BY DEF Other, Silent, Branch, LsuStage, FetchStopped, FetchWaits, FetchReads, FetchFrame, Decode,
           RenameStage, RobAllocate, Issue, Execute, At, CommitFlush, CommitNothing,
           CommitEcall, CommitTrap, Memory
  <2> QED
    BY <2>1, <2>2, <2>3
<1> QED
  BY <1>1, <1>2, <1>3, <1>4

\* A silent step may send a load; it raises no flag.
LEMMA SilentShows ==
    ASSUME CoreInv, CoreInv', Silent
    PROVE  /\ StoresOut = {} => StoresOut' = {}
           /\ FlagsRaised' => FlagsRaised
<1>1. CASE LsuStage
  <2> DEFINE e2 == WithAddress(WithResponse, aluResult)
  <2>1. /\ LsuTypeOK /\ SendLoad(e2, loadPending /\ ~Answered)
        /\ robHead \in Slots /\ e2 \in [Slots -> Entry]
    <3>1. /\ entries \in [Slots -> Entry] /\ AnswerIsWord /\ robHead \in Slots
          /\ aluResult \in AluResult \cup {NoResult}
      BY TypedAnswer DEF CoreInv, BaseInv, RingInv, RobTypeOK, PipeTypeOK
    <3>2. e2 \in [Slots -> Entry]
      BY <3>1, ResponseKeepsEntries, AddressKeepsEntries
    <3> QED
      BY <1>1, <3>1, <3>2 DEF CoreInv, LsuStage, LsuModule
  <2> HIDE DEF e2
  <2>2. ioSuccess' = ioSuccess /\ ioTrap' = ioTrap
    BY <1>1 DEF LsuStage, ioVars
  <2>3. CASE dmemReq' = dmemReq
    BY <2>2, <2>3 DEF StoresOut, FlagsRaised
  <2>4. ASSUME NEW k \in Slots,
               dmemReq' = Append(dmemReq, [isStore |-> FALSE,
                                           addr |-> e2[SlotFromHead(k)].mem.addr,
                                           data |-> 0, tx |-> nextTx])
        PROVE  StoresOut = {} => StoresOut' = {}
    <3> DEFINE r == [isStore |-> FALSE, addr |-> e2[SlotFromHead(k)].mem.addr,
                     data |-> 0, tx |-> nextTx]
    <3>1. e2[SlotFromHead(k)].mem.addr \in Word
      <4>1. e2[SlotFromHead(k)] \in Entry
        BY <2>1, SentSlot
      <4> QED
        BY <4>1 DEF Entry, MemInfo
    <3>2. r \in DmemRequest /\ ~r.isStore /\ dmemReq' = Append(dmemReq, r)
      BY <2>1, <2>4, <3>1, Zeros DEF DmemRequest, LsuTypeOK
    <3> HIDE DEF r
    <3> QED
      BY <2>1, <3>2, StoresOutAre
  <2>5. \/ dmemReq' = dmemReq
        \/ \E k \in Slots :
              dmemReq' = Append(dmemReq, [isStore |-> FALSE,
                                          addr |-> e2[SlotFromHead(k)].mem.addr,
                                          data |-> 0, tx |-> nextTx])
    BY <2>1 DEF SendLoad
  <2> QED
    BY <2>2, <2>3, <2>4, <2>5 DEF FlagsRaised
<1>2. CASE Branch
  <2>1. dmemReq' = dmemReq /\ ioSuccess' = FALSE /\ ioTrap' = FALSE
    BY <1>2 DEF Branch, memoryVars
  <2> QED
    BY <2>1 DEF StoresOut, FlagsRaised
<1>3. CASE ~LsuStage /\ ~Branch
  <2>1. dmemReq' = dmemReq /\ ioSuccess' = ioSuccess /\ ioTrap' = ioTrap
    <3>1. CASE FetchStopped \/ FetchWaits \/ FetchReads
      BY <3>1 DEF FetchStopped, FetchWaits, FetchReads, FetchFrame, memoryVars, ioVars
    <3>2. CASE Decode \/ RenameStage \/ RobAllocate
      BY <3>2 DEF Decode, RenameStage, RobAllocate, memoryVars, ioVars
    <3>3. CASE Issue \/ Execute
      BY <3>3 DEF Issue, Execute, memoryVars, ioVars
    <3>4. CASE CommitFlush \/ CommitNothing
      BY <3>4 DEF CommitFlush, CommitNothing, ioVars
    <3> QED
      BY <1>3, <3>1, <3>2, <3>3, <3>4 DEF Silent
  <2> QED
    BY <2>1 DEF StoresOut, FlagsRaised
<1> QED
  BY <1>1, <1>2, <1>3

\* A trap leaves the core in the state that the machine traps in; it is reported.
LEMMA TrapShows ==
    ASSUME CoreInv, LoadsInv, IsaInv, CommitTrap, CoreMachine \in Machine,
           OfType(events', "commit") = OfType(events, "commit")
    PROVE  /\ CoreMachine' \in {CoreMachine, After(program, CoreMachine)}
           /\ CoreMachine'.trapped
           /\ robState' = "EXCEPTION" /\ ioSuccess' = ioSuccess /\ dmemReq' = dmemReq
           /\ stage = "rob_commit"
<1>1. ArchSame \/ Arch!Next
  BY CommitTrapKeepsIsa
<1>2. ArchSame => CoreMachine' = CoreMachine
  BY CoreStays
<1>3. Arch!Next => CoreMachine' = After(program, CoreMachine)
  BY TrapWrites
<1>4. /\ robState' = "EXCEPTION" /\ ioSuccess' = ioSuccess /\ dmemReq' = dmemReq
      /\ stage = "rob_commit"
  BY DEF CommitTrap, CommitFrame, At
<1>5. CoreMachine'.trapped
  <2>1. (robState = "EXCEPTION")'
    BY <1>4
  <2> QED
    BY <2>1 DEF CoreMachine
<1> QED
  BY <1>1, <1>2, <1>3, <1>4, <1>5

\* An ECALL is the machine's, and so is the a0 that it reports.
LEMMA EcallShows ==
    ASSUME CoreInv, CoreInv', RegsInv, IsaInv, EcallAlone, CommitEcall,
           CoreMachine \in Machine, OfType(events', "commit") = OfType(events, "commit")
    PROVE  /\ CoreMachine' = After(program, CoreMachine)
           /\ ~CoreMachine.trapped /\ program[CoreMachine.pc].op = "ecall"
           /\ (ioTrap' <=> ~ioSuccess') /\ (ioSuccess' <=> ArchRegs'[A0] = 0)
           /\ robState' # "EXCEPTION" /\ dmemReq' = dmemReq /\ stage = "rob_commit"
<1> PICK h \in Slots : h = robHead
  BY DEF CoreInv, BaseInv, RingInv, RobTypeOK
<1>1. /\ HeadReady(WithResult) /\ WithResult[h].uop.inst.op = "ecall"
      /\ ioSuccess' = (Source(mapTable[A0]) = 0) /\ ioTrap' = (Source(mapTable[A0]) # 0)
      /\ UNCHANGED <<robState, committedMap, intRf, dmemReq>> /\ stage = "rob_commit"
  BY DEF CommitEcall, CommitFrame, At
<1>2. entries[h].uop.inst.op = "ecall" /\ ~RobEmpty
  BY <1>1, MarkedHolds DEF OnlyMarked, HeadReady
<1>3. Arch!Here.op = "ecall"
  BY <1>2, HeadIsHere
<1>4. Arch!Next /\ (ioSuccess' <=> ArchRegs[A0] = 0)
  BY CommitEcallKeepsIsa
<1>5. ArchRegs' = ArchRegs
  BY <1>1 DEF ArchRegs, Source
<1>6. ~CoreMachine.trapped /\ robState # "EXCEPTION"
  BY <1>4 DEF Arch!Next, CoreMachine
<1>7. program[CoreMachine.pc].op = "ecall"
  BY <1>3 DEF Arch!Here, CoreMachine
<1>8. ioTrap' <=> ~ioSuccess'
  BY <1>1
<1> QED
  BY <1>1, <1>4, <1>5, <1>6, <1>7, <1>8, EcallWrites

\* What leaves raises no flag; it sends a store of 1 to tohost if that is where the
\* machine is.
LEMMA HeadShows ==
    ASSUME CoreInv, CoreInv', RegsInv, LoadsInv, IsaInv, CommitHead
    PROVE  /\ stage = "rob_commit"
           /\ FlagsRaised' <=> FlagsRaised
           /\ kind # "observed" /\ StoresOut = {} =>
                 /\ \A m, n \in StoresOut' : m = n
                 /\ TohostOut' # {} <=> Watched(program, kind, CoreMachine)
<1> PICK h \in Slots : h = robHead
  BY DEF CoreInv, BaseInv, RingInv, RobTypeOK
<1> PICK i \in {entries[h].uop.inst}, a \in {Op1(h)}, b \in {Op2(h)} : TRUE
  OBVIOUS
<1>1. /\ stage = "rob_commit" /\ ioSuccess' = ioSuccess /\ ioTrap' = ioTrap
      /\ ~HeadWaits(WithResult) /\ ~WithResult[h].exception
      /\ IF WithResult[h].mem.isStore
         THEN dmemReq' = Append(dmemReq, [isStore |-> TRUE, addr |-> WithResult[h].mem.addr,
                                          data |-> WithResult[h].mem.data, tx |-> nextTx])
         ELSE dmemReq' = dmemReq
  BY DEF CommitHead, CommitFrame, At, ioVars
<1>2. /\ HeadReady(WithResult) /\ entries[h].valid
      /\ WithResult[h].mem = entries[h].mem
      /\ entries[h].mem.isStore <=> i.op = "store"
      /\ i.op = "store" => entries[h].mem.addr = Address(i, a) /\ entries[h].mem.data = b
  BY <1>1, HeadDone
<1>3. ArchPc = entries[h].uop.pc /\ Arch!Here = i /\ Arch!Rs1 = a /\ Arch!Rs2 = b
  BY <1>2, HeadIsHere DEF HeadReady
<1>4. ~CoreMachine.trapped
  <2>1. Arch!Next
    BY CommitHeadKeepsIsa
  <2> QED
    BY <2>1 DEF Arch!Next, CoreMachine
<1>5. /\ program[CoreMachine.pc] = i
      /\ CoreMachine.regs[i.rs1] = a /\ CoreMachine.regs[i.rs2] = b
  BY <1>3 DEF Arch!Here, Arch!Rs1, Arch!Rs2, CoreMachine
<1>6. FlagsRaised' <=> FlagsRaised
  BY <1>1 DEF FlagsRaised
<1>7. ASSUME kind # "observed", StoresOut = {}
      PROVE  /\ \A m, n \in StoresOut' : m = n
             /\ TohostOut' # {} <=> Watched(program, kind, CoreMachine)
  <2>1. Watched(program, kind, CoreMachine)
           <=> i.op = "store" /\ Address(i, a) = Tohost /\ b = 1
    BY <1>4, <1>5, <1>7 DEF Watched
  <2>2. TohostOut' = {n \in StoresOut' : dmemReq'[n].addr = Tohost /\ dmemReq'[n].data = 1}
    BY DEF TohostOut
  <2>3. CASE i.op = "store"
    <3> DEFINE r == [isStore |-> TRUE, addr |-> WithResult[h].mem.addr,
                     data |-> WithResult[h].mem.data, tx |-> nextTx]
    <3>1. /\ r.isStore /\ r.addr = Address(i, a) /\ r.data = b
          /\ dmemReq' = Append(dmemReq, r)
      BY <1>1, <1>2, <2>3
    <3>2. r \in DmemRequest
      <4>1. WithResult[h].mem \in MemInfo
        BY <1>1, MarkedHolds DEF OnlyMarked, Entry
      <4> QED
        BY <4>1 DEF DmemRequest, MemInfo, CoreInv, LsuTypeOK
    <3> HIDE DEF r
    <3>3. StoresOut' = {Len(dmemReq) + 1} /\ dmemReq'[Len(dmemReq) + 1] = r
      BY <1>7, <3>1, <3>2, StoresOutAre DEF CoreInv
    <3>4. TohostOut' # {} <=> r.addr = Tohost /\ r.data = 1
      BY <2>2, <3>3
    <3> QED
      BY <2>1, <2>3, <3>1, <3>3, <3>4
  <2>4. CASE i.op # "store"
    <3>1. StoresOut' = {}
      BY <1>1, <1>2, <1>7, <2>4 DEF StoresOut
    <3> QED
      BY <2>1, <2>2, <2>4, <3>1
  <2> QED
    BY <2>3, <2>4
<1> QED
  BY <1>1, <1>6, <1>7

\* A step of the core: the machine goes on past the watched state, or goes on from
\* another, or stays.
LEMMA StepShows ==
    ASSUME CoreInv, CoreInv', RegsInv, LoadsInv, IsaInv, Undisturbed, IsSequence(events),
           ShownInv, Step, CoreMachine \in Machine
    PROVE  /\ ShownInv'
           /\ \/ /\ CoreMachine' = After(program, CoreMachine)
                 /\ Seen' <=> Watched(program, kind, CoreMachine)
              \/ /\ CoreMachine' = CoreMachine
                 /\ ~Seen'
<1> DEFINE watched == Watched(program, kind, CoreMachine)
           next == After(program, CoreMachine)
<1>1. /\ at = "step" /\ at' \in {"step", "serve"} /\ (stage = "rob_commit" => at' = "serve")
      /\ kind' = kind /\ sawTohost' = sawTohost
  BY StepIs
<1>2. watched => /\ ~next.trapped
                 /\ kind = "observed" => Len(next.trace) = Len(CoreMachine.trace)
                 /\ kind # "observed" => Len(next.trace) = Len(CoreMachine.trace) + 1
  BY WatchedRuns
<1>3. Len(CoreMachine.trace) \in Nat
  BY DEF Machine
<1> HIDE DEF watched, next
<1>4. kind = "observed" => ~FlagsRaised /\ ~ioSuccess
  BY <1>1 DEF ShownInv, FlagsRaised
<1>5. kind # "observed" => StoresOut = {} /\ ~sawTohost
  BY <1>1 DEF ShownInv
<1>6. ASSUME kind = "observed", ~FlagsRaised'
      PROVE  ShownInv' /\ ~Seen'
  BY <1>1, <1>6 DEF ShownInv, Seen, FlagsRaised
<1>7. ASSUME kind # "observed", StoresOut' = {}
      PROVE  ShownInv' /\ ~Seen'
  BY <1>1, <1>5, <1>7 DEF ShownInv, Seen, TohostOut
<1>8. CASE Silent /\ OfType(events', "commit") = OfType(events, "commit")
  <2>1. CoreMachine' = CoreMachine
    BY <1>8, SilentStays
  <2>2. ShownInv' /\ ~Seen'
    BY <1>4, <1>5, <1>6, <1>7, <1>8, SilentShows
  <2> QED
    BY <2>1, <2>2
<1>9. CASE CommitTrap /\ OfType(events', "commit") = OfType(events, "commit")
  <2>1. /\ CoreMachine' = CoreMachine \/ CoreMachine' = next
        /\ CoreMachine'.trapped
        /\ robState' = "EXCEPTION" /\ ioSuccess' = ioSuccess /\ dmemReq' = dmemReq
        /\ at' = "serve"
    BY <1>1, <1>9, TrapShows DEF next
  <2>2. CoreMachine' = next => ~watched
    BY <1>2, <2>1
  <2>3. ShownInv' /\ ~Seen'
    <3>1. CASE kind = "observed"
      <4>1. ~Seen'
        BY <1>1, <1>4, <2>1, <3>1 DEF Seen
      <4> QED
        BY <1>1, <2>1, <3>1, <4>1 DEF ShownInv
    <3>2. CASE kind # "observed"
      <4>1. StoresOut' = {}
        BY <1>5, <2>1, <3>2 DEF StoresOut
      <4> QED
        BY <1>7, <3>2, <4>1
    <3> QED
      BY <3>1, <3>2
  <2> QED
    BY <2>1, <2>2, <2>3 DEF watched, next
<1>10. CASE CommitEcall /\ OfType(events', "commit") = OfType(events, "commit")
  <2>1. /\ CoreMachine' = next
        /\ ~CoreMachine.trapped /\ program[CoreMachine.pc].op = "ecall"
        /\ (ioTrap' <=> ~ioSuccess') /\ (ioSuccess' <=> ArchRegs'[A0] = 0)
        /\ robState' # "EXCEPTION" /\ dmemReq' = dmemReq /\ at' = "serve"
    BY <1>1, <1>10, EcallShows DEF next, Undisturbed
  <2>2. watched <=> kind = "observed"
    BY <2>1 DEF watched, Watched
  <2>3. CASE kind = "observed"
    <3>1. Seen'
      BY <1>1, <2>1, <2>3 DEF Seen
    <3>2. ShownInv'
      BY <1>1, <2>1, <2>3 DEF ShownInv
    <3> QED
      BY <2>1, <2>2, <2>3, <3>1, <3>2 DEF watched, next
  <2>4. CASE kind # "observed"
    <3>1. StoresOut' = {}
      BY <1>5, <2>1, <2>4 DEF StoresOut
    <3> QED
      BY <1>7, <2>1, <2>2, <2>4, <3>1 DEF watched, next
  <2> QED
    BY <2>3, <2>4
<1>11. CASE /\ CommitHead
            /\ OfType(events', "commit")
                  = Append(OfType(events, "commit"), Retired(entries[robHead].uop))
  <2>1. CoreMachine' = next
    BY <1>11, HeadWrites DEF next
  <2>2. Len(next.trace) = Len(CoreMachine.trace) + 1
    <3>1. next.trace = Append(OfType(events, "commit"), Retired(entries[robHead].uop))
      BY <1>11, <2>1 DEF CoreMachine
    <3>2. IsSequence(OfType(events, "commit"))
      BY OneMore
    <3> QED
      BY <3>1, <3>2, OneMore DEF CoreMachine
  <2>3. /\ stage = "rob_commit" /\ (FlagsRaised' <=> FlagsRaised)
        /\ kind # "observed" /\ StoresOut = {} =>
              /\ \A m, n \in StoresOut' : m = n
              /\ TohostOut' # {} <=> watched
    BY <1>11, HeadShows DEF watched
  <2>4. CASE kind = "observed"
    <3>1. ~watched
      BY <1>2, <1>3, <2>2, <2>4
    <3> QED
      BY <1>4, <1>6, <2>1, <2>3, <2>4, <3>1 DEF watched, next
  <2>5. CASE kind # "observed"
    <3>1. Seen' <=> watched
      BY <1>1, <1>5, <2>3, <2>5 DEF Seen
    <3>2. ShownInv'
      BY <1>1, <1>5, <2>3, <2>5 DEF ShownInv
    <3> QED
      BY <2>1, <3>1, <3>2 DEF watched, next
  <2> QED
    BY <2>4, <2>5
<1> QED
  BY <1>8, <1>9, <1>10, <1>11, StepIs

-----------------------------------------------------------------------------
(* The invariant of the verdict.                                           *)

\* Of the run, the reference has noted and the core has shown the same state: the
\* first that the bench watches for.
WatchInv ==
    \A R : IsRun(R, program) =>
        /\ \E k \in Nat : R[k] = RefMachine /\ Noted(program, kind, R, refTohost, k)
        /\ \E n \in Nat : /\ Before(program, kind, R, n)
                          /\ IF Seen
                             THEN R[n + 1] = CoreMachine /\ Watched(program, kind, R[n])
                             ELSE R[n] = CoreMachine

\* The bench stops at the number of commits it was given, and says what it found.
CountInv ==
    /\ commitTarget # 0
    /\ kind \in {"prefix", "complete", "observed"}
    /\ kind # "observed" =>
          Commits <= commitTarget /\ (at = "step" => Commits < commitTarget)
    /\ at = "closed" =>
          (ok <=> IF kind = "observed" THEN ObservedVerdict ELSE TraceVerdict)

\* Nothing is shown by what leaves the core alone.
LEMMA NothingShown ==
    ASSUME UNCHANGED <<vars, kind, sawTohost>>
    PROVE  /\ Seen' <=> Seen
           /\ StoresOut' = StoresOut /\ (FlagsRaised' <=> FlagsRaised)
           /\ ArchRegs' = ArchRegs
           /\ ioTrap' = ioTrap /\ ioSuccess' = ioSuccess /\ dmemReq' = dmemReq
<1>1. UNCHANGED <<dmemReq, ioSuccess, ioTrap, robState, committedMap, intRf>>
  BY DEF vars, memoryVars, ioVars, robRing, renameVars
<1> QED
  BY <1>1 DEF Seen, TohostOut, StoresOut, FlagsRaised, ArchRegs, Source

LEMMA ShownInvStep ==
    ASSUME CoreInv, CoreInv', RegsInv, LoadsInv, IsaInv, Undisturbed, BooksInv, ShownInv,
           RunsInv, [BenchNext]_allVars
    PROVE  ShownInv'
<1>1. CASE ReferenceRetires \/ UNCHANGED allVars
  <2>1. UNCHANGED <<vars, kind, sawTohost>> /\ at' = at
    BY <1>1 DEF ReferenceRetires, benchVars, allVars
  <2> QED
    BY <2>1, NothingShown DEF ShownInv
<1>2. CASE ReferenceRecorded \/ Close
  <2>1. /\ UNCHANGED <<vars, kind, sawTohost>>
        /\ at \in {"reference", "feed"} /\ at' \in {"feed", "closed"}
    BY <1>2 DEF ReferenceRecorded, Close, BenchFrame
  <2> QED
    BY <2>1, NothingShown DEF ShownInv
<1>3. CASE Feed
  <2>1. /\ UNCHANGED <<vars, kind, sawTohost>> /\ at = "feed"
        /\ kind = "observed" => ~FlagsRaised
        /\ kind # "observed" => ~sawTohost
    BY <1>3 DEF Feed, BenchFrame, GoesOn, Decided
  <2> QED
    BY <2>1, NothingShown DEF ShownInv
<1>4. CASE NextCycle
  <2>1. /\ UNCHANGED <<vars, kind, sawTohost>> /\ at = "serve" /\ at' = "feed"
        /\ dmemReq = <<>>
    BY <1>4 DEF NextCycle, BenchFrame
  <2>2. StoresOut = {}
    BY <2>1 DEF StoresOut
  <2> QED
    BY <2>1, <2>2, NothingShown DEF ShownInv
<1>5. CASE Serve
  BY <1>5, ServeShows DEF CoreInv
<1>6. CASE Step
  <2>1. CoreMachine \in Machine
    <3> PICK R : IsRun(R, program)
      BY ProgramsAssumption, RunExists DEF CoreInv, BaseInv, PipeTypeOK
    <3> PICK n \in Nat : R[n] = CoreMachine
      BY DEF RunsInv
    <3> QED
      BY RunTypes
  <2> QED
    BY <1>6, <2>1, StepShows DEF BooksInv
<1> QED
  BY <1>1, <1>2, <1>3, <1>4, <1>5, <1>6 DEF BenchNext

LEMMA WatchInvStep ==
    ASSUME CoreInv, CoreInv', RegsInv, LoadsInv, IsaInv, Undisturbed, BooksInv, ShownInv,
           WatchInv, [BenchNext]_allVars
    PROVE  WatchInv'
<1> DEFINE P == program'
           K == kind'
<1> SUFFICES ASSUME NEW R, IsRun(R, P)
             PROVE  /\ \E k \in Nat : R[k] = RefMachine' /\ Noted(P, K, R, refTohost', k)
                    /\ \E n \in Nat : /\ Before(P, K, R, n)
                                      /\ IF Seen'
                                         THEN R[n + 1] = CoreMachine' /\ Watched(P, K, R[n])
                                         ELSE R[n] = CoreMachine'
  BY DEF WatchInv
<1>1. P = program
  BY BenchNextIsNext
<1>2. K = kind
  BY DEF BenchNext, ReferenceRetires, ReferenceRecorded, Feed, Step, Serve, NextCycle, Close,
         BenchFrame, benchVars, allVars
<1> HIDE DEF P, K
<1>3. PICK k \in Nat : R[k] = RefMachine /\ Noted(P, K, R, refTohost, k)
  BY <1>1, <1>2 DEF WatchInv
<1>4. PICK n \in Nat : /\ Before(P, K, R, n)
                       /\ IF Seen THEN R[n + 1] = CoreMachine /\ Watched(P, K, R[n])
                          ELSE R[n] = CoreMachine
  BY <1>1, <1>2 DEF WatchInv
<1>5. UNCHANGED refVars =>
         \E j \in Nat : R[j] = RefMachine' /\ Noted(P, K, R, refTohost', j)
  <2>1. UNCHANGED refVars => RefMachine' = RefMachine /\ refTohost' = refTohost
    BY DEF refVars, RefMachine
  <2> QED
    BY <1>3, <2>1
<1>6. CoreMachine' = CoreMachine /\ (Seen' <=> Seen) =>
         \E j \in Nat : /\ Before(P, K, R, j)
                        /\ IF Seen' THEN R[j + 1] = CoreMachine' /\ Watched(P, K, R[j])
                           ELSE R[j] = CoreMachine'
  BY <1>4
<1>7. UNCHANGED <<vars, kind, sawTohost, events>> =>
         CoreMachine' = CoreMachine /\ (Seen' <=> Seen)
  BY NothingShown, SameGoesOn
<1>8. CASE ReferenceRetires
  <2>1. UNCHANGED <<vars, kind, sawTohost, events>>
    BY <1>8 DEF ReferenceRetires, benchVars
  <2>2. R[k + 1] = RefMachine' /\ Noted(P, K, R, refTohost', k + 1) /\ k + 1 \in Nat
    BY <1>1, <1>2, <1>3, <1>8, ReferenceNotes
  <2> QED
    BY <1>6, <1>7, <2>1, <2>2
<1>9. CASE ReferenceRecorded \/ Feed \/ NextCycle \/ Close \/ UNCHANGED allVars
  <2>1. UNCHANGED <<vars, kind, sawTohost, events>> /\ UNCHANGED refVars
    BY <1>9 DEF ReferenceRecorded, Feed, NextCycle, Close, BenchFrame, allVars, benchVars
  <2> QED
    BY <1>5, <1>6, <1>7, <2>1
<1>10. CASE Serve
  <2>1. UNCHANGED refVars /\ Memory /\ OfType(events', "commit") = OfType(events, "commit")
    BY <1>10 DEF Serve, BenchFrame
  <2>2. CoreMachine' = CoreMachine
    BY <2>1, MemoryKeepsIsa, CoreStays
  <2>3. Seen' <=> Seen
    BY <1>10, ServeShows DEF CoreInv
  <2> QED
    BY <1>5, <1>6, <2>1, <2>2, <2>3
<1>11. CASE Step
  <2>1. UNCHANGED refVars /\ at = "step"
    BY <1>11 DEF Step, BenchFrame
  <2>2. ~Seen /\ R[n] = CoreMachine
    BY <1>4, <2>1, NothingSeen
  <2>3. CoreMachine \in Machine /\ R[n + 1] = After(program, CoreMachine) /\ n + 1 \in Nat
    BY <1>1, <2>2, RunTypes
  <2>4. \/ /\ CoreMachine' = R[n + 1]
           /\ Seen' <=> Watched(P, K, R[n])
        \/ CoreMachine' = R[n] /\ ~Seen'
    BY <1>1, <1>2, <1>11, <2>2, <2>3, StepShows DEF BooksInv
  <2>5. \E j \in Nat : /\ Before(P, K, R, j)
                       /\ IF Seen' THEN R[j + 1] = CoreMachine' /\ Watched(P, K, R[j])
                          ELSE R[j] = CoreMachine'
    <3>1. CASE Seen'
      BY <1>4, <2>4, <3>1
    <3>2. CASE ~Seen' /\ CoreMachine' = R[n]
      BY <1>4, <3>2
    <3>3. CASE ~Seen' /\ CoreMachine' = R[n + 1] /\ ~Watched(P, K, R[n])
      <4>1. Before(P, K, R, n + 1)
        BY <1>4, <3>3, BeforeNext
      <4> QED
        BY <2>3, <3>3, <4>1
    <3> QED
      BY <2>4, <3>1, <3>2, <3>3
  <2> QED
    BY <1>5, <2>1, <2>5
<1> QED
  BY <1>8, <1>9, <1>10, <1>11 DEF BenchNext

LEMMA CountInvStep ==
    ASSUME CoreInv, BooksInv, CountInv, [BenchNext]_allVars
    PROVE  CountInv'
<1>1. Commits \in Nat /\ commitTarget \in Nat /\ IsSequence(events)
  BY OneMore DEF BooksInv, Commits, IsSequence
<1>2. UNCHANGED <<vars, kind, commitTarget, events, sawTohost, refVars>> =>
         /\ Commits' = Commits
         /\ (IF kind = "observed" THEN ObservedVerdict ELSE TraceVerdict)'
               <=> (IF kind = "observed" THEN ObservedVerdict ELSE TraceVerdict)
  <2> SUFFICES ASSUME UNCHANGED <<vars, kind, commitTarget, events, sawTohost, refVars>>
               PROVE  /\ Commits' = Commits
                      /\ (IF kind = "observed" THEN ObservedVerdict ELSE TraceVerdict)'
                            <=> (IF kind = "observed" THEN ObservedVerdict ELSE TraceVerdict)
    OBVIOUS
  <2>1. /\ ArchRegs' = ArchRegs /\ ioTrap' = ioTrap /\ ioSuccess' = ioSuccess
        /\ refRegs' = refRegs /\ Commits' = Commits
    BY NothingShown DEF Commits, refVars
  <2> QED
    BY <2>1 DEF ObservedVerdict, TraceVerdict, RegistersExpected
<1>3. CASE ReferenceRetires
  <2>1. UNCHANGED <<vars, benchVars>> /\ at = "reference"
    BY <1>3 DEF ReferenceRetires
  <2> QED
    BY <2>1 DEF CountInv, Commits, benchVars
<1>4. CASE ReferenceRecorded \/ NextCycle
  <2>1. UNCHANGED <<kind, commitTarget, events>> /\ at' = "feed"
    BY <1>4 DEF ReferenceRecorded, NextCycle, BenchFrame
  <2> QED
    BY <2>1 DEF CountInv, Commits
<1>5. CASE Feed
  <2>1. /\ UNCHANGED <<kind, commitTarget, events>> /\ at' = "step"
        /\ kind # "observed" => ~(Commits >= commitTarget)
    BY <1>5 DEF Feed, BenchFrame, GoesOn, Decided
  <2>2. Commits' = Commits
    BY <2>1 DEF Commits
  <2> QED
    BY <1>1, <2>1, <2>2 DEF CountInv
<1>6. CASE Close
  <2>1. /\ UNCHANGED <<vars, kind, commitTarget, events, sawTohost, refVars>>
        /\ at' = "closed"
        /\ ok' = IF kind = "observed" THEN ObservedVerdict ELSE TraceVerdict
    BY <1>6 DEF Close, BenchFrame
  <2> QED
    BY <1>2, <2>1 DEF CountInv
<1>7. CASE Serve
  <2>1. UNCHANGED <<kind, commitTarget, events>> /\ at' = "serve"
    BY <1>7 DEF Serve, BenchFrame
  <2> QED
    BY <2>1 DEF CountInv, Commits
<1>8. CASE Step
  <2>1. /\ at = "step" /\ at' \in {"step", "serve"} /\ (stage = "rob_commit" => at' = "serve")
        /\ UNCHANGED <<kind, commitTarget>>
    BY <1>1, <1>8, StepIs
  <2>2. \/ CommitHead /\ Commits' = Commits + 1
        \/ Commits' = Commits
    <3>1. IsSequence(OfType(events, "commit"))
      BY <1>1, OneMore
    <3>2. \A e : Len(Append(OfType(events, "commit"), e)) = Len(OfType(events, "commit")) + 1
      BY <3>1, OneMore
    <3> QED
      BY <1>1, <1>8, <3>2, StepIs DEF Commits
  <2>3. CommitHead => stage = "rob_commit"
    BY DEF CommitHead, CommitFrame, At
  <2> QED
    BY <1>1, <2>1, <2>2, <2>3 DEF CountInv
<1>9. CASE UNCHANGED allVars
  <2>1. /\ UNCHANGED <<vars, kind, commitTarget, events, sawTohost, refVars>>
        /\ at' = at /\ ok' = ok
    BY <1>9 DEF allVars, benchVars
  <2> QED
    BY <1>2, <2>1 DEF CountInv
<1> QED
  BY <1>3, <1>4, <1>5, <1>6, <1>7, <1>8, <1>9 DEF BenchNext

LEMMA VerdictInit ==
    ASSUME BenchInit
    PROVE  ShownInv /\ WatchInv /\ CountInv
<1>1. /\ Init /\ Ref!Init /\ refTrace = <<>> /\ events = <<>> /\ at = "reference"
      /\ commitTarget \in Targets /\ kind \in Kinds /\ sawTohost = FALSE /\ refTohost = 0
  BY DEF BenchInit
<1>2. dmemReq = <<>> /\ ~ioSuccess /\ ~ioTrap
  BY <1>1 DEF Init, LsuInit
<1>3. StoresOut = {}
  BY <1>2 DEF StoresOut
<1>4. ShownInv /\ ~Seen
  BY <1>1, <1>2, <1>3 DEF ShownInv, Seen, TohostOut, FlagsRaised
<1>5. CountInv
  <2>1. Commits = 0
    BY <1>1, NoneYet DEF Commits
  <2> QED
    BY <1>1, <2>1, TargetsAssumption, KindsAssumption DEF CountInv
<1>6. RefMachine = Start /\ CoreMachine = Start
  BY <1>1, IsaInvInit, RefOps, ArchOps, NoneYet
     DEF Ref!Init, Arch!Init, RefMachine, CoreMachine, Start
<1>7. \A R : Before(program, kind, R, 0)
  BY DEF Before
<1>8. WatchInv
  BY <1>1, <1>4, <1>6, <1>7 DEF WatchInv, IsRun, Noted
<1> QED
  BY <1>4, <1>5, <1>8

-----------------------------------------------------------------------------
(* The verdict.                                                            *)

\* Along a run traces only grow, and nothing follows a trap.
LEMMA RunOrder ==
    ASSUME NEW p, NEW R, IsRun(R, p), NEW m \in Nat, NEW n \in Nat
    PROVE  /\ Len(R[m].trace) \in Nat /\ Len(R[n].trace) \in Nat
           /\ m <= n => /\ Len(R[m].trace) <= Len(R[n].trace)
                        /\ R[m].trapped => R[n] = R[m]
  BY RunTypes, RunGoesOn DEF StartsWith

\* A recording bench that has seen its last commit or the store to tohost.
LEMMA RecordedVerdict ==
    ASSUME CoreInv, BooksInv, ShownInv, WatchInv, CountInv, at = "closed",
           kind # "observed", Decided
    PROVE  ok <=> RefVerdict
<1> PICK R : IsRun(R, program)
  BY ProgramsAssumption, RunExists DEF CoreInv, BaseInv, PipeTypeOK
<1> PICK k \in Nat : R[k] = RefMachine /\ Noted(program, kind, R, refTohost, k)
  BY DEF WatchInv
<1> PICK n \in Nat : /\ Before(program, kind, R, n)
                     /\ IF Seen THEN R[n + 1] = CoreMachine /\ Watched(program, kind, R[n])
                        ELSE R[n] = CoreMachine
  BY DEF WatchInv
<1> DEFINE L(m) == Len(R[m].trace)
<1>1. \A m \in Nat : L(m) \in Nat /\ m + 1 \in Nat
  BY RunTypes
<1>2. \A m \in Nat, j \in Nat : m <= j => L(m) <= L(j) /\ (R[m].trapped => R[j] = R[m])
  BY RunOrder
<1>3. \A m \in Nat : Watched(program, kind, R[m]) => L(m + 1) = L(m) + 1 /\ ~R[m].trapped
  <2> SUFFICES ASSUME NEW m \in Nat, Watched(program, kind, R[m])
               PROVE  L(m + 1) = L(m) + 1 /\ ~R[m].trapped
    OBVIOUS
  <2>1. R[m] \in Machine /\ R[m + 1] = After(program, R[m])
    BY RunTypes
  <2>2. Len(After(program, R[m]).trace) = Len(R[m].trace) + 1
    BY <2>1, WatchedRuns
  <2>3. ~R[m].trapped
    BY DEF Watched
  <2> QED
    BY <2>1, <2>2, <2>3
<1>4. \A m \in Nat, j \in Nat : Before(program, kind, R, j) /\ Watched(program, kind, R[m]) =>
         /\ j <= m
         /\ Before(program, kind, R, m) /\ Watched(program, kind, R[j]) => m = j
  BY FirstIsOne
<1>5. L(k) = Len(refTrace) /\ (R[k].trapped <=> refTrapped)
  BY DEF RefMachine
<1>6. IF Seen THEN L(n + 1) = Commits ELSE L(n) = Commits
  BY DEF CoreMachine, Commits
<1>7. Seen <=> sawTohost
  BY DEF ShownInv, Seen, TohostOut
<1>8. /\ commitTarget \in Nat \ {0}
      /\ Len(refTrace) <= commitTarget /\ (refTrapped \/ Len(refTrace) = commitTarget)
      /\ Commits <= commitTarget /\ kind \in {"prefix", "complete"}
      /\ ok <=> (kind = "complete" => sawTohost) /\ Commits = commitTarget
      /\ Commits = commitTarget \/ sawTohost
  <2>1. Commits \in Nat
    BY <1>1, <1>6
  <2> QED
    BY <2>1 DEF BooksInv, CountInv, TraceVerdict, Decided
<1>9. RefVerdict <=> IF kind = "prefix"
                     THEN Len(refTrace) = commitTarget /\ refTohost \in {0, commitTarget}
                     ELSE refTohost = commitTarget
  BY <1>8 DEF RefVerdict
<1>10. IF refTohost = 0 THEN Before(program, kind, R, k)
       ELSE \E j \in 0 .. k - 1 : /\ Before(program, kind, R, j)
                                  /\ Watched(program, kind, R[j])
                                  /\ refTohost = L(j + 1)
  BY DEF Noted
<1>11. Commits = commitTarget => Len(refTrace) = commitTarget
  <2> SUFFICES ASSUME Commits = commitTarget PROVE Len(refTrace) = commitTarget
    OBVIOUS
  <2>1. RunsInv
    <3> SUFFICES ASSUME NEW Q, IsRun(Q, program)
                 PROVE  /\ \E x \in Nat : Q[x] = RefMachine
                        /\ \E y \in Nat : Q[y] = CoreMachine
      BY DEF RunsInv
    <3> QED
      BY <1>1 DEF WatchInv
  <2> QED
    BY <2>1, SameTraces DEF Commits
<1> HIDE DEF L
<1>12. CASE sawTohost
  <2>1. L(n + 1) = Commits /\ Watched(program, kind, R[n]) /\ Before(program, kind, R, n)
    BY <1>6, <1>7, <1>12
  <2>2. Commits = L(n) + 1 /\ ~R[n].trapped
    BY <1>3, <2>1
  <2>3. n < k
    <3> SUFFICES ASSUME k <= n PROVE FALSE
      OBVIOUS
    <3>1. L(k) <= L(n) /\ (R[k].trapped => R[n] = R[k])
      BY <1>2
    <3>2. ~refTrapped
      BY <1>5, <2>2, <3>1
    <3>3. Len(refTrace) = commitTarget
      BY <1>8, <3>2
    <3> QED
      BY <1>1, <1>5, <1>8, <2>2, <3>1, <3>3
  <2>4. refTohost = Commits
    <3>1. refTohost # 0
      BY <1>10, <2>1, <2>3 DEF Before
    <3>2. PICK j \in 0 .. k - 1 : /\ Before(program, kind, R, j)
                                  /\ Watched(program, kind, R[j])
                                  /\ refTohost = L(j + 1)
      BY <1>10, <3>1
    <3>3. j = n
      BY <1>4, <2>1, <3>2
    <3> QED
      BY <2>1, <3>2, <3>3
  <2>5. Commits # 0
    BY <1>1, <2>2
  <2> QED
    BY <1>8, <1>9, <1>11, <1>12, <2>4, <2>5
<1>13. CASE ~sawTohost
  <2>1. L(n) = commitTarget /\ Commits = commitTarget
    BY <1>6, <1>7, <1>8, <1>13
  <2>2. refTohost = 0
    <3> SUFFICES ASSUME refTohost # 0 PROVE FALSE
      OBVIOUS
    <3>1. PICK j \in 0 .. k - 1 : /\ Before(program, kind, R, j)
                                  /\ Watched(program, kind, R[j])
                                  /\ refTohost = L(j + 1)
      BY <1>10
    <3>2. j \in Nat /\ j + 1 \in Nat /\ j + 1 <= k
      OBVIOUS
    <3>3. n <= j
      BY <1>4, <3>1, <3>2
    <3>4. L(n) <= L(j) /\ L(j + 1) = L(j) + 1 /\ L(j + 1) <= L(k)
      BY <1>2, <1>3, <3>1, <3>2, <3>3
    <3> QED
      BY <1>1, <1>5, <1>8, <2>1, <3>2, <3>4
  <2> QED
    BY <1>8, <1>9, <1>11, <1>13, <2>1, <2>2
<1> QED
  BY <1>12, <1>13

\* The observing bench that has seen the flags of an ECALL or of a trap.
LEMMA ObservedVerdictIsRight ==
    ASSUME CoreInv, BooksInv, ShownInv, WatchInv, CountInv, at = "closed",
           kind = "observed", Decided, Judged
    PROVE  ok <=> RefVerdict
<1> PICK R : IsRun(R, program)
  BY ProgramsAssumption, RunExists DEF CoreInv, BaseInv, PipeTypeOK
<1> PICK k \in Nat : R[k] = RefMachine /\ Before(program, kind, R, k)
  BY DEF WatchInv, Noted
<1> PICK n \in Nat : /\ Before(program, kind, R, n)
                     /\ IF Seen THEN R[n + 1] = CoreMachine /\ Watched(program, kind, R[n])
                        ELSE R[n] = CoreMachine
  BY DEF WatchInv
<1>1. /\ ok <=> (ioTrap => ioSuccess) /\ Commits > 0 /\ ArchRegs = refRegs
      /\ ioSuccess \/ ioTrap
      /\ refTrapped \/ program[refPc].op = "ecall"
      /\ RefVerdict <=> ~refTrapped /\ refTrace # <<>> /\ refRegs[A0] = 0
  BY DEF CountInv, ObservedVerdict, RegistersExpected, Decided, FlagsRaised, Judged, Ref!Here,
         RefVerdict
<1>2. \A m \in Nat, j \in Nat : m <= j => (R[m].trapped => R[j] = R[m])
  BY RunOrder
<1>3. /\ R[k].trapped = refTrapped /\ R[k].pc = refPc /\ R[k].regs = refRegs
      /\ R[k].trace = refTrace
  BY DEF RefMachine
<1>4. CASE refTrapped
  <2>1. ~Seen
    <3> SUFFICES ASSUME Seen PROVE FALSE
      OBVIOUS
    <3>1. Watched(program, kind, R[n]) /\ ~R[n].trapped
      BY DEF Watched
    <3>2. k <= n
      BY <3>1, FirstIsOne
    <3> QED
      BY <1>2, <1>3, <1>4, <3>1, <3>2
  <2> QED
    BY <1>1, <1>4, <2>1 DEF Seen
<1>5. CASE ~refTrapped
  <2>1. Watched(program, kind, R[k])
    BY <1>1, <1>3, <1>5 DEF Watched
  <2>2. n <= k
    BY <2>1, FirstIsOne
  <2>3. Seen
    <3> SUFFICES ASSUME ~Seen PROVE FALSE
      OBVIOUS
    <3>1. robState = "EXCEPTION"
      BY <1>1 DEF Seen
    <3>2. R[n].trapped
      <4>1. R[n] = CoreMachine /\ CoreMachine.trapped = (robState = "EXCEPTION")
        BY DEF CoreMachine
      <4> QED
        BY <3>1, <4>1
    <3> QED
      BY <1>2, <1>3, <1>5, <2>2, <3>2
  <2>4. n = k
    BY <2>1, <2>3, FirstIsOne
  <2>5. R[k] \in Machine /\ R[k + 1] = After(program, R[k]) /\ R[k].trace \in Seq(CommitRecord)
    BY RunTypes
  <2>6. CoreMachine.regs = refRegs /\ CoreMachine.trace = refTrace
    BY <1>3, <2>1, <2>3, <2>4, <2>5, WatchedRuns
  <2>7. ArchRegs = refRegs /\ Commits = Len(refTrace)
    BY <2>6 DEF CoreMachine, Commits
  <2>8. Len(refTrace) > 0 <=> refTrace # <<>>
    <3> PICK t \in Seq(CommitRecord) : t = refTrace
      BY <1>3, <2>5
    <3>1. Len(t) > 0 <=> t # <<>>
      OBVIOUS
    <3> QED
      BY <3>1
  <2>9. (ioTrap <=> ~ioSuccess) /\ (ioSuccess <=> ArchRegs[A0] = 0)
    BY <2>3 DEF ShownInv
  <2> QED
    BY <1>1, <1>5, <2>7, <2>8, <2>9
<1> QED
  BY <1>4, <1>5

\* PASS and FAIL of a bench that has seen what it waits for are those of the reference's
\* run alone, for every program that nothing disturbs: the bench stops behind the same
\* instruction at which the reference noted the store to tohost or came to the ECALL.  A
\* bench that gives up after its cycles has not Decided.
THEOREM DecidedVerdictIsRight ==
    BenchSpec /\ []Undisturbed => [](Decided => VerdictIsRight)
<1>1. BenchInit => Init /\ RunsInv /\ BooksInv /\ ShownInv /\ WatchInv /\ CountInv
  BY BenchInvInit, VerdictInit DEF BenchInit
<1>2. [BenchNext]_allVars => [Next]_vars
  BY BenchNextIsNext
<1>3. CoreInv /\ CoreInv' /\ RegsInv /\ LoadsInv /\ IsaInv /\ Undisturbed
          /\ RunsInv /\ BooksInv /\ ShownInv /\ WatchInv /\ CountInv /\ [BenchNext]_allVars
      => RunsInv' /\ BooksInv' /\ ShownInv' /\ WatchInv' /\ CountInv'
  BY RunsInvStep, BooksInvStep, ShownInvStep, WatchInvStep, CountInvStep
<1>4. CoreInv /\ BooksInv /\ ShownInv /\ WatchInv /\ CountInv
      => (Decided => VerdictIsRight)
  <2> SUFFICES ASSUME CoreInv, BooksInv, ShownInv, WatchInv, CountInv, Decided,
                      at = "closed", Judged
               PROVE  ok <=> RefVerdict
    BY DEF VerdictIsRight
  <2> QED
    BY RecordedVerdict, ObservedVerdictIsRight
<1> QED
  BY <1>1, <1>2, <1>3, <1>4, IsaInvAlways, PTL DEF BenchSpec, Spec

\* And so for every settled program, without a condition on what happens.
THEOREM SettledVerdictIsRight ==
    ASSUME Settled
    PROVE  BenchSpec => [](Decided => VerdictIsRight)
<1>1. BenchInit => Init
  BY DEF BenchInit
<1>2. [BenchNext]_allVars => [Next]_vars
  BY BenchNextIsNext
<1> QED
  BY <1>1, <1>2, SettledIsUndisturbed, DecidedVerdictIsRight, PTL DEF BenchSpec, Spec

=============================================================================
