---------------------------- MODULE TraceRunner ----------------------------
(***************************************************************************)
(* The reference trace runner (main and trace_cycle of                     *)
(* standalone_boom_trace.cpp) around the processor it traces and the       *)
(* memory of SimpleMemory.  A cycle is two actions: the clock edge, where  *)
(* the processor moves its AXI port, and trace_cycle, which writes down    *)
(* the instruction that commits and watches for a store to tohost.         *)
(*                                                                         *)
(* The processor is generated elsewhere and is external: it commits any    *)
(* integer program, keeps its own image of memory, and writes back any     *)
(* part of it at any time.  In one cycle at most one instruction commits.  *)
(* It renames: a result goes into a physical register when it is computed, *)
(* in any order and perhaps never to commit, and commitMap says which ones *)
(* hold the registers of the program.  Those it does not overwrite.        *)
(***************************************************************************)
EXTENDS SimpleMemory

CONSTANTS LogicalRegs,  \* integer registers, 32
          PhysRegs,     \* registers of iregfile, 52
          PdstValues,   \* values of the field pdst, 64
          Values,       \* doublewords the program computes
          Offsets,      \* immediates of its stores, negative ones too
          HalfRange,    \* values of half a doubleword, 2^32
          HexLines,     \* the lines of the +loadmem file
          LoadAddr,     \* +loadmem_addr
          ReadBursts, WriteBursts,  \* what the processor asks of its port
          MaxOwed,      \* bursts it leaves open
          ResetCycles,  \* 100
          MaxCycles,    \* g_max_cycles
          ExitMod,      \* exit codes are kept modulo this, 2^31
          Number(_)     \* the value of a doubleword as a number

ASSUME RegsAssumption ==
    /\ LogicalRegs \in Nat \ {0} /\ PhysRegs \in Nat \ {0} /\ PdstValues \in Nat
    /\ PhysRegs <= PdstValues
ASSUME ValuesAssumption == Values \subseteq Doubleword
ASSUME NumberAssumption == \A w \in Doubleword : Number(w) \in Nat
ASSUME OffsetsAssumption == Offsets \subseteq Int
ASSUME HalfRangeAssumption == HalfRange \in Nat /\ TohostAddr < HalfRange

\* A burst is aligned to the size of its beats, a part of the bus, and stays in memory.
ASSUME BurstsAssumption ==
    \A b \in ReadBursts \cup WriteBursts :
        /\ b \in Burst
        /\ WordBytes % b.size = 0 /\ b.addr % b.size = 0
        /\ b.addr + b.size * b.beats <= MemBytes
ASSUME CyclesAssumption == ResetCycles \in Nat /\ MaxCycles \in Nat

VARIABLES phase,        \* "clock", "trace" or "ended"
          cycle,        \* g_cycle
          finished,     \* Verilated::gotFinish()
          archRegs,     \* g_arch_regs
          tohost,       \* g_tohost_value, Zero until g_tohost_seen
          outcome,      \* the end record of the trace
          regfile,      \* iregfile, the processor's physical registers
          commitMap,    \* the physical register of each register after the last commit
          image,        \* the memory its committed stores have made
          dirty,        \* addresses of image not yet written back
          sending,      \* the write burst whose beats it still sends
          readsOwed,    \* its open read bursts, with the beats still to come
          writesOwed,   \* the ids of its open write bursts
          firstStored   \* the first doubleword # 0 that a readable sd (see RetireDoubleword)
                        \* stored to tohost at an offset >= 0

runnerVars == <<phase, cycle, finished, archRegs, tohost, outcome>>
portVars == <<dirty, sending, readsOwed, writesOwed>>
registerVars == <<regfile, commitMap>>
programVars == <<registerVars, image, firstStored>>
vars == <<axiVars, runnerVars, portVars, programVars>>

Reg == 0 .. LogicalRegs - 1
PhysReg == 0 .. PhysRegs - 1

\* The program's own registers, where the processor keeps them.
ArchReg(r) == regfile[commitMap[r]]

\* The bytes of the file in address order, as whoever wrote it meant them.
FileBytes == FlattenSeq([k \in DOMAIN HexLines |-> Reverse(HexLines[k])])

\* The file fits into memory.
ASSUME FileAssumption ==
    /\ HexLines \in Seq(Seq(Byte))
    /\ LoadAddr \in Nat /\ LoadAddr + Len(FileBytes) <= MemBytes

Init ==
    /\ MemoryInit(LoadAddr, HexLines)
    /\ phase = "clock"
    /\ cycle = 0
    /\ finished = FALSE
    /\ archRegs = [r \in Reg |-> Zero]
    /\ tohost = Zero
    /\ outcome = Nothing
    /\ regfile = [p \in PhysReg |-> Zero]
    /\ commitMap = [r \in Reg |-> 0]
    /\ image = [a \in Address |-> IF a - LoadAddr + 1 \in DOMAIN FileBytes
                                  THEN FileBytes[a - LoadAddr + 1] ELSE 0]
    /\ dirty = {}
    /\ sending = Nothing
    /\ readsOwed = <<>>
    /\ writesOwed = <<>>
    /\ firstStored = Zero

-----------------------------------------------------------------------------
(* What the runner knows of tohost.                                        *)

Observed == tohost # Zero \/ tohostSeen

\* Mutant of ObservedValue: the memory's word is preferred.
ObservedValueOfMemory == IF tohostSeen THEN tohostValue ELSE tohost

\* The retired store is preferred to the memory's word.
ObservedValue == IF tohost # Zero THEN tohost ELSE tohostValue

\* The condition of main's loop.
Running == ~finished /\ cycle < MaxCycles /\ ~Observed

-----------------------------------------------------------------------------
(* The clock edge.                                                         *)

\* The first cycles hold reset; they count, but nothing is traced.
ResetCycle ==
    /\ phase = "clock"
    /\ cycle < ResetCycles
    /\ MemoryReset
    /\ cycle' = cycle + 1
    /\ UNCHANGED <<phase, finished, archRegs, tohost, outcome, portVars, programVars>>

\* The beats the processor may put on the write channel.
WriteBeats ==
    IF sending = Nothing THEN {}
    ELSE [data : {ReadWord(image, WordBase(sending.addr))},
          strobes : SUBSET Window(sending.addr, sending.size)]

\* What the processor remembers of its own bursts.
Bookkeeping(ar, aw, w, rReady, bReady) ==
    /\ sending' =
          IF aw # Nothing /\ ~storeInflight
          THEN [addr |-> aw.addr, size |-> aw.size, left |-> aw.beats]
          ELSE IF w = Nothing THEN sending
          ELSE IF sending.left = 1 THEN Nothing
          ELSE [sending EXCEPT !.addr = @ + sending.size, !.left = @ - 1]
    /\ dirty' = IF w = Nothing THEN dirty
                ELSE dirty \ {WordBase(sending.addr) + l : l \in w.strobes}
    /\ writesOwed' = (IF bReady /\ bresp # <<>> THEN Tail(writesOwed) ELSE writesOwed)
                     \o (IF aw # Nothing /\ ~storeInflight THEN <<aw.id>> ELSE <<>>)
    /\ readsOwed' =
          (IF rReady /\ rresp # <<>>
           THEN IF readsOwed[1].left = 1 THEN Tail(readsOwed)
                ELSE [readsOwed EXCEPT ![1].left = @ - 1]
           ELSE readsOwed)
          \o (IF ar = Nothing THEN <<>> ELSE <<[id |-> ar.id, left |-> ar.beats]>>)

Clock ==
    /\ phase = "clock"
    /\ cycle >= ResetCycles
    /\ Running
    /\ \E ar \in ReadBursts \cup {Nothing}, aw \in WriteBursts \cup {Nothing},
          w \in WriteBeats \cup {Nothing}, rReady, bReady \in BOOLEAN :
          /\ ar # Nothing => Len(readsOwed) < MaxOwed
          /\ aw # Nothing => Len(writesOwed) < MaxOwed
          /\ Tick(ar, aw, w, rReady, bReady)
          /\ Bookkeeping(ar, aw, w, rReady, bReady)
    /\ finished' \in BOOLEAN
    /\ phase' = "trace"
    /\ UNCHANGED <<cycle, archRegs, tohost, outcome, programVars>>

-----------------------------------------------------------------------------
(* trace_cycle, with what the processor commits in this cycle.             *)

\* Physical registers that hold no register of the program: they are free, or a
\* result in flight.
NotCommitted == PhysReg \ Range(commitMap)

\* One result may have arrived at the clock edge.
ResultArrives ==
    \/ UNCHANGED regfile
    \/ \E p \in NotCommitted, v \in Values : regfile' = [regfile EXCEPT ![p] = v]

Traced ==
    /\ phase = "trace"
    /\ phase' = "clock"
    /\ UNCHANGED <<axiVars, finished, outcome, sending, readsOwed, writesOwed>>

\* Mutant of RetireNothing: only cycles that commit are counted.
RetireNothingUncounted ==
    /\ Traced
    /\ ResultArrives
    /\ UNCHANGED <<cycle, archRegs, tohost, commitMap, image, firstStored, dirty>>

RetireNothing ==
    /\ Traced
    /\ ResultArrives
    /\ cycle' = cycle + 1
    /\ UNCHANGED <<archRegs, tohost, commitMap, image, firstStored, dirty>>

\* Mutant of Shadow: pdst is believed without ldst_val.
ShadowOfAny(rdValid, rd, pdst) ==
    IF pdst < PhysRegs
    THEN [archRegs EXCEPT ![rd] = regfile'[pdst], ![0] = Zero]
    ELSE archRegs

\* The shadow registers after a commit with these fields: the value is read from the
\* register file as the clock edge left it, and register 0 is zero again.
Shadow(rdValid, rd, pdst) ==
    IF rdValid /\ pdst < PhysRegs
    THEN [archRegs EXCEPT ![rd] = regfile'[pdst], ![0] = Zero]
    ELSE archRegs

\* An instruction other than a store commits.  Its destination leaves the result where
\* it is and moves the mapping; without one, rd and pdst are what happens to be there.
RetireOther ==
    /\ Traced
    /\ ResultArrives
    /\ \E rdValid \in BOOLEAN, rd \in Reg, pdst \in 0 .. PdstValues - 1 :
          /\ rdValid => pdst \in NotCommitted
          /\ archRegs' = Shadow(rdValid, rd, pdst)
          /\ commitMap' = IF rdValid /\ rd # 0 THEN [commitMap EXCEPT ![rd] = pdst]
                          ELSE commitMap
    /\ cycle' = cycle + 1
    /\ UNCHANGED <<tohost, image, dirty, firstStored>>

\* sign_extend subtracts in 32 bits and then widens without a sign.
SignExtend(imm) == IF imm < 0 THEN imm + HalfRange ELSE imm

\* detect_tohost_store, on the shadow registers.
DetectTohostStore(rs1, rs2, imm) ==
    Number(archRegs[rs1]) + SignExtend(imm) = TohostAddr /\ archRegs[rs2] # Zero

\* Mutant of RetireDoubleword: the offset of the store is ignored.
RetireDoublewordAtBase ==
    /\ Traced
    /\ \E rs1, rs2 \in Reg, imm \in Offsets, readable \in BOOLEAN :
          LET addr == Number(ArchReg(rs1)) + imm
          IN  /\ addr \in Address /\ LaneOf(addr) = 0
              /\ image' = [a \in Address |-> IF WordBase(a) = addr
                                             THEN ArchReg(rs2)[LaneOf(a)] ELSE image[a]]
              /\ dirty' = dirty \cup {addr + l : l \in Lane}
              /\ tohost' = IF readable /\ DetectTohostStore(rs1, rs2, 0)
                           THEN archRegs[rs2] ELSE tohost
              /\ firstStored' = IF /\ readable /\ addr = TohostAddr /\ imm >= 0
                                   /\ firstStored = Zero
                                THEN ArchReg(rs2) ELSE firstStored
    /\ cycle' = cycle + 1
    /\ UNCHANGED <<archRegs, registerVars>>

\* A store of a doubleword commits.  The trace has no instruction word: the runner reads
\* it from its memory at the pc, and decodes sd only.  The store is not "readable" when
\* its pc lies outside that memory (inst_valid is false) or it is a compressed one.
RetireDoubleword ==
    /\ Traced
    /\ \E rs1, rs2 \in Reg, imm \in Offsets, readable \in BOOLEAN :
          LET addr == Number(ArchReg(rs1)) + imm
          IN  /\ addr \in Address /\ LaneOf(addr) = 0
              /\ image' = [a \in Address |-> IF WordBase(a) = addr
                                             THEN ArchReg(rs2)[LaneOf(a)] ELSE image[a]]
              /\ dirty' = dirty \cup {addr + l : l \in Lane}
              /\ tohost' = IF readable /\ DetectTohostStore(rs1, rs2, imm)
                           THEN archRegs[rs2] ELSE tohost
              /\ firstStored' = IF /\ readable /\ addr = TohostAddr /\ imm >= 0
                                   /\ firstStored = Zero
                                THEN ArchReg(rs2) ELSE firstStored
    /\ cycle' = cycle + 1
    /\ UNCHANGED <<archRegs, registerVars>>

\* A store of less than a doubleword commits; the runner does not look at it.
RetireNarrow ==
    /\ Traced
    /\ \E rs2 \in Reg, addr \in Address :
          /\ image' = [image EXCEPT ![addr] = ArchReg(rs2)[0]]
          /\ dirty' = dirty \cup {addr}
    /\ cycle' = cycle + 1
    /\ UNCHANGED <<archRegs, tohost, registerVars, firstStored>>

-----------------------------------------------------------------------------
(* The end of main.                                                        *)

\* 1 is success; any other value is cut to the bits an exit code keeps, and then
\* still must not look like success.
ExitCode(v) ==
    LET code == (Number(v) \div 2) % ExitMod
    IN  IF Number(v) = 1 THEN 0 ELSE IF code = 0 THEN 1 ELSE code

End ==
    /\ phase = "clock"
    /\ cycle >= ResetCycles
    /\ ~Running
    /\ phase' = "ended"
    /\ outcome' =
          IF Observed THEN [reason |-> "tohost", exitCode |-> ExitCode(ObservedValue),
                            value |-> ObservedValue]
          ELSE IF finished THEN [reason |-> "verilator_finish", exitCode |-> 0, value |-> Zero]
          ELSE [reason |-> "max_cycles", exitCode |-> 4, value |-> Zero]
    /\ UNCHANGED <<axiVars, cycle, finished, archRegs, tohost, portVars, programVars>>

Next ==
    \/ ResetCycle \/ Clock
    \/ RetireNothing \/ RetireOther \/ RetireDoubleword \/ RetireNarrow
    \/ End

Spec == Init /\ [][Next]_vars

\* main is a loop that nothing suspends.
FairSpec == Spec /\ WF_vars(Next)

-----------------------------------------------------------------------------
(* Properties.                                                             *)

\* Every component of the runner and its memory has its type.
RunnerTypeOK ==
    /\ MemoryTypeOK
    /\ phase \in {"clock", "trace", "ended"}
    /\ cycle \in 0 .. ResetCycles + MaxCycles
    /\ finished \in BOOLEAN
    /\ archRegs \in [Reg -> Doubleword]
    /\ tohost \in Doubleword
    /\ outcome = Nothing <=> phase # "ended"

\* The port answers every burst exactly once, in order: the beats and the write
\* responses that wait are those the processor still expects, with their ids, and
\* "last" ends each burst.  One beat more or less would shift every later answer.
BurstsAnswered ==
    LET Expected(b) == [k \in 1 .. b.left |-> [id |-> b.id, last |-> k = b.left]]
        Open == IF storeInflight THEN <<storeId>> ELSE <<>>
    IN  /\ FlattenSeq([i \in DOMAIN readsOwed |-> Expected(readsOwed[i])])
              = [i \in DOMAIN rresp |-> [id |-> rresp[i].id, last |-> rresp[i].last]]
        /\ bresp \o Open = writesOwed
        /\ IF sending = Nothing THEN ~storeInflight
           ELSE storeInflight /\ storeCount = sending.left

\* Memory holds the program's bytes wherever they have been written back: each
\* beat, narrow or wide, lands on the bytes its place in the burst addresses and
\* on no other, and the file was loaded where the program expects it.
MemoryFollowsImage ==
    \A a \in Address : bytes[a] # image[a] => a \in dirty

\* The shadow registers, built from the fields of the trace alone, are the program's
\* registers as the processor keeps them, although what was copied at a commit stays
\* while physical registers are freed, written by results in flight and used again, and
\* commits without a destination show any pdst.  Stores to tohost are decoded with them.
ShadowIsArchitectural == \A r \in Reg : archRegs[r] = ArchReg(r)

\* The value that ends the run is the first the program stored to tohost as a
\* doubleword, with an instruction the runner can read and at an offset that is not
\* negative (sign_extend loses the others; only memory shows those): "only if the
\* retired store targets 0x80000080 with a nonzero value"
\* (docs/verilator_commit_signal_proof.md:49).
TohostIsFirstStored == tohost = firstStored

\* The verdict is the program's own: success only when it stored 1 or the design
\* finished, and its doubleword wins over whatever memory shows of it, such as an
\* earlier narrow store.  No value but 1 becomes exit code 0 when it is cut.
VerdictIsTheProgramsOwn ==
    outcome # Nothing =>
        /\ firstStored # Zero => outcome.reason = "tohost" /\ outcome.value = firstStored
        /\ outcome.exitCode = 0 <=> \/ outcome.reason = "verilator_finish"
                                    \/ outcome.reason = "tohost" /\ Number(outcome.value) = 1

\* The run ends, whatever the processor does.
RunEnds == <>(outcome # Nothing)

=============================================================================
