------------------------- MODULE TraceRunnerProofs -------------------------
(***************************************************************************)
(* Theorems about the reference trace runner: whatever the processor       *)
(* commits, writes back and asks of its memory, the runner's shadow of the *)
(* registers is right and the verdict is the program's.                    *)
(***************************************************************************)
EXTENDS TraceRunner, SequenceFacts

\* The verdict of a run that has ended.
VerdictHolds ==
    /\ firstStored # Zero => outcome.reason = "tohost" /\ outcome.value = firstStored
    /\ outcome.exitCode = 0 <=> \/ outcome.reason = "verilator_finish"
                                \/ outcome.reason = "tohost" /\ Number(outcome.value) = 1

(***************************************************************************)
(* The inductive invariant.  That the shadow registers are right needs     *)
(* register 0 to stay in a physical register that nothing writes; that     *)
(* tohost is the first store needs the shadow registers to be right and no *)
(* instruction to be traced once it is known; the verdict needs both when  *)
(* the run ends.                                                           *)
(***************************************************************************)
RegistersInv ==
    /\ regfile \in [PhysReg -> Doubleword]
    /\ commitMap \in [Reg -> PhysReg]
    /\ commitMap[0] = 0
    /\ regfile[0] = Zero

RunnerInv ==
    /\ RegistersInv
    /\ phase \in {"clock", "trace", "ended"}
    /\ archRegs \in [Reg -> Doubleword]
    /\ ShadowIsArchitectural
    /\ TohostIsFirstStored
    /\ phase = "trace" => tohost = Zero
    /\ IF phase = "ended" THEN VerdictHolds ELSE outcome = Nothing

-----------------------------------------------------------------------------

LEMMA ZeroIsDoubleword == Zero \in Doubleword
  BY ByteValuesAssumption DEF Zero, Doubleword, Byte

\* A store is detected when it writes a doubleword other than zero to tohost at an
\* offset that is not negative, and never otherwise: a negative offset comes out of
\* sign_extend so large that no address of memory reaches tohost with it.
LEMMA DetectedStores ==
    ASSUME archRegs \in [Reg -> Doubleword], NEW rs1 \in Reg, NEW rs2 \in Reg,
           NEW imm \in Offsets, Number(archRegs[rs1]) + imm \in Address
    PROVE  DetectTohostStore(rs1, rs2, imm) <=>
               /\ Number(archRegs[rs1]) + imm = TohostAddr /\ imm >= 0
               /\ archRegs[rs2] # Zero
<1> DEFINE base == Number(archRegs[rs1])
<1>1. base \in Nat
  BY NumberAssumption
<1>2. imm \in Int /\ base + imm >= 0
  BY <1>1, OffsetsAssumption DEF Address
<1> HIDE DEF base
<1>3. base + SignExtend(imm) = TohostAddr <=> base + imm = TohostAddr /\ imm >= 0
  BY <1>1, <1>2, HalfRangeAssumption, TohostAddrAssumption DEF SignExtend
<1> QED
  BY <1>3 DEF DetectTohostStore, base

\* Only the value 1 leaves as exit code 0.
LEMMA ExitCodeIsZero ==
    ASSUME NEW v
    PROVE  ExitCode(v) = 0 <=> Number(v) = 1
<1> DEFINE code == (Number(v) \div 2) % ExitMod
<1> HIDE DEF code
<1>1. ExitCode(v) = IF Number(v) = 1 THEN 0 ELSE IF code = 0 THEN 1 ELSE code
  BY DEF ExitCode, code
<1> QED
  BY <1>1

LEMMA RegZero == 0 \in Reg /\ 0 \in PhysReg
  BY RegsAssumption DEF Reg, PhysReg

LEMMA RunnerInvInit == Init => RunnerInv
<1> SUFFICES ASSUME Init
             PROVE  RunnerInv
  OBVIOUS
<1>1. /\ archRegs = [r \in Reg |-> Zero] /\ regfile = [p \in PhysReg |-> Zero]
      /\ commitMap = [r \in Reg |-> 0]
  BY DEF Init
<1>2. RegistersInv
  BY <1>1, RegZero, ZeroIsDoubleword DEF RegistersInv
<1>3. ShadowIsArchitectural /\ archRegs \in [Reg -> Doubleword]
  BY <1>1, RegZero, ZeroIsDoubleword DEF ShadowIsArchitectural, ArchReg
<1> QED
  BY <1>2, <1>3 DEF Init, RunnerInv, TohostIsFirstStored

\* A result that arrives leaves the registers of the program as they are.
LEMMA ResultKeepsRegisters ==
    ASSUME RegistersInv, ResultArrives
    PROVE  /\ regfile' \in [PhysReg -> Doubleword]
           /\ regfile'[0] = Zero
           /\ \A r \in Reg : regfile'[commitMap[r]] = ArchReg(r)
<1>1. CASE UNCHANGED regfile
  BY <1>1 DEF RegistersInv, ArchReg
<1>2. CASE ~UNCHANGED regfile
  <2>1. PICK p \in NotCommitted, v \in Values : regfile' = [regfile EXCEPT ![p] = v]
    BY <1>2 DEF ResultArrives
  <2>2. v \in Doubleword /\ p \in PhysReg
    BY ValuesAssumption DEF NotCommitted
  <2>3. \A r \in Reg : p # commitMap[r]
    BY DEF NotCommitted, Range, RegistersInv
  <2>4. p # 0
    BY <2>3, RegZero DEF RegistersInv
  <2> QED
    BY <2>1, <2>2, <2>3, <2>4, RegZero DEF RegistersInv, ArchReg
<1> QED
  BY <1>1, <1>2

\* A step that leaves the program's registers and both views of tohost alone.
LEMMA RegistersKept ==
    ASSUME RunnerInv, ResultArrives,
           UNCHANGED <<archRegs, commitMap, tohost, firstStored, outcome>>,
           phase' \in {"clock", "trace"}, phase # "ended",
           phase' = "trace" => tohost = Zero
    PROVE  RunnerInv'
<1>1. RegistersInv'
  <2>1. RegistersInv
    BY DEF RunnerInv
  <2>2. Zero' = Zero /\ Doubleword' = Doubleword /\ Reg' = Reg /\ PhysReg' = PhysReg
    BY DEF Zero, Doubleword, Byte, Lane, Reg, PhysReg
  <2> QED
    BY <2>1, <2>2, ResultKeepsRegisters DEF RegistersInv
<1>2. ShadowIsArchitectural'
  <2>1. \A r \in Reg : archRegs[r] = regfile'[commitMap[r]]
    BY ResultKeepsRegisters DEF RunnerInv, ShadowIsArchitectural
  <2> QED
    BY <2>1 DEF ShadowIsArchitectural, ArchReg
<1> QED
  BY <1>1, <1>2 DEF RunnerInv, TohostIsFirstStored

LEMMA EndKeepsInv ==
    ASSUME RunnerInv, End
    PROVE  RunnerInv'
<1>1. /\ phase' = "ended"
      /\ UNCHANGED <<archRegs, regfile, commitMap, tohost, firstStored>>
      /\ tohost = firstStored
  BY DEF End, RunnerInv, TohostIsFirstStored, programVars, registerVars
<1>2. VerdictHolds'
  <2>1. CASE Observed
    <3>1. outcome' = [reason |-> "tohost", exitCode |-> ExitCode(ObservedValue),
                      value |-> ObservedValue]
      BY <2>1 DEF End
    <3>2. tohost # Zero => ObservedValue = tohost
      BY DEF ObservedValue
    <3>3. outcome'.exitCode = 0 <=> Number(outcome'.value) = 1
      BY <3>1, ExitCodeIsZero
    <3>4. Zero' = Zero
      BY DEF Zero
    <3> QED
      BY <1>1, <3>1, <3>2, <3>3, <3>4 DEF VerdictHolds
  <2>2. CASE ~Observed
    <3>1. firstStored' = Zero /\ Zero' = Zero
      BY <1>1, <2>2 DEF Observed, Zero
    <3>2. \/ outcome' = [reason |-> "verilator_finish", exitCode |-> 0, value |-> Zero]
          \/ outcome' = [reason |-> "max_cycles", exitCode |-> 4, value |-> Zero]
      BY <2>2 DEF End
    <3> QED
      BY <3>1, <3>2 DEF VerdictHolds
  <2> QED
    BY <2>1, <2>2
<1>3. RegistersInv' /\ ShadowIsArchitectural'
  BY <1>1 DEF RunnerInv, RegistersInv, ShadowIsArchitectural, ArchReg
<1> QED
  BY <1>1, <1>2, <1>3 DEF RunnerInv, TohostIsFirstStored

\* A destination that commits takes its result along; the shadow copies it from the
\* same physical register.
LEMMA OtherKeepsInv ==
    ASSUME RunnerInv, RetireOther
    PROVE  RunnerInv'
<1>1. PICK rdValid \in BOOLEAN, rd \in Reg, pdst \in 0 .. PdstValues - 1 :
          /\ rdValid => pdst \in NotCommitted
          /\ archRegs' = Shadow(rdValid, rd, pdst)
          /\ commitMap' = IF rdValid /\ rd # 0 THEN [commitMap EXCEPT ![rd] = pdst]
                          ELSE commitMap
  BY DEF RetireOther
<1>2. /\ phase = "trace" /\ phase' = "clock"
      /\ UNCHANGED <<tohost, firstStored, outcome>> /\ ResultArrives
  BY DEF RetireOther, Traced
<1>3. RegistersInv /\ archRegs \in [Reg -> Doubleword] /\ ShadowIsArchitectural
  BY DEF RunnerInv
<1>4. /\ regfile' \in [PhysReg -> Doubleword] /\ regfile'[0] = Zero
      /\ \A r \in Reg : regfile'[commitMap[r]] = archRegs[r]
  BY <1>2, <1>3, ResultKeepsRegisters DEF ShadowIsArchitectural
<1>5. rdValid => pdst \in PhysReg /\ pdst < PhysRegs
  BY <1>1, RegsAssumption DEF NotCommitted, PhysReg
<1>6. commitMap' \in [Reg -> PhysReg] /\ commitMap'[0] = 0
  BY <1>1, <1>3, <1>5, RegZero DEF RegistersInv
<1>7. archRegs' \in [Reg -> Doubleword] /\ \A r \in Reg : archRegs'[r] = regfile'[commitMap'[r]]
  <2>1. archRegs[0] = Zero
    BY <1>3, <1>4, RegZero DEF RegistersInv
  <2>2. CASE ~rdValid
    BY <1>1, <1>3, <1>4, <2>2 DEF Shadow
  <2>3. CASE rdValid
    <3>1. archRegs' = [archRegs EXCEPT ![rd] = regfile'[pdst], ![0] = Zero]
      BY <1>1, <1>5, <2>3 DEF Shadow
    <3>2. regfile'[pdst] \in Doubleword
      BY <1>4, <1>5, <2>3
    <3>3. archRegs' \in [Reg -> Doubleword]
      BY <1>3, <3>1, <3>2, ZeroIsDoubleword
    <3>4. ASSUME NEW r \in Reg
          PROVE  archRegs'[r] = regfile'[commitMap'[r]]
      <4>1. CASE r = 0
        BY <1>3, <1>4, <1>6, <3>1, <4>1, RegZero
      <4>2. CASE r # 0 /\ r = rd
        BY <1>1, <1>3, <2>3, <3>1, <4>2, RegZero DEF RegistersInv
      <4>3. CASE r # 0 /\ r # rd
        <5>1. archRegs'[r] = archRegs[r]
          BY <1>3, <3>1, <4>3, RegZero
        <5>2. commitMap'[r] = commitMap[r]
          BY <1>1, <1>3, <4>3 DEF RegistersInv
        <5> QED
          BY <1>4, <5>1, <5>2
      <4> QED
        BY <4>1, <4>2, <4>3
    <3> QED
      BY <3>3, <3>4
  <2> QED
    BY <2>2, <2>3
<1>8. RegistersInv'
  BY <1>4, <1>6 DEF RegistersInv, Zero, Doubleword, Byte, Lane, Reg, PhysReg
<1>9. ShadowIsArchitectural'
  BY <1>7 DEF ShadowIsArchitectural, ArchReg
<1> QED
  BY <1>2, <1>7, <1>8, <1>9 DEF RunnerInv, TohostIsFirstStored

LEMMA DoublewordKeepsInv ==
    ASSUME RunnerInv, RetireDoubleword
    PROVE  RunnerInv'
<1>1. PICK rs1 \in Reg, rs2 \in Reg, imm \in Offsets, readable \in BOOLEAN :
          /\ Number(ArchReg(rs1)) + imm \in Address
          /\ tohost' = IF readable /\ DetectTohostStore(rs1, rs2, imm)
                       THEN archRegs[rs2] ELSE tohost
          /\ firstStored' = IF /\ readable /\ Number(ArchReg(rs1)) + imm = TohostAddr
                               /\ imm >= 0 /\ firstStored = Zero
                            THEN ArchReg(rs2) ELSE firstStored
  BY DEF RetireDoubleword
<1>2. /\ phase = "trace" /\ phase' = "clock"
      /\ UNCHANGED <<archRegs, regfile, commitMap, outcome>>
  BY DEF RetireDoubleword, Traced, registerVars
<1>3. /\ archRegs[rs1] = ArchReg(rs1) /\ archRegs[rs2] = ArchReg(rs2)
      /\ archRegs \in [Reg -> Doubleword] /\ tohost = Zero /\ firstStored = Zero
  BY <1>2 DEF RunnerInv, ShadowIsArchitectural, TohostIsFirstStored
<1>4. tohost' = firstStored'
  BY <1>1, <1>3, DetectedStores
<1>5. RegistersInv' /\ ShadowIsArchitectural'
  BY <1>2 DEF RunnerInv, RegistersInv, ShadowIsArchitectural, ArchReg
<1> QED
  BY <1>2, <1>3, <1>4, <1>5 DEF RunnerInv, TohostIsFirstStored

LEMMA RunnerInvStep == RunnerInv /\ [Next]_vars => RunnerInv'
<1> SUFFICES ASSUME RunnerInv, [Next]_vars
             PROVE  RunnerInv'
  OBVIOUS
<1>1. CASE ResetCycle
  BY <1>1, RegistersKept DEF ResetCycle, programVars, registerVars, ResultArrives
<1>2. CASE Clock
  <2>1. tohost = Zero
    BY <1>2 DEF Clock, Running, Observed
  <2> QED
    BY <1>2, <2>1, RegistersKept DEF Clock, programVars, registerVars, ResultArrives
<1>3. CASE RetireNothing
  BY <1>3, RegistersKept DEF RetireNothing, Traced
<1>4. CASE RetireOther
  BY <1>4, OtherKeepsInv
<1>5. CASE RetireDoubleword
  BY <1>5, DoublewordKeepsInv
<1>6. CASE RetireNarrow
  BY <1>6, RegistersKept DEF RetireNarrow, Traced, registerVars, ResultArrives
<1>7. CASE End
  BY <1>7, EndKeepsInv
<1>8. CASE UNCHANGED vars
  <2>1. UNCHANGED <<phase, archRegs, tohost, outcome, regfile, commitMap, firstStored>>
    BY <1>8 DEF vars, runnerVars, programVars, registerVars
  <2>2. RegistersInv' /\ ShadowIsArchitectural'
    BY <2>1 DEF RunnerInv, RegistersInv, ShadowIsArchitectural, ArchReg
  <2> QED
    BY <2>1, <2>2 DEF RunnerInv, TohostIsFirstStored, VerdictHolds
<1> QED
  BY <1>1, <1>2, <1>3, <1>4, <1>5, <1>6, <1>7, <1>8 DEF Next

LEMMA RunnerInvAlways == Spec => []RunnerInv
  BY RunnerInvInit, RunnerInvStep, PTL DEF Spec

-----------------------------------------------------------------------------

\* For every program: the shadow registers of trace_cycle are the program's own, and
\* the value that ends the run is the first doubleword other than zero that it
\* stored to tohost at an offset that is not negative.
THEOREM RunnerWatchesTohost == Spec => [](ShadowIsArchitectural /\ TohostIsFirstStored)
<1>1. RunnerInv => ShadowIsArchitectural /\ TohostIsFirstStored
  BY DEF RunnerInv
<1> QED
  BY <1>1, RunnerInvAlways, PTL

\* For every program and every memory traffic: the verdict is the program's own, and
\* no value but 1 becomes exit code 0.
THEOREM RunnerVerdict == Spec => []VerdictIsTheProgramsOwn
<1>1. RunnerInv => VerdictIsTheProgramsOwn
  BY DEF RunnerInv, VerdictIsTheProgramsOwn, VerdictHolds
<1> QED
  BY <1>1, RunnerInvAlways, PTL

-----------------------------------------------------------------------------
(* Addresses, words and lanes.                                             *)

LEMMA WrapIs ==
    /\ \A a \in Int : Wrap(a) \in Address
    /\ \A a \in Address : Wrap(a) = a
  BY MemBytesAssumption DEF Wrap, Address

LEMMA LaneIs ==
    ASSUME NEW a \in Int
    PROVE  /\ LaneOf(a) \in Lane
           /\ WordBase(a) \in Int /\ a = WordBase(a) + LaneOf(a)
           /\ WordBase(a) <= a /\ a < WordBase(a) + WordBytes
           /\ a >= 0 => WordBase(a) >= 0
  BY WordBytesAssumption DEF LaneOf, Lane, WordBase

LEMMA Multiples ==
    ASSUME NEW n \in Nat, NEW k \in Nat \ {0}
    PROVE  n % k = 0 <=> \E q \in Nat : n = k * q
<1>1. ASSUME n % k = 0
      PROVE  n = k * (n \div k) /\ n \div k \in Nat
  BY <1>1
<1>2. ASSUME NEW q \in Nat
      PROVE  (k * q) % k = 0
  OBVIOUS
<1> QED
  BY <1>1, <1>2

\* A beat of an aligned burst stays within its word.
LEMMA BeatInWord ==
    ASSUME NEW addr \in Nat, NEW size \in 1 .. WordBytes,
           WordBytes % size = 0, addr % size = 0
    PROVE  /\ LaneOf(addr) + size <= WordBytes
           /\ (addr + size) % size = 0
<1>1. WordBytes \in Nat /\ size \in Nat \ {0}
  BY WordBytesAssumption
<1>2. PICK p \in Nat : WordBytes = size * p
  BY <1>1, Multiples
<1>3. PICK q \in Nat : addr = size * q
  BY <1>1, Multiples
<1>4. PICK d \in Nat : LaneOf(addr) = addr - WordBytes * d
  <2>1. addr % WordBytes = addr - WordBytes * (addr \div WordBytes)
        /\ addr \div WordBytes \in Nat
    BY WordBytesAssumption
  <2> QED
    BY <2>1 DEF LaneOf
<1> DEFINE r == q - p * d
<1>5. r \in Int /\ LaneOf(addr) = size * r
  BY <1>1, <1>2, <1>3, <1>4
<1> HIDE DEF r
<1>6. size * r < size * p
  <2>1. LaneOf(addr) < WordBytes
    BY <1>1, LaneIs DEF Lane
  <2> QED
    BY <1>2, <1>5, <2>1
<1>7. r < p
  BY <1>1, <1>5, <1>6
<1>8. size * (r + 1) <= size * p
  BY <1>1, <1>5, <1>7
<1>9. addr + size = size * (q + 1)
  BY <1>1, <1>3
<1>10. (addr + size) % size = 0
  <2>1. addr + size \in Nat /\ q + 1 \in Nat
    BY <1>1
  <2> QED
    BY <1>1, <1>9, <2>1, Multiples
<1> QED
  BY <1>1, <1>2, <1>5, <1>8, <1>10

-----------------------------------------------------------------------------
(* The beats that open read bursts are owed.                               *)

OpenRead == [id : AxiIds, left : 1 .. MemBytes]
BeatKind == [id : AxiIds, last : BOOLEAN]
Answer == [id : AxiIds, last : BOOLEAN, data : Doubleword]

\* The beats still to come of one open burst, and those of several, burst by burst.
BeatsOf(b) == [k \in 1 .. b.left |-> [id |-> b.id, last |-> k = b.left]]
ByBurst(s) == [i \in DOMAIN s |-> BeatsOf(s[i])]

\* The answers of the port without their data.
Kinds(r) == [i \in DOMAIN r |-> [id |-> r[i].id, last |-> r[i].last]]

LEMMA BeatsType ==
    ASSUME NEW b \in OpenRead
    PROVE  /\ BeatsOf(b) \in Seq(BeatKind)
           /\ Len(BeatsOf(b)) = b.left /\ b.left \in 1 .. MemBytes /\ b.id \in AxiIds
           /\ \A k \in 1 .. b.left : BeatsOf(b)[k] = [id |-> b.id, last |-> k = b.left]
<1>1. b.left \in 1 .. MemBytes /\ b.left \in Nat /\ b.id \in AxiIds
  BY MemBytesAssumption DEF OpenRead
<1>2. \A k \in 1 .. b.left : [id |-> b.id, last |-> k = b.left] \in BeatKind
  BY <1>1 DEF BeatKind
<1>3. BeatsOf(b) \in [1 .. b.left -> BeatKind]
  BY <1>2 DEF BeatsOf
<1>4. BeatsOf(b) \in Seq(BeatKind) /\ Len(BeatsOf(b)) = b.left
  BY <1>1, <1>3
<1>5. \A k \in 1 .. b.left : BeatsOf(b)[k] = [id |-> b.id, last |-> k = b.left]
  BY DEF BeatsOf
<1> QED
  BY <1>1, <1>4, <1>5

LEMMA ByBurstType ==
    ASSUME NEW s \in Seq(OpenRead)
    PROVE  /\ ByBurst(s) \in Seq(Seq(BeatKind))
           /\ Len(ByBurst(s)) = Len(s)
           /\ \A i \in 1 .. Len(s) : ByBurst(s)[i] = BeatsOf(s[i])
<1>1. \A i \in DOMAIN s : BeatsOf(s[i]) \in Seq(BeatKind)
  BY BeatsType
<1>2. ByBurst(s) \in [1 .. Len(s) -> Seq(BeatKind)] /\ Len(s) \in Nat
  BY <1>1 DEF ByBurst
<1> QED
  BY <1>2 DEF ByBurst

LEMMA OwedAppend ==
    ASSUME NEW s \in Seq(OpenRead), NEW b \in OpenRead
    PROVE  FlattenSeq(ByBurst(Append(s, b))) = FlattenSeq(ByBurst(s)) \o BeatsOf(b)
<1> DEFINE more == Append(s, b)
<1>1. /\ more \in Seq(OpenRead) /\ Len(more) = Len(s) + 1 /\ more[Len(s) + 1] = b
      /\ \A i \in 1 .. Len(s) : more[i] = s[i]
  BY AppendProperties
<1>2. BeatsOf(b) \in Seq(BeatKind)
  BY BeatsType
<1> HIDE DEF more
<1>3. ByBurst(more) = Append(ByBurst(s), BeatsOf(b))
  <2> DEFINE u == Append(ByBurst(s), BeatsOf(b))
  <2>1. /\ u \in Seq(Seq(BeatKind)) /\ Len(u) = Len(s) + 1 /\ u[Len(s) + 1] = BeatsOf(b)
        /\ \A i \in 1 .. Len(s) : u[i] = BeatsOf(s[i])
    BY <1>2, ByBurstType, AppendProperties
  <2> HIDE DEF u
  <2>2. /\ ByBurst(more) \in Seq(Seq(BeatKind)) /\ Len(ByBurst(more)) = Len(s) + 1
        /\ \A i \in 1 .. Len(s) + 1 : ByBurst(more)[i] = BeatsOf(more[i])
    BY <1>1, ByBurstType
  <2>3. \A i \in 1 .. Len(s) + 1 : i = Len(s) + 1 \/ i \in 1 .. Len(s)
    BY LenProperties
  <2>4. \A i \in 1 .. Len(s) + 1 : ByBurst(more)[i] = u[i]
    BY <1>1, <2>1, <2>2, <2>3
  <2>5. ByBurst(more) = u
    BY <2>1, <2>2, <2>4, SeqEqual
  <2> QED
    BY <2>5 DEF u
<1> QED
  BY <1>2, <1>3, ByBurstType, FlattenAppend DEF more

LEMMA OwedFirst ==
    ASSUME NEW s \in Seq(OpenRead), s # <<>>
    PROVE  FlattenSeq(ByBurst(s)) = BeatsOf(s[1]) \o FlattenSeq(ByBurst(Tail(s)))
<1> DEFINE rest == Tail(s)
           u == ByBurst(s)
<1>1. /\ Len(s) \in Nat \ {0}
      /\ rest \in Seq(OpenRead) /\ Len(rest) = Len(s) - 1
      /\ \A i \in 1 .. Len(s) - 1 : rest[i] = s[i + 1]
  BY HeadTailProperties
<1> HIDE DEF rest
<1>2. /\ u \in Seq(Seq(BeatKind)) /\ Len(u) = Len(s)
      /\ \A i \in 1 .. Len(s) : u[i] = BeatsOf(s[i])
  BY ByBurstType
<1> HIDE DEF u
<1>3. u # <<>> /\ Head(u) = BeatsOf(s[1])
  BY <1>1, <1>2
<1>4. Tail(u) = ByBurst(rest)
  <2>1. /\ Tail(u) \in Seq(Seq(BeatKind)) /\ Len(Tail(u)) = Len(s) - 1
        /\ \A i \in 1 .. Len(s) - 1 : Tail(u)[i] = u[i + 1]
    BY <1>1, <1>2, <1>3, HeadTailProperties
  <2>2. /\ ByBurst(rest) \in Seq(Seq(BeatKind)) /\ Len(ByBurst(rest)) = Len(s) - 1
        /\ \A i \in 1 .. Len(s) - 1 : ByBurst(rest)[i] = BeatsOf(rest[i])
    BY <1>1, ByBurstType
  <2>3. ASSUME NEW i \in 1 .. Len(s) - 1
        PROVE  Tail(u)[i] = ByBurst(rest)[i]
    <3>1. i + 1 \in 1 .. Len(s)
      BY <1>1
    <3> QED
      BY <1>1, <1>2, <2>1, <2>2, <3>1
  <2> QED
    BY <2>1, <2>2, <2>3, SeqEqual
<1> QED
  BY <1>2, <1>3, <1>4, FlattenTail DEF u, rest

\* One beat of an open burst is taken.
Taken(b) == [b EXCEPT !.left = @ - 1]

LEMMA BeatOfBurstTaken ==
    ASSUME NEW b \in OpenRead
    PROVE  /\ BeatsOf(b) # <<>>
           /\ b.left = 1 => Tail(BeatsOf(b)) = <<>>
           /\ b.left # 1 => Taken(b) \in OpenRead /\ Tail(BeatsOf(b)) = BeatsOf(Taken(b))
<1> DEFINE u == BeatsOf(b)
<1>1. /\ u \in Seq(BeatKind) /\ Len(u) = b.left /\ b.left \in Nat \ {0}
      /\ b.left \in 1 .. MemBytes /\ b.id \in AxiIds
      /\ \A k \in 1 .. b.left : u[k] = [id |-> b.id, last |-> k = b.left]
  BY BeatsType
<1> HIDE DEF u
<1>2. u # <<>>
  BY <1>1
<1>3. /\ Tail(u) \in Seq(BeatKind) /\ Len(Tail(u)) = b.left - 1
      /\ \A k \in 1 .. b.left - 1 : Tail(u)[k] = u[k + 1]
  BY <1>1, <1>2, HeadTailProperties
<1>4. ASSUME b.left = 1
      PROVE  Tail(u) = <<>>
  <2>1. Len(Tail(u)) = 0
    BY <1>3, <1>4
  <2>2. \A q \in Seq(BeatKind) : Len(q) = 0 => q = <<>>
    OBVIOUS
  <2> QED
    BY <1>3, <2>1, <2>2
<1>5. ASSUME b.left # 1
      PROVE  Taken(b) \in OpenRead /\ Tail(u) = BeatsOf(Taken(b))
  <2> DEFINE c == Taken(b)
  <2>1. c \in OpenRead /\ c.left = b.left - 1 /\ c.id = b.id
    BY <1>1, <1>5, MemBytesAssumption DEF Taken, OpenRead
  <2> HIDE DEF c
  <2>2. /\ BeatsOf(c) \in Seq(BeatKind) /\ Len(BeatsOf(c)) = c.left
        /\ \A k \in 1 .. c.left : BeatsOf(c)[k] = [id |-> c.id, last |-> k = c.left]
    BY <2>1, BeatsType
  <2>3. ASSUME NEW k \in 1 .. b.left - 1
        PROVE  Tail(u)[k] = BeatsOf(c)[k]
    <3>1. k + 1 \in 1 .. b.left /\ (k + 1 = b.left <=> k = c.left)
      BY <1>1, <2>1
    <3>2. u[k + 1] = [id |-> b.id, last |-> k + 1 = b.left]
      BY <1>1, <3>1
    <3> QED
      BY <1>3, <2>1, <2>2, <3>1, <3>2
  <2>4. Tail(u) = BeatsOf(c)
    BY <1>3, <2>1, <2>2, <2>3, SeqEqual
  <2> QED
    BY <2>1, <2>4 DEF c
<1> QED
  BY <1>2, <1>4, <1>5 DEF u

\* The reads owed when the first beat has been taken.
FirstTaken(s) == IF s[1].left = 1 THEN Tail(s) ELSE [s EXCEPT ![1].left = @ - 1]

LEMMA OwedTaken ==
    ASSUME NEW s \in Seq(OpenRead), s # <<>>
    PROVE  /\ FirstTaken(s) \in Seq(OpenRead)
           /\ FlattenSeq(ByBurst(s)) # <<>>
           /\ FlattenSeq(ByBurst(FirstTaken(s))) = Tail(FlattenSeq(ByBurst(s)))
<1> DEFINE b == s[1]
           rest == Tail(s)
           u == FlattenSeq(ByBurst(rest))
<1>1. b \in OpenRead /\ rest \in Seq(OpenRead) /\ Len(s) \in Nat \ {0}
      /\ Len(rest) = Len(s) - 1 /\ \A i \in 1 .. Len(s) - 1 : rest[i] = s[i + 1]
  BY HeadTailProperties
<1>2. u \in Seq(BeatKind) /\ BeatsOf(b) \in Seq(BeatKind)
  BY <1>1, ByBurstType, FlattenType, BeatsType
<1>3. FlattenSeq(ByBurst(s)) = BeatsOf(b) \o u
  BY OwedFirst
<1> HIDE DEF b, rest, u
<1>4. /\ FlattenSeq(ByBurst(s)) # <<>>
      /\ Tail(FlattenSeq(ByBurst(s))) = Tail(BeatsOf(b)) \o u
  <2>1. BeatsOf(b) # <<>>
    BY <1>1, BeatOfBurstTaken
  <2> DEFINE x == BeatsOf(b)
  <2>2. x \in Seq(BeatKind) /\ x # <<>>
    BY <1>2, <2>1
  <2> HIDE DEF x
  <2>3. x \o u # <<>> /\ Tail(x \o u) = Tail(x) \o u
    BY <1>2, <2>2, JoinFirst
  <2> QED
    BY <1>3, <2>3 DEF x
<1>5. CASE b.left = 1
  <2>1. Tail(BeatsOf(b)) \o u = u
    BY <1>1, <1>2, <1>5, BeatOfBurstTaken, ConcatEmptySeq
  <2> QED
    BY <1>1, <1>4, <1>5, <2>1 DEF FirstTaken, b, rest, u
<1>6. CASE b.left # 1
  <2> DEFINE t == [s EXCEPT ![1] = Taken(b)]
  <2>1. Taken(b) \in OpenRead
    BY <1>1, <1>6, BeatOfBurstTaken
  <2>2. FirstTaken(s) = t
    BY <1>1, <1>6 DEF FirstTaken, Taken, b
  <2>3. /\ t \in Seq(OpenRead) /\ Len(t) = Len(s) /\ t[1] = Taken(b)
        /\ \A i \in 1 .. Len(s) : i # 1 => t[i] = s[i]
    <3>1. s \in [1 .. Len(s) -> OpenRead] /\ 1 \in 1 .. Len(s)
      BY <1>1
    <3>2. t \in [1 .. Len(s) -> OpenRead]
      BY <2>1, <3>1
    <3> QED
      BY <1>1, <3>1, <3>2
  <2> HIDE DEF t
  <2>4. t # <<>> /\ Tail(t) = rest
    <3>1. t # <<>>
      BY <1>1, <2>3
    <3>2. /\ Tail(t) \in Seq(OpenRead) /\ Len(Tail(t)) = Len(s) - 1
          /\ \A i \in 1 .. Len(s) - 1 : Tail(t)[i] = t[i + 1]
      BY <2>3, <3>1, HeadTailProperties
    <3>3. ASSUME NEW i \in 1 .. Len(s) - 1
          PROVE  Tail(t)[i] = rest[i]
      <4>1. i + 1 \in 1 .. Len(s) /\ i + 1 # 1
        BY <1>1
      <4> QED
        BY <1>1, <2>3, <3>2, <4>1
    <3> QED
      BY <1>1, <3>1, <3>2, <3>3, SeqEqual
  <2>5. FlattenSeq(ByBurst(t)) = BeatsOf(Taken(b)) \o u
    BY <2>3, <2>4, OwedFirst DEF u
  <2>6. BeatsOf(Taken(b)) = Tail(BeatsOf(b))
    BY <1>1, <1>6, BeatOfBurstTaken
  <2> QED
    BY <1>4, <2>2, <2>3, <2>5, <2>6
<1> QED
  BY <1>5, <1>6

LEMMA KindsType ==
    ASSUME NEW r \in Seq(Answer)
    PROVE  /\ Kinds(r) \in Seq(BeatKind)
           /\ Len(Kinds(r)) = Len(r)
           /\ \A i \in 1 .. Len(r) : Kinds(r)[i] = [id |-> r[i].id, last |-> r[i].last]
<1>1. \A i \in DOMAIN r : [id |-> r[i].id, last |-> r[i].last] \in BeatKind
  <2>1. \A i \in DOMAIN r : r[i] \in Answer
    OBVIOUS
  <2> QED
    BY <2>1 DEF Answer, BeatKind
<1>2. Kinds(r) \in [1 .. Len(r) -> BeatKind] /\ Len(r) \in Nat
  BY <1>1 DEF Kinds
<1>3. Kinds(r) \in Seq(BeatKind) /\ Len(Kinds(r)) = Len(r)
  BY <1>2
<1>4. \A i \in 1 .. Len(r) : Kinds(r)[i] = [id |-> r[i].id, last |-> r[i].last]
  BY DEF Kinds
<1> QED
  BY <1>3, <1>4

LEMMA KindsTail ==
    ASSUME NEW r \in Seq(Answer), r # <<>>
    PROVE  Kinds(r) # <<>> /\ Kinds(Tail(r)) = Tail(Kinds(r))
<1> DEFINE rest == Tail(r)
           u == Kinds(r)
<1>1. /\ rest \in Seq(Answer) /\ Len(r) \in Nat \ {0} /\ Len(rest) = Len(r) - 1
      /\ \A i \in 1 .. Len(r) - 1 : rest[i] = r[i + 1]
  BY HeadTailProperties
<1> HIDE DEF rest
<1>2. /\ u \in Seq(BeatKind) /\ Len(u) = Len(r)
      /\ \A i \in 1 .. Len(r) : u[i] = [id |-> r[i].id, last |-> r[i].last]
  BY KindsType
<1> HIDE DEF u
<1>3. u # <<>>
  BY <1>1, <1>2
<1>4. /\ Tail(u) \in Seq(BeatKind) /\ Len(Tail(u)) = Len(r) - 1
      /\ \A i \in 1 .. Len(r) - 1 : Tail(u)[i] = u[i + 1]
  BY <1>2, <1>3, HeadTailProperties
<1>5. /\ Kinds(rest) \in Seq(BeatKind) /\ Len(Kinds(rest)) = Len(r) - 1
      /\ \A i \in 1 .. Len(r) - 1 :
             Kinds(rest)[i] = [id |-> rest[i].id, last |-> rest[i].last]
  BY <1>1, KindsType
<1>6. ASSUME NEW i \in 1 .. Len(r) - 1
      PROVE  Kinds(rest)[i] = Tail(u)[i]
  <2>1. i + 1 \in 1 .. Len(r)
    BY <1>1
  <2> QED
    BY <1>1, <1>2, <1>4, <1>5, <2>1
<1>7. Kinds(rest) = Tail(u)
  BY <1>4, <1>5, <1>6, SeqEqual
<1> QED
  BY <1>3, <1>7 DEF u, rest

LEMMA KindsConcat ==
    ASSUME NEW r \in Seq(Answer), NEW q \in Seq(Answer)
    PROVE  r \o q \in Seq(Answer) /\ Kinds(r \o q) = Kinds(r) \o Kinds(q)
<1> DEFINE u == r \o q
           v == Kinds(r) \o Kinds(q)
<1>1. /\ u \in Seq(Answer) /\ Len(u) = Len(r) + Len(q)
      /\ \A i \in 1 .. Len(r) + Len(q) :
             u[i] = IF i <= Len(r) THEN r[i] ELSE q[i - Len(r)]
      /\ Len(r) \in Nat /\ Len(q) \in Nat
  BY ConcatProperties
<1>2. /\ Kinds(r) \in Seq(BeatKind) /\ Len(Kinds(r)) = Len(r)
      /\ Kinds(q) \in Seq(BeatKind) /\ Len(Kinds(q)) = Len(q)
  BY KindsType
<1>3. /\ v \in Seq(BeatKind) /\ Len(v) = Len(r) + Len(q)
      /\ \A i \in 1 .. Len(r) + Len(q) :
             v[i] = IF i <= Len(r) THEN Kinds(r)[i] ELSE Kinds(q)[i - Len(r)]
  <2>1. ASSUME NEW x \in Seq(BeatKind), NEW y \in Seq(BeatKind)
        PROVE  /\ x \o y \in Seq(BeatKind) /\ Len(x \o y) = Len(x) + Len(y)
               /\ \A i \in 1 .. Len(x) + Len(y) :
                      (x \o y)[i] = IF i <= Len(x) THEN x[i] ELSE y[i - Len(x)]
    BY ConcatProperties
  <2>2. PICK x, y : x = Kinds(r) /\ y = Kinds(q)
    OBVIOUS
  <2>3. x \in Seq(BeatKind) /\ y \in Seq(BeatKind) /\ Len(x) = Len(r) /\ Len(y) = Len(q)
    BY <1>2, <2>2
  <2>4. /\ x \o y \in Seq(BeatKind) /\ Len(x \o y) = Len(r) + Len(q)
        /\ \A i \in 1 .. Len(r) + Len(q) :
               (x \o y)[i] = IF i <= Len(r) THEN x[i] ELSE y[i - Len(r)]
    <3>1. /\ x \o y \in Seq(BeatKind) /\ Len(x \o y) = Len(x) + Len(y)
          /\ \A i \in 1 .. Len(x) + Len(y) :
                 (x \o y)[i] = IF i <= Len(x) THEN x[i] ELSE y[i - Len(x)]
      BY <2>1, <2>3, Zenon
    <3> QED
      BY <2>3, <3>1, Zenon
  <2> HIDE DEF u
  <2> QED
    BY <2>2, <2>4, Zenon
<1> HIDE DEF u, v
<1>4. /\ Kinds(u) \in Seq(BeatKind) /\ Len(Kinds(u)) = Len(u)
      /\ \A i \in 1 .. Len(u) : Kinds(u)[i] = [id |-> u[i].id, last |-> u[i].last]
  BY <1>1, KindsType
<1>5. ASSUME NEW i \in 1 .. Len(u)
      PROVE  Kinds(u)[i] = v[i]
  <2>1. CASE i <= Len(r)
    <3>1. i \in 1 .. Len(r)
      BY <1>1, <2>1
    <3>2. Kinds(r)[i] = [id |-> r[i].id, last |-> r[i].last]
      BY <3>1, KindsType
    <3> QED
      BY <1>1, <1>3, <1>4, <2>1, <3>2
  <2>2. CASE ~(i <= Len(r))
    <3>1. i - Len(r) \in 1 .. Len(q)
      BY <1>1, <2>2
    <3>2. Kinds(q)[i - Len(r)] = [id |-> q[i - Len(r)].id, last |-> q[i - Len(r)].last]
      BY <3>1, KindsType
    <3> QED
      BY <1>1, <1>3, <1>4, <2>2, <3>2
  <2> QED
    BY <2>1, <2>2
<1>6. Kinds(u) = v
  BY <1>1, <1>3, <1>4, <1>5, SeqEqual
<1> QED
  BY <1>1, <1>6 DEF u, v

LEMMA ReadWordType ==
    ASSUME NEW m \in [Address -> Byte], NEW a \in Int
    PROVE  ReadWord(m, a) \in Doubleword
<1>1. \A l \in Lane : Wrap(a + l) \in Address
  BY WrapIs, WordBytesAssumption DEF Lane
<1> QED
  BY <1>1 DEF ReadWord, Doubleword

\* The beats of a burst are those its place in the queue says.
LEMMA BeatsAreOwed ==
    ASSUME bytes \in [Address -> Byte], NEW ar \in ReadBursts
    PROVE  /\ [id |-> ar.id, left |-> ar.beats] \in OpenRead
           /\ Beats(ar) \in Seq(Answer)
           /\ Kinds(Beats(ar)) = BeatsOf([id |-> ar.id, left |-> ar.beats])
<1>1. ar \in Burst
  BY BurstsAssumption
<1>2. /\ ar.id \in AxiIds /\ ar.beats \in 1 .. MemBytes /\ ar.addr \in Address
      /\ ar # Nothing
  BY <1>1 DEF Burst, Nothing
<1> DEFINE b == [id |-> ar.id, left |-> ar.beats]
           word(k) == ReadWord(bytes, WordBase(ar.addr) + (k - 1) * WordBytes)
           beat(k) == [id |-> ar.id, last |-> k = ar.beats, data |-> word(k)]
<1>3. b \in OpenRead /\ b.left = ar.beats /\ b.id = ar.id
  BY <1>2 DEF OpenRead
<1>4. Beats(ar) = [k \in 1 .. ar.beats |-> beat(k)]
  BY <1>2 DEF Beats
<1>5. ASSUME NEW k \in 1 .. ar.beats
      PROVE  beat(k) \in Answer
  <2>1. WordBase(ar.addr) + (k - 1) * WordBytes \in Int
    <3>1. ar.addr \in Int /\ k \in Int /\ WordBytes \in Int
      BY <1>2, WordBytesAssumption DEF Address
    <3>2. (k - 1) * WordBytes \in Int
      BY <3>1
    <3> QED
      BY <3>1, <3>2, LaneIs
  <2>2. word(k) \in Doubleword
    BY <2>1, ReadWordType
  <2> HIDE DEF word
  <2> QED
    BY <1>2, <2>2 DEF Answer
<1> HIDE DEF b
<1>6. ar.beats \in Nat
  BY <1>2, MemBytesAssumption
<1>7. Beats(ar) \in [1 .. ar.beats -> Answer]
  <2> HIDE DEF beat
  <2> QED
    BY <1>4, <1>5
<1>8. Beats(ar) \in Seq(Answer) /\ Len(Beats(ar)) = ar.beats
  BY <1>6, <1>7
<1>9. ASSUME NEW k \in 1 .. ar.beats
      PROVE  Kinds(Beats(ar))[k] = BeatsOf(b)[k]
  <2>1. Kinds(Beats(ar))[k] = [id |-> Beats(ar)[k].id, last |-> Beats(ar)[k].last]
    BY <1>8, KindsType
  <2>2. Beats(ar)[k] = beat(k)
    <3> HIDE DEF beat
    <3> QED
      BY <1>4
  <2>3. beat(k).id = ar.id /\ beat(k).last = (k = ar.beats)
    OBVIOUS
  <2>4. BeatsOf(b)[k] = [id |-> b.id, last |-> k = b.left]
    BY <1>3, BeatsType
  <2> HIDE DEF beat
  <2> QED
    BY <1>3, <2>1, <2>2, <2>3, <2>4
<1>10. Kinds(Beats(ar)) = BeatsOf(b)
  <2>1. Kinds(Beats(ar)) \in Seq(BeatKind) /\ Len(Kinds(Beats(ar))) = ar.beats
    BY <1>8, KindsType
  <2>2. BeatsOf(b) \in Seq(BeatKind) /\ Len(BeatsOf(b)) = ar.beats
    BY <1>3, BeatsType
  <2> QED
    BY <1>9, <2>1, <2>2, SeqEqual
<1> QED
  BY <1>3, <1>8, <1>10 DEF b

-----------------------------------------------------------------------------
(* The inductive invariant of the harness: how the processor's view of its *)
(* bursts, of memory and of time goes with the port's.                     *)

ReadsInv ==
    /\ rresp \in Seq(Answer)
    /\ readsOwed \in Seq(OpenRead)
    /\ FlattenSeq(ByBurst(readsOwed)) = Kinds(rresp)

\* The write burst that is open at the port has no answer yet.
OpenWrite == IF storeInflight THEN <<storeId>> ELSE <<>>

WritesInv ==
    /\ bresp \in Seq(AxiIds)
    /\ storeInflight \in BOOLEAN
    /\ storeId \in AxiIds
    /\ bresp \o OpenWrite = writesOwed

\* Port and processor agree on the beat that comes next, and the burst stays within
\* memory.
SendingInv ==
    /\ storeInflight \in BOOLEAN
    /\ storeSize \in 0 .. WordBytes
    /\ storeCount \in 0 .. MemBytes
    /\ IF sending = Nothing THEN ~storeInflight
       ELSE /\ storeInflight
            /\ sending = [addr |-> storeAddr, size |-> storeSize, left |-> storeCount]
            /\ storeAddr \in Nat /\ storeSize # 0 /\ storeCount # 0
            /\ WordBytes % storeSize = 0 /\ storeAddr % storeSize = 0
            /\ storeAddr + storeSize * storeCount <= MemBytes

ImageInv ==
    /\ bytes \in [Address -> Byte]
    /\ image \in [Address -> Byte]
    /\ MemoryFollowsImage

TohostInv ==
    /\ tohostSeen \in BOOLEAN
    /\ tohostValue \in Doubleword
    /\ tohostSeen <=> tohostValue # Zero

\* In reset nothing has been asked of the port.
CycleInv ==
    /\ cycle \in 0 .. ResetCycles + MaxCycles
    /\ finished \in BOOLEAN
    /\ tohost \in Doubleword
    /\ phase = "ended" => outcome # Nothing
    /\ phase = "trace" => ResetCycles <= cycle /\ cycle < MaxCycles
    /\ cycle < ResetCycles => readsOwed = <<>> /\ writesOwed = <<>> /\ sending = Nothing

PortInv == ReadsInv /\ WritesInv /\ SendingInv /\ ImageInv /\ TohostInv

HarnessInv == RunnerInv /\ CycleInv /\ PortInv

\* A tick keeps the reads in step.
LEMMA TickKeepsReads ==
    ASSUME ReadsInv, ImageInv, NEW ar \in ReadBursts \cup {Nothing},
           NEW aw, NEW w, NEW rReady, NEW bReady,
           Tick(ar, aw, w, rReady, bReady), Bookkeeping(ar, aw, w, rReady, bReady)
    PROVE  ReadsInv'
<1> DEFINE r == IF rReady /\ rresp # <<>> THEN Tail(rresp) ELSE rresp
           s == IF rReady /\ rresp # <<>> THEN FirstTaken(readsOwed) ELSE readsOwed
           b == [id |-> ar.id, left |-> ar.beats]
           new == IF ar = Nothing THEN <<>> ELSE <<b>>
<1>1. rresp' = r \o Beats(ar) /\ readsOwed' = s \o new
  BY DEF Tick, Bookkeeping, FirstTaken
<1>2. rresp \in Seq(Answer) /\ readsOwed \in Seq(OpenRead)
      /\ FlattenSeq(ByBurst(readsOwed)) = Kinds(rresp)
  BY DEF ReadsInv
<1>3. rresp # <<>> => readsOwed # <<>>
  <2>1. ByBurst(<<>>) = <<>>
    BY DEF ByBurst
  <2> QED
    BY <1>2, <2>1, FlattenEmpty, KindsTail
<1>4. r \in Seq(Answer) /\ s \in Seq(OpenRead) /\ FlattenSeq(ByBurst(s)) = Kinds(r)
  <2>1. CASE rReady /\ rresp # <<>>
    <3>1. Tail(rresp) \in Seq(Answer) /\ Kinds(Tail(rresp)) = Tail(Kinds(rresp))
      BY <1>2, <2>1, KindsTail, HeadTailProperties
    <3>2. /\ FirstTaken(readsOwed) \in Seq(OpenRead)
          /\ FlattenSeq(ByBurst(FirstTaken(readsOwed)))
                = Tail(FlattenSeq(ByBurst(readsOwed)))
      BY <1>2, <1>3, <2>1, OwedTaken
    <3> QED
      BY <1>2, <2>1, <3>1, <3>2
  <2>2. CASE ~(rReady /\ rresp # <<>>)
    BY <1>2, <2>2
  <2> QED
    BY <2>1, <2>2
<1> HIDE DEF r, s
<1>5. CASE ar = Nothing
  <2>1. rresp' = r /\ readsOwed' = s
    BY <1>1, <1>4, <1>5, ConcatEmptySeq DEF Beats
  <2> QED
    BY <1>4, <2>1 DEF ReadsInv, ByBurst, Kinds
<1>6. CASE ar # Nothing
  <2>1. b \in OpenRead /\ Beats(ar) \in Seq(Answer) /\ Kinds(Beats(ar)) = BeatsOf(b)
    BY <1>6, BeatsAreOwed DEF ImageInv
  <2> HIDE DEF b
  <2>2. s \o new = Append(s, b) /\ Append(s, b) \in Seq(OpenRead)
    BY <1>4, <1>6, <2>1, AppendIsConcat, AppendProperties
  <2>3. FlattenSeq(ByBurst(Append(s, b))) = Kinds(r) \o BeatsOf(b)
    BY <1>4, <2>1, OwedAppend
  <2>4. r \o Beats(ar) \in Seq(Answer) /\ Kinds(r \o Beats(ar)) = Kinds(r) \o BeatsOf(b)
    BY <1>4, <2>1, KindsConcat
  <2>5. /\ rresp' \in Seq(Answer) /\ readsOwed' \in Seq(OpenRead)
        /\ FlattenSeq(ByBurst(readsOwed')) = Kinds(rresp')
    BY <1>1, <2>2, <2>3, <2>4
  <2> QED
    BY <2>5 DEF ReadsInv, ByBurst, Kinds
<1> QED
  BY <1>5, <1>6

\* What a tick does to the write burst: a new one, its next beat, or nothing.
LEMMA TickWrites ==
    ASSUME SendingInv, NEW ar, NEW aw, NEW w \in WriteBeats \cup {Nothing},
           NEW rReady, NEW bReady, Tick(ar, aw, w, rReady, bReady)
    PROVE  /\ w # Nothing => sending # Nothing /\ storeInflight
           /\ \/ ~storeInflight /\ w = Nothing /\ aw # Nothing /\ AcceptBurst(aw)
              \/ storeInflight /\ w # Nothing /\ WriteBeat(w)
              \/ w = Nothing /\ (aw = Nothing \/ storeInflight) /\ NoWrite
<1>1. ASSUME w # Nothing
      PROVE  sending # Nothing /\ storeInflight
  BY <1>1 DEF WriteBeats, SendingInv
<1>2. \/ aw # Nothing /\ AcceptBurst(aw)
      \/ w # Nothing /\ WriteBeat(w)
      \/ (aw = Nothing \/ storeInflight) /\ (w = Nothing \/ ~storeInflight) /\ NoWrite
  BY DEF Tick
<1>3. AcceptBurst(aw) => ~storeInflight
  BY DEF AcceptBurst
<1> QED
  BY <1>1, <1>2, <1>3

LEMMA TickKeepsWrites ==
    ASSUME WritesInv, SendingInv, NEW ar, NEW aw \in WriteBursts \cup {Nothing},
           NEW w \in WriteBeats \cup {Nothing}, NEW rReady, NEW bReady,
           Tick(ar, aw, w, rReady, bReady), Bookkeeping(ar, aw, w, rReady, bReady)
    PROVE  WritesInv'
<1> DEFINE p == IF bReady /\ bresp # <<>> THEN Tail(bresp) ELSE bresp
           q == IF bReady /\ bresp # <<>> THEN Tail(writesOwed) ELSE writesOwed
<1>1. /\ bresp' = p \o (IF storeInflight /\ ~storeInflight' THEN <<storeId>> ELSE <<>>)
      /\ writesOwed' = q \o (IF aw # Nothing /\ ~storeInflight THEN <<aw.id>> ELSE <<>>)
  BY DEF Tick, Bookkeeping
<1>2. /\ bresp \in Seq(AxiIds) /\ OpenWrite \in Seq(AxiIds)
      /\ bresp \o OpenWrite = writesOwed /\ storeInflight \in BOOLEAN /\ storeId \in AxiIds
  BY DEF WritesInv, OpenWrite
<1>3. p \in Seq(AxiIds) /\ q = p \o OpenWrite
  <2>1. CASE bReady /\ bresp # <<>>
    BY <1>2, <2>1, JoinFirst
  <2>2. CASE ~(bReady /\ bresp # <<>>)
    BY <1>2, <2>2
  <2> QED
    BY <2>1, <2>2
<1> HIDE DEF p, q
<1>4. CASE ~storeInflight /\ w = Nothing /\ aw # Nothing /\ AcceptBurst(aw)
  <2>1. storeInflight' = TRUE /\ storeId' = aw.id /\ OpenWrite = <<>>
    BY <1>4 DEF AcceptBurst, OpenWrite
  <2>2. aw.id \in AxiIds
    BY <1>4, BurstsAssumption DEF Burst
  <2>3. bresp' = p /\ writesOwed' = p \o <<aw.id>>
    BY <1>1, <1>3, <1>4, <2>1, ConcatEmptySeq
  <2>4. OpenWrite' = <<aw.id>>
    BY <2>1 DEF OpenWrite
  <2> QED
    BY <1>3, <2>1, <2>2, <2>3, <2>4 DEF WritesInv
<1>5. CASE storeInflight /\ w # Nothing /\ WriteBeat(w)
  <2>1. storeId' = storeId /\ storeInflight' \in BOOLEAN /\ OpenWrite = <<storeId>>
    BY <1>5 DEF WriteBeat, OpenWrite
  <2>2. <<storeId>> \in Seq(AxiIds) /\ p \o <<storeId>> \in Seq(AxiIds)
    BY <1>2, <1>3, ConcatProperties
  <2>3. writesOwed' = p \o <<storeId>>
    BY <1>1, <1>3, <1>5, <2>1, <2>2, ConcatEmptySeq
  <2>4. CASE storeInflight'
    <3>1. bresp' = p /\ OpenWrite' = <<storeId>>
      BY <1>1, <1>3, <2>1, <2>4, ConcatEmptySeq DEF OpenWrite
    <3> QED
      BY <1>2, <1>3, <2>1, <2>3, <3>1 DEF WritesInv
  <2>5. CASE ~storeInflight'
    <3>1. bresp' = p \o <<storeId>> /\ OpenWrite' = <<>>
      BY <1>1, <1>5, <2>5 DEF OpenWrite
    <3>2. bresp' \o OpenWrite' = writesOwed'
      BY <2>2, <2>3, <3>1, ConcatEmptySeq
    <3> QED
      BY <1>2, <2>1, <2>2, <3>1, <3>2 DEF WritesInv
  <2> QED
    BY <2>4, <2>5
<1>6. CASE w = Nothing /\ (aw = Nothing \/ storeInflight) /\ NoWrite
  <2>1. storeId' = storeId /\ storeInflight' = storeInflight /\ OpenWrite' = OpenWrite
    BY <1>6 DEF NoWrite, storeVars, OpenWrite
  <2>2. p \o OpenWrite \in Seq(AxiIds)
    BY <1>2, <1>3, ConcatProperties
  <2>3. bresp' = p /\ writesOwed' = p \o OpenWrite
    BY <1>1, <1>3, <1>6, <2>1, <2>2, ConcatEmptySeq
  <2> QED
    BY <1>2, <1>3, <2>1, <2>3 DEF WritesInv
<1> QED
  BY <1>4, <1>5, <1>6, TickWrites

LEMMA TickKeepsSending ==
    ASSUME SendingInv, NEW ar, NEW aw \in WriteBursts \cup {Nothing},
           NEW w \in WriteBeats \cup {Nothing}, NEW rReady, NEW bReady,
           Tick(ar, aw, w, rReady, bReady), Bookkeeping(ar, aw, w, rReady, bReady)
    PROVE  SendingInv'
<1>1. sending' = IF aw # Nothing /\ ~storeInflight
                 THEN [addr |-> aw.addr, size |-> aw.size, left |-> aw.beats]
                 ELSE IF w = Nothing THEN sending
                 ELSE IF sending.left = 1 THEN Nothing
                 ELSE [sending EXCEPT !.addr = @ + sending.size, !.left = @ - 1]
  BY DEF Bookkeeping
<1>2. \A a, b, c : [addr |-> a, size |-> b, left |-> c] # Nothing
  BY DEF Nothing
<1>3. MemBytes \in Nat /\ WordBytes \in Nat
  BY MemBytesAssumption, WordBytesAssumption
<1>4. CASE ~storeInflight /\ w = Nothing /\ aw # Nothing /\ AcceptBurst(aw)
  <2>1. /\ storeInflight' = TRUE /\ storeAddr' = aw.addr
        /\ storeSize' = aw.size /\ storeCount' = aw.beats
    BY <1>4 DEF AcceptBurst
  <2>2. sending' = [addr |-> aw.addr, size |-> aw.size, left |-> aw.beats]
    BY <1>1, <1>4
  <2>3. /\ aw.addr \in Nat /\ aw.size \in 1 .. WordBytes /\ aw.beats \in 1 .. MemBytes
        /\ WordBytes % aw.size = 0 /\ aw.addr % aw.size = 0
        /\ aw.addr + aw.size * aw.beats <= MemBytes
    BY <1>4, BurstsAssumption DEF Burst, Address
  <2>4. Nothing' = Nothing
    BY DEF Nothing
  <2> QED
    BY <1>2, <1>3, <2>1, <2>2, <2>3, <2>4 DEF SendingInv
<1>5. CASE storeInflight /\ w # Nothing /\ WriteBeat(w)
  <2>1. /\ sending = [addr |-> storeAddr, size |-> storeSize, left |-> storeCount]
        /\ storeAddr \in Nat /\ storeSize \in 1 .. WordBytes /\ storeCount \in 1 .. MemBytes
        /\ WordBytes % storeSize = 0 /\ storeAddr % storeSize = 0
        /\ storeAddr + storeSize * storeCount <= MemBytes
    BY <1>3, <1>5 DEF SendingInv
  <2>2. /\ storeAddr' = storeAddr + storeSize /\ storeSize' = storeSize
        /\ storeCount' = storeCount - 1 /\ storeInflight' = (storeCount' # 0)
    BY <1>5 DEF WriteBeat
  <2>3. storeCount' \in 0 .. MemBytes /\ storeAddr' \in Nat
    BY <1>3, <2>1, <2>2
  <2>4. Nothing' = Nothing
    BY DEF Nothing
  <2>5. CASE storeCount = 1
    <3>1. sending' = Nothing /\ storeInflight' = FALSE
      <4>1. storeCount' = 0
        BY <2>2, <2>5
      <4>2. sending.left = 1
        BY <2>1, <2>5
      <4> QED
        BY <1>1, <1>5, <2>2, <4>1, <4>2
    <3> QED
      BY <1>3, <2>1, <2>2, <2>3, <2>4, <3>1 DEF SendingInv
  <2>6. CASE storeCount # 1
    <3>1. storeInflight' = TRUE /\ storeCount' # 0
      <4>1. storeCount' # 0
        <5>1. storeCount \in Nat \ {0, 1} /\ storeCount' = storeCount - 1
          BY <1>3, <2>1, <2>2, <2>6
        <5> QED
          BY <5>1
      <4> QED
        BY <2>2, <4>1
    <3>2. sending' = [addr |-> storeAddr', size |-> storeSize', left |-> storeCount']
      BY <1>1, <1>5, <2>1, <2>2, <2>6
    <3>3. storeAddr' % storeSize = 0
      <4>1. (storeAddr + storeSize) % storeSize = 0
        BY <2>1, BeatInWord
      <4> QED
        BY <2>2, <4>1
    <3>4. storeAddr' + storeSize * storeCount' = storeAddr + storeSize * storeCount
      BY <1>3, <2>1, <2>2
    <3> QED
      BY <1>2, <2>1, <2>2, <2>3, <2>4, <3>1, <3>2, <3>3, <3>4 DEF SendingInv
  <2> QED
    BY <2>5, <2>6
<1>6. CASE w = Nothing /\ (aw = Nothing \/ storeInflight) /\ NoWrite
  BY <1>1, <1>6 DEF NoWrite, storeVars, SendingInv, Nothing
<1> QED
  BY <1>4, <1>5, <1>6, TickWrites

\* The bytes a beat writes are those at their own addresses.
LEMMA BeatLands ==
    ASSUME NEW addr \in Nat, NEW size \in 1 .. WordBytes,
           WordBytes % size = 0, addr % size = 0, addr + size <= MemBytes,
           NEW l \in Window(addr, size)
    PROVE  /\ l \in Lane
           /\ WordBase(addr) + l \in Address
           /\ Wrap(WordBase(addr) + l) = WordBase(addr) + l
           /\ LaneOf(WordBase(addr) + l) = l
<1>1. /\ LaneOf(addr) + size <= WordBytes /\ LaneOf(addr) \in Nat
      /\ WordBase(addr) \in Nat /\ addr = WordBase(addr) + LaneOf(addr)
      /\ WordBytes \in Nat \ {0} /\ MemBytes \in Nat /\ size \in Nat
  BY BeatInWord, LaneIs, WordBytesAssumption, MemBytesAssumption DEF Lane
<1>2. l \in Int /\ LaneOf(addr) <= l /\ l < LaneOf(addr) + size
  BY <1>1 DEF Window
<1>3. l \in Lane /\ WordBase(addr) + l \in Address
  BY <1>1, <1>2 DEF Lane, Address
<1>4. LaneOf(WordBase(addr) + l) = l
  <2>1. PICK d \in Nat : WordBase(addr) = WordBytes * d
    <3>1. addr - (addr % WordBytes) = WordBytes * (addr \div WordBytes)
          /\ addr \div WordBytes \in Nat
      BY <1>1
    <3> QED
      BY <3>1 DEF WordBase, LaneOf
  <2>2. ASSUME NEW n \in Nat, NEW k \in Nat \ {0}, NEW i \in 0 .. k - 1
        PROVE  (k * n + i) % k = i
    OBVIOUS
  <2> QED
    BY <1>1, <1>3, <2>1, <2>2 DEF LaneOf, Lane
<1> QED
  BY <1>3, <1>4, WrapIs

LEMMA WriteKeepsImage ==
    ASSUME ImageInv, SendingInv, sending # Nothing, NEW w \in WriteBeats,
           WriteBeat(w), image' = image,
           dirty' = dirty \ {WordBase(sending.addr) + l : l \in w.strobes}
    PROVE  ImageInv'
<1> DEFINE base == WordBase(storeAddr)
           written == {base + l : l \in w.strobes}
<1>1. /\ storeAddr \in Nat /\ storeSize \in 1 .. WordBytes /\ storeCount \in Nat \ {0}
      /\ WordBytes % storeSize = 0 /\ storeAddr % storeSize = 0
      /\ storeAddr + storeSize * storeCount <= MemBytes
      /\ sending.addr = storeAddr /\ sending.size = storeSize
  BY MemBytesAssumption, WordBytesAssumption DEF SendingInv
<1>2. storeAddr + storeSize <= MemBytes
  <2>1. storeSize * 1 <= storeSize * storeCount
    BY <1>1, WordBytesAssumption
  <2> QED
    BY <1>1, <2>1, WordBytesAssumption, MemBytesAssumption
<1>3. w.data = ReadWord(image, base) /\ w.strobes \subseteq Window(storeAddr, storeSize)
  BY <1>1 DEF WriteBeats
<1>4. bytes' = Written(w.data, w.strobes)
  <2>1. w.strobes \cap Window(storeAddr, storeSize) = w.strobes
    BY <1>3
  <2> QED
    BY <2>1 DEF WriteBeat
<1>5. ASSUME NEW l \in w.strobes
      PROVE  /\ l \in Lane /\ base + l \in Address
             /\ Wrap(base + l) = base + l /\ LaneOf(base + l) = l
  BY <1>1, <1>2, <1>3, BeatLands
<1> HIDE DEF base
<1>6. ASSUME NEW a \in Address
      PROVE  bytes'[a] = IF a \in written THEN image[a] ELSE bytes[a]
  <2>1. bytes'[a] = IF \E l \in w.strobes : a = Wrap(base + l)
                    THEN w.data[LaneOf(a)] ELSE bytes[a]
    BY <1>4 DEF Written, base
  <2>2. (\E l \in w.strobes : a = Wrap(base + l)) <=> a \in written
    BY <1>5
  <2>3. ASSUME NEW l \in w.strobes, a = base + l
        PROVE  w.data[LaneOf(a)] = image[a]
    BY <1>3, <1>5, <2>3 DEF ReadWord
  <2> QED
    BY <2>1, <2>2, <2>3
<1> HIDE DEF written
<1>7. bytes' = [a \in Address |-> bytes'[a]]
  BY <1>4 DEF Written
<1>8. bytes' \in [Address -> Byte]
  BY <1>6, <1>7 DEF ImageInv
<1>9. ASSUME NEW a \in Address, bytes'[a] # image[a]
       PROVE  a \in dirty'
  <2>1. a \notin written /\ bytes[a] # image[a]
    BY <1>6, <1>9
  <2>2. a \in dirty
    BY <2>1 DEF ImageInv, MemoryFollowsImage
  <2> QED
    BY <1>1, <2>1, <2>2 DEF written, base
<1> QED
  BY <1>8, <1>9 DEF ImageInv, MemoryFollowsImage

LEMMA TickKeepsPort ==
    ASSUME PortInv, NEW ar \in ReadBursts \cup {Nothing},
           NEW aw \in WriteBursts \cup {Nothing}, NEW w \in WriteBeats \cup {Nothing},
           NEW rReady, NEW bReady,
           Tick(ar, aw, w, rReady, bReady), Bookkeeping(ar, aw, w, rReady, bReady),
           image' = image
    PROVE  PortInv'
<1>1. ReadsInv' /\ WritesInv' /\ SendingInv'
  BY TickKeepsReads, TickKeepsWrites, TickKeepsSending DEF PortInv
<1>2. dirty' = IF w = Nothing THEN dirty
               ELSE dirty \ {WordBase(sending.addr) + l : l \in w.strobes}
  BY DEF Bookkeeping
<1>3. CASE UNCHANGED <<bytes, tohostSeen, tohostValue>> /\ w = Nothing
  BY <1>1, <1>2, <1>3
     DEF PortInv, ImageInv, MemoryFollowsImage, TohostInv, Zero
<1>4. CASE w # Nothing /\ sending # Nothing /\ WriteBeat(w)
  <2>1. ImageInv'
    BY <1>2, <1>4, WriteKeepsImage DEF PortInv
  <2>2. ReadWord(bytes', TohostAddr) \in Doubleword
    BY <2>1, ReadWordType, TohostAddrAssumption DEF ImageInv
  <2>3. \/ /\ tohostSeen' = TRUE /\ tohostValue' = ReadWord(bytes', TohostAddr)
           /\ ReadWord(bytes', TohostAddr) # Zero
        \/ UNCHANGED <<tohostSeen, tohostValue>>
    BY <1>4 DEF WriteBeat, WatchTohost
  <2>4. Zero' = Zero /\ Doubleword' = Doubleword
    BY DEF Zero, Doubleword, Byte, Lane
  <2>5. ASSUME tohostSeen' = TRUE, tohostValue' = ReadWord(bytes', TohostAddr),
               ReadWord(bytes', TohostAddr) # Zero
        PROVE  TohostInv'
    BY <2>2, <2>4, <2>5 DEF TohostInv
  <2>6. ASSUME UNCHANGED <<tohostSeen, tohostValue>>
        PROVE  TohostInv'
    BY <2>4, <2>6 DEF PortInv, TohostInv
  <2> QED
    BY <1>1, <2>1, <2>3, <2>5, <2>6 DEF PortInv
<1>5. \/ UNCHANGED <<bytes, tohostSeen, tohostValue>> /\ w = Nothing
      \/ w # Nothing /\ sending # Nothing /\ WriteBeat(w)
  BY TickWrites DEF PortInv, AcceptBurst, NoWrite
<1> QED
  BY <1>3, <1>4, <1>5

\* An instruction that commits changes the image only where it marks it dirty.
LEMMA RetireKeepsPort ==
    ASSUME PortInv, UNCHANGED <<axiVars, sending, readsOwed, writesOwed>>,
           image' \in [Address -> Byte],
           \A a \in Address : image'[a] # image[a] => a \in dirty', dirty \subseteq dirty'
    PROVE  PortInv'
<1>1. UNCHANGED <<bytes, rresp, bresp, storeInflight, storeAddr, storeId, storeSize,
                  storeCount, tohostSeen, tohostValue>>
  BY DEF axiVars, storeVars
<1>2. ReadsInv' /\ WritesInv' /\ SendingInv' /\ TohostInv'
  BY <1>1 DEF PortInv, ReadsInv, ByBurst, Kinds, WritesInv, OpenWrite, SendingInv,
              Nothing, TohostInv, Zero
<1>3. ImageInv'
  BY <1>1 DEF PortInv, ImageInv, MemoryFollowsImage
<1> QED
  BY <1>2, <1>3 DEF PortInv

LEMMA ResetKeepsPort ==
    ASSUME HarnessInv, ResetCycle
    PROVE  PortInv'
<1>1. readsOwed = <<>> /\ writesOwed = <<>> /\ sending = Nothing
  BY DEF HarnessInv, CycleInv, ResetCycle
<1>2. /\ rresp' = <<>> /\ bresp' = <<>> /\ storeInflight' = FALSE
      /\ tohostSeen' = FALSE /\ tohostValue' = Zero
      /\ UNCHANGED <<bytes, storeAddr, storeId, storeSize, storeCount>>
      /\ UNCHANGED <<dirty, sending, readsOwed, writesOwed, image>>
  BY DEF ResetCycle, MemoryReset, portVars, programVars
<1>3. ByBurst(<<>>) = <<>> /\ Kinds(<<>>) = <<>>
  BY DEF ByBurst, Kinds
<1>4. ReadsInv'
  BY <1>1, <1>2, <1>3, FlattenEmpty DEF ReadsInv, ByBurst, Kinds
<1>5. WritesInv'
  <2>1. OpenWrite' = <<>> /\ storeInflight' \in BOOLEAN /\ bresp' \in Seq(AxiIds)
    BY <1>2, EmptySeq DEF OpenWrite
  <2>2. \A s \in Seq(AxiIds) : s \o <<>> = s
    BY ConcatEmptySeq
  <2>3. bresp' \o OpenWrite' = writesOwed'
    <3>1. <<>> \o <<>> = <<>>
      BY <2>2, EmptySeq
    <3> QED
      BY <1>1, <1>2, <2>1, <3>1, Zenon
  <2>4. storeId' \in AxiIds
    BY <1>2 DEF HarnessInv, PortInv, WritesInv
  <2> QED
    BY <2>1, <2>3, <2>4 DEF WritesInv
<1>6. SendingInv'
  BY <1>1, <1>2 DEF HarnessInv, PortInv, SendingInv, Nothing
<1>7. ImageInv'
  BY <1>2 DEF HarnessInv, PortInv, ImageInv, MemoryFollowsImage
<1>8. TohostInv'
  BY <1>2, ZeroIsDoubleword DEF TohostInv, Zero
<1> QED
  BY <1>4, <1>5, <1>6, <1>7, <1>8 DEF PortInv

\* An instruction commits: the cycle is counted, and the next clock edge follows.
LEMMA TracedKeepsCycle ==
    ASSUME CycleInv, Traced, cycle' = cycle + 1, tohost' \in Doubleword
    PROVE  CycleInv'
<1>1. ResetCycles \in Nat /\ MaxCycles \in Nat
  BY CyclesAssumption
<1>2. ResetCycles <= cycle /\ cycle < MaxCycles /\ cycle \in 0 .. ResetCycles + MaxCycles
  BY DEF CycleInv, Traced
<1>3. cycle' \in 0 .. ResetCycles + MaxCycles /\ ~(cycle' < ResetCycles)
  BY <1>1, <1>2
<1>4. phase' = "clock" /\ finished' \in BOOLEAN
  BY DEF CycleInv, Traced
<1>5. Doubleword' = Doubleword
  BY DEF Doubleword, Byte, Lane
<1> QED
  BY <1>3, <1>4, <1>5 DEF CycleInv

LEMMA DoublewordKeepsPort ==
    ASSUME HarnessInv, RetireDoubleword
    PROVE  PortInv' /\ tohost' \in Doubleword
<1>1. PICK rs1 \in Reg, rs2 \in Reg, imm \in Offsets, readable \in BOOLEAN :
          LET addr == Number(ArchReg(rs1)) + imm
          IN  /\ addr \in Address /\ LaneOf(addr) = 0
              /\ image' = [a \in Address |-> IF WordBase(a) = addr
                                             THEN ArchReg(rs2)[LaneOf(a)] ELSE image[a]]
              /\ dirty' = dirty \cup {addr + l : l \in Lane}
              /\ tohost' = IF readable /\ DetectTohostStore(rs1, rs2, imm)
                           THEN archRegs[rs2] ELSE tohost
  BY DEF RetireDoubleword
<1> DEFINE addr == Number(ArchReg(rs1)) + imm
           stored == ArchReg(rs2)
<1>2. /\ stored \in [Lane -> Byte] /\ archRegs[rs2] \in Doubleword
      /\ tohost \in Doubleword /\ image \in [Address -> Byte]
  BY DEF HarnessInv, RunnerInv, ShadowIsArchitectural, CycleInv, PortInv, ImageInv, Doubleword
<1>3. tohost' \in Doubleword
  BY <1>1, <1>2
<1>4. /\ image' = [a \in Address |-> IF WordBase(a) = addr
                                     THEN stored[LaneOf(a)] ELSE image[a]]
      /\ dirty' = dirty \cup {addr + l : l \in Lane}
  BY <1>1
<1> HIDE DEF addr, stored
<1>5. ASSUME NEW a \in Address
      PROVE  /\ a = WordBase(a) + LaneOf(a) /\ LaneOf(a) \in Lane
             /\ stored[LaneOf(a)] \in Byte
  BY <1>2, LaneIs DEF Address
<1>6. image' \in [Address -> Byte]
  BY <1>2, <1>4, <1>5
<1>7. ASSUME NEW a \in Address, image'[a] # image[a]
      PROVE  a \in dirty'
  <2>1. WordBase(a) = addr
    BY <1>4, <1>7
  <2> QED
    BY <1>4, <1>5, <2>1
<1>8. UNCHANGED <<axiVars, sending, readsOwed, writesOwed>>
  BY DEF RetireDoubleword, Traced
<1> QED
  BY <1>3, <1>4, <1>6, <1>7, <1>8, RetireKeepsPort DEF HarnessInv

LEMMA NarrowKeepsPort ==
    ASSUME HarnessInv, RetireNarrow
    PROVE  PortInv'
<1>1. PICK rs2 \in Reg, addr \in Address :
          /\ image' = [image EXCEPT ![addr] = ArchReg(rs2)[0]]
          /\ dirty' = dirty \cup {addr}
  BY DEF RetireNarrow
<1>2. ArchReg(rs2) \in [Lane -> Byte] /\ image \in [Address -> Byte]
  BY DEF HarnessInv, RunnerInv, ShadowIsArchitectural, PortInv, ImageInv, Doubleword
<1>3. 0 \in Lane
  BY WordBytesAssumption DEF Lane
<1>4. image' \in [Address -> Byte]
  BY <1>1, <1>2, <1>3
<1>5. \A a \in Address : image'[a] # image[a] => a \in dirty'
  BY <1>1, <1>2
<1>6. UNCHANGED <<axiVars, sending, readsOwed, writesOwed>>
  BY DEF RetireNarrow, Traced
<1> QED
  BY <1>1, <1>4, <1>5, <1>6, RetireKeepsPort DEF HarnessInv

LEMMA HarnessInvStep == HarnessInv /\ [Next]_vars => HarnessInv'
<1> SUFFICES ASSUME HarnessInv, [Next]_vars
             PROVE  CycleInv' /\ PortInv'
  BY RunnerInvStep DEF HarnessInv
<1>1. RunnerInv /\ CycleInv /\ PortInv /\ ImageInv
  BY DEF HarnessInv, PortInv
<1>2. ResetCycles \in Nat /\ MaxCycles \in Nat
  BY CyclesAssumption
<1>3. Doubleword' = Doubleword /\ Nothing' = Nothing
  BY DEF Doubleword, Byte, Lane, Nothing
<1>4. CASE ResetCycle
  <2>1. /\ phase = "clock" /\ cycle < ResetCycles /\ cycle' = cycle + 1
        /\ UNCHANGED <<phase, finished, tohost, outcome, sending, readsOwed, writesOwed>>
    BY <1>4 DEF ResetCycle, portVars
  <2>2. cycle' \in 0 .. ResetCycles + MaxCycles
    BY <1>1, <1>2, <2>1 DEF CycleInv
  <2>3. readsOwed = <<>> /\ writesOwed = <<>> /\ sending = Nothing
    BY <1>1, <2>1 DEF CycleInv
  <2>4. CycleInv'
    BY <1>1, <1>3, <2>1, <2>2, <2>3 DEF CycleInv
  <2> QED
    BY <1>4, <2>4, ResetKeepsPort
<1>5. CASE Clock
  <2>1. PICK ar \in ReadBursts \cup {Nothing}, aw \in WriteBursts \cup {Nothing},
             w \in WriteBeats \cup {Nothing}, rReady \in BOOLEAN, bReady \in BOOLEAN :
             /\ ar # Nothing => Len(readsOwed) < MaxOwed
             /\ aw # Nothing => Len(writesOwed) < MaxOwed
             /\ Tick(ar, aw, w, rReady, bReady)
             /\ Bookkeeping(ar, aw, w, rReady, bReady)
    BY <1>5, Zenon DEF Clock
  <2>2. /\ phase' = "trace" /\ cycle >= ResetCycles /\ cycle < MaxCycles
        /\ finished' \in BOOLEAN /\ UNCHANGED <<cycle, tohost, image>>
    BY <1>5 DEF Clock, Running, programVars
  <2>3. PortInv'
    BY <1>1, <2>1, <2>2, TickKeepsPort
  <2>4. CycleInv'
    BY <1>1, <1>2, <1>3, <2>2 DEF CycleInv
  <2> QED
    BY <2>3, <2>4
<1>6. CASE RetireNothing
  <2>1. Traced /\ cycle' = cycle + 1 /\ UNCHANGED <<tohost, image, dirty>>
    BY <1>6 DEF RetireNothing, programVars
  <2>2. PortInv'
    BY <1>1, <2>1, RetireKeepsPort DEF Traced, ImageInv
  <2> QED
    BY <1>1, <2>1, <2>2, TracedKeepsCycle DEF CycleInv
<1>7. CASE RetireOther
  <2>1. Traced /\ cycle' = cycle + 1 /\ UNCHANGED <<tohost, image, dirty>>
    BY <1>7 DEF RetireOther
  <2>2. PortInv'
    BY <1>1, <2>1, RetireKeepsPort DEF Traced, ImageInv
  <2> QED
    BY <1>1, <2>1, <2>2, TracedKeepsCycle DEF CycleInv
<1>8. CASE RetireDoubleword
  <2>1. Traced /\ cycle' = cycle + 1
    BY <1>8 DEF RetireDoubleword
  <2> QED
    BY <1>1, <1>8, <2>1, DoublewordKeepsPort, TracedKeepsCycle
<1>9. CASE RetireNarrow
  <2>1. Traced /\ cycle' = cycle + 1 /\ tohost' = tohost
    BY <1>9 DEF RetireNarrow
  <2> QED
    BY <1>1, <1>9, <2>1, NarrowKeepsPort, TracedKeepsCycle DEF CycleInv
<1>10. CASE End
  <2>1. /\ phase' = "ended" /\ cycle >= ResetCycles
        /\ UNCHANGED <<axiVars, cycle, finished, tohost, image, dirty, sending,
                       readsOwed, writesOwed>>
    BY <1>10 DEF End, portVars, programVars
  <2>2. PortInv'
    BY <1>1, <2>1, RetireKeepsPort DEF ImageInv
  <2>3. outcome' # Nothing
    BY <1>10 DEF End, Nothing
  <2> QED
    BY <1>1, <1>2, <1>3, <2>1, <2>2, <2>3 DEF CycleInv
<1>11. CASE UNCHANGED vars
  <2>1. UNCHANGED <<axiVars, phase, cycle, finished, tohost, outcome, image, dirty,
                    sending, readsOwed, writesOwed>>
    BY <1>11 DEF vars, runnerVars, portVars, programVars
  <2>2. PortInv'
    BY <1>1, <2>1, RetireKeepsPort DEF ImageInv
  <2> QED
    BY <1>1, <1>3, <2>1, <2>2 DEF CycleInv
<1> QED
  BY <1>4, <1>5, <1>6, <1>7, <1>8, <1>9, <1>10, <1>11 DEF Next

-----------------------------------------------------------------------------
(* The file that is loaded.                                                *)

\* Memory with s at LoadAddr and nothing else.
Placed(s) == [a \in Address |-> IF a - LoadAddr + 1 \in 1 .. Len(s)
                                THEN s[a - LoadAddr + 1] ELSE 0]

LEMMA ReverseType ==
    ASSUME NEW line \in Seq(Byte)
    PROVE  /\ Reverse(line) \in Seq(Byte) /\ Len(Reverse(line)) = Len(line)
           /\ \A i \in 1 .. Len(line) : Reverse(line)[i] = line[Len(line) - i + 1]
<1>1. Len(line) \in Nat /\ \A i \in 1 .. Len(line) : line[i] \in Byte
  OBVIOUS
<1>2. \A i \in 1 .. Len(line) : Len(line) - i + 1 \in 1 .. Len(line)
  BY <1>1
<1>3. Reverse(line) \in [1 .. Len(line) -> Byte]
  BY <1>1, <1>2 DEF Reverse
<1> QED
  BY <1>1, <1>3 DEF Reverse

\* A line lands behind what was loaded before it, turned round.
LEMMA LineLands ==
    ASSUME NEW s \in Seq(Byte), NEW line \in Seq(Byte),
           LoadAddr + Len(s) + Len(line) <= MemBytes
    PROVE  WithLine(Placed(s), LoadAddr + Len(s), line) = Placed(s \o Reverse(line))
<1> DEFINE start == LoadAddr + Len(s)
           t == Reverse(line)
           u == s \o t
<1>1. /\ LoadAddr \in Nat /\ MemBytes \in Nat \ {0} /\ Len(s) \in Nat /\ Len(line) \in Nat
      /\ start \in Nat /\ start + Len(line) <= MemBytes
  BY FileAssumption, MemBytesAssumption
<1>2. /\ t \in Seq(Byte) /\ Len(t) = Len(line)
      /\ \A i \in 1 .. Len(line) : t[i] = line[Len(line) - i + 1]
  BY ReverseType
<1> HIDE DEF t
<1>3. /\ u \in Seq(Byte) /\ Len(u) = Len(s) + Len(line)
      /\ \A i \in 1 .. Len(s) + Len(line) :
             u[i] = IF i <= Len(s) THEN s[i] ELSE t[i - Len(s)]
  <2>1. ASSUME NEW y \in Seq(Byte), Len(y) = Len(line)
        PROVE  /\ s \o y \in Seq(Byte) /\ Len(s \o y) = Len(s) + Len(line)
               /\ \A i \in 1 .. Len(s) + Len(line) :
                      (s \o y)[i] = IF i <= Len(s) THEN s[i] ELSE y[i - Len(s)]
    <3>1. /\ s \o y \in Seq(Byte) /\ Len(s \o y) = Len(s) + Len(y)
          /\ \A i \in 1 .. Len(s) + Len(y) :
                 (s \o y)[i] = IF i <= Len(s) THEN s[i] ELSE y[i - Len(s)]
      BY ConcatProperties, Zenon
    <3> QED
      BY <2>1, <3>1, Zenon
  <2> QED
    BY <1>2, <2>1, Zenon
<1> HIDE DEF u
<1>4. ASSUME NEW a \in Address
      PROVE  WithLine(Placed(s), start, line)[a] = Placed(u)[a]
  <2> DEFINE offset == (a - start) % MemBytes
             i == a - LoadAddr + 1
  <2>1. WithLine(Placed(s), start, line)[a]
           = IF offset < Len(line) THEN line[Len(line) - offset] ELSE Placed(s)[a]
    BY DEF WithLine
  <2>2. /\ Placed(s)[a] = IF i \in 1 .. Len(s) THEN s[i] ELSE 0
        /\ Placed(u)[a] = IF i \in 1 .. Len(u) THEN u[i] ELSE 0
    BY DEF Placed
  <2>3. a \in Nat /\ a < MemBytes /\ i \in Int
    BY <1>1 DEF Address
  <2>4. a >= start => offset = a - start
    <3>1. ASSUME NEW n \in Nat, NEW m \in Nat \ {0}, n < m
          PROVE  n % m = n
      BY <3>1
    <3>2. a >= start => a - start \in Nat /\ a - start < MemBytes
      BY <1>1, <2>3
    <3>3. MemBytes \in Nat \ {0}
      BY <1>1, <2>3
    <3> QED
      BY <3>1, <3>2, <3>3, Zenon
  <2>5. a < start => offset = a - start + MemBytes
    <3>1. ASSUME a < start
          PROVE  (a - start) + MemBytes \in 0 .. MemBytes - 1
      BY <1>1, <2>3, <3>1
    <3>2. ASSUME NEW n \in Int, NEW m \in Nat \ {0}, n + m \in 0 .. m - 1
          PROVE  n % m = n + m
      BY <3>2
    <3>3. a - start \in Int
      BY <1>1, <2>3
    <3> QED
      BY <1>1, <3>1, <3>2, <3>3
  <2>6. i = a - LoadAddr + 1
    OBVIOUS
  <2> HIDE DEF offset, i
  <2>7. CASE a < start
    <3>1. ~(offset < Len(line)) /\ i <= Len(s)
      BY <1>1, <2>3, <2>5, <2>6, <2>7
    <3>2. i \in 1 .. Len(u) <=> i \in 1 .. Len(s)
      BY <1>1, <1>3, <2>3, <3>1
    <3> QED
      BY <1>1, <1>3, <2>1, <2>2, <2>3, <3>1, <3>2
  <2>8. CASE ~(a < start)
    <3>1. /\ offset = a - start /\ offset \in Nat
          /\ ~(i <= Len(s)) /\ i - Len(s) = offset + 1
      BY <1>1, <2>3, <2>4, <2>6, <2>8
    <3>2. CASE offset < Len(line)
      <4>1. i \in 1 .. Len(u) /\ i - Len(s) \in 1 .. Len(line)
        BY <1>1, <1>3, <2>3, <3>1, <3>2
      <4>2. t[i - Len(s)] = line[Len(line) - (i - Len(s)) + 1]
        BY <1>2, <4>1
      <4>3. Len(line) - (i - Len(s)) + 1 = Len(line) - offset
        BY <1>1, <2>3, <3>1
      <4> QED
        BY <1>3, <2>1, <2>2, <3>1, <3>2, <4>1, <4>2, <4>3
    <3>3. CASE ~(offset < Len(line))
      <4>1. i \notin 1 .. Len(u) /\ i \notin 1 .. Len(s)
        BY <1>1, <1>3, <2>3, <3>1, <3>3
      <4> QED
        BY <2>1, <2>2, <3>3, <4>1
    <3> QED
      BY <3>2, <3>3
  <2> QED
    BY <2>7, <2>8
<1> QED
  BY <1>4 DEF WithLine, Placed, u, t

\* load_hex puts the bytes of the file in address order.
LEMMA LoadedIsFile ==
    /\ FileBytes \in Seq(Byte)
    /\ LoadHex(LoadAddr, HexLines) = Placed(FileBytes)
<1> DEFINE L == Len(HexLines)
           lines == [k \in DOMAIN HexLines |-> Reverse(HexLines[k])]
           none == [a \in Address |-> 0]
           Rule(g) == [n \in 0 .. L |->
                          IF n = 0 THEN [mem |-> none, addr |-> LoadAddr]
                          ELSE [mem |-> WithLine(g[n - 1].mem, g[n - 1].addr, HexLines[n]),
                                addr |-> g[n - 1].addr + Len(HexLines[n])]]
           g == CHOOSE x : x = Rule(x)
<1>1. L \in Nat /\ \A k \in 1 .. L : HexLines[k] \in Seq(Byte)
  BY FileAssumption
<1>2. /\ lines \in Seq(Seq(Byte)) /\ Len(lines) = L
      /\ \A k \in 1 .. L : lines[k] = Reverse(HexLines[k])
  <2>1. lines \in [1 .. L -> Seq(Byte)]
    BY <1>1, ReverseType, FileAssumption
  <2> QED
    BY <1>1, <2>1
<1>3. LoadHex(LoadAddr, HexLines) = g[L].mem
  BY DEF LoadHex
<1>4. FileBytes = FlattenSeq(lines)
  BY DEF FileBytes
<1> HIDE DEF lines
<1>5. PICK f : Laid(f, lines, Byte)
  BY <1>2, LaidExists
<1>6. /\ f \in [0 .. L -> Seq(Byte)] /\ f[0] = <<>>
      /\ \A n \in 1 .. L : f[n] = f[n - 1] \o lines[n]
  BY <1>2, <1>5 DEF Laid
<1>7. FileBytes = f[L]
  BY <1>2, <1>4, <1>5, FlattenIsLaid
<1> HIDE DEF L
<1>8. ASSUME NEW n \in 1 .. L
      PROVE  /\ n - 1 \in 0 .. L /\ f[n - 1] \in Seq(Byte) /\ Len(f[n - 1]) \in Nat
             /\ HexLines[n] \in Seq(Byte) /\ Len(HexLines[n]) \in Nat
             /\ f[n] = f[n - 1] \o Reverse(HexLines[n])
             /\ Len(f[n]) = Len(f[n - 1]) + Len(HexLines[n])
  <2>1. n - 1 \in 0 .. L
    BY <1>1
  <2>2. f[n - 1] \in Seq(Byte)
    BY <1>6, <2>1
  <2>3. HexLines[n] \in Seq(Byte) /\ f[n] = f[n - 1] \o Reverse(HexLines[n])
    BY <1>1, <1>2, <1>6
  <2>4. Reverse(HexLines[n]) \in Seq(Byte) /\ Len(Reverse(HexLines[n])) = Len(HexLines[n])
    BY <2>3, ReverseType
  <2>5. PICK x, y : x = f[n - 1] /\ y = Reverse(HexLines[n])
    OBVIOUS
  <2>6. Len(x \o y) = Len(x) + Len(y)
    BY <2>2, <2>4, <2>5
  <2> QED
    BY <2>1, <2>2, <2>3, <2>4, <2>5, <2>6
<1> DEFINE size(n) == Len(f[n])
           more(n) == Len(HexLines[n])
           total == Len(FileBytes)
<1>9. /\ \A n \in 0 .. L : size(n) \in Nat
      /\ \A n \in 1 .. L : more(n) \in Nat /\ size(n) = size(n - 1) + more(n)
      /\ total = size(L) /\ total \in Nat /\ LoadAddr + total <= MemBytes
  <2>1. L \in 0 .. L
    BY <1>1
  <2>2. \A x \in Seq(Byte) : Len(x) \in Nat
    OBVIOUS
  <2>3. \A n \in 0 .. L : size(n) \in Nat
    BY <1>6, <2>2
  <2>4. \A n \in 1 .. L : more(n) \in Nat /\ size(n) = size(n - 1) + more(n)
    BY <1>8
  <2>5. total = size(L)
    BY <1>7
  <2>6. LoadAddr + total <= MemBytes
    BY FileAssumption
  <2> HIDE DEF size, more, total
  <2> QED
    BY <2>1, <2>3, <2>4, <2>5, <2>6
<1> HIDE DEF size, more, total
<1>10. ASSUME NEW n \in 0 .. L
       PROVE  size(n) <= total
  <2> DEFINE U == {m \in Nat : m <= L => size(L - m) <= total}
  <2>1. 0 \in U
    BY <1>1, <1>9
  <2>2. ASSUME NEW m \in Nat, m \in U
        PROVE  m + 1 \in U
    <3>1. ASSUME m + 1 <= L
          PROVE  size(L - (m + 1)) <= total
      <4>1. PICK k \in 1 .. L : k = L - m /\ k - 1 = L - (m + 1) /\ k - 1 \in 0 .. L
        BY <1>1, <3>1
      <4>2. size(k) <= total
        BY <1>1, <2>2, <3>1, <4>1
      <4>3. size(k - 1) <= total
        BY <1>9, <4>1, <4>2
      <4> QED
        BY <4>1, <4>3
    <3> QED
      BY <3>1
  <2>3. L - n \in U
    <3> HIDE DEF U
    <3> QED
      BY <1>1, <2>1, <2>2, InductionOnNat
  <2>4. L - n \in Nat /\ L - n <= L /\ L - (L - n) = n
    BY <1>1
  <2> QED
    BY <2>3, <2>4
<1>11. ASSUME NEW n \in 1 .. L
       PROVE  WithLine(Placed(f[n - 1]), LoadAddr + Len(f[n - 1]), HexLines[n]) = Placed(f[n])
  <2>1. LoadAddr + size(n - 1) + more(n) <= MemBytes
    <3>1. n \in 0 .. L /\ n - 1 \in 0 .. L /\ LoadAddr \in Nat /\ MemBytes \in Nat
      BY <1>1, FileAssumption, MemBytesAssumption
    <3> QED
      BY <1>9, <1>10, <3>1
  <2>2. WithLine(Placed(f[n - 1]), LoadAddr + Len(f[n - 1]), HexLines[n])
           = Placed(f[n - 1] \o Reverse(HexLines[n]))
    BY <1>8, <2>1, LineLands DEF size, more
  <2> QED
    BY <1>8, <2>2
<1> DEFINE e == [n \in 0 .. L |-> [mem |-> Placed(f[n]), addr |-> LoadAddr + Len(f[n])]]
<1>12. /\ Placed(f[0]) = none /\ LoadAddr + Len(f[0]) = LoadAddr
  BY <1>6, FileAssumption DEF Placed
<1>13. ASSUME NEW n \in 0 .. L
       PROVE  e[n] = IF n = 0 THEN [mem |-> none, addr |-> LoadAddr]
                     ELSE [mem |-> WithLine(e[n - 1].mem, e[n - 1].addr, HexLines[n]),
                           addr |-> e[n - 1].addr + Len(HexLines[n])]
  <2>1. CASE n = 0
    BY <1>12, <2>1
  <2>2. CASE n # 0
    <3>1. n \in 1 .. L /\ n - 1 \in 0 .. L
      BY <1>1, <2>2
    <3>2. e[n - 1] = [mem |-> Placed(f[n - 1]), addr |-> LoadAddr + Len(f[n - 1])]
      BY <3>1
    <3>3. WithLine(e[n - 1].mem, e[n - 1].addr, HexLines[n]) = Placed(f[n])
      BY <1>11, <3>1, <3>2
    <3>4. e[n - 1].addr + Len(HexLines[n]) = LoadAddr + Len(f[n])
      <4>1. LoadAddr + size(n - 1) + more(n) = LoadAddr + size(n)
        BY <1>9, <3>1, FileAssumption
      <4> QED
        BY <3>2, <4>1 DEF size, more
    <3>5. e[n] = [mem |-> Placed(f[n]), addr |-> LoadAddr + Len(f[n])]
      OBVIOUS
    <3> HIDE DEF e
    <3> QED
      BY <2>2, <3>3, <3>4, <3>5
  <2> QED
    BY <2>1, <2>2
<1>14. e = Rule(e)
  BY <1>13
<1>15. g = Rule(g)
  <2> HIDE DEF Rule, e
  <2> QED
    BY <1>14
<1> HIDE DEF g, none
<1>16. ASSUME NEW n \in 0 .. L
       PROVE  g[n] = IF n = 0 THEN [mem |-> none, addr |-> LoadAddr]
                     ELSE [mem |-> WithLine(g[n - 1].mem, g[n - 1].addr, HexLines[n]),
                           addr |-> g[n - 1].addr + Len(HexLines[n])]
  BY <1>15
<1> HIDE DEF Rule
<1> DEFINE U == {n \in Nat : n \in 0 .. L => g[n] = e[n]}
<1>17. 0 \in U
  BY <1>1, <1>13, <1>16
<1>18. ASSUME NEW n \in Nat, n \in U
       PROVE  n + 1 \in U
  <2>1. ASSUME n + 1 \in 0 .. L
        PROVE  g[n + 1] = e[n + 1]
    <3>1. PICK m \in 0 .. L : m = n + 1 /\ m - 1 = n /\ m # 0 /\ n \in 0 .. L
      BY <1>1, <2>1
    <3>2. g[m - 1] = e[m - 1]
      BY <1>18, <3>1
    <3> HIDE DEF e
    <3>3. g[m] = e[m]
      BY <1>13, <1>16, <3>1, <3>2
    <3> QED
      BY <3>1, <3>3
  <2> QED
    BY <2>1
<1>19. L \in U
  <2> HIDE DEF U
  <2> QED
    BY <1>1, <1>17, <1>18, InductionOnNat
<1>20. g[L].mem = Placed(f[L]) /\ f[L] \in Seq(Byte)
  <2>1. L \in 0 .. L
    BY <1>1
  <2>2. g[L] = e[L]
    BY <1>19, <2>1
  <2> QED
    BY <1>6, <2>1, <2>2
<1> QED
  BY <1>3, <1>7, <1>20 DEF L

LEMMA HarnessInvInit == Init => HarnessInv
<1> SUFFICES ASSUME Init
             PROVE  CycleInv /\ PortInv
  BY RunnerInvInit DEF HarnessInv
<1>1. /\ rresp = <<>> /\ bresp = <<>> /\ readsOwed = <<>> /\ writesOwed = <<>>
      /\ storeInflight = FALSE /\ storeId = 0 /\ storeSize = 0 /\ storeCount = 0
      /\ tohostSeen = FALSE /\ tohostValue = Zero /\ tohost = Zero
      /\ sending = Nothing /\ cycle = 0 /\ finished = FALSE /\ phase = "clock"
      /\ bytes = LoadHex(LoadAddr, HexLines)
  BY DEF Init, MemoryInit
<1>2. CycleInv
  <2>1. 0 \in 0 .. ResetCycles + MaxCycles
    BY CyclesAssumption
  <2>2. tohost \in Doubleword
    BY <1>1, ZeroIsDoubleword
  <2> QED
    BY <1>1, <2>1, <2>2 DEF CycleInv
<1>3. ReadsInv
  <2>1. ByBurst(<<>>) = <<>> /\ Kinds(<<>>) = <<>>
    BY DEF ByBurst, Kinds
  <2> QED
    BY <1>1, <2>1, FlattenEmpty DEF ReadsInv
<1>4. WritesInv
  <2>1. \A s \in Seq(AxiIds) : s \o <<>> = s
    BY ConcatEmptySeq
  <2>2. <<>> \o <<>> = <<>> /\ bresp \in Seq(AxiIds)
    BY <1>1, <2>1, EmptySeq
  <2>3. OpenWrite = <<>>
    BY <1>1 DEF OpenWrite
  <2>4. bresp \o OpenWrite = writesOwed
    BY <1>1, <2>2, <2>3, Zenon
  <2> QED
    BY <1>1, <2>2, <2>4, AxiIdsAssumption DEF WritesInv
<1>5. SendingInv
  <2>1. 0 \in 0 .. WordBytes /\ 0 \in 0 .. MemBytes
    BY WordBytesAssumption, MemBytesAssumption
  <2> QED
    BY <1>1, <2>1 DEF SendingInv
<1>6. ImageInv
  <2>1. image = Placed(FileBytes)
    <3>1. DOMAIN FileBytes = 1 .. Len(FileBytes)
      BY LoadedIsFile
    <3> QED
      BY <3>1 DEF Init, Placed
  <2>2. bytes = image
    BY <1>1, <2>1, LoadedIsFile
  <2>3. Placed(FileBytes) \in [Address -> Byte]
    <3>1. 0 \in Byte /\ \A i \in 1 .. Len(FileBytes) : FileBytes[i] \in Byte
      BY LoadedIsFile, ByteValuesAssumption DEF Byte
    <3> QED
      BY <3>1 DEF Placed
  <2> QED
    BY <2>1, <2>2, <2>3 DEF ImageInv, MemoryFollowsImage
<1>7. TohostInv
  BY <1>1, ZeroIsDoubleword DEF TohostInv
<1> QED
  BY <1>2, <1>3, <1>4, <1>5, <1>6, <1>7 DEF PortInv

LEMMA HarnessInvAlways == Spec => []HarnessInv
  BY HarnessInvInit, HarnessInvStep, PTL DEF Spec

-----------------------------------------------------------------------------

\* Every component of the runner and its memory has its type, and the end record is
\* written when the run ends and not before.
THEOREM RunnerTypes == Spec => []RunnerTypeOK
<1>1. ASSUME HarnessInv
      PROVE  RunnerTypeOK
  <2>1. RunnerInv /\ CycleInv /\ ReadsInv /\ WritesInv /\ SendingInv /\ ImageInv /\ TohostInv
    BY <1>1 DEF HarnessInv, PortInv
  <2>2. storeInflight => storeCount > 0
    BY <2>1, MemBytesAssumption DEF SendingInv
  <2>3. MemoryTypeOK
    BY <2>1, <2>2
       DEF MemoryTypeOK, ReadsInv, Answer, WritesInv, SendingInv, ImageInv, TohostInv
  <2>4. outcome = Nothing <=> phase # "ended"
    BY <2>1 DEF RunnerInv, CycleInv
  <2> QED
    BY <2>1, <2>3, <2>4 DEF RunnerTypeOK, RunnerInv, CycleInv
<1> QED
  BY <1>1, HarnessInvAlways, PTL

\* For every burst the processor may ask for: SimpleMemory owes exactly the beats and
\* write responses the processor still expects, in order, with their ids, and "last"
\* ends each burst.
THEOREM RunnerBursts == Spec => []BurstsAnswered
<1>1. ASSUME HarnessInv
      PROVE  BurstsAnswered
  <2>1. ReadsInv /\ WritesInv /\ SendingInv
    BY <1>1 DEF HarnessInv, PortInv
  <2>2. sending # Nothing => storeCount = sending.left
    BY <2>1 DEF SendingInv
  <2> QED
    BY <2>1, <2>2
       DEF BurstsAnswered, ReadsInv, ByBurst, BeatsOf, Kinds, WritesInv, OpenWrite, SendingInv
<1> QED
  BY <1>1, HarnessInvAlways, PTL

\* For every file, program and write-back: load_hex and the write beats put each byte
\* where the program expects it, so memory differs from the program's image only
\* where the processor has yet to write back.
THEOREM RunnerMemory == Spec => []MemoryFollowsImage
<1>1. HarnessInv => MemoryFollowsImage
  BY DEF HarnessInv, PortInv, ImageInv
<1> QED
  BY <1>1, HarnessInvAlways, PTL

=============================================================================
